----------------------------- MODULE StepCompletion -----------------------------
(***************************************************************************)
(* Completing the running step of an issue's workflow: the state plugin of *)
(* nexus/plugins/builtin/workflow_state_engine_plugin.py and its ledger,   *)
(* nexus/core/idempotency.py, on top of WorkflowEngine.                    *)
(*                                                                         *)
(* Every process has one plugin: one lock per workflow (one here) and one  *)
(* ledger in memory.  The processes share the stored workflow and the      *)
(* ledger's file.  Under the lock, complete_step_for_issue loads the       *)
(* workflow, checks the report against it, has the engine load it again,   *)
(* advance and save it, and records the event.  The operators' commands    *)
(* (start, pause, resume, rewind) take no lock.                            *)
(*                                                                         *)
(* Agents' reports stay readable (completion files, issue comments), so a  *)
(* report may be delivered late, again, and by several processes.          *)
(***************************************************************************)
EXTENDS WorkflowEngine

CONSTANTS
    Processes,      \* processes that hold a state plugin
    Home,           \* per caller, the process it runs in
    Deliverers,     \* callers that deliver reports
    Operators,      \* callers that start, pause, resume and rewind
    NoOne,          \* not a caller
    NotLoaded,      \* not a ledger
    EventsOf,       \* per process and report, the event_ids it is delivered under
    MaxReports,     \* bound on the agents' reports
    MaxMishaps      \* bound on failing calls and restarted processes

\* Every event_id there is, and every key of the ledger (IdempotencyKey; the
\* issue is fixed and the agent is determined by the step).
Events == UNION {EventsOf[p][i] : p \in Processes, i \in 1..MaxReports}
Keys == [step : Steps, event : Events]

ASSUME DeploymentAssumption ==
    /\ Home \in [Callers -> Processes]
    /\ Deliverers \subseteq Callers /\ Operators \subseteq Callers
    /\ NoOne \notin Callers
    /\ \A known \in SUBSET Keys : NotLoaded # known
    /\ MaxReports \in Nat /\ MaxMishaps \in Nat
    /\ DOMAIN EventsOf = Processes
    /\ \A p \in Processes : DOMAIN EventsOf[p] = 1..MaxReports

VARIABLES
    reports,    \* what agents have reported, in order
    at,         \* per caller, where complete_step_for_issue is
    call,       \* per caller, the report it delivers and its event_id
    holder,     \* per process, the caller that has the completion lock
    seen,       \* per process, the ledger in memory
    ledger,     \* the ledger's file
    applied,    \* history: the keys whose completion was saved
    mishaps     \* history: failures and restarts so far

engineVars == <<store, mem, pc, nxt, ctx>>
pluginVars == <<at, call, holder, seen, ledger, applied>>
allVars == <<engineVars, reports, pluginVars, mishaps>>

NoCall == [report |-> 0, event |-> ""]

\* What the caller delivers; only used while it delivers something.
Delivered(c) == reports[call[c].report]

Key(c) == [step |-> Delivered(c).step, event |-> call[c].event]
HasEvent(c) == call[c].event # ""

\* _get_ledger: the file is read when the ledger is first needed.
LedgerOf(p) == IF seen[p] = NotLoaded THEN ledger ELSE seen[p]

-----------------------------------------------------------------------------
(* The agents.                                                             *)

\* The agent of the running step reports; an agent may also have been sent
\* off before its workflow was started.  `iteration` only marks the report.
AgentReports ==
    /\ Len(reports) < MaxReports
    /\ \E n \in Steps, v \in Verdicts :
         /\ store.status[n] = "RUNNING" \/ (store.state = "PENDING" /\ n = 1)
         /\ reports' = Append(reports, [step |-> n, verdict |-> v,
                                        iteration |-> store.iteration[n]])
    /\ UNCHANGED <<engineVars, pluginVars, mishaps>>

-----------------------------------------------------------------------------
(* complete_step_for_issue.                                                *)

Leave(c) ==
    /\ at' = [at EXCEPT ![c] = "out"]
    /\ call' = [call EXCEPT ![c] = NoCall]
    /\ holder' = [holder EXCEPT ![Home[c]] = NoOne]

\* A faulty variant: no lock.
EnterUnlocked(c, i, e) ==
    /\ c \in Deliverers /\ at[c] = "out" /\ pc[c] = "idle"
    /\ i \in DOMAIN reports /\ e \in EventsOf[Home[c]][i]
    /\ holder' = [holder EXCEPT ![Home[c]] = c]
    /\ at' = [at EXCEPT ![c] = "entered"]
    /\ call' = [call EXCEPT ![c] = [report |-> i, event |-> e]]
    /\ UNCHANGED <<engineVars, reports, seen, ledger, applied, mishaps>>

\* A scan, a startup or a reconcile picks up a report and takes the lock.
Enter(c, i, e) ==
    /\ c \in Deliverers /\ at[c] = "out" /\ pc[c] = "idle"
    /\ i \in DOMAIN reports /\ e \in EventsOf[Home[c]][i]
    /\ holder[Home[c]] = NoOne
    /\ holder' = [holder EXCEPT ![Home[c]] = c]
    /\ at' = [at EXCEPT ![c] = "entered"]
    /\ call' = [call EXCEPT ![c] = [report |-> i, event |-> e]]
    /\ UNCHANGED <<engineVars, reports, seen, ledger, applied, mishaps>>

\* A workflow that was never started is started first.
AutoStart(c) ==
    /\ at[c] = "entered"
    /\ StartWorkflow(c)
    /\ UNCHANGED <<reports, pluginVars, mishaps>>

\* The first RUNNING step is the one the report is about, and the step is
\* not COMPLETED already ("duplicate-step-noop").
Matches(w, n) ==
    /\ w.status[n] = "RUNNING"
    /\ \A m \in 1..(n - 1) : w.status[m] # "RUNNING"

\* Faulty variants: any event is new; one event per step is.
AlwaysNew(c) == TRUE
NewStep(c) ==
    HasEvent(c) => \A k \in LedgerOf(Home[c]) : k.step # Delivered(c).step

\* ledger.is_duplicate; reports without an event are not checked.
NewEvent(c) == HasEvent(c) => Key(c) \notin LedgerOf(Home[c])

\* The loaded workflow expects this report and its event is new.
Accept(c) ==
    /\ at[c] = "entered" /\ pc[c] = "idle"
    /\ store.state # "PENDING"
    /\ Matches(store, Delivered(c).step)
    /\ NewEvent(c)
    /\ seen' = [seen EXCEPT ![Home[c]] = LedgerOf(Home[c])]
    /\ at' = [at EXCEPT ![c] = "checked"]
    /\ UNCHANGED <<engineVars, reports, call, holder, ledger, applied, mishaps>>

\* Stale, duplicate step or duplicate event: nothing is changed.
Refuse(c) ==
    /\ at[c] = "entered" /\ pc[c] = "idle"
    /\ store.state # "PENDING"
    /\ IF Matches(store, Delivered(c).step)
       THEN /\ ~ NewEvent(c)
            /\ seen' = [seen EXCEPT ![Home[c]] = LedgerOf(Home[c])]
       ELSE UNCHANGED seen
    /\ Leave(c)
    /\ UNCHANGED <<engineVars, reports, ledger, applied, mishaps>>

\* A faulty variant: the event is recorded before the engine is called.
RecordFirst(c) ==
    /\ at[c] = "checked"
    /\ CompleteStep(c, Delivered(c).step, Delivered(c).verdict)
    /\ at' = [at EXCEPT ![c] = "engine"]
    /\ ledger' = ledger \cup {Key(c)}
    /\ UNCHANGED <<reports, call, holder, seen, applied, mishaps>>

\* engine.complete_step loads the workflow again and does not look at the
\* status the step has by now.
CallEngine(c) ==
    /\ at[c] = "checked"
    /\ CompleteStep(c, Delivered(c).step, Delivered(c).verdict)
    /\ at' = [at EXCEPT ![c] = "engine"]
    /\ UNCHANGED <<reports, call, holder, seen, ledger, applied, mishaps>>

EngineSteps(c) ==
    /\ Advance(c)
    /\ UNCHANGED <<reports, pluginVars, mishaps>>

\* The engine's save; of a completion when at[c] = "engine", else of the
\* start or of an operator's change.
EngineSaves(c) ==
    /\ Save(c)
    /\ applied' = IF at[c] = "engine" THEN applied \cup {Key(c)} ELSE applied
    /\ UNCHANGED <<reports, at, call, holder, seen, ledger, mishaps>>

\* ledger.record: in memory, then the file is replaced by what this process
\* has in memory.  A failed write is logged and forgotten.
Record(c) ==
    /\ at[c] = "engine" /\ pc[c] = "idle"
    /\ IF HasEvent(c) /\ Key(c) \notin seen[Home[c]]
       THEN LET known == seen[Home[c]] \cup {Key(c)}
            IN /\ seen' = [seen EXCEPT ![Home[c]] = known]
               /\ ledger' \in {known, ledger}
       ELSE UNCHANGED <<seen, ledger>>
    /\ Leave(c)
    /\ UNCHANGED <<engineVars, reports, applied, mishaps>>

-----------------------------------------------------------------------------
(* The operators and the processes.                                        *)

\* reset_to_agent_for_issue: the steps before the target count as completed,
\* the target runs, the later ones are cleared.
Rewound(w, t) ==
    [w EXCEPT
       !.state = "RUNNING", !.current = t,
       !.status = [n \in Steps |-> CASE n < t -> "COMPLETED"
                                     [] n = t -> "RUNNING"
                                     [] n > t -> "PENDING"],
       !.iteration = [n \in Steps |-> IF n < t THEN w.iteration[n] ELSE 0],
       !.outputs = [n \in Steps |-> IF n > t THEN NoVerdict ELSE w.outputs[n]],
       !.retries = [n \in Steps |-> IF n > t THEN 0 ELSE w.retries[n]]]

\* The commands of the bot; /stop pauses, and nothing cancels a workflow.
Intervene(c) ==
    /\ c \in Operators /\ at[c] = "out"
    /\ \/ StartWorkflow(c) \/ PauseWorkflow(c) \/ ResumeWorkflow(c)
       \/ \E t \in Steps : Change(c, Rewound(store, t))
    /\ UNCHANGED <<reports, pluginVars, mishaps>>

\* Storage or the audit log raises: the call ends and the lock is free,
\* wherever it was; what was saved stays saved.
Raises(c) ==
    /\ mishaps < MaxMishaps
    /\ mishaps' = mishaps + 1
    /\ \/ at[c] # "out" /\ Leave(c)
       \/ at[c] = "out" /\ pc[c] # "idle" /\ UNCHANGED <<at, call, holder>>
    /\ Release(c)
    /\ UNCHANGED <<store, reports, seen, ledger, applied>>

\* The process dies and is started again: its calls, its lock and its
\* ledger in memory are gone.
Restart(p) ==
    LET Reset(f, none) == [c \in Callers |-> IF Home[c] = p THEN none ELSE f[c]]
    IN /\ mishaps < MaxMishaps
       /\ mishaps' = mishaps + 1
       /\ mem' = Reset(mem, NewWorkflow) /\ pc' = Reset(pc, "idle")
       /\ nxt' = Reset(nxt, 0) /\ ctx' = Reset(ctx, NoVerdict)
       /\ at' = Reset(at, "out") /\ call' = Reset(call, NoCall)
       /\ holder' = [holder EXCEPT ![p] = NoOne]
       /\ seen' = [seen EXCEPT ![p] = NotLoaded]
       /\ UNCHANGED <<store, reports, ledger, applied>>

-----------------------------------------------------------------------------

NothingReported ==
    /\ reports = <<>>
    /\ at = [c \in Callers |-> "out"]
    /\ call = [c \in Callers |-> NoCall]
    /\ holder = [p \in Processes |-> NoOne]
    /\ seen = [p \in Processes |-> NotLoaded]
    /\ ledger = {} /\ applied = {}
    /\ mishaps = 0

CompletionInit == Init /\ NothingReported

Complete(c) ==
    \/ AutoStart(c) \/ Accept(c) \/ Refuse(c) \/ CallEngine(c)
    \/ EngineSteps(c) \/ EngineSaves(c) \/ Record(c)

Deliver(c, i) == \E e \in EventsOf[Home[c]][i] : Enter(c, i, e)

CompletionNext ==
    \/ AgentReports
    \/ \E c \in Callers : \/ \E i \in DOMAIN reports : Deliver(c, i)
                          \/ Complete(c)
                          \/ Intervene(c)
                          \/ Raises(c)
    \/ \E p \in Processes : Restart(p)

CompletionSpec == CompletionInit /\ [][CompletionNext]_allVars
=============================================================================
