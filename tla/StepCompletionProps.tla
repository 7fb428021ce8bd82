-------------------------- MODULE StepCompletionProps --------------------------
(***************************************************************************)
(* What must hold of the completions StepCompletion applies.               *)
(***************************************************************************)
EXTENDS StepCompletion, WorkflowEngineProps

\* An event in the ledger of a process is never applied by it again: from
\* the moment a report is accepted to the moment it is recorded, no other
\* thread records it (the check and the record are one critical section,
\* workflow_state_engine_plugin.py:669-867).
RecordedOnce ==
    \A c \in Callers :
        at[c] \in {"checked", "engine"} /\ HasEvent(c) => Key(c) \notin LedgerOf(Home[c])

\* Nothing is in a ledger that was not saved: whatever call fails or process
\* dies in between, an event that will be ignored from now on has taken
\* effect (the ledger is written after engine.complete_step returned).
RecordedIsApplied ==
    /\ ledger \subseteq applied
    /\ \A p \in Processes : seen[p] # NotLoaded => seen[p] \subseteq applied

\* At most one step of the stored workflow runs, as the search for the step
\* that a report completes takes for granted ("single active step expected",
\* workflow_state_engine_plugin.py:749).
SingleActiveStep ==
    \A m, n \in Steps : store.status[m] = "RUNNING" /\ store.status[n] = "RUNNING" => m = n

\* The loop guard holds whoever saves over whom: no saved workflow has a
\* step that was re-activated more often than _MAX_LOOP_ITERATIONS allows.
LoopGuardKept == BudgetsKept(store)

\* The stored workflow and the calls in progress are well formed, and the
\* lock of a process is held by the caller that is inside.
PluginTypeOK ==
    /\ reports \in Seq([step : Steps, verdict : Verdicts, iteration : Nat])
    /\ Len(reports) <= MaxReports
    /\ at \in [Callers -> {"out", "entered", "checked", "engine"}]
    /\ call \in [Callers -> [report : Nat, event : Events \cup {""}]]
    /\ holder \in [Processes -> Callers \cup {NoOne}]
    /\ seen \in [Processes -> {NotLoaded} \cup SUBSET Keys]
    /\ ledger \subseteq Keys /\ applied \subseteq Keys
    /\ \A c \in Callers : /\ at[c] # "out" => /\ call[c].report \in DOMAIN reports
                                              /\ call[c].event \in Events
                          /\ at[c] # "out" <=> holder[Home[c]] = c
CompletionTypeOK == TypeOK /\ PluginTypeOK

\* The strengthening that is inductive: no copy of the workflow exceeds its
\* budgets, a call that was accepted works with a loaded ledger that lacks
\* its key, and one whose completion was saved may record it.
CallAccounted(c) ==
    /\ at[c] \in {"checked", "engine"} =>
           /\ seen[Home[c]] # NotLoaded
           /\ HasEvent(c) => Key(c) \notin seen[Home[c]]
    /\ at[c] = "engine" /\ pc[c] = "idle" => Key(c) \in applied
Accounted ==
    /\ CompletionTypeOK
    /\ LoopGuardKept
    /\ RecordedIsApplied
    /\ \A c \in Callers : BudgetsKept(mem[c]) /\ CallAccounted(c)

-----------------------------------------------------------------------------
(* Liveness.  A call that was begun goes on, and every report is delivered *)
(* again and again under every event it has.  That is more than the code   *)
(* does, whose scan skips a file it has met (dedup_seen) and whose startup *)
(* check reads a comment once per start: what is lost under this fairness  *)
(* is lost in the code too, but not the other way round.                   *)

CompletionFairness ==
    /\ \A c \in Callers : WF_allVars(Complete(c))
    /\ \A i \in 1..MaxReports :
           SF_allVars(\E c \in Callers : i \in DOMAIN reports /\ Deliver(c, i))

FairCompletionSpec == CompletionSpec /\ CompletionFairness

\* The agent of the running step has reported since the step was activated.
Answered(n) ==
    /\ store.status[n] = "RUNNING"
    /\ \E i \in DOMAIN reports : /\ reports[i].step = n
                                 /\ reports[i].iteration = store.iteration[n]

\* A step whose agent has reported does not run for ever: in a feedback loop
\* every iteration's report counts ("handling loops and conditional
\* branches", workflow_state_engine_plugin.py:638-639).
ReportsCount == \A n \in Steps : Answered(n) ~> ~ Answered(n)
=============================================================================
