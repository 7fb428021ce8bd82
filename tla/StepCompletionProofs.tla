-------------------------- MODULE StepCompletionProofs --------------------------
(***************************************************************************)
(* Proofs about StepCompletion for every deployment: any processes,        *)
(* callers, reports, events, failures and restarts, and any workflow       *)
(* definition.                                                             *)
(***************************************************************************)
EXTENDS StepCompletionProps, WorkflowEngineProofs

\* What Accounted says of the engine, and what it says of the plugin.
EngineSound ==
    /\ TypeOK
    /\ LoopGuardKept
    /\ \A c \in Callers : BudgetsKept(mem[c])
PluginSound ==
    /\ PluginTypeOK
    /\ RecordedIsApplied
    /\ \A c \in Callers : CallAccounted(c)

\* The inductive invariant is its two parts, before and after a step.
LEMMA TwoParts ==
    /\ Accounted <=> EngineSound /\ PluginSound
    /\ Accounted' <=> EngineSound' /\ PluginSound'
BY DEF Accounted, CompletionTypeOK, EngineSound, PluginSound

\* The caller's operation goes on and no other caller's moves.
Busy(c) == pc'[c] # "idle" /\ \A d \in Callers : d # c => pc'[d] = pc[d]

-----------------------------------------------------------------------------
(* The engine's steps.  Unlike in WorkflowEngineProofs the step completed  *)
(* need not be in hand: another process may have completed it meanwhile.   *)

\* A copy within its budgets may be put into a caller's hands.
LEMMA HoldCounts ==
    ASSUME EngineSound, NEW c \in Callers, NEW w \in Workflow, BudgetsKept(w),
           NEW where \in {"saving", "advancing"}, NEW n \in 0..N,
           Hold(c, w, where, n), ctx' \in [Callers -> Outputs]
    PROVE  EngineSound' /\ Busy(c)
<1>1. /\ store' = store /\ mem' = [mem EXCEPT ![c] = w]
      /\ pc' = [pc EXCEPT ![c] = where] /\ nxt' = [nxt EXCEPT ![c] = n]
    BY DEF Hold
<1>2. TypeOK'
    BY <1>1 DEF EngineSound, TypeOK
<1>3. LoopGuardKept'
    BY <1>1 DEF EngineSound, LoopGuardKept, BudgetsKept
<1>4. ASSUME NEW d \in Callers PROVE BudgetsKept(mem'[d])
    BY <1>1 DEF EngineSound, TypeOK
<1>5. Busy(c)
    BY <1>1 DEF Busy, EngineSound, TypeOK
<1> QED BY <1>2, <1>3, <1>4, <1>5 DEF EngineSound, BudgetsKept

\* Saving or losing a copy.
LEMMA ReleaseCounts ==
    ASSUME EngineSound, NEW c \in Callers, Release(c),
           store' \in Workflow, BudgetsKept(store')
    PROVE  EngineSound' /\ \A d \in Callers : d # c => pc'[d] = pc[d]
<1>1. NewWorkflow \in Workflow /\ BudgetsKept(NewWorkflow)
    BY NewWorkflowIsFresh DEF Consistent
<1> HIDE DEF NewWorkflow, Workflow
<1>2. mem' \in [Callers -> Workflow] /\ pc' \in [Callers -> {"idle", "advancing", "saving"}]
    BY <1>1 DEF EngineSound, TypeOK, Release
<1>3. nxt' \in [Callers -> 0..N] /\ ctx' \in [Callers -> Outputs]
    BY StepNumbers, Limits DEF EngineSound, TypeOK, Release
<1>4. ASSUME NEW d \in Callers PROVE BudgetsKept(mem'[d])
    BY <1>1 DEF EngineSound, TypeOK, Release
<1>5. \A d \in Callers : d # c => pc'[d] = pc[d]
    BY DEF EngineSound, TypeOK, Release
<1> QED BY <1>2, <1>3, <1>4, <1>5 DEF EngineSound, TypeOK, LoopGuardKept, BudgetsKept

\* An operation on the loaded workflow that has nothing to evaluate.
LEMMA ChangeCounts ==
    ASSUME EngineSound, NEW c \in Callers, NEW w \in Workflow, BudgetsKept(w),
           Change(c, w)
    PROVE  EngineSound' /\ Busy(c)
BY HoldCounts, StepNumbers DEF Change, EngineSound, TypeOK

\* Starting, pausing and resuming change no count.
LEMMA ControlCounts ==
    ASSUME EngineSound, NEW c \in Callers,
           StartWorkflow(c) \/ PauseWorkflow(c) \/ ResumeWorkflow(c)
    PROVE  EngineSound' /\ Busy(c)
<1>1. store \in Workflow /\ BudgetsKept(store)
    BY DEF EngineSound, TypeOK, LoopGuardKept
<1>2. ASSUME NEW s \in WorkflowStates, NEW k \in 0..N
      PROVE  LET m == [store EXCEPT !.state = s, !.current = k]
             IN m \in Workflow /\ BudgetsKept(m)
    BY <1>1 DEF Workflow, BudgetsKept
<1>3. ASSUME NEW s \in WorkflowStates
      PROVE  LET m == [store EXCEPT !.state = s]
             IN m \in Workflow /\ BudgetsKept(m)
    BY <1>1 DEF Workflow, BudgetsKept
<1>4. LET m == [store EXCEPT !.state = "RUNNING", !.current = 1, !.status[1] = "RUNNING"]
      IN m \in Workflow /\ BudgetsKept(m)
    <2> DEFINE m == [store EXCEPT !.state = "RUNNING", !.current = 1, !.status[1] = "RUNNING"]
    <2>1. m.status \in [Steps -> StepStatuses] /\ m.current \in 0..N
        BY <1>1, StepNumbers DEF Workflow, StepStatuses
    <2>2. m = [store EXCEPT !.state = "RUNNING", !.current = m.current, !.status = m.status]
        BY <1>1 DEF Workflow
    <2>3. m.iteration = store.iteration /\ m.retries = store.retries
        BY <1>1 DEF Workflow
    <2> HIDE DEF m
    <2>4. m \in Workflow
        BY <1>1, <2>1, <2>2 DEF Workflow, WorkflowStates
    <2>5. BudgetsKept(m)
        BY <1>1, <2>3 DEF BudgetsKept
    <2> QED BY <2>4, <2>5 DEF m
<1>5. {"RUNNING", "PAUSED"} \subseteq WorkflowStates
    BY DEF WorkflowStates
<1>6. CASE StartWorkflow(c)
    BY <1>2, <1>4, <1>5, <1>6, StepNumbers, ChangeCounts DEF StartWorkflow
<1>7. CASE PauseWorkflow(c)
    BY <1>3, <1>5, <1>7, ChangeCounts DEF PauseWorkflow
<1>8. CASE ResumeWorkflow(c)
    BY <1>3, <1>5, <1>8, ChangeCounts DEF ResumeWorkflow
<1> QED BY <1>6, <1>7, <1>8

\* Rewinding keeps or clears the counts of every step.
LEMMA RewindCounts ==
    ASSUME EngineSound, NEW c \in Callers, NEW t \in Steps,
           Change(c, Rewound(store, t))
    PROVE  EngineSound' /\ Busy(c)
<1> DEFINE m == Rewound(store, t)
<1>1. store \in Workflow /\ BudgetsKept(store)
    BY DEF EngineSound, TypeOK, LoopGuardKept
<1>2. /\ m.status \in [Steps -> StepStatuses]
      /\ m.iteration \in [Steps -> Nat]
      /\ m.retries \in [Steps -> Nat]
      /\ m.outputs \in [Steps -> Outputs]
      /\ t \in 0..N
    <2>1. \A n \in Steps : n \in Nat
        BY DefinitionAssumption DEF Steps
    <2>2. t \in Nat /\ t \in 0..N
        BY StepNumbers, <2>1
    <2>3. m.status \in [Steps -> StepStatuses]
        BY <1>1, <2>1, <2>2 DEF Rewound, Workflow, StepStatuses
    <2>4. m.iteration \in [Steps -> Nat] /\ m.retries \in [Steps -> Nat]
        BY <1>1 DEF Rewound, Workflow
    <2>5. m.outputs \in [Steps -> Outputs]
        BY <1>1, Limits DEF Rewound, Workflow
    <2> QED BY <2>2, <2>3, <2>4, <2>5
<1>3. m = [store EXCEPT !.state = "RUNNING", !.current = t, !.status = m.status,
                        !.iteration = m.iteration, !.outputs = m.outputs,
                        !.retries = m.retries]
    BY <1>1 DEF Rewound, Workflow
<1>4. \A n \in Steps : /\ m.iteration[n] \in {0, store.iteration[n]}
                       /\ m.retries[n] \in {0, store.retries[n]}
    BY <1>1 DEF Rewound, Workflow
<1> HIDE DEF m
<1>5. m \in Workflow
    BY <1>1, <1>2, <1>3 DEF Workflow, WorkflowStates
<1>6. BudgetsKept(m)
    BY <1>1, <1>4, Limits DEF BudgetsKept
<1> QED BY <1>5, <1>6, ChangeCounts DEF m

\* The guard of reset_step_for_goto stands before every re-activation.
LEMMA GotoCounts ==
    ASSUME EngineSound, NEW c \in Callers, NEW w \in Workflow, BudgetsKept(w),
           NEW t \in Steps, Goto(c, w, t), ctx' \in [Callers -> Outputs]
    PROVE  EngineSound' /\ Busy(c)
<1>1. CASE AtLoopLimit(w, t) /\ Hold(c, [w EXCEPT !.state = "FAILED"], "saving", 0)
    <2>1. LET m == [w EXCEPT !.state = "FAILED"]
          IN m \in Workflow /\ BudgetsKept(m)
        BY DEF Workflow, WorkflowStates, BudgetsKept
    <2> QED BY <1>1, <2>1, HoldCounts, StepNumbers
<1>2. CASE ~ AtLoopLimit(w, t) /\ Hold(c, ResetForGoto(w, t), "advancing", t)
    BY <1>2, ResetCounts, HoldCounts, StepNumbers
<1> QED BY <1>1, <1>2 DEF Goto

\* Ending a workflow changes no count.
LEMMA EndCounts ==
    ASSUME NEW w \in Workflow, BudgetsKept(w)
    PROVE  LET m == [w EXCEPT !.state = "COMPLETED"]
           IN m \in Workflow /\ BudgetsKept(m)
BY DEF Workflow, WorkflowStates, BudgetsKept

\* complete_step, whatever the status of the step it completes.
LEMMA CompleteCounts ==
    ASSUME EngineSound, NEW c \in Callers, NEW n \in Steps, NEW v \in Outputs,
           CompleteStep(c, n, v)
    PROVE  EngineSound' /\ Busy(c)
<1>1. store \in Workflow /\ BudgetsKept(store)
    BY DEF EngineSound, TypeOK, LoopGuardKept
<1> DEFINE w == Completed(n, v)
<1>2. w \in Workflow /\ BudgetsKept(w)
    BY <1>1, CompletedStep DEF BudgetsKept
<1>3. ctx' \in [Callers -> Outputs]
    BY DEF CompleteStep, EngineSound, TypeOK
<1>4. OnSuccess[n] \in 0..N /\ (OnSuccess[n] # 0 => OnSuccess[n] \in Steps)
    BY DefinitionAssumption, StepNumbers
<1>5. StepAfter(w.current) \in 0..N
    BY <1>2, StepNumbers DEF Workflow
<1> HIDE DEF w
<1>6. CASE Hold(c, [w EXCEPT !.state = "COMPLETED"], "saving", 0)
    BY <1>2, <1>3, <1>6, EndCounts, HoldCounts, StepNumbers
<1>7. CASE OnSuccess[n] # 0 /\ Goto(c, w, OnSuccess[n])
    BY <1>2, <1>3, <1>4, <1>7, GotoCounts
<1>8. CASE Hold(c, w, "advancing", OnSuccess[n])
    BY <1>2, <1>3, <1>4, <1>8, HoldCounts
<1>9. CASE Hold(c, w, "advancing", StepAfter(w.current))
    BY <1>2, <1>3, <1>5, <1>9, HoldCounts
<1> QED BY <1>6, <1>7, <1>8, <1>9 DEF CompleteStep, w

\* One turn of the loop in advance_after_success.
LEMMA AdvanceCounts ==
    ASSUME EngineSound, NEW c \in Callers, Advance(c)
    PROVE  EngineSound' /\ Busy(c)
<1>1. UNCHANGED ctx
    BY DEF Advance, AdvanceThroughRouter, AdvanceToStep, AdvancePastStep, AdvanceToEnd
<1>2. /\ mem[c] \in Workflow /\ BudgetsKept(mem[c])
      /\ ctx[c] \in Outputs /\ ctx' \in [Callers -> Outputs]
    BY <1>1 DEF EngineSound, TypeOK
<1>3. ASSUME NEW n \in Steps, NEW s \in StepStatuses
      PROVE  LET m == [mem[c] EXCEPT !.status[n] = s, !.current = n]
             IN m \in Workflow /\ BudgetsKept(m)
    <2> DEFINE m == [mem[c] EXCEPT !.status[n] = s, !.current = n]
    <2>1. m \in Workflow /\ m.iteration = mem[c].iteration /\ m.retries = mem[c].retries
        <3>1. mem[c] \in Workflow
            BY <1>2
        <3> QED BY ONLY <3>1, MoveTo, n \in Steps, s \in StepStatuses, ZenonT(60)
    <2> HIDE DEF m
    <2>2. BudgetsKept(m)
        BY <1>2, <2>1 DEF BudgetsKept
    <2> QED BY <2>1, <2>2 DEF m
<1>4. {"SKIPPED", "RUNNING"} \subseteq StepStatuses
    BY DEF StepStatuses
<1>5. CASE AdvanceThroughRouter(c)
    <2> DEFINE w == [mem[c] EXCEPT !.status[nxt[c]] = "SKIPPED", !.current = nxt[c]]
    <2>1. nxt[c] \in Steps
        BY <1>5, DefinitionAssumption DEF AdvanceThroughRouter
    <2>2. w \in Workflow /\ BudgetsKept(w)
        BY <1>3, <1>4, <2>1
    <2>3. PICK t \in 0..N :
              \/ t = 0 /\ Hold(c, [w EXCEPT !.state = "COMPLETED"], "saving", 0)
              \/ t # 0 /\ Goto(c, w, t)
        BY <1>5 DEF AdvanceThroughRouter
    <2> HIDE DEF w
    <2>4. CASE Hold(c, [w EXCEPT !.state = "COMPLETED"], "saving", 0)
        BY <1>2, <2>2, <2>4, EndCounts, HoldCounts, StepNumbers
    <2>5. CASE t # 0 /\ Goto(c, w, t)
        BY <1>2, <2>2, <2>5, GotoCounts, StepNumbers
    <2> QED BY <2>3, <2>4, <2>5
<1>6. CASE AdvanceToStep(c)
    BY <1>2, <1>3, <1>4, <1>6, HoldCounts, StepNumbers DEF AdvanceToStep
<1>7. CASE AdvancePastStep(c)
    BY <1>2, <1>3, <1>4, <1>7, HoldCounts, StepNumbers DEF AdvancePastStep
<1>8. CASE AdvanceToEnd(c)
    BY <1>2, <1>8, EndCounts, HoldCounts, StepNumbers DEF AdvanceToEnd
<1> QED BY <1>5, <1>6, <1>7, <1>8 DEF Advance

-----------------------------------------------------------------------------
(* The plugin's steps.                                                     *)

\* Every caller lives in a process.
LEMMA HomeIsProcess == \A c \in Callers : Home[c] \in Processes
BY DeploymentAssumption

\* A ledger is loaded or is not, and reading it gives a set of keys.
LEMMA Ledgers ==
    ASSUME PluginTypeOK, NEW p \in Processes
    PROVE  LedgerOf(p) \in SUBSET Keys /\ LedgerOf(p) # NotLoaded
BY DeploymentAssumption DEF PluginTypeOK, LedgerOf

\* A caller that is inside delivers a report under a key of the ledger.
LEMMA KeysOfCalls ==
    ASSUME PluginTypeOK, NEW c \in Callers, at[c] # "out"
    PROVE  /\ Delivered(c).step \in Steps /\ Delivered(c).verdict \in Verdicts
           /\ Key(c) \in Keys
<1> DEFINE Report1 == [step : Steps, verdict : Verdicts, iteration : Nat]
<1>1. reports \in Seq(Report1) /\ call[c].report \in DOMAIN reports /\ call[c].event \in Events
    BY DEF PluginTypeOK
<1> HIDE DEF Report1
<1>2. Delivered(c) \in Report1
    BY <1>1, ElementOfSeq, LenProperties DEF Delivered
<1> USE DEF Report1
<1> QED BY <1>1, <1>2 DEF Key, Keys

\* The engine's work between accepting and recording concerns the plugin
\* only in that a call that is at work has not saved yet.
LEMMA EngineOnly ==
    ASSUME PluginSound, NEW c \in Callers, Busy(c),
           UNCHANGED <<reports, pluginVars>>
    PROVE  PluginSound'
<1>1. PluginTypeOK' /\ RecordedIsApplied'
    BY DEF PluginSound, PluginTypeOK, RecordedIsApplied, pluginVars
<1>2. ASSUME NEW d \in Callers PROVE CallAccounted(d)'
    <2>1. pc'[d] = "idle" => pc[d] = "idle"
        BY DEF Busy
    <2>2. CallAccounted(d)
        BY DEF PluginSound
    <2>3. Key(d)' = Key(d) /\ HasEvent(d)' = HasEvent(d)
        BY DEF Key, HasEvent, Delivered, pluginVars
    <2> QED BY <2>1, <2>2, <2>3 DEF CallAccounted, pluginVars
<1> QED BY <1>1, <1>2 DEF PluginSound

\* Starting a workflow before its report is checked.
LEMMA AutoStartKeeps ==
    ASSUME Accounted, NEW c \in Callers, AutoStart(c) PROVE Accounted'
BY TwoParts, ControlCounts, EngineOnly DEF AutoStart

\* The advance loop of a completion.
LEMMA EngineStepsKeep ==
    ASSUME Accounted, NEW c \in Callers, EngineSteps(c) PROVE Accounted'
BY TwoParts, AdvanceCounts, EngineOnly DEF EngineSteps

\* The operators' commands.
LEMMA InterveneKeeps ==
    ASSUME Accounted, NEW c \in Callers, Intervene(c) PROVE Accounted'
<1>1. EngineSound' /\ Busy(c)
    BY TwoParts, ControlCounts, RewindCounts DEF Intervene
<1> QED BY <1>1, TwoParts, EngineOnly DEF Intervene

\* A report more leaves the reports that are being delivered where they are.
LEMMA ReportAdded ==
    ASSUME EngineSound, PluginTypeOK, AgentReports
    PROVE  /\ reports' \in Seq([step : Steps, verdict : Verdicts, iteration : Nat])
           /\ Len(reports') <= MaxReports
           /\ \A i \in DOMAIN reports : i \in DOMAIN reports' /\ reports'[i] = reports[i]
           /\ \A c \in Callers : at[c] # "out" => Delivered(c)' = Delivered(c)
<1> DEFINE Entry == [step : Steps, verdict : Verdicts, iteration : Nat]
<1>1. reports \in Seq(Entry)
    BY DEF PluginTypeOK
<1>2. PICK r \in Entry : reports' = Append(reports, r)
    <2>1. PICK n \in Steps, v \in Verdicts :
              reports' = Append(reports, [step |-> n, verdict |-> v,
                                          iteration |-> store.iteration[n]])
        BY DEF AgentReports
    <2>2. store.iteration[n] \in Nat
        BY <2>1 DEF EngineSound, TypeOK, Workflow
    <2> QED BY <2>1, <2>2
<1>3. Len(reports) < MaxReports /\ MaxReports \in Nat
    BY DeploymentAssumption DEF AgentReports
<1> HIDE DEF Entry
<1>4. /\ reports' \in Seq(Entry) /\ Len(reports') = Len(reports) + 1
      /\ \A i \in 1..Len(reports) : reports'[i] = reports[i]
    BY <1>1, <1>2, AppendProperties
<1>5. /\ Len(reports) \in Nat /\ DOMAIN reports = 1..Len(reports)
      /\ DOMAIN reports' = 1..Len(reports')
    BY <1>1, <1>4, LenProperties
<1>6. /\ Len(reports') <= MaxReports
      /\ \A i \in DOMAIN reports : i \in DOMAIN reports' /\ reports'[i] = reports[i]
    BY <1>3, <1>4, <1>5
<1>7. ASSUME NEW c \in Callers, at[c] # "out" PROVE Delivered(c)' = Delivered(c)
    <2>1. call[c].report \in DOMAIN reports /\ call' = call
        BY <1>7 DEF PluginTypeOK, AgentReports, pluginVars
    <2> QED BY <1>6, <2>1 DEF Delivered
<1> QED BY <1>4, <1>6, <1>7 DEF Entry

\* The agents' reports concern no call.
LEMMA AgentReportsKeeps ==
    ASSUME Accounted, AgentReports PROVE Accounted'
<1>1. EngineSound /\ PluginSound
    BY TwoParts
<1>2. EngineSound' /\ pc' = pc /\ UNCHANGED pluginVars
    BY <1>1
    DEF AgentReports, engineVars, EngineSound, TypeOK, LoopGuardKept, BudgetsKept
<1>3. PluginTypeOK'
    BY <1>1, <1>2, ReportAdded DEF PluginSound, PluginTypeOK, pluginVars
<1>4. RecordedIsApplied'
    BY <1>1, <1>2 DEF PluginSound, RecordedIsApplied, pluginVars
<1>5. ASSUME NEW d \in Callers PROVE CallAccounted(d)'
    <2>1. CASE at[d] = "out"
        BY <1>2, <2>1 DEF CallAccounted, pluginVars
    <2>2. CASE at[d] # "out"
        <3>1. Delivered(d)' = Delivered(d)
            BY <1>1, <2>2, ReportAdded DEF PluginSound
        <3>2. Key(d)' = Key(d) /\ HasEvent(d)' = HasEvent(d) /\ CallAccounted(d)
            BY <1>1, <1>2, <3>1 DEF Key, HasEvent, pluginVars, PluginSound
        <3> QED BY <1>2, <3>2 DEF CallAccounted, pluginVars
    <2> QED BY <2>1, <2>2
<1> QED BY <1>2, <1>3, <1>4, <1>5, TwoParts DEF PluginSound

\* The key of a call depends on the call and the reports only.
LEMMA KeyStays ==
    ASSUME NEW c \in Callers, call'[c] = call[c], reports' = reports
    PROVE  Key(c)' = Key(c) /\ HasEvent(c)' = HasEvent(c)
BY DEF Key, HasEvent, Delivered

\* The lock lets one caller of a process in.
LEMMA OneInside ==
    ASSUME PluginTypeOK, NEW c \in Callers, NEW d \in Callers,
           at[c] # "out", at[d] # "out", Home[c] = Home[d]
    PROVE  c = d
<1>1. \A k \in Callers : at[k] # "out" => holder[Home[k]] = k
    BY DEF PluginTypeOK
<1> QED BY <1>1

\* A call that ends, whatever it did to the ledgers of its process.
LEMMA LeaveKeeps ==
    ASSUME PluginSound, NEW c \in Callers, at[c] # "out", Leave(c),
           reports' = reports, \A d \in Callers : d # c => pc'[d] = pc[d],
           seen' \in [Processes -> {NotLoaded} \cup SUBSET Keys],
           \A p \in Processes : p # Home[c] => seen'[p] = seen[p],
           ledger' \subseteq Keys, applied' = applied, RecordedIsApplied'
    PROVE  PluginSound'
<1>1. PluginTypeOK
    BY DEF PluginSound
<1>2. Home[c] \in Processes /\ NoOne \notin Callers
    BY HomeIsProcess, DeploymentAssumption
<1>3. /\ at' \in [Callers -> {"out", "entered", "checked", "engine"}]
      /\ call' \in [Callers -> [report : Nat, event : Events \cup {""}]]
      /\ holder' \in [Processes -> Callers \cup {NoOne}]
    BY <1>1 DEF Leave, PluginTypeOK, NoCall
<1>4. /\ at'[c] = "out" /\ holder'[Home[c]] = NoOne
      /\ \A d \in Callers : d # c => at'[d] = at[d] /\ call'[d] = call[d]
      /\ \A p \in Processes : p # Home[c] => holder'[p] = holder[p]
    BY <1>1, <1>2 DEF Leave, PluginTypeOK
<1>5. ASSUME NEW d \in Callers
      PROVE  /\ at'[d] # "out" => /\ call'[d].report \in DOMAIN reports'
                                  /\ call'[d].event \in Events
             /\ at'[d] # "out" <=> holder'[Home[d]] = d
    <2>1. CASE d = c
        BY <1>2, <1>4, <2>1
    <2>2. CASE d # c /\ Home[d] = Home[c]
        BY <1>1, <1>2, <1>4, <2>2, OneInside
    <2>3. CASE d # c /\ Home[d] # Home[c]
        <3>1. at'[d] = at[d] /\ call'[d] = call[d] /\ holder'[Home[d]] = holder[Home[d]]
            BY <1>4, <2>3, HomeIsProcess
        <3> QED BY <1>1, <3>1 DEF PluginTypeOK
    <2> QED BY <2>1, <2>2, <2>3
<1>6. PluginTypeOK'
    BY <1>1, <1>3, <1>5 DEF PluginTypeOK
<1>7. ASSUME NEW d \in Callers PROVE CallAccounted(d)'
    <2>1. CASE at'[d] = "out"
        BY <2>1 DEF CallAccounted
    <2>2. CASE at'[d] # "out"
        <3>1. d # c /\ at[d] # "out" /\ Home[d] # Home[c]
            BY <1>1, <1>4, <2>2, OneInside
        <3>2. /\ at'[d] = at[d] /\ pc'[d] = pc[d]
              /\ seen'[Home[d]] = seen[Home[d]]
              /\ Key(d)' = Key(d) /\ HasEvent(d)' = HasEvent(d)
            BY <1>4, <3>1, HomeIsProcess, KeyStays
        <3>3. CallAccounted(d)
            BY DEF PluginSound
        <3> QED BY <3>2, <3>3 DEF CallAccounted
    <2> QED BY <2>1, <2>2
<1> QED BY <1>6, <1>7 DEF PluginSound

\* The engine's state is not touched.
LEMMA EngineUnchanged ==
    ASSUME EngineSound, UNCHANGED engineVars
    PROVE  EngineSound' /\ pc' = pc
BY DEF engineVars, EngineSound, TypeOK, LoopGuardKept, BudgetsKept

\* Taking the free lock.
LEMMA EnterKeeps ==
    ASSUME Accounted, NEW c \in Callers, NEW i, NEW e, Enter(c, i, e)
    PROVE  Accounted'
<1>1. EngineSound' /\ pc' = pc /\ PluginSound
    BY TwoParts, EngineUnchanged DEF Enter
<1>2. Home[c] \in Processes /\ NoOne \notin Callers
    BY HomeIsProcess, DeploymentAssumption
<1>3. /\ UNCHANGED <<reports, seen, ledger, applied>>
      /\ at[c] = "out" /\ holder[Home[c]] = NoOne /\ i \in DOMAIN reports
    BY DEF Enter
<1>4. i \in Nat /\ i \in 1..MaxReports
    <2>1. DOMAIN reports = 1..Len(reports) /\ Len(reports) \in Nat
        BY <1>1, LenProperties DEF PluginSound, PluginTypeOK
    <2>2. Len(reports) <= MaxReports /\ MaxReports \in Nat
        BY <1>1, DeploymentAssumption DEF PluginSound, PluginTypeOK
    <2> QED BY <1>3, <2>1, <2>2
<1>5. e \in Events
    BY <1>2, <1>4 DEF Enter, Events
<1>6. /\ at' \in [Callers -> {"out", "entered", "checked", "engine"}]
      /\ call' \in [Callers -> [report : Nat, event : Events \cup {""}]]
      /\ holder' \in [Processes -> Callers \cup {NoOne}]
    BY <1>1, <1>4, <1>5 DEF Enter, PluginSound, PluginTypeOK
<1>7. /\ at'[c] = "entered" /\ holder'[Home[c]] = c
      /\ call'[c].report = i /\ call'[c].event = e
      /\ \A d \in Callers : d # c => at'[d] = at[d] /\ call'[d] = call[d]
      /\ \A p \in Processes : p # Home[c] => holder'[p] = holder[p]
    BY <1>1, <1>2 DEF Enter, PluginSound, PluginTypeOK
<1>8. ASSUME NEW d \in Callers
      PROVE  /\ at'[d] # "out" => /\ call'[d].report \in DOMAIN reports'
                                  /\ call'[d].event \in Events
             /\ at'[d] # "out" <=> holder'[Home[d]] = d
    <2>1. CASE d = c
        BY <1>3, <1>5, <1>7, <2>1
    <2>2. CASE d # c /\ Home[d] = Home[c]
        <3>1. at[d] # "out" => holder[Home[d]] = d
            BY <1>1 DEF PluginSound, PluginTypeOK
        <3>2. at'[d] = "out" /\ holder'[Home[d]] # d
            BY <1>2, <1>3, <1>7, <2>2, <3>1
        <3> QED BY <3>2
    <2>3. CASE d # c /\ Home[d] # Home[c]
        <3>1. at'[d] = at[d] /\ call'[d] = call[d] /\ holder'[Home[d]] = holder[Home[d]]
            BY <1>7, <2>3, HomeIsProcess
        <3> QED BY <1>1, <1>3, <3>1 DEF PluginSound, PluginTypeOK
    <2> QED BY <2>1, <2>2, <2>3
<1>9. PluginTypeOK' /\ RecordedIsApplied'
    BY <1>1, <1>3, <1>6, <1>8 DEF PluginSound, PluginTypeOK, RecordedIsApplied
<1>10. ASSUME NEW d \in Callers PROVE CallAccounted(d)'
    <2>1. CASE d = c
        BY <1>7, <2>1 DEF CallAccounted
    <2>2. CASE d # c
        <3>1. /\ at'[d] = at[d] /\ CallAccounted(d)
              /\ Key(d)' = Key(d) /\ HasEvent(d)' = HasEvent(d)
            BY <1>1, <1>3, <1>7, <2>2, KeyStays DEF PluginSound
        <3> QED BY <1>1, <1>3, <3>1 DEF CallAccounted
    <2> QED BY <2>1, <2>2
<1> QED BY <1>1, <1>9, <1>10, TwoParts DEF PluginSound

\* The call goes on to its next part, under the same key.
LEMMA GoOnTypes ==
    ASSUME PluginTypeOK, NEW c \in Callers, at[c] # "out",
           NEW where \in {"entered", "checked", "engine"},
           at' = [at EXCEPT ![c] = where],
           UNCHANGED <<reports, call, holder, ledger, applied>>,
           seen' \in [Processes -> {NotLoaded} \cup SUBSET Keys]
    PROVE  PluginTypeOK'
<1>1. at' \in [Callers -> {"out", "entered", "checked", "engine"}]
    BY DEF PluginTypeOK
<1>2. ASSUME NEW d \in Callers PROVE at'[d] # "out" <=> at[d] # "out"
    BY DEF PluginTypeOK
<1>3. \A d \in Callers : at[d] # "out" <=> holder[Home[d]] = d
    BY DEF PluginTypeOK
<1>4. \A d \in Callers : at[d] # "out" => /\ call[d].report \in DOMAIN reports
                                          /\ call[d].event \in Events
    BY DEF PluginTypeOK
<1>5. ASSUME NEW d \in Callers
      PROVE  /\ at'[d] # "out" => /\ call'[d].report \in DOMAIN reports'
                                  /\ call'[d].event \in Events
             /\ at'[d] # "out" <=> holder'[Home[d]] = d
    BY <1>2, <1>3, <1>4
<1> QED BY <1>1, <1>5 DEF PluginTypeOK

\* Reading the ledger changes nothing but that it is loaded.
LEMMA LoadKeeps ==
    ASSUME PluginSound, NEW p \in Processes,
           seen' = [seen EXCEPT ![p] = LedgerOf(p)],
           UNCHANGED <<ledger, applied>>
    PROVE  /\ seen' \in [Processes -> {NotLoaded} \cup SUBSET Keys]
           /\ RecordedIsApplied'
           /\ seen'[p] # NotLoaded /\ seen'[p] = LedgerOf(p)
           /\ \A q \in Processes : seen[q] # NotLoaded => seen'[q] = seen[q]
<1>1. LedgerOf(p) \in SUBSET Keys /\ LedgerOf(p) # NotLoaded
    BY Ledgers DEF PluginSound
<1>2. LedgerOf(p) \subseteq applied
    BY DEF PluginSound, RecordedIsApplied, LedgerOf
<1>3. seen \in [Processes -> {NotLoaded} \cup SUBSET Keys]
    BY DEF PluginSound, PluginTypeOK
<1>4. /\ seen' \in [Processes -> {NotLoaded} \cup SUBSET Keys]
      /\ seen'[p] = LedgerOf(p) /\ \A q \in Processes : q # p => seen'[q] = seen[q]
    BY <1>1, <1>3
<1>5. \A q \in Processes : seen[q] # NotLoaded => seen'[q] = seen[q]
    BY <1>4 DEF LedgerOf
<1>6. RecordedIsApplied'
    BY <1>2, <1>4 DEF PluginSound, RecordedIsApplied
<1> QED BY <1>1, <1>4, <1>5, <1>6

\* The check loads the ledger that the record will extend.
LEMMA AcceptKeeps ==
    ASSUME Accounted, NEW c \in Callers, Accept(c)
    PROVE  Accounted'
<1>1. EngineSound' /\ pc' = pc /\ PluginSound
    BY TwoParts, EngineUnchanged DEF Accept
<1>2. /\ seen' \in [Processes -> {NotLoaded} \cup SUBSET Keys]
      /\ RecordedIsApplied'
      /\ seen'[Home[c]] # NotLoaded /\ seen'[Home[c]] = LedgerOf(Home[c])
      /\ \A q \in Processes : seen[q] # NotLoaded => seen'[q] = seen[q]
    BY <1>1, HomeIsProcess, LoadKeeps DEF Accept
<1>3. PluginTypeOK'
    BY <1>1, <1>2, GoOnTypes DEF Accept, PluginSound
<1>4. ASSUME NEW d \in Callers PROVE CallAccounted(d)'
    <2>1. Key(d)' = Key(d) /\ HasEvent(d)' = HasEvent(d)
        BY KeyStays DEF Accept
    <2>2. CASE d = c
        <3>1. at'[c] = "checked"
            BY <1>1 DEF Accept, PluginSound, PluginTypeOK
        <3>2. HasEvent(c) => Key(c) \notin seen'[Home[c]]
            BY <1>2 DEF Accept, NewEvent
        <3> QED BY <1>2, <2>1, <2>2, <3>1, <3>2 DEF CallAccounted
    <2>3. CASE d # c
        <3>1. at'[d] = at[d] /\ applied' = applied
            BY <1>1, <2>3 DEF Accept, PluginSound, PluginTypeOK
        <3>2. CallAccounted(d) /\ Home[d] \in Processes
            BY <1>1, HomeIsProcess DEF PluginSound
        <3> QED BY <1>1, <1>2, <2>1, <3>1, <3>2 DEF CallAccounted
    <2> QED BY <2>2, <2>3
<1> QED BY <1>1, <1>2, <1>3, <1>4, TwoParts DEF PluginSound

\* A refused report changes nothing but that the ledger may be loaded.
LEMMA RefuseKeeps ==
    ASSUME Accounted, NEW c \in Callers, Refuse(c)
    PROVE  Accounted'
<1>1. EngineSound' /\ pc' = pc /\ PluginSound
    BY TwoParts, EngineUnchanged DEF Refuse
<1>2. seen' = seen \/ seen' = [seen EXCEPT ![Home[c]] = LedgerOf(Home[c])]
    BY DEF Refuse
<1>3. UNCHANGED <<reports, ledger, applied>> /\ Leave(c) /\ at[c] # "out"
    BY DEF Refuse
<1>4. /\ seen' \in [Processes -> {NotLoaded} \cup SUBSET Keys]
      /\ RecordedIsApplied'
      /\ \A p \in Processes : p # Home[c] => seen'[p] = seen[p]
    <2>1. seen \in [Processes -> {NotLoaded} \cup SUBSET Keys] /\ RecordedIsApplied
        BY <1>1 DEF PluginSound, PluginTypeOK
    <2>2. CASE seen' = seen
        BY <1>3, <2>1, <2>2 DEF RecordedIsApplied
    <2>3. CASE seen' = [seen EXCEPT ![Home[c]] = LedgerOf(Home[c])]
        BY <1>1, <1>3, <2>1, <2>3, HomeIsProcess, LoadKeeps
    <2> QED BY <1>2, <2>2, <2>3
<1>5. PluginSound'
    BY <1>1, <1>3, <1>4, LeaveKeeps DEF PluginSound, PluginTypeOK
<1> QED BY <1>1, <1>5, TwoParts

\* The engine's load and its first changes.
LEMMA CallEngineKeeps ==
    ASSUME Accounted, NEW c \in Callers, CallEngine(c)
    PROVE  Accounted'
<1>1. EngineSound /\ PluginSound /\ at[c] = "checked"
    BY TwoParts DEF CallEngine
<1>2. EngineSound' /\ Busy(c)
    BY <1>1, KeysOfCalls, CompleteCounts DEF CallEngine, PluginSound, Outputs
<1>3. PluginTypeOK'
    BY <1>1, GoOnTypes DEF CallEngine, PluginSound, PluginTypeOK
<1>4. RecordedIsApplied'
    BY <1>1 DEF CallEngine, PluginSound, RecordedIsApplied
<1>5. ASSUME NEW d \in Callers PROVE CallAccounted(d)'
    <2>1. Key(d)' = Key(d) /\ HasEvent(d)' = HasEvent(d) /\ CallAccounted(d)
        BY <1>1, KeyStays DEF CallEngine, PluginSound
    <2>2. CASE d = c
        BY <1>1, <1>2, <2>1, <2>2 DEF CallAccounted, CallEngine, Busy
    <2>3. CASE d # c
        <3>1. at'[d] = at[d] /\ pc'[d] = pc[d]
            BY <1>1, <1>2, <2>3 DEF CallEngine, Busy, PluginSound, PluginTypeOK
        <3> QED BY <2>1, <3>1 DEF CallAccounted, CallEngine
    <2> QED BY <2>2, <2>3
<1> QED BY <1>2, <1>3, <1>4, <1>5, TwoParts DEF PluginSound

\* Saving a completion is what makes recording its event right.
LEMMA EngineSavesKeeps ==
    ASSUME Accounted, NEW c \in Callers, EngineSaves(c)
    PROVE  Accounted'
<1>1. EngineSound /\ PluginSound
    BY TwoParts
<1>2. mem[c] \in Workflow /\ BudgetsKept(mem[c]) /\ store' = mem[c] /\ Release(c)
    BY <1>1 DEF EngineSaves, Save, EngineSound, TypeOK
<1>3. EngineSound' /\ \A d \in Callers : d # c => pc'[d] = pc[d]
    BY <1>1, <1>2, ReleaseCounts
<1>4. /\ applied \subseteq applied' /\ applied' \subseteq Keys
      /\ at[c] = "engine" => Key(c) \in applied'
    BY <1>1, KeysOfCalls DEF EngineSaves, PluginSound, PluginTypeOK
<1>5. UNCHANGED <<reports, at, call, holder, seen, ledger>>
    BY DEF EngineSaves
<1>6. PluginTypeOK' /\ RecordedIsApplied'
    BY <1>1, <1>4, <1>5 DEF PluginSound, PluginTypeOK, RecordedIsApplied
<1>7. ASSUME NEW d \in Callers PROVE CallAccounted(d)'
    <2>1. Key(d)' = Key(d) /\ HasEvent(d)' = HasEvent(d) /\ CallAccounted(d)
        BY <1>1, <1>5, KeyStays DEF PluginSound
    <2> QED BY <1>3, <1>4, <1>5, <2>1 DEF CallAccounted
<1> QED BY <1>3, <1>6, <1>7, TwoParts DEF PluginSound

\* The event is recorded after the save, in the ledger that was checked.
LEMMA RecordKeeps ==
    ASSUME Accounted, NEW c \in Callers, Record(c)
    PROVE  Accounted'
<1>1. EngineSound' /\ pc' = pc /\ PluginSound
    BY TwoParts, EngineUnchanged DEF Record
<1>2. /\ at[c] = "engine" /\ pc[c] = "idle" /\ Leave(c)
      /\ reports' = reports /\ applied' = applied
    BY DEF Record
<1> DEFINE p == Home[c]
           known == seen[p] \cup {Key(c)}
<1>3. /\ p \in Processes /\ seen[p] \in SUBSET Keys /\ seen[p] \subseteq applied
      /\ ledger \subseteq applied /\ applied \subseteq Keys
      /\ seen \in [Processes -> {NotLoaded} \cup SUBSET Keys]
    <2>1. seen[p] # NotLoaded
        BY <1>1, <1>2 DEF PluginSound, CallAccounted
    <2> QED BY <1>1, <2>1, HomeIsProcess DEF PluginSound, PluginTypeOK, RecordedIsApplied
<1>4. Key(c) \in applied
    BY <1>1, <1>2 DEF PluginSound, CallAccounted
<1>5. known \subseteq applied /\ known \in SUBSET Keys
    BY <1>3, <1>4
<1> HIDE DEF known, p
<1>6. \/ seen' = seen /\ ledger' = ledger
      \/ seen' = [seen EXCEPT ![p] = known] /\ ledger' \in {known, ledger}
    BY DEF Record, known, p
<1>7. /\ seen' \in [Processes -> {NotLoaded} \cup SUBSET Keys]
      /\ \A q \in Processes : q # p => seen'[q] = seen[q]
      /\ seen'[p] \in {seen[p], known}
    BY <1>3, <1>5, <1>6
<1>8. ledger' \subseteq Keys /\ ledger' \subseteq applied
    BY <1>3, <1>5, <1>6
<1>9. RecordedIsApplied'
    BY <1>1, <1>2, <1>3, <1>5, <1>7, <1>8 DEF PluginSound, RecordedIsApplied
<1>10. PluginSound'
    BY <1>1, <1>2, <1>7, <1>8, <1>9, LeaveKeeps DEF p
<1> QED BY <1>1, <1>10, TwoParts

\* A call that fails leaves ledgers and file as they are.
LEMMA RaisesKeeps ==
    ASSUME Accounted, NEW c \in Callers, Raises(c)
    PROVE  Accounted'
<1>1. EngineSound /\ PluginSound
    BY TwoParts
<1>2. EngineSound' /\ \A d \in Callers : d # c => pc'[d] = pc[d]
    BY <1>1, ReleaseCounts DEF Raises, EngineSound, TypeOK, LoopGuardKept
<1>3. UNCHANGED <<reports, seen, ledger, applied>>
    BY DEF Raises
<1>4. CASE at[c] # "out" /\ Leave(c)
    <2>1. RecordedIsApplied'
        BY <1>1, <1>3 DEF PluginSound, RecordedIsApplied
    <2>2. PluginSound'
        BY <1>1, <1>2, <1>3, <1>4, <2>1, LeaveKeeps DEF PluginSound, PluginTypeOK
    <2> QED BY <1>2, <2>2, TwoParts
<1>5. CASE at[c] = "out" /\ UNCHANGED <<at, call, holder>>
    <2>1. PluginTypeOK' /\ RecordedIsApplied'
        BY <1>1, <1>3, <1>5 DEF PluginSound, PluginTypeOK, RecordedIsApplied
    <2>2. ASSUME NEW d \in Callers PROVE CallAccounted(d)'
        <3>1. Key(d)' = Key(d) /\ HasEvent(d)' = HasEvent(d) /\ CallAccounted(d)
            BY <1>1, <1>3, <1>5, KeyStays DEF PluginSound
        <3> QED BY <1>2, <1>3, <1>5, <3>1 DEF CallAccounted
    <2> QED BY <1>2, <2>1, <2>2, TwoParts DEF PluginSound
<1> QED BY <1>4, <1>5 DEF Raises

\* A restarted process reads the file again, which holds applied events only.
LEMMA RestartKeeps ==
    ASSUME Accounted, NEW p \in Processes, Restart(p)
    PROVE  Accounted'
<1>1. EngineSound /\ PluginSound /\ NoOne \notin Callers
    BY TwoParts, DeploymentAssumption
<1>2. UNCHANGED <<store, reports, ledger, applied>>
    BY DEF Restart
<1>3. NewWorkflow \in Workflow /\ BudgetsKept(NewWorkflow)
    BY NewWorkflowIsFresh DEF Consistent
<1> HIDE DEF NewWorkflow, Workflow
<1>4. /\ mem' = [c \in Callers |-> IF Home[c] = p THEN NewWorkflow ELSE mem[c]]
      /\ pc' = [c \in Callers |-> IF Home[c] = p THEN "idle" ELSE pc[c]]
      /\ nxt' = [c \in Callers |-> IF Home[c] = p THEN 0 ELSE nxt[c]]
      /\ ctx' = [c \in Callers |-> IF Home[c] = p THEN NoVerdict ELSE ctx[c]]
      /\ at' = [c \in Callers |-> IF Home[c] = p THEN "out" ELSE at[c]]
      /\ call' = [c \in Callers |-> IF Home[c] = p THEN NoCall ELSE call[c]]
      /\ holder' = [holder EXCEPT ![p] = NoOne]
      /\ seen' = [seen EXCEPT ![p] = NotLoaded]
    BY DEF Restart
<1>5. TypeOK'
    BY <1>1, <1>2, <1>3, <1>4, StepNumbers, Limits DEF EngineSound, TypeOK
<1>6. EngineSound'
    <2>1. ASSUME NEW d \in Callers PROVE BudgetsKept(mem'[d])
        BY <1>1, <1>3, <1>4 DEF EngineSound
    <2> QED BY <1>1, <1>2, <1>5, <2>1 DEF EngineSound, LoopGuardKept, BudgetsKept
<1>7. /\ at' \in [Callers -> {"out", "entered", "checked", "engine"}]
      /\ call' \in [Callers -> [report : Nat, event : Events \cup {""}]]
      /\ holder' \in [Processes -> Callers \cup {NoOne}]
      /\ seen' \in [Processes -> {NotLoaded} \cup SUBSET Keys]
    BY <1>1, <1>4 DEF PluginSound, PluginTypeOK, NoCall
<1>8. RecordedIsApplied'
    BY <1>1, <1>2, <1>4 DEF PluginSound, PluginTypeOK, RecordedIsApplied
<1>9. ASSUME NEW d \in Callers
      PROVE  /\ at'[d] # "out" => /\ call'[d].report \in DOMAIN reports'
                                  /\ call'[d].event \in Events
             /\ at'[d] # "out" <=> holder'[Home[d]] = d
             /\ CallAccounted(d)'
    <2>1. CASE Home[d] = p
        <3>1. at'[d] = "out" /\ holder'[Home[d]] = NoOne
            BY <1>1, <1>4, <2>1 DEF PluginSound, PluginTypeOK
        <3> QED BY <1>1, <3>1 DEF CallAccounted
    <2>2. CASE Home[d] # p
        <3>1. /\ at'[d] = at[d] /\ call'[d] = call[d] /\ pc'[d] = pc[d]
              /\ holder'[Home[d]] = holder[Home[d]] /\ seen'[Home[d]] = seen[Home[d]]
            BY <1>1, <1>4, <2>2, HomeIsProcess DEF PluginSound, PluginTypeOK
        <3>2. Key(d)' = Key(d) /\ HasEvent(d)' = HasEvent(d) /\ CallAccounted(d)
            BY <1>1, <1>2, <3>1, KeyStays DEF PluginSound
        <3>3. CallAccounted(d)'
            BY <1>2, <3>1, <3>2 DEF CallAccounted
        <3> QED BY <1>1, <1>2, <3>1, <3>3 DEF PluginSound, PluginTypeOK
    <2> QED BY <2>1, <2>2
<1>10. PluginTypeOK'
    BY <1>1, <1>2, <1>7, <1>9 DEF PluginSound, PluginTypeOK
<1> QED BY <1>6, <1>8, <1>9, <1>10, TwoParts DEF PluginSound

-----------------------------------------------------------------------------
(* The theorems.                                                           *)

\* Nothing is reported and nothing is loaded at first.
LEMMA CompletionInitAccounted == CompletionInit => Accounted
<1> SUFFICES ASSUME CompletionInit PROVE Accounted
    OBVIOUS
<1>1. NewWorkflow \in Workflow /\ BudgetsKept(NewWorkflow)
    BY NewWorkflowIsFresh DEF Consistent
<1>2. EngineSound
    <2> HIDE DEF NewWorkflow, Workflow
    <2> QED
        BY <1>1, StepNumbers, Limits
        DEF CompletionInit, Init, EngineSound, TypeOK, LoopGuardKept, BudgetsKept
<1>3. NoOne \notin Callers /\ MaxReports \in Nat
    BY DeploymentAssumption
<1>4. PluginTypeOK
    <2> DEFINE Entry == [step : Steps, verdict : Verdicts, iteration : Nat]
    <2>1. reports \in Seq(Entry) /\ Len(reports) = 0
        <3> HIDE DEF Entry
        <3> QED BY EmptySeq DEF CompletionInit, NothingReported
    <2>2. Len(reports) <= MaxReports
        BY <1>3, <2>1
    <2>3. \A c \in Callers : holder[Home[c]] = NoOne /\ at[c] = "out"
        BY HomeIsProcess DEF CompletionInit, NothingReported
    <2> QED
        BY <1>3, <2>1, <2>2, <2>3
        DEF PluginTypeOK, CompletionInit, NothingReported, NoCall
<1>5. RecordedIsApplied /\ \A c \in Callers : CallAccounted(c)
    BY DEF RecordedIsApplied, CallAccounted, CompletionInit, NothingReported
<1> QED BY <1>2, <1>4, <1>5, TwoParts DEF PluginSound

\* No step of anybody breaks the invariant.
LEMMA AccountedKeeps ==
    ASSUME Accounted, [CompletionNext]_allVars PROVE Accounted'
<1>1. CASE UNCHANGED allVars
    <2>1. EngineSound' /\ pc' = pc /\ PluginSound
        BY <1>1, TwoParts, EngineUnchanged DEF allVars
    <2>2. PluginTypeOK' /\ RecordedIsApplied'
        BY <1>1, <2>1
        DEF allVars, pluginVars, PluginSound, PluginTypeOK, RecordedIsApplied
    <2>3. ASSUME NEW d \in Callers PROVE CallAccounted(d)'
        <3>1. Key(d)' = Key(d) /\ HasEvent(d)' = HasEvent(d) /\ CallAccounted(d)
            BY <1>1, <2>1, KeyStays DEF allVars, pluginVars, PluginSound
        <3> QED BY <1>1, <2>1, <3>1 DEF CallAccounted, allVars, pluginVars
    <2> QED BY <2>1, <2>2, <2>3, TwoParts DEF PluginSound
<1>2. CASE AgentReports
    BY <1>2, AgentReportsKeeps
<1>3. ASSUME NEW c \in Callers, NEW i \in DOMAIN reports, Deliver(c, i)
      PROVE  Accounted'
    BY <1>3, EnterKeeps DEF Deliver
<1>4. ASSUME NEW c \in Callers, Complete(c) PROVE Accounted'
    BY <1>4, AutoStartKeeps, AcceptKeeps, RefuseKeeps, CallEngineKeeps,
       EngineStepsKeep, EngineSavesKeeps, RecordKeeps
    DEF Complete
<1>5. ASSUME NEW c \in Callers, Intervene(c) \/ Raises(c) PROVE Accounted'
    BY <1>5, InterveneKeeps, RaisesKeeps
<1>6. ASSUME NEW p \in Processes, Restart(p) PROVE Accounted'
    BY <1>6, RestartKeeps
<1> QED BY <1>1, <1>2, <1>3, <1>4, <1>5, <1>6 DEF CompletionNext

\* In every deployment, what a ledger suppresses was saved, what is accepted
\* is not in the ledger, and no copy of the workflow exceeds its budgets.
THEOREM CompletionsAccounted == CompletionSpec => []Accounted
<1>1. Accounted /\ [CompletionNext]_allVars => Accounted'
    BY AccountedKeeps
<1> QED BY <1>1, CompletionInitAccounted, PTL DEF CompletionSpec

\* The calls, locks and ledgers of every deployment stay well formed, and a
\* lock has exactly the caller that is inside (the with-block around
\* complete_step_for_issue, workflow_state_engine_plugin.py:669).
THEOREM CompletionTypes == CompletionSpec => []CompletionTypeOK
<1>1. Accounted => CompletionTypeOK
    BY DEF Accounted
<1> QED BY <1>1, CompletionsAccounted, PTL

\* Whatever fails or restarts, an event that a ledger will suppress belongs
\* to a completion that was saved (ledger.record follows engine.complete_step).
THEOREM NothingIsLost == CompletionSpec => []RecordedIsApplied
<1>1. Accounted => RecordedIsApplied
    BY DEF Accounted
<1> QED BY <1>1, CompletionsAccounted, PTL

\* Between a process's check and its record of an event, none of its other
\* threads records it (one critical section per workflow).
THEOREM NothingTwice == CompletionSpec => []RecordedOnce
<1>1. Accounted => RecordedOnce
    BY DEF Accounted, CallAccounted, RecordedOnce, LedgerOf
<1> QED BY <1>1, CompletionsAccounted, PTL

\* However many processes overwrite one another's saves, and however often
\* operators rewind, no stored workflow exceeds the loop guard of
\* reset_step_for_goto or the retry limits.
THEOREM LoopGuard == CompletionSpec => []LoopGuardKept
<1>1. Accounted => LoopGuardKept
    BY DEF Accounted
<1> QED BY <1>1, CompletionsAccounted, PTL
=============================================================================
