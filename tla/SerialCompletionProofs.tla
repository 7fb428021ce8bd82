------------------------- MODULE SerialCompletionProofs -------------------------
(***************************************************************************)
(* Proofs about deployments in which one process completes steps and       *)
(* nobody intervenes: its lock makes the check of the running step and the *)
(* engine's change of it one step, so the engine's invariant carries over. *)
(* The run completion_two_steps shows that two processes break it.         *)
(***************************************************************************)
EXTENDS StepCompletionProofs

SerialDeployment ==
    /\ Operators = {}
    /\ \A c, d \in Callers : Home[c] = Home[d]

\* Only a caller that is inside works on the workflow, and what was checked
\* still runs when the engine loads the workflow again.
StepHeld(c) ==
    /\ at[c] \in {"out", "checked"} => pc[c] = "idle"
    /\ at[c] = "checked" => store.status[Delivered(c).step] = "RUNNING"
SerialInv ==
    /\ Accounted
    /\ Inductive
    /\ \A c \in Callers : StepHeld(c)

\* Whoever is not inside is out, and its copy is nobody's concern.
LEMMA OthersOut ==
    ASSUME SerialDeployment, SerialInv, NEW c \in Callers, at[c] # "out",
           NEW d \in Callers, d # c
    PROVE  at[d] = "out" /\ pc[d] = "idle"
<1>1. at[d] = "out"
    BY OneInside DEF SerialDeployment, SerialInv, Accounted, CompletionTypeOK
<1> QED BY <1>1 DEF SerialInv, StepHeld

\* What the caller inside does need only be right for itself.
LEMMA InsideHolds ==
    ASSUME SerialDeployment, SerialInv, NEW c \in Callers, at[c] # "out",
           \A d \in Callers : d # c => at'[d] = at[d] /\ pc'[d] = pc[d],
           StepHeld(c)'
    PROVE  \A d \in Callers : StepHeld(d)'
<1> SUFFICES ASSUME NEW d \in Callers, d # c PROVE StepHeld(d)'
    OBVIOUS
<1>1. at'[d] = "out" /\ pc'[d] = "idle"
    BY OthersOut
<1> QED BY <1>1 DEF StepHeld

\* The engine's state is not touched.
LEMMA EngineStays ==
    ASSUME Inductive, UNCHANGED engineVars
    PROVE  Inductive'
BY DEF engineVars, Inductive, TypeOK, Consistent, FreshUntilStarted, LiveHasStep,
       OnlyCurrentRuns, BudgetsKept, Exhausted, InTransit, Live

\* Reports, the lock, the checks and the ledger concern no engine state.
LEMMA PluginHolds ==
    ASSUME SerialDeployment, SerialInv, NEW c \in Callers,
           \/ \E i, e : Enter(c, i, e)
           \/ Accept(c) \/ Refuse(c) \/ Record(c)
    PROVE  Inductive' /\ \A d \in Callers : StepHeld(d)'
<1>1. Inductive' /\ UNCHANGED engineVars /\ reports' = reports
    BY EngineStays DEF SerialInv, Enter, Accept, Refuse, Record
<1>2. store' = store /\ pc' = pc
    BY <1>1 DEF engineVars
<1>3. at \in [Callers -> {"out", "entered", "checked", "engine"}]
      /\ call \in [Callers -> [report : Nat, event : Events \cup {""}]]
    BY DEF SerialInv, Accounted, CompletionTypeOK, PluginTypeOK
<1>4. ASSUME NEW d \in Callers, d # c PROVE StepHeld(d)'
    <2>1. at'[d] = at[d] /\ call'[d] = call[d]
        BY <1>3, <1>4 DEF Enter, Accept, Refuse, Record, Leave
    <2>2. Delivered(d)' = Delivered(d) /\ StepHeld(d)
        BY <1>1, <2>1 DEF Delivered, SerialInv
    <2> QED BY <1>2, <2>1, <2>2 DEF StepHeld
<1>5. CASE \E i, e : Enter(c, i, e)
    <2>1. at'[c] = "entered"
        BY <1>3, <1>5 DEF Enter
    <2> QED BY <1>1, <1>4, <2>1 DEF StepHeld
<1>6. CASE Accept(c)
    <2>1. at'[c] = "checked" /\ pc[c] = "idle" /\ Delivered(c)' = Delivered(c)
        BY <1>3, <1>6 DEF Accept, Delivered
    <2>2. store.status[Delivered(c).step] = "RUNNING"
        BY <1>6 DEF Accept, Matches
    <2> QED BY <1>1, <1>2, <1>4, <2>1, <2>2 DEF StepHeld
<1>7. CASE Refuse(c) \/ Record(c)
    <2>1. at'[c] = "out" /\ pc[c] = "idle"
        BY <1>3, <1>7 DEF Refuse, Record, Leave
    <2> QED BY <1>1, <1>2, <1>4, <2>1 DEF StepHeld
<1> QED BY <1>5, <1>6, <1>7

\* The engine's operations find the step in hand.
LEMMA EngineHolds ==
    ASSUME SerialDeployment, SerialInv, NEW c \in Callers,
           AutoStart(c) \/ CallEngine(c) \/ EngineSteps(c) \/ EngineSaves(c)
    PROVE  Inductive' /\ \A d \in Callers : StepHeld(d)'
<1>1. /\ Accounted /\ Inductive /\ StepHeld(c) /\ EngineSound /\ PluginSound
      /\ at \in [Callers -> {"out", "entered", "checked", "engine"}]
      /\ pc \in [Callers -> {"idle", "advancing", "saving"}]
    BY TwoParts
    DEF SerialInv, PluginSound, PluginTypeOK, EngineSound, TypeOK
<1>2. CASE AutoStart(c)
    <2>1. Inductive' /\ Busy(c) /\ at[c] = "entered" /\ at' = at
        BY <1>1, <1>2, ControlKeeps, ControlCounts DEF AutoStart, Control, pluginVars
    <2>2. StepHeld(c)'
        BY <2>1 DEF StepHeld
    <2> QED BY <2>1, <2>2, InsideHolds DEF Busy
<1>3. CASE CallEngine(c)
    <2>1. at[c] = "checked" /\ store.status[Delivered(c).step] = "RUNNING"
        BY <1>1, <1>3 DEF CallEngine, StepHeld
    <2>2. Delivered(c).step \in Steps /\ Delivered(c).verdict \in Outputs
        BY <1>1, <2>1, KeysOfCalls DEF PluginSound, Outputs
    <2>3. Inductive' /\ Busy(c)
        BY <1>1, <1>3, <2>1, <2>2, CompleteKeeps, CompleteCounts DEF CallEngine
    <2>4. at' = [at EXCEPT ![c] = "engine"]
        BY <1>3 DEF CallEngine
    <2>5. StepHeld(c)'
        BY <1>1, <2>4 DEF StepHeld
    <2> QED BY <1>1, <2>1, <2>3, <2>4, <2>5, InsideHolds DEF Busy
<1>4. CASE EngineSteps(c)
    <2>1. Inductive' /\ Busy(c) /\ at' = at
        BY <1>1, <1>4, AdvanceKeeps, AdvanceCounts DEF EngineSteps, pluginVars
    <2>2. pc[c] = "advancing"
        BY <1>4
        DEF EngineSteps, Advance, AdvanceThroughRouter, AdvanceToStep, AdvancePastStep,
            AdvanceToEnd
    <2>3. at[c] \notin {"out", "checked"}
        BY <1>1, <2>2 DEF StepHeld
    <2>4. StepHeld(c)'
        BY <2>1, <2>3 DEF StepHeld
    <2> QED BY <2>1, <2>3, <2>4, InsideHolds DEF Busy
<1>5. CASE EngineSaves(c)
    <2>1. Inductive' /\ pc[c] = "saving" /\ at' = at /\ pc' = [pc EXCEPT ![c] = "idle"]
        BY <1>1, <1>5, SaveKeeps DEF EngineSaves, Save, Release
    <2>2. at[c] \notin {"out", "checked"}
        BY <1>1, <2>1 DEF StepHeld
    <2>3. StepHeld(c)'
        BY <2>1, <2>2 DEF StepHeld
    <2> QED BY <1>1, <2>1, <2>2, <2>3, InsideHolds
<1> QED BY <1>2, <1>3, <1>4, <1>5

\* A call that fails leaves the stored workflow as it is and is out.
LEMMA RaisesHolds ==
    ASSUME SerialDeployment, SerialInv, NEW c \in Callers, Raises(c)
    PROVE  Inductive' /\ \A d \in Callers : StepHeld(d)'
<1>1. Inductive /\ StepHeld(c) /\ Release(c) /\ store' = store
    BY DEF SerialInv, Raises
<1>2. at[c] # "out" /\ Leave(c)
    BY <1>1 DEF Raises, StepHeld
<1>3. Inductive'
    BY <1>1, ReleaseKeeps DEF Inductive, TypeOK
<1>4. at \in [Callers -> {"out", "entered", "checked", "engine"}]
      /\ pc \in [Callers -> {"idle", "advancing", "saving"}]
    BY DEF SerialInv, Inductive, TypeOK, Accounted, CompletionTypeOK, PluginTypeOK
<1>5. /\ at'[c] = "out" /\ pc'[c] = "idle"
      /\ \A d \in Callers : d # c => at'[d] = at[d] /\ pc'[d] = pc[d]
    BY <1>1, <1>2, <1>4 DEF Leave, Release
<1>6. StepHeld(c)'
    BY <1>5 DEF StepHeld
<1> QED BY <1>2, <1>3, <1>5, <1>6, InsideHolds

\* A restarted process has nothing in hand; another process has no callers.
LEMMA RestartHolds ==
    ASSUME SerialDeployment, SerialInv, NEW p \in Processes, Restart(p)
    PROVE  Inductive' /\ \A d \in Callers : StepHeld(d)'
<1>1. /\ Inductive /\ store' = store /\ reports' = reports
      /\ mem' = [c \in Callers |-> IF Home[c] = p THEN NewWorkflow ELSE mem[c]]
      /\ pc' = [c \in Callers |-> IF Home[c] = p THEN "idle" ELSE pc[c]]
      /\ at' = [c \in Callers |-> IF Home[c] = p THEN "out" ELSE at[c]]
      /\ call' = [c \in Callers |-> IF Home[c] = p THEN NoCall ELSE call[c]]
    BY DEF SerialInv, Restart
<1>2. TypeOK'
    BY RestartKeeps DEF SerialInv, Accounted, CompletionTypeOK
<1>3. Consistent(store)'
    BY <1>1 DEF Inductive, Consistent, FreshUntilStarted, LiveHasStep, OnlyCurrentRuns,
                BudgetsKept, Exhausted, Live
<1>4. ASSUME NEW d \in Callers
      PROVE  /\ pc'[d] = "saving" => Consistent(mem'[d])
             /\ pc'[d] = "advancing" => InTransit(mem'[d])
    BY <1>1 DEF Inductive
<1>5. ASSUME NEW d \in Callers PROVE StepHeld(d)'
    <2>1. StepHeld(d)
        BY DEF SerialInv
    <2>2. CASE Home[d] = p
        BY <1>1, <2>2 DEF StepHeld
    <2>3. CASE Home[d] # p
        <3>1. at'[d] = at[d] /\ pc'[d] = pc[d] /\ Delivered(d)' = Delivered(d)
            BY <1>1, <2>3 DEF Delivered
        <3> QED BY <1>1, <2>1, <3>1 DEF StepHeld
    <2> QED BY <2>2, <2>3
<1> QED BY <1>2, <1>3, <1>4, <1>5 DEF Inductive

\* No step of anybody breaks the invariant.
LEMMA SerialKeeps ==
    ASSUME SerialDeployment, SerialInv, [CompletionNext]_allVars
    PROVE  SerialInv'
<1>1. Accounted'
    BY AccountedKeeps DEF SerialInv
<1>2. CASE UNCHANGED allVars
    <2>1. Inductive'
        BY <1>2, EngineStays DEF SerialInv, allVars
    <2>2. ASSUME NEW d \in Callers PROVE StepHeld(d)'
        <3>1. StepHeld(d)
            BY DEF SerialInv
        <3> QED BY <1>2, <3>1 DEF StepHeld, Delivered, allVars, engineVars, pluginVars
    <2> QED BY <1>1, <2>1, <2>2 DEF SerialInv
<1>3. CASE AgentReports
    <2>1. Inductive'
        BY <1>3, EngineStays DEF SerialInv, AgentReports
    <2>2. ASSUME NEW d \in Callers PROVE StepHeld(d)'
        <3>1. StepHeld(d) /\ EngineSound /\ PluginTypeOK
            BY TwoParts DEF SerialInv, PluginSound
        <3>2. at[d] # "out" => Delivered(d)' = Delivered(d)
            BY <1>3, <3>1, ReportAdded
        <3> QED
            BY <1>3, <3>1, <3>2 DEF StepHeld, AgentReports, engineVars, pluginVars
    <2> QED BY <1>1, <2>1, <2>2 DEF SerialInv
<1>4. ASSUME NEW c \in Callers,
             (\E i \in DOMAIN reports : Deliver(c, i)) \/ Complete(c)
      PROVE  SerialInv'
    <2>1. Inductive' /\ \A d \in Callers : StepHeld(d)'
        BY <1>4, PluginHolds, EngineHolds DEF Deliver, Complete
    <2> QED BY <1>1, <2>1 DEF SerialInv
<1>5. ASSUME NEW c \in Callers PROVE ~ Intervene(c)
    BY DEF Intervene, SerialDeployment
<1>6. ASSUME NEW c \in Callers, Raises(c) PROVE SerialInv'
    BY <1>1, <1>6, RaisesHolds DEF SerialInv
<1>7. ASSUME NEW p \in Processes, Restart(p) PROVE SerialInv'
    BY <1>1, <1>7, RestartHolds DEF SerialInv
<1> QED BY <1>2, <1>3, <1>4, <1>5, <1>6, <1>7 DEF CompletionNext

\* In one process, whatever its threads deliver late or again and wherever a
\* call fails or the process restarts, the stored workflow has exactly the
\* step in hand that the next report is checked against ("single active step
\* expected", workflow_state_engine_plugin.py:749).
THEOREM SerialOneStep ==
    ASSUME SerialDeployment
    PROVE  CompletionSpec => []OneStepInHand
<1>1. CompletionInit => SerialInv
    <2> SUFFICES ASSUME CompletionInit PROVE SerialInv
        OBVIOUS
    <2>1. Accounted /\ Inductive
        BY CompletionInitAccounted, InitInductive DEF CompletionInit
    <2>2. \A c \in Callers : StepHeld(c)
        BY DEF StepHeld, CompletionInit, NothingReported, Init
    <2> QED BY <2>1, <2>2 DEF SerialInv
<1>2. SerialInv /\ [CompletionNext]_allVars => SerialInv'
    BY SerialKeeps
<1>3. SerialInv => OneStepInHand
    BY DEF SerialInv, Inductive, Consistent, OneStepInHand
<1> QED BY <1>1, <1>2, <1>3, PTL DEF CompletionSpec

-----------------------------------------------------------------------------
(* The deployment implements the lifecycle of WorkflowLifecycle.           *)

\* The callers inside and outside the lock change the workflow in turns.
LEMMA InsideIsSole ==
    ASSUME SerialDeployment, SerialInv, NEW c \in Callers, at[c] # "out"
    PROVE  Sole(c)
BY OthersOut DEF Sole

\* Every step of the plugin, of a failure or of a restart leaves what is in
\* memory ahead of what is stored.
LEMMA SerialAhead ==
    ASSUME SerialDeployment, SerialInv, Ahead, [CompletionNext]_allVars
    PROVE  Ahead'
<1>1. Accounted /\ Inductive /\ PluginSound /\ \A c \in Callers : StepHeld(c)
    BY TwoParts DEF SerialInv
<1>2. ASSUME UNCHANGED <<store, mem, pc>> PROVE Ahead'
    BY <1>2, Zenon DEF Ahead
<1>3. CASE UNCHANGED allVars
    BY <1>2, <1>3 DEF allVars, engineVars
<1>4. CASE AgentReports
    BY <1>2, <1>4 DEF AgentReports, engineVars
<1>5. ASSUME NEW c \in Callers,
             (\E i \in DOMAIN reports : Deliver(c, i)) \/ Accept(c) \/ Refuse(c) \/ Record(c)
      PROVE  Ahead'
    BY <1>2, <1>5 DEF Deliver, Enter, Accept, Refuse, Record, engineVars
<1>6. ASSUME NEW c \in Callers, AutoStart(c) PROVE Ahead'
    BY <1>1, <1>6, InsideIsSole, ControlLeads DEF AutoStart, Control
<1>7. ASSUME NEW c \in Callers, CallEngine(c) PROVE Ahead'
    <2>1. at[c] = "checked" /\ store.status[Delivered(c).step] = "RUNNING" /\ Sole(c)
        BY <1>1, <1>7, InsideIsSole DEF CallEngine, StepHeld
    <2>2. Delivered(c).step \in Steps /\ Delivered(c).verdict \in Outputs
        BY <1>1, <2>1, KeysOfCalls DEF PluginSound, Outputs
    <2>3. CanReport(store)
        BY <1>1, <2>1, <2>2, ReportedInHand
    <2> QED BY <1>1, <1>7, <2>1, <2>2, <2>3, CompleteLeads DEF CallEngine
<1>8. ASSUME NEW c \in Callers, EngineSteps(c) PROVE Ahead'
    <2>1. pc[c] = "advancing"
        BY <1>8
        DEF EngineSteps, Advance, AdvanceThroughRouter, AdvanceToStep, AdvancePastStep,
            AdvanceToEnd
    <2>2. Sole(c)
        BY <1>1, <2>1, InsideIsSole DEF StepHeld
    <2> QED BY <1>1, <1>8, <2>2, AdvanceLeads DEF EngineSteps
<1>9. ASSUME NEW c \in Callers, EngineSaves(c) \/ Raises(c) PROVE Ahead'
    <2>1. Release(c) /\ (pc[c] # "idle" \/ at[c] # "out")
        BY <1>9 DEF EngineSaves, Save, Raises
    <2>2. Sole(c)
        BY <1>1, <2>1, InsideIsSole DEF StepHeld
    <2> QED BY <1>1, <2>1, <2>2, ReleaseLeads
<1>10. ASSUME NEW c \in Callers PROVE ~ Intervene(c)
    BY DEF Intervene, SerialDeployment
<1>11. ASSUME NEW p \in Processes, Restart(p) PROVE Ahead'
    <2>1. /\ store' = store
          /\ mem' = [c \in Callers |-> IF Home[c] = p THEN NewWorkflow ELSE mem[c]]
          /\ pc' = [c \in Callers |-> IF Home[c] = p THEN "idle" ELSE pc[c]]
        BY <1>11 DEF Restart
    <2>2. ASSUME NEW c \in Callers
          PROVE  /\ pc'[c] = "saving" => Leads(store', mem'[c])
                 /\ pc'[c] = "advancing" => CanReport(store') /\ mem'[c].state = store'.state
        <3>1. CASE Home[c] = p
            BY <2>1, <3>1
        <3>2. CASE Home[c] # p
            <4>1. pc'[c] = pc[c] /\ mem'[c] = mem[c]
                BY <2>1, <3>2
            <4> QED BY <2>1, <4>1, Zenon DEF Ahead
        <3> QED BY <3>1, <3>2
    <2> QED BY <2>2, Zenon DEF Ahead
<1> QED BY <1>3, <1>4, <1>5, <1>6, <1>7, <1>8, <1>9, <1>10, <1>11 DEF CompletionNext, Complete

\* In one process the lock (complete_step_for_issue) makes the engine's loads and
\* saves take turns: however its threads deliver reports, and wherever a call
\* fails or the process restarts, every save is a step of the lifecycle, and a
\* workflow that ended is never revived.
THEOREM SerialLifecycle ==
    ASSUME SerialDeployment
    PROVE  CompletionSpec => FollowsLifecycle
<1>1. CompletionInit => SerialInv
    <2> SUFFICES ASSUME CompletionInit PROVE SerialInv
        OBVIOUS
    <2>1. Accounted /\ Inductive
        BY CompletionInitAccounted, InitInductive DEF CompletionInit
    <2>2. \A c \in Callers : StepHeld(c)
        BY DEF StepHeld, CompletionInit, NothingReported, Init
    <2> QED BY <2>1, <2>2 DEF SerialInv
<1>2. CompletionInit => Ahead /\ Lifecycle!Init
    BY InitAhead DEF CompletionInit
<1>3. SerialInv /\ [CompletionNext]_allVars => SerialInv'
    BY SerialKeeps
<1>4. SerialInv /\ Ahead /\ [CompletionNext]_allVars => Ahead'
    BY SerialAhead
<1>5. SerialInv /\ Ahead /\ [CompletionNext]_allVars => [Lifecycle!Next]_(Lifecycle!vars)
    <2> SUFFICES ASSUME SerialInv, Ahead, [CompletionNext]_allVars
                 PROVE  [Lifecycle!Next]_(Lifecycle!vars)
        OBVIOUS
    <2>1. TypeOK
        BY DEF SerialInv, Inductive
    <2>2. ASSUME NEW c \in Callers, EngineSaves(c) PROVE Lifecycle!Next
        <3>1. Leads(store, store')
            BY <2>2, SMTT(60) DEF EngineSaves, Save, Ahead
        <3> QED BY <2>1, <3>1, LeadsStep
    <2>3. CASE store' = store
        BY <2>3, StoreStays
    <2>4. ASSUME NEW c \in Callers, Complete(c), ~ EngineSaves(c) PROVE store' = store
        BY <2>4, ZenonT(60)
        DEF Complete, AutoStart, Accept, Refuse, CallEngine, EngineSteps, Record, engineVars,
            StartWorkflow, CompleteStep, Goto, Advance, AdvanceThroughRouter, AdvanceToStep,
            AdvancePastStep, AdvanceToEnd, Change, Hold
    <2>5. ASSUME NEW c \in Callers, (\E i \in DOMAIN reports : Deliver(c, i)) \/ Raises(c)
          PROVE  store' = store
        BY <2>5 DEF Deliver, Enter, Raises, engineVars
    <2>6. ASSUME NEW p \in Processes, Restart(p) PROVE store' = store
        BY <2>6 DEF Restart
    <2>7. AgentReports \/ UNCHANGED allVars => store' = store
        BY DEF AgentReports, allVars, engineVars
    <2>8. \A c \in Callers : ~ Intervene(c)
        BY DEF Intervene, SerialDeployment
    <2> QED BY <2>2, <2>3, <2>4, <2>5, <2>6, <2>7, <2>8 DEF CompletionNext
<1> QED BY <1>1, <1>2, <1>3, <1>4, <1>5, PTL DEF CompletionSpec, FollowsLifecycle, Lifecycle!Spec

=============================================================================
