-------------------------- MODULE WorkflowEngineProofs --------------------------
(***************************************************************************)
(* Proofs about WorkflowEngine for every workflow definition, any number   *)
(* of callers and any limits.                                              *)
(***************************************************************************)
EXTENDS WorkflowEngineProps, SequenceTheorems, TLAPS

\* Every step is a number of a step or of "no step".
LEMMA StepNumbers ==
    /\ 1 \in Steps
    /\ \A n \in Steps : n \in 0..N /\ StepAfter(n) \in 0..N /\ n # 0
    /\ \A n \in 0..N : n # 0 => n \in Steps
    /\ \A n \in 0..N : StepAfter(n) \in 0..N
    /\ 0 \in 0..N
BY DefinitionAssumption DEF Steps, StepAfter

\* A fresh workflow is a workflow and is consistent.
LEMMA NewWorkflowIsFresh == NewWorkflow \in Workflow /\ Consistent(NewWorkflow)
<1>1. NewWorkflow \in Workflow
    BY DefinitionAssumption DEF NewWorkflow, Workflow, WorkflowStates, StepStatuses, Outputs, Steps
<1>2. Consistent(NewWorkflow)
    BY DefinitionAssumption
    DEF NewWorkflow, Consistent, FreshUntilStarted, LiveHasStep, OnlyCurrentRuns,
        BudgetsKept, Exhausted, Live, Steps
<1> QED BY <1>1, <1>2

\* The constants' types that most steps need.
LEMMA Limits ==
    /\ MaxLoopIterations \in Nat
    /\ MaxRetries \in [Steps -> Nat]
    /\ NoVerdict \in Outputs
BY DefinitionAssumption DEF Outputs

\* A route leads to a step or nowhere.
LEMMA RouteTargets ==
    ASSUME NEW r \in Routers, NEW v \in Outputs, NEW t, IsRouteTarget(r, v, t)
    PROVE  t \in 0..N
<1> DEFINE Entry == [when : SUBSET Verdicts, goto : 0..N]
<1>1. Routes[r] \in Seq(Entry) /\ DefaultRoute[r] \in 0..N
    BY DefinitionAssumption
<1>2. CASE \E i \in DOMAIN Routes[r] : t = Routes[r][i].goto
    <2>1. PICK i \in DOMAIN Routes[r] : t = Routes[r][i].goto
        BY <1>2
    <2> HIDE DEF Entry
    <2>2. Routes[r][i] \in Entry
        BY <1>1, <2>1, ElementOfSeq, LenProperties
    <2> USE DEF Entry
    <2> QED BY <2>1, <2>2
<1>3. CASE t = DefaultRoute[r]
    BY <1>1, <1>3
<1> QED BY <1>2, <1>3 DEF IsRouteTarget

\* Resetting a step below the limit keeps the record and its budgets.
LEMMA ResetCounts ==
    ASSUME NEW w \in Workflow, NEW t \in Steps,
           ~ AtLoopLimit(w, t), BudgetsKept(w)
    PROVE  LET r == ResetForGoto(w, t)
           IN /\ r \in Workflow /\ BudgetsKept(r)
              /\ r.state = w.state
              /\ \A n \in Steps : r.status[n] = (IF n = t THEN "PENDING" ELSE w.status[n])
<1> DEFINE r == ResetForGoto(w, t)
<1>1. r \in Workflow
    <2>1. /\ r.status \in [Steps -> StepStatuses]
          /\ r.iteration \in [Steps -> Nat]
          /\ r.retries \in [Steps -> Nat]
          /\ r.outputs \in [Steps -> Outputs]
        BY Limits DEF ResetForGoto, Workflow, StepStatuses
    <2>2. r = [w EXCEPT !.iteration = r.iteration, !.status = r.status,
                        !.outputs = r.outputs, !.retries = r.retries]
        BY DEF ResetForGoto, Workflow
    <2> HIDE DEF r
    <2> QED BY <2>1, <2>2 DEF Workflow
<1>2. /\ r.state = w.state
      /\ \A n \in Steps : r.status[n] = (IF n = t THEN "PENDING" ELSE w.status[n])
      /\ \A n \in Steps : r.iteration[n] = (IF n = t THEN w.iteration[n] + 1 ELSE w.iteration[n])
      /\ \A n \in Steps : r.retries[n] = (IF n = t THEN 0 ELSE w.retries[n])
    BY DEF ResetForGoto, Workflow
<1>3. w.iteration[t] + 1 <= MaxLoopIterations
    BY Limits DEF AtLoopLimit, Workflow
<1>4. BudgetsKept(r)
    BY <1>2, <1>3, Limits DEF BudgetsKept
<1> QED BY <1>1, <1>2, <1>4

\* It keeps a copy without a running step, too.
LEMMA ResetKeeps ==
    ASSUME NEW w \in Workflow, NEW t \in Steps,
           ~ AtLoopLimit(w, t), InTransit(w)
    PROVE  ResetForGoto(w, t) \in Workflow /\ InTransit(ResetForGoto(w, t))
<1> DEFINE r == ResetForGoto(w, t)
<1>1. /\ r \in Workflow /\ BudgetsKept(r) /\ r.state = w.state
      /\ \A n \in Steps : r.status[n] = (IF n = t THEN "PENDING" ELSE w.status[n])
    BY ResetCounts DEF InTransit
<1> HIDE DEF r
<1>2. InTransit(r)
    BY <1>1 DEF InTransit, Live
<1> QED BY <1>1, <1>2 DEF r

\* Any step may be made the current one with any status.
LEMMA MoveTo ==
    ASSUME NEW w \in Workflow, NEW n \in Steps, NEW s \in StepStatuses
    PROVE  LET m == [w EXCEPT !.status[n] = s, !.current = n]
           IN /\ m \in Workflow
              /\ m.state = w.state /\ m.current = n
              /\ m.iteration = w.iteration /\ m.retries = w.retries
              /\ \A i \in Steps : m.status[i] = (IF i = n THEN s ELSE w.status[i])
<1> DEFINE m == [w EXCEPT !.status[n] = s, !.current = n]
<1>1. m.status \in [Steps -> StepStatuses] /\ m.current \in 0..N
    BY StepNumbers DEF Workflow
<1>2. m = [w EXCEPT !.status = m.status, !.current = m.current]
    BY DEF Workflow
<1>3. m \in Workflow
    <2> HIDE DEF m
    <2> QED BY <1>1, <1>2 DEF Workflow
<1>4. /\ m.state = w.state /\ m.current = n
      /\ m.iteration = w.iteration /\ m.retries = w.retries
      /\ \A i \in Steps : m.status[i] = (IF i = n THEN s ELSE w.status[i])
    BY DEF Workflow
<1> QED BY <1>3, <1>4

\* Skipping a step keeps a copy without a running step.
LEMMA SkipKeeps ==
    ASSUME NEW w \in Workflow, NEW n \in Steps, InTransit(w)
    PROVE  LET m == [w EXCEPT !.status[n] = "SKIPPED", !.current = n]
           IN m \in Workflow /\ InTransit(m)
<1> DEFINE m == [w EXCEPT !.status[n] = "SKIPPED", !.current = n]
<1>1. /\ m \in Workflow
      /\ m.state = w.state
      /\ m.iteration = w.iteration /\ m.retries = w.retries
      /\ \A i \in Steps : m.status[i] = (IF i = n THEN "SKIPPED" ELSE w.status[i])
    BY MoveTo, ZenonT(60) DEF StepStatuses
<1> HIDE DEF m
<1>2. InTransit(m)
    BY <1>1 DEF InTransit, BudgetsKept, Live
<1> QED BY <1>1, <1>2 DEF m

\* Running a step makes the copy one that may be saved.
LEMMA RunKeeps ==
    ASSUME NEW w \in Workflow, NEW n \in Steps, InTransit(w)
    PROVE  LET m == [w EXCEPT !.status[n] = "RUNNING", !.current = n]
           IN m \in Workflow /\ Consistent(m)
<1> DEFINE m == [w EXCEPT !.status[n] = "RUNNING", !.current = n]
<1>1. /\ m \in Workflow
      /\ m.state = w.state /\ m.current = n
      /\ m.iteration = w.iteration /\ m.retries = w.retries
      /\ \A i \in Steps : m.status[i] = (IF i = n THEN "RUNNING" ELSE w.status[i])
    BY MoveTo, ZenonT(60) DEF StepStatuses
<1> HIDE DEF m
<1>2. Live(m) /\ m.state # "PENDING" /\ m.state # "FAILED"
    BY <1>1 DEF InTransit, Live
<1>3. LiveHasStep(m) /\ OnlyCurrentRuns(m) /\ FreshUntilStarted(m)
    BY <1>1, <1>2 DEF LiveHasStep, OnlyCurrentRuns, FreshUntilStarted, InTransit
<1>4. BudgetsKept(m) /\ \A i \in Steps : m.status[i] # "FAILED"
    BY <1>1 DEF InTransit, BudgetsKept
<1> QED BY <1>1, <1>2, <1>3, <1>4 DEF Consistent, m

\* A copy without a running step may be saved as a completed workflow, and
\* as a failed one when a step has used up its re-activations.
LEMMA EndKeeps ==
    ASSUME NEW w \in Workflow, InTransit(w), NEW s \in {"COMPLETED", "FAILED"},
           s = "FAILED" => \E t \in Steps : AtLoopLimit(w, t)
    PROVE  LET m == [w EXCEPT !.state = s]
           IN m \in Workflow /\ Consistent(m)
<1> DEFINE m == [w EXCEPT !.state = s]
<1>1. /\ m \in Workflow
      /\ m.state = s /\ m.current = w.current /\ m.status = w.status
      /\ m.iteration = w.iteration /\ m.retries = w.retries
    BY DEF Workflow, WorkflowStates
<1> HIDE DEF m
<1>2. ~ Live(m) /\ m.state # "PENDING"
    BY <1>1 DEF Live
<1>3. BudgetsKept(m) /\ \A i \in Steps : m.status[i] \notin {"RUNNING", "FAILED"}
    BY <1>1 DEF InTransit, BudgetsKept
<1>4. ASSUME s = "FAILED" PROVE \E t \in Steps : Exhausted(m, t)
    <2>1. PICK t \in Steps : AtLoopLimit(w, t)
        BY <1>4
    <2>2. w.iteration[t] \in Nat /\ w.iteration[t] <= MaxLoopIterations
        BY DEF InTransit, BudgetsKept, Workflow
    <2>3. w.iteration[t] = MaxLoopIterations
        BY <2>1, <2>2, Limits DEF AtLoopLimit
    <2> QED BY <2>3, <1>1 DEF Exhausted
<1> QED
    BY <1>1, <1>2, <1>3, <1>4
    DEF Consistent, FreshUntilStarted, LiveHasStep, OnlyCurrentRuns, m

-----------------------------------------------------------------------------

\* The workflow as created is consistent and nobody works on it.
LEMMA InitInductive == Init => Inductive
<1> SUFFICES ASSUME Init PROVE Inductive
    OBVIOUS
<1>1. TypeOK
    BY NewWorkflowIsFresh, Limits, StepNumbers DEF Init, TypeOK
<1>2. Consistent(store)
    BY NewWorkflowIsFresh DEF Init
<1>3. \A c \in Callers : pc[c] = "idle"
    BY DEF Init
<1> QED BY <1>1, <1>2, <1>3 DEF Inductive

\* What an operation must put in its caller's hands.
LEMMA HoldKeeps ==
    ASSUME Inductive, NEW c \in Callers, NEW w \in Workflow, NEW n \in 0..N,
           NEW where \in {"saving", "advancing"},
           where = "saving" => Consistent(w),
           where = "advancing" => InTransit(w),
           Hold(c, w, where, n), ctx' \in [Callers -> Outputs]
    PROVE  Inductive'
<1>1. TypeOK'
    BY DEF Inductive, TypeOK, Hold
<1>2. Consistent(store)'
    BY DEF Inductive, Hold, Consistent, FreshUntilStarted, LiveHasStep,
           OnlyCurrentRuns, BudgetsKept, Exhausted, Live
<1>3. ASSUME NEW d \in Callers
      PROVE  /\ pc'[d] = "saving" => Consistent(mem'[d])
             /\ pc'[d] = "advancing" => InTransit(mem'[d])
    BY DEF Inductive, TypeOK, Hold
<1> QED BY <1>1, <1>2, <1>3 DEF Inductive

\* Saving or losing a copy.
LEMMA ReleaseKeeps ==
    ASSUME Inductive, NEW c \in Callers, Release(c),
           store' \in Workflow, Consistent(store')
    PROVE  Inductive'
<1>1. TypeOK'
    <2>1. NewWorkflow \in Workflow
        BY NewWorkflowIsFresh
    <2> HIDE DEF NewWorkflow, Workflow
    <2>2. mem' \in [Callers -> Workflow] /\ pc' \in [Callers -> {"idle", "advancing", "saving"}]
        BY <2>1 DEF Inductive, TypeOK, Release
    <2>3. nxt' \in [Callers -> 0..N] /\ ctx' \in [Callers -> Outputs]
        BY StepNumbers, Limits DEF Inductive, TypeOK, Release
    <2> QED BY <2>2, <2>3 DEF TypeOK
<1>2. ASSUME NEW d \in Callers
      PROVE  /\ pc'[d] = "saving" => Consistent(mem'[d])
             /\ pc'[d] = "advancing" => InTransit(mem'[d])
    BY DEF Inductive, TypeOK, Release
<1> QED BY <1>1, <1>2 DEF Inductive

-----------------------------------------------------------------------------
(* One lemma per kind of step.                                             *)

\* An operation on the loaded workflow that has nothing to evaluate.
LEMMA ChangeKeeps ==
    ASSUME Inductive, NEW c \in Callers, NEW w \in Workflow, Consistent(w),
           Change(c, w)
    PROVE  Inductive'
BY HoldKeeps, StepNumbers DEF Change, Inductive, TypeOK

\* Pausing, resuming and cancelling leave the step in hand.
LEMMA StateKeeps ==
    ASSUME NEW w \in Workflow, Consistent(w), w.state \in {"RUNNING", "PAUSED"},
           NEW s \in {"RUNNING", "PAUSED", "CANCELLED"}
    PROVE  LET m == [w EXCEPT !.state = s]
           IN m \in Workflow /\ Consistent(m)
<1> DEFINE m == [w EXCEPT !.state = s]
<1>1. /\ m \in Workflow
      /\ m.state = s /\ m.current = w.current /\ m.status = w.status
      /\ m.iteration = w.iteration /\ m.retries = w.retries
    BY DEF Workflow, WorkflowStates
<1> HIDE DEF m
<1>2. Live(m) /\ Live(w) /\ m.state # "PENDING" /\ m.state # "FAILED" /\ w.state # "FAILED"
    BY <1>1 DEF Live
<1> QED
    BY <1>1, <1>2
    DEF Consistent, FreshUntilStarted, LiveHasStep, OnlyCurrentRuns, BudgetsKept, m

\* Start, pause, resume and cancel.
LEMMA ControlKeeps ==
    ASSUME Inductive, NEW c \in Callers, Control(c)
    PROVE  Inductive'
<1>1. store \in Workflow /\ Consistent(store)
    BY DEF Inductive, TypeOK
<1>2. CASE StartWorkflow(c)
    <2>1. store = NewWorkflow
        BY <1>1, <1>2 DEF StartWorkflow, Consistent, FreshUntilStarted
    <2> DEFINE m == [store EXCEPT !.state = "RUNNING", !.current = 1,
                                  !.status[1] = "RUNNING"]
    <2>2. /\ m.state = "RUNNING" /\ m.current = 1
          /\ m.iteration = NewWorkflow.iteration /\ m.retries = NewWorkflow.retries
          /\ \A n \in Steps : m.status[n] = (IF n = 1 THEN "RUNNING" ELSE "PENDING")
          /\ store.status[1] = "PENDING"
        BY <2>1, StepNumbers DEF NewWorkflow
    <2>3. m \in Workflow
        <3>1. m.status \in [Steps -> StepStatuses] /\ m.current \in 0..N
            BY <2>1, StepNumbers DEF NewWorkflow, StepStatuses
        <3>2. m = [store EXCEPT !.state = "RUNNING", !.status = m.status,
                                !.current = m.current]
            BY <1>1 DEF Workflow
        <3> HIDE DEF m
        <3> QED BY <1>1, <3>1, <3>2 DEF Workflow, WorkflowStates
    <2>4. BudgetsKept(m)
        BY <2>2, NewWorkflowIsFresh DEF Consistent, BudgetsKept
    <2>5. Change(c, m)
        BY <1>2, <2>2 DEF StartWorkflow
    <2> HIDE DEF m
    <2>6. Consistent(m)
        BY <2>2, <2>4, StepNumbers
        DEF Consistent, FreshUntilStarted, LiveHasStep, OnlyCurrentRuns, Live
    <2> QED BY <2>3, <2>5, <2>6, ChangeKeeps
<1>3. CASE PauseWorkflow(c)
    BY <1>1, <1>3, StateKeeps, ChangeKeeps DEF PauseWorkflow
<1>4. CASE ResumeWorkflow(c)
    BY <1>1, <1>4, StateKeeps, ChangeKeeps DEF ResumeWorkflow
<1>5. CASE CancelWorkflow(c)
    BY <1>1, <1>5, StateKeeps, ChangeKeeps DEF CancelWorkflow
<1> QED BY <1>2, <1>3, <1>4, <1>5 DEF Control

\* complete_step with an error, on the step in hand.
LEMMA FailKeeps ==
    ASSUME Inductive, NEW c \in Callers, NEW n \in Steps,
           store.status[n] = "RUNNING" \/ (AwaitingRetry(store) /\ n = store.current),
           FailStep(c, n)
    PROVE  Inductive'
<1>1. store \in Workflow /\ Consistent(store)
    BY DEF Inductive, TypeOK
<1>2. /\ Live(store) /\ n = store.current
      /\ store.state \notin {"PENDING", "FAILED"}
      /\ \A i \in Steps : store.status[i] # "FAILED"
      /\ \A i \in Steps : i # n => store.status[i] # "RUNNING"
      /\ BudgetsKept(store)
    BY <1>1 DEF Consistent, OnlyCurrentRuns, Live, AwaitingRetry
<1>3. store.retries[n] \in Nat /\ MaxRetries[n] \in Nat /\ store.retries[n] <= MaxRetries[n]
    BY <1>1, <1>2, Limits DEF Workflow, BudgetsKept
<1>4. CASE store.retries[n] >= MaxRetries[n] /\ Change(c,
              [store EXCEPT !.status[n] = "FAILED", !.outputs[n] = NoVerdict,
                            !.state = "FAILED"])
    <2> DEFINE m == [store EXCEPT !.status[n] = "FAILED", !.outputs[n] = NoVerdict,
                                  !.state = "FAILED"]
    <2>1. /\ m.state = "FAILED"
          /\ m.iteration = store.iteration /\ m.retries = store.retries
          /\ \A i \in Steps : m.status[i] = (IF i = n THEN "FAILED" ELSE store.status[i])
        BY <1>1 DEF Workflow
    <2>2. m \in Workflow
        <3>1. m.status \in [Steps -> StepStatuses] /\ m.outputs \in [Steps -> Outputs]
            BY <1>1, Limits DEF Workflow, StepStatuses
        <3>2. m = [store EXCEPT !.state = "FAILED", !.status = m.status,
                                !.outputs = m.outputs]
            BY <1>1 DEF Workflow
        <3> HIDE DEF m
        <3> QED BY <1>1, <3>1, <3>2 DEF Workflow, WorkflowStates
    <2> HIDE DEF m
    <2>3. Exhausted(m, n) /\ BudgetsKept(m) /\ ~ Live(m)
        BY <1>2, <1>3, <1>4, <2>1 DEF Exhausted, BudgetsKept, Live
    <2>4. Consistent(m)
        BY <1>2, <2>1, <2>3
        DEF Consistent, FreshUntilStarted, LiveHasStep, OnlyCurrentRuns
    <2> QED BY <1>4, <2>2, <2>4, ChangeKeeps DEF m
<1>5. CASE store.retries[n] < MaxRetries[n] /\ Change(c,
              [store EXCEPT !.status[n] = "PENDING", !.outputs[n] = NoVerdict,
                            !.retries[n] = @ + 1])
    <2> DEFINE m == [store EXCEPT !.status[n] = "PENDING", !.outputs[n] = NoVerdict,
                                  !.retries[n] = @ + 1]
    <2>1. /\ m.state = store.state /\ m.current = store.current
          /\ m.iteration = store.iteration
          /\ \A i \in Steps : m.status[i] = (IF i = n THEN "PENDING" ELSE store.status[i])
          /\ \A i \in Steps : m.retries[i] = (IF i = n THEN store.retries[n] + 1
                                                       ELSE store.retries[i])
        BY <1>1 DEF Workflow
    <2>2. m \in Workflow
        <3>1. /\ m.status \in [Steps -> StepStatuses]
              /\ m.outputs \in [Steps -> Outputs]
              /\ m.retries \in [Steps -> Nat]
            BY <1>1, Limits DEF Workflow, StepStatuses
        <3>2. m = [store EXCEPT !.status = m.status, !.outputs = m.outputs,
                                !.retries = m.retries]
            BY <1>1 DEF Workflow
        <3> HIDE DEF m
        <3> QED BY <1>1, <3>1, <3>2 DEF Workflow
    <2> HIDE DEF m
    <2>3. BudgetsKept(m) /\ Live(m)
        BY <1>2, <1>3, <1>5, <2>1 DEF BudgetsKept, Live
    <2>4. Consistent(m)
        BY <1>2, <1>3, <2>1, <2>3
        DEF Consistent, FreshUntilStarted, LiveHasStep, OnlyCurrentRuns
    <2> QED BY <1>5, <2>2, <2>4, ChangeKeeps DEF m
<1> QED BY <1>4, <1>5 DEF FailStep

\* reset_step_for_goto either gives the copy a step to look at next or ends
\* the workflow as failed.
LEMMA GotoKeeps ==
    ASSUME Inductive, NEW c \in Callers, NEW w \in Workflow, InTransit(w),
           NEW t \in Steps, Goto(c, w, t), ctx' \in [Callers -> Outputs]
    PROVE  Inductive'
<1>1. CASE AtLoopLimit(w, t) /\ Hold(c, [w EXCEPT !.state = "FAILED"], "saving", 0)
    <2>1. LET m == [w EXCEPT !.state = "FAILED"]
          IN m \in Workflow /\ Consistent(m)
        BY <1>1, EndKeeps
    <2> QED BY <1>1, <2>1, HoldKeeps, StepNumbers
<1>2. CASE ~ AtLoopLimit(w, t) /\ Hold(c, ResetForGoto(w, t), "advancing", t)
    BY <1>2, ResetKeeps, HoldKeeps, StepNumbers
<1> QED BY <1>1, <1>2 DEF Goto

\* Storing a report changes the step's status and outputs only.
LEMMA CompletedStep ==
    ASSUME store \in Workflow, NEW n \in Steps, NEW v \in Outputs
    PROVE  LET w == Completed(n, v)
           IN /\ w \in Workflow
              /\ w.state = store.state /\ w.current = store.current
              /\ w.iteration = store.iteration /\ w.retries = store.retries
              /\ \A i \in Steps : w.status[i] = (IF i = n THEN "COMPLETED" ELSE store.status[i])
<1> DEFINE w == Completed(n, v)
<1>1. w.status \in [Steps -> StepStatuses] /\ w.outputs \in [Steps -> Outputs]
    BY DEF Workflow, Completed, StepStatuses
<1>2. w = [store EXCEPT !.status = w.status, !.outputs = w.outputs]
    BY DEF Workflow, Completed
<1>3. w \in Workflow
    <2> HIDE DEF w
    <2> QED BY <1>1, <1>2 DEF Workflow
<1>4. /\ w.state = store.state /\ w.current = store.current
      /\ w.iteration = store.iteration /\ w.retries = store.retries
      /\ \A i \in Steps : w.status[i] = (IF i = n THEN "COMPLETED" ELSE store.status[i])
    BY DEF Workflow, Completed
<1> QED BY <1>3, <1>4

\* complete_step without an error, on the step in hand.
LEMMA CompleteKeeps ==
    ASSUME Inductive, NEW c \in Callers, NEW n \in Steps, NEW v \in Outputs,
           store.status[n] = "RUNNING" \/ (AwaitingRetry(store) /\ n = store.current),
           CompleteStep(c, n, v)
    PROVE  Inductive'
<1>1. store \in Workflow /\ Consistent(store)
    BY DEF Inductive, TypeOK
<1> DEFINE w == Completed(n, v)
<1>2. /\ w.state = store.state /\ w.current = store.current
      /\ w.iteration = store.iteration /\ w.retries = store.retries
      /\ \A i \in Steps : w.status[i] = (IF i = n THEN "COMPLETED" ELSE store.status[i])
    BY <1>1, CompletedStep
<1>3. w \in Workflow
    BY <1>1, CompletedStep
<1>4. InTransit(w)
    <2> HIDE DEF w
    <2> QED
        BY <1>1, <1>2
        DEF Consistent, OnlyCurrentRuns, InTransit, BudgetsKept, Live, AwaitingRetry
<1>5. ctx' \in [Callers -> Outputs]
    BY DEF CompleteStep, Inductive, TypeOK
<1>6. OnSuccess[n] \in 0..N /\ (OnSuccess[n] # 0 => OnSuccess[n] \in Steps)
    BY DefinitionAssumption, StepNumbers
<1>7. StepAfter(w.current) \in 0..N
    BY <1>3, StepNumbers DEF Workflow
<1> HIDE DEF w
<1>8. CASE Hold(c, [w EXCEPT !.state = "COMPLETED"], "saving", 0)
    <2>1. LET m == [w EXCEPT !.state = "COMPLETED"]
          IN m \in Workflow /\ Consistent(m)
        BY <1>3, <1>4, EndKeeps
    <2> QED BY <1>5, <1>8, <2>1, HoldKeeps, StepNumbers
<1>9. CASE OnSuccess[n] # 0 /\ Goto(c, w, OnSuccess[n])
    BY <1>3, <1>4, <1>5, <1>6, <1>9, GotoKeeps
<1>10. CASE Hold(c, w, "advancing", OnSuccess[n])
    BY <1>3, <1>4, <1>5, <1>6, <1>10, HoldKeeps
<1>11. CASE Hold(c, w, "advancing", StepAfter(w.current))
    BY <1>3, <1>4, <1>5, <1>7, <1>11, HoldKeeps
<1> QED BY <1>8, <1>9, <1>10, <1>11 DEF CompleteStep, w

\* One turn of the loop in advance_after_success.
LEMMA AdvanceKeeps ==
    ASSUME Inductive, NEW c \in Callers, Advance(c)
    PROVE  Inductive'
<1>1. pc[c] = "advancing" /\ UNCHANGED ctx
    BY DEF Advance, AdvanceThroughRouter, AdvanceToStep, AdvancePastStep, AdvanceToEnd
<1>2. /\ mem[c] \in Workflow /\ InTransit(mem[c])
      /\ nxt[c] \in 0..N /\ ctx[c] \in Outputs
      /\ ctx' \in [Callers -> Outputs]
    BY <1>1 DEF Inductive, TypeOK
<1>3. CASE AdvanceThroughRouter(c)
    <2> DEFINE w == [mem[c] EXCEPT !.status[nxt[c]] = "SKIPPED", !.current = nxt[c]]
    <2>1. nxt[c] \in Steps /\ nxt[c] \in Routers
        BY <1>3, DefinitionAssumption DEF AdvanceThroughRouter
    <2>2. w \in Workflow /\ InTransit(w)
        BY <1>2, <2>1, SkipKeeps
    <2>3. PICK t \in 0..N :
              /\ IsRouteTarget(nxt[c], ctx[c], t)
              /\ \/ t = 0 /\ Hold(c, [w EXCEPT !.state = "COMPLETED"], "saving", 0)
                 \/ t # 0 /\ Goto(c, w, t)
        BY <1>3 DEF AdvanceThroughRouter
    <2> HIDE DEF w
    <2>4. CASE Hold(c, [w EXCEPT !.state = "COMPLETED"], "saving", 0)
        <3>1. LET m == [w EXCEPT !.state = "COMPLETED"]
              IN m \in Workflow /\ Consistent(m)
            BY <2>2, EndKeeps
        <3> QED BY <1>2, <2>4, <3>1, HoldKeeps, StepNumbers
    <2>5. CASE t # 0 /\ Goto(c, w, t)
        BY <1>2, <2>2, <2>5, GotoKeeps, StepNumbers
    <2> QED BY <2>3, <2>4, <2>5
<1>4. CASE AdvanceToStep(c)
    BY <1>2, <1>4, RunKeeps, HoldKeeps, StepNumbers DEF AdvanceToStep
<1>5. CASE AdvancePastStep(c)
    BY <1>2, <1>5, SkipKeeps, HoldKeeps, StepNumbers DEF AdvancePastStep
<1>6. CASE AdvanceToEnd(c)
    <2>1. LET m == [mem[c] EXCEPT !.state = "COMPLETED"]
          IN m \in Workflow /\ Consistent(m)
        BY <1>2, EndKeeps
    <2> QED BY <1>2, <1>6, <2>1, HoldKeeps, StepNumbers DEF AdvanceToEnd
<1> QED BY <1>3, <1>4, <1>5, <1>6 DEF Advance

\* What a caller holds while it saves is consistent, so saving it is safe;
\* dropping it leaves the stored workflow as it was.
LEMMA SaveKeeps ==
    ASSUME Inductive, NEW c \in Callers, Save(c) \/ Abort(c)
    PROVE  Inductive'
<1>1. CASE Save(c)
    BY <1>1, ReleaseKeeps DEF Save, Inductive, TypeOK
<1>2. CASE Abort(c)
    BY <1>2, ReleaseKeeps DEF Abort, Inductive, TypeOK
<1> QED BY <1>1, <1>2

-----------------------------------------------------------------------------
(* The theorems.                                                           *)

\* Whatever callers interleave, lose or overwrite, every stored workflow and
\* every copy about to be stored is consistent.
THEOREM Invariance == Spec => []Inductive
<1>1. Inductive /\ [Next]_vars => Inductive'
    <2> SUFFICES ASSUME Inductive, [Next]_vars PROVE Inductive'
        OBVIOUS
    <2>1. CASE UNCHANGED vars
        BY <2>1
        DEF vars, Inductive, TypeOK, Consistent, FreshUntilStarted, LiveHasStep,
            OnlyCurrentRuns, BudgetsKept, Exhausted, InTransit, Live
    <2>2. ASSUME NEW c \in Callers, Control(c) PROVE Inductive'
        BY <2>2, ControlKeeps
    <2>3. ASSUME NEW c \in Callers, Report(c) PROVE Inductive'
        BY <2>3, FailKeeps, CompleteKeeps DEF Report, ReportOn
    <2>6. ASSUME NEW c \in Callers, Reattempt(c) PROVE Inductive'
        BY <2>6, FailKeeps, CompleteKeeps DEF Reattempt, ReportOn, AwaitingRetry
    <2>4. ASSUME NEW c \in Callers, Advance(c) PROVE Inductive'
        BY <2>4, AdvanceKeeps
    <2>5. ASSUME NEW c \in Callers, Save(c) \/ Abort(c) PROVE Inductive'
        BY <2>5, SaveKeeps
    <2> QED BY <2>1, <2>2, <2>3, <2>4, <2>5, <2>6 DEF Next, Operate
<1> QED BY <1>1, InitInductive, PTL DEF Spec

\* The stored workflow and the callers' copies stay workflow records.
THEOREM TypeCorrect == Spec => []TypeOK
<1>1. Inductive => TypeOK
    BY DEF Inductive
<1> QED BY <1>1, Invariance, PTL

\* A stored workflow that has begun has its one step in hand until it ends
\* (complete_step saves only after advance_after_success is done).
THEOREM OneStep == Spec => []OneStepInHand
<1>1. Inductive => OneStepInHand
    BY DEF Inductive, Consistent, OneStepInHand
<1> QED BY <1>1, Invariance, PTL

\* No step is retried or re-activated beyond its limit, and a workflow fails
\* only with a budget used up (reset_step_for_goto, apply_retry_transition).
THEOREM Failures == Spec => []FailureExplained
<1>1. Inductive => FailureExplained
    BY DEF Inductive, Consistent, FailureExplained
<1> QED BY <1>1, Invariance, PTL

-----------------------------------------------------------------------------
(* A caller that has the workflow to itself, as the only one there is or   *)
(* the only one at work on it, follows WorkflowLifecycle: the copy it is   *)
(* about to save is one step of the lifecycle ahead of what is stored,     *)
(* whatever it went through in memory.                                     *)

Alone == \A c, d \in Callers : c = d
Sole(c) == \A d \in Callers \ {c} : pc[d] = "idle"

\* The step in hand can be reported on, as in WorkflowLifecycle.
CanReport(w) == Live(w) /\ (AwaitingRetry(w) => w.state = "RUNNING")

\* From w to v is one step of the lifecycle.
Begins(w, v) == w.state = "PENDING" /\ v.state = "RUNNING" /\ v.current = 1 /\ ~ AwaitingRetry(v)
Controls(w, v) ==
    /\ \/ w.state = "RUNNING" /\ v.state = "PAUSED"
       \/ w.state = "PAUSED" /\ v.state = "RUNNING"
       \/ w.state \in {"RUNNING", "PAUSED"} /\ v.state = "CANCELLED"
    /\ v.current = w.current /\ (AwaitingRetry(v) <=> AwaitingRetry(w))
Passes(w, v) == CanReport(w) /\ v.state = w.state /\ v.current \in Steps /\ ~ AwaitingRetry(v)
Waits(w, v) == CanReport(w) /\ v.state = w.state /\ v.current = w.current /\ AwaitingRetry(v)
Ends(w, v) == CanReport(w) /\ v.state \in {"COMPLETED", "FAILED"}
Leads(w, v) == Begins(w, v) \/ Controls(w, v) \/ Passes(w, v) \/ Waits(w, v) \/ Ends(w, v)

\* What a caller has in memory leads on from what is stored.
Ahead ==
    \A c \in Callers :
       /\ pc[c] = "saving" => Leads(store, mem[c])
       /\ pc[c] = "advancing" => CanReport(store) /\ mem[c].state = store.state

\* The hand of a workflow: its current step while it is live, or none.
HandOf(w) ==
    IF Live(w)
    THEN [step |-> w.current, waits |-> AwaitingRetry(w)]
    ELSE [step |-> 0, waits |-> FALSE]

LEMMA HandIs ==
    ASSUME NEW w
    PROVE  /\ Live(w) /\ AwaitingRetry(w) => HandOf(w) = [step |-> w.current, waits |-> TRUE]
           /\ Live(w) /\ ~ AwaitingRetry(w) => HandOf(w) = Lifecycle!Running(w.current)
           /\ ~ Live(w) => HandOf(w) = Lifecycle!NoStep
<1>1. AwaitingRetry(w) \in BOOLEAN
    BY DEF AwaitingRetry
<1>2. ASSUME AwaitingRetry(w), Live(w)
      PROVE  HandOf(w) = [step |-> w.current, waits |-> TRUE]
    <2>1. AwaitingRetry(w) = TRUE
        BY <1>1, <1>2
    <2> QED BY ONLY <1>2, <2>1, Zenon DEF HandOf
<1>3. ASSUME ~ AwaitingRetry(w), Live(w)
      PROVE  HandOf(w) = Lifecycle!Running(w.current)
    <2>1. AwaitingRetry(w) = FALSE
        BY <1>1, <1>3
    <2> QED BY ONLY <1>3, <2>1, Zenon DEF HandOf, Lifecycle!Running
<1>4. ~ Live(w) => HandOf(w) = Lifecycle!NoStep
    BY DEF HandOf, Lifecycle!NoStep
<1> QED BY <1>2, <1>3, <1>4

\* A save of a copy that leads on from the store is a step of the lifecycle.
LEMMA LeadsStep ==
    ASSUME TypeOK, Leads(store, store')
    PROVE  Lifecycle!Next
<1>0. Hand = HandOf(store) /\ Hand' = HandOf(store')
    BY Zenon DEF Hand, HandOf, Live, AwaitingRetry
<1>1. /\ Live(store)' /\ AwaitingRetry(store)' => Hand' = [step |-> store'.current, waits |-> TRUE]
      /\ Live(store)' /\ ~ AwaitingRetry(store)' => Hand' = Lifecycle!Running(store'.current)
      /\ ~ Live(store)' => Hand' = Lifecycle!NoStep
      /\ Live(store) /\ AwaitingRetry(store) => Hand = [step |-> store.current, waits |-> TRUE]
      /\ Live(store) /\ ~ AwaitingRetry(store) => Hand = Lifecycle!Running(store.current)
      /\ ~ Live(store) => Hand = Lifecycle!NoStep
    BY <1>0, HandIs, Zenon DEF Live, AwaitingRetry
<1>2. CASE Begins(store, store')
    <2>1. Hand' = Lifecycle!Running(1)
        BY <1>1, <1>2 DEF Begins, Live
    <2> QED BY <1>2, <2>1 DEF Begins, Lifecycle!Next, Lifecycle!Start
<1>3. CASE Controls(store, store')
    <2>1. Hand' = Hand
        <3>1. Live(store) /\ Live(store)' /\ (AwaitingRetry(store)' <=> AwaitingRetry(store))
            BY <1>3 DEF Controls, Live
        <3>2. CASE AwaitingRetry(store)
            BY <1>1, <1>3, <3>1, <3>2 DEF Controls
        <3>3. CASE ~ AwaitingRetry(store)
            BY <1>1, <1>3, <3>1, <3>3 DEF Controls
        <3> QED BY <3>2, <3>3
    <2> QED BY <1>3, <2>1 DEF Controls, Lifecycle!Next, Lifecycle!Control
<1>4. ASSUME CanReport(store)
      PROVE  Lifecycle!Reportable
    <2>1. Live(store) /\ (AwaitingRetry(store) => store.state = "RUNNING")
        BY <1>4 DEF CanReport
    <2>2. Hand.waits => AwaitingRetry(store)
        BY <1>1, <2>1 DEF Lifecycle!Running
    <2> QED BY <2>1, <2>2 DEF Live, Lifecycle!Reportable, Lifecycle!Begun
<1>5. CASE Passes(store, store')
    <2>1. Live(store)' /\ ~ AwaitingRetry(store)' /\ store'.current \in 1..N
        BY <1>5 DEF Passes, CanReport, Live, Steps
    <2>2. Hand' = Lifecycle!Running(store'.current)
        BY <1>1, <2>1
    <2> QED BY <1>4, <1>5, <2>1, <2>2 DEF Passes, Lifecycle!Next, Lifecycle!HandOver
<1>6. CASE Waits(store, store')
    <2>1. Live(store) /\ Live(store)' /\ AwaitingRetry(store)' /\ store'.current = store.current
        BY <1>6 DEF Waits, CanReport, Live
    <2>2. Hand' = [step |-> store.current, waits |-> TRUE]
        BY <1>1, <2>1
    <2>3. Hand' = [Hand EXCEPT !.waits = TRUE]
        <3> DEFINE H(b) == [step |-> store.current, waits |-> b]
        <3>1. ASSUME NEW b, NEW d PROVE [H(b) EXCEPT !.waits = d] = H(d)
            OBVIOUS
        <3>2. Hand = H(TRUE) \/ Hand = H(FALSE)
            BY <1>1, <2>1 DEF Lifecycle!Running
        <3> HIDE DEF H
        <3>3. Hand' = H(TRUE)
            BY <2>2 DEF H
        <3> QED BY <3>1, <3>2, <3>3, Zenon
    <2> QED BY <1>4, <1>6, <2>3 DEF Waits, Lifecycle!Next, Lifecycle!AwaitRetry
<1>7. CASE Ends(store, store')
    <2>1. Hand' = Lifecycle!NoStep
        BY <1>1, <1>7 DEF Ends, Live
    <2> QED BY <1>4, <1>7, <2>1 DEF Ends, Lifecycle!Next, Lifecycle!End
<1> QED BY <1>2, <1>3, <1>5, <1>6, <1>7 DEF Leads


\* What the only caller puts into its copy leads on from the store.
LEMMA HoldLeads ==
    ASSUME Inductive, NEW c \in Callers, Sole(c), NEW w, NEW n, NEW where \in {"saving", "advancing"},
           where = "saving" => Leads(store, w),
           where = "advancing" => CanReport(store) /\ w.state = store.state,
           Hold(c, w, where, n)
    PROVE  Ahead'
<1>1. \A d \in Callers : d # c => pc'[d] = "idle"
    BY DEF Sole, Hold, Inductive, TypeOK
<1>2. mem'[c] = w /\ pc'[c] = where /\ store' = store
    BY DEF Hold, Inductive, TypeOK
<1>3. /\ pc'[c] = "saving" => Leads(store', mem'[c])
      /\ pc'[c] = "advancing" => CanReport(store') /\ mem'[c].state = store'.state
    BY <1>2, Zenon
<1>4. ASSUME NEW d \in Callers
      PROVE  /\ pc'[d] = "saving" => Leads(store', mem'[d])
             /\ pc'[d] = "advancing" => CanReport(store') /\ mem'[d].state = store'.state
    BY <1>1, <1>3, Zenon
<1> QED BY <1>4, Zenon DEF Ahead

\* With nothing in anybody's copy nobody is ahead of anything.
LEMMA ReleaseLeads ==
    ASSUME Inductive, NEW c \in Callers, Sole(c), Release(c)
    PROVE  Ahead'
<1>1. \A d \in Callers : pc'[d] = "idle"
    BY DEF Sole, Release, Inductive, TypeOK
<1> QED BY <1>1 DEF Ahead

LEMMA ControlLeads ==
    ASSUME Inductive, NEW c \in Callers, Sole(c), Control(c)
    PROVE  Ahead'
<1>1. store \in Workflow /\ Consistent(store)
    BY DEF Inductive, TypeOK
<1>2. ASSUME NEW w, Change(c, w), Leads(store, w) PROVE Ahead'
    BY <1>2, HoldLeads DEF Change
<1>3. CASE StartWorkflow(c)
    <2>1. store = NewWorkflow
        BY <1>1, <1>3 DEF StartWorkflow, Consistent, FreshUntilStarted
    <2> DEFINE m == [store EXCEPT !.state = "RUNNING", !.current = 1, !.status[1] = "RUNNING"]
    <2>2. Change(c, m)
        BY <1>3, <2>1, StepNumbers DEF StartWorkflow, NewWorkflow
    <2>3. m.state = "RUNNING" /\ m.current = 1 /\ m.status[1] = "RUNNING"
        BY <1>1, StepNumbers DEF Workflow
    <2> HIDE DEF m
    <2>4. Begins(store, m)
        BY <1>3, <2>3 DEF StartWorkflow, Begins, AwaitingRetry
    <2> QED BY <1>2, <2>2, <2>4 DEF Leads
<1>4. ASSUME NEW s \in {"RUNNING", "PAUSED", "CANCELLED"}, store.state \in {"RUNNING", "PAUSED"},
             Change(c, [store EXCEPT !.state = s]),
             \/ store.state = "RUNNING" /\ s = "PAUSED"
             \/ store.state = "PAUSED" /\ s = "RUNNING"
             \/ s = "CANCELLED"
      PROVE  Ahead'
    <2> DEFINE m == [store EXCEPT !.state = s]
    <2>1. m.state = s /\ m.current = store.current /\ m.status = store.status
        BY <1>1 DEF Workflow
    <2> HIDE DEF m
    <2>2. AwaitingRetry(m) <=> AwaitingRetry(store)
        BY <1>4, <2>1 DEF AwaitingRetry, Live
    <2>3. Controls(store, m)
        BY <1>4, <2>1, <2>2 DEF Controls
    <2> QED BY <1>2, <1>4, <2>3 DEF m, Leads
<1>5. CASE PauseWorkflow(c)
    BY <1>4, <1>5 DEF PauseWorkflow
<1>6. CASE ResumeWorkflow(c)
    BY <1>4, <1>6 DEF ResumeWorkflow
<1>7. CASE CancelWorkflow(c)
    BY <1>4, <1>7 DEF CancelWorkflow
<1> QED BY <1>3, <1>5, <1>6, <1>7 DEF Control

\* Only a step in hand is reported on, and one that waits in a RUNNING workflow.
LEMMA ReportedInHand ==
    ASSUME Inductive, NEW n \in Steps,
           \/ store.status[n] = "RUNNING"
           \/ store.state = "RUNNING" /\ AwaitingRetry(store) /\ n = store.current
    PROVE  CanReport(store) /\ n = store.current
BY DEF Inductive, Consistent, OnlyCurrentRuns, LiveHasStep, CanReport, AwaitingRetry

LEMMA FailLeads ==
    ASSUME Inductive, NEW c \in Callers, Sole(c), NEW n \in Steps, n = store.current,
           CanReport(store), FailStep(c, n)
    PROVE  Ahead'
<1>1. store \in Workflow
    BY DEF Inductive, TypeOK
<1>2. ASSUME NEW w, Change(c, w), Leads(store, w) PROVE Ahead'
    BY <1>2, HoldLeads DEF Change
<1> DEFINE f == [store EXCEPT !.status[n] = "FAILED", !.outputs[n] = NoVerdict, !.state = "FAILED"]
           r == [store EXCEPT !.status[n] = "PENDING", !.outputs[n] = NoVerdict, !.retries[n] = @ + 1]
<1>3. f.state = "FAILED" /\ r.state = store.state /\ r.current = store.current /\ r.status[n] = "PENDING"
    BY <1>1 DEF Workflow
<1>4. Change(c, f) \/ Change(c, r)
    BY DEF FailStep
<1> HIDE DEF f, r
<1>5. Ends(store, f)
    BY <1>3 DEF Ends
<1>6. Waits(store, r)
    BY <1>3 DEF Waits, CanReport, AwaitingRetry, Live
<1> QED BY <1>2, <1>4, <1>5, <1>6 DEF Leads

\* A jump ends the workflow at the loop limit or walks on.
LEMMA GotoLeads ==
    ASSUME Inductive, NEW c \in Callers, Sole(c), NEW w \in Workflow, NEW t \in Steps,
           CanReport(store), w.state = store.state, Goto(c, w, t)
    PROVE  Ahead'
<1>1. [w EXCEPT !.state = "FAILED"].state = "FAILED" /\ ResetForGoto(w, t).state = w.state
    BY DEF Workflow, ResetForGoto
<1>2. Leads(store, [w EXCEPT !.state = "FAILED"])
    BY <1>1 DEF Leads, Ends
<1> QED BY <1>1, <1>2, HoldLeads DEF Goto

LEMMA CompleteLeads ==
    ASSUME Inductive, NEW c \in Callers, Sole(c), NEW n \in Steps, NEW v \in Outputs,
           CanReport(store), CompleteStep(c, n, v)
    PROVE  Ahead'
<1>1. store \in Workflow
    BY DEF Inductive, TypeOK
<1> DEFINE w == Completed(n, v)
<1>2. w \in Workflow /\ w.state = store.state
    BY <1>1, CompletedStep
<1>3. [w EXCEPT !.state = "COMPLETED"].state = "COMPLETED"
    BY <1>2 DEF Workflow
<1>4. Leads(store, [w EXCEPT !.state = "COMPLETED"])
    BY <1>3 DEF Leads, Ends
<1>5. OnSuccess[n] # 0 => OnSuccess[n] \in Steps
    BY StepNumbers, DefinitionAssumption
<1>6. \/ Hold(c, [w EXCEPT !.state = "COMPLETED"], "saving", 0)
      \/ OnSuccess[n] # 0 /\ Goto(c, w, OnSuccess[n])
      \/ Hold(c, w, "advancing", OnSuccess[n])
      \/ Hold(c, w, "advancing", StepAfter(w.current))
    BY DEF CompleteStep
<1> HIDE DEF w
<1> QED BY <1>2, <1>4, <1>5, <1>6, HoldLeads, GotoLeads

LEMMA AdvanceLeads ==
    ASSUME Inductive, Ahead, NEW c \in Callers, Sole(c), Advance(c)
    PROVE  Ahead'
<1>1. pc[c] = "advancing"
    BY DEF Advance, AdvanceThroughRouter, AdvanceToStep, AdvancePastStep, AdvanceToEnd
<1>2. mem[c] \in Workflow /\ CanReport(store) /\ mem[c].state = store.state
    BY <1>1 DEF Ahead, Inductive, TypeOK
<1>3. ASSUME NEW w \in Workflow
      PROVE  Leads(store, [w EXCEPT !.state = "COMPLETED"])
    <2>1. [w EXCEPT !.state = "COMPLETED"].state = "COMPLETED"
        BY DEF Workflow
    <2> QED BY <1>2, <2>1 DEF Leads, Ends
<1>4. CASE AdvanceThroughRouter(c)
    <2> DEFINE w == [mem[c] EXCEPT !.status[nxt[c]] = "SKIPPED", !.current = nxt[c]]
    <2>1. nxt[c] \in Steps
        BY <1>4, DefinitionAssumption, SMTT(60) DEF AdvanceThroughRouter, Steps
    <2>2. w \in Workflow /\ w.state = store.state
        BY <1>2, <2>1, MoveTo, ZenonT(60) DEF StepStatuses
    <2>3. \/ Hold(c, [w EXCEPT !.state = "COMPLETED"], "saving", 0)
          \/ \E t \in Steps : Goto(c, w, t)
        BY <1>4, StepNumbers DEF AdvanceThroughRouter
    <2> HIDE DEF w
    <2> QED BY <1>2, <1>3, <2>2, <2>3, HoldLeads, GotoLeads
<1>5. CASE AdvanceToStep(c)
    <2> DEFINE w == [mem[c] EXCEPT !.status[nxt[c]] = "RUNNING", !.current = nxt[c]]
    <2>1. nxt[c] \in Steps /\ Hold(c, w, "saving", 0)
        BY <1>5 DEF AdvanceToStep
    <2>2. w.state = store.state /\ w.current = nxt[c] /\ w.status[nxt[c]] = "RUNNING"
        <3>1. mem[c].status \in [Steps -> StepStatuses]
            BY <1>2 DEF Workflow
        <3>2. /\ w.state = mem[c].state /\ w.current = nxt[c]
              /\ w.status = [mem[c].status EXCEPT ![nxt[c]] = "RUNNING"]
            BY <1>2 DEF Workflow
        <3> QED BY <1>2, <2>1, <3>1, <3>2
    <2> HIDE DEF w
    <2>3. Passes(store, w)
        BY <1>2, <2>1, <2>2 DEF Passes, AwaitingRetry
    <2> QED BY <2>1, <2>3, HoldLeads DEF Leads
<1>6. CASE AdvancePastStep(c)
    <2> DEFINE w == [mem[c] EXCEPT !.status[nxt[c]] = "SKIPPED", !.current = nxt[c]]
    <2>1. nxt[c] \in Steps /\ Hold(c, w, "advancing", StepAfter(nxt[c]))
        BY <1>6, SMTT(60) DEF AdvancePastStep
    <2>2. w.state = store.state
        BY <1>2, <2>1, MoveTo DEF StepStatuses
    <2> HIDE DEF w
    <2> QED BY <1>2, <2>1, <2>2, HoldLeads
<1>7. CASE AdvanceToEnd(c)
    BY <1>2, <1>3, <1>7, HoldLeads DEF AdvanceToEnd
<1> QED BY <1>4, <1>5, <1>6, <1>7 DEF Advance

LEMMA InitAhead == Init => Ahead /\ Lifecycle!Init
<1>1. Init => Ahead
    BY DEF Init, Ahead
<1>2. Init => store.state = "PENDING" /\ ~ Live(store)
    BY DEF Init, NewWorkflow, Live
<1>3. Hand = HandOf(store)
    BY Zenon DEF Hand, HandOf
<1> QED BY <1>1, <1>2, <1>3, HandIs DEF Lifecycle!Init

\* Only saves are seen by the lifecycle.
LEMMA StoreStays ==
    ASSUME store' = store
    PROVE  UNCHANGED Lifecycle!vars
<1>1. Hand' = Hand
    BY Zenon DEF Hand, Live, AwaitingRetry
<1> QED BY <1>1 DEF Lifecycle!vars

\* With one caller, whatever its operations walk through in memory and wherever
\* they crash, every save of the engine (save_workflow in workflow.py) is a step
\* of the lifecycle: one step in hand is begun, handed over, awaits its retry or
\* ends, and a workflow that ended is never revived.
THEOREM FollowsTheLifecycle == Alone => (Spec => FollowsLifecycle)
<1> SUFFICES ASSUME Alone PROVE Spec => FollowsLifecycle
    OBVIOUS
<1>1. Init => Ahead /\ Lifecycle!Init
    BY InitAhead
<1>2. Inductive /\ Ahead /\ [Next]_vars => Ahead'
    <2> SUFFICES ASSUME Inductive, Ahead, [Next]_vars PROVE Ahead'
        OBVIOUS
    <2>0. \A c \in Callers : Sole(c)
        BY DEF Alone, Sole
    <2>1. CASE UNCHANGED vars
        BY <2>1, Zenon DEF vars, Ahead
    <2>2. ASSUME NEW c \in Callers, Control(c) PROVE Ahead'
        BY <2>2, <2>0, ControlLeads
    <2>3. ASSUME NEW c \in Callers, Report(c) \/ Reattempt(c) PROVE Ahead'
        <3>1. PICK n \in Steps :
                /\ \/ store.status[n] = "RUNNING"
                   \/ store.state = "RUNNING" /\ AwaitingRetry(store) /\ n = store.current
                /\ ReportOn(c, n)
            BY <2>3 DEF Report, Reattempt, AwaitingRetry
        <3>2. CanReport(store) /\ n = store.current
            BY <3>1, ReportedInHand
        <3> QED BY <2>0, <3>1, <3>2, FailLeads, CompleteLeads DEF ReportOn
    <2>4. ASSUME NEW c \in Callers, Advance(c) PROVE Ahead'
        BY <2>0, <2>4, AdvanceLeads
    <2>5. ASSUME NEW c \in Callers, Save(c) \/ Abort(c) PROVE Ahead'
        BY <2>0, <2>5, ReleaseLeads DEF Save, Abort
    <2> QED BY <2>1, <2>2, <2>3, <2>4, <2>5 DEF Next, Operate
<1>3. Inductive /\ Ahead /\ [Next]_vars => [Lifecycle!Next]_(Lifecycle!vars)
    <2> SUFFICES ASSUME Inductive, Ahead, [Next]_vars PROVE [Lifecycle!Next]_(Lifecycle!vars)
        OBVIOUS
    <2>1. CASE store' = store
        BY <2>1, StoreStays
    <2>2. CASE \E c \in Callers : Save(c)
        <3>1. PICK c \in Callers : Save(c)
            BY <2>2
        <3>2. Leads(store, store')
            BY <3>1, SMTT(60) DEF Save, Ahead
        <3> QED BY <3>2, LeadsStep DEF Inductive
    <2>3. ASSUME NEW c \in Callers, Operate(c) \/ Abort(c), ~ Save(c) PROVE store' = store
        BY <2>3, ZenonT(60)
        DEF Operate, Abort, Control, StartWorkflow, PauseWorkflow, ResumeWorkflow, CancelWorkflow,
           Report, Reattempt, ReportOn, FailStep, CompleteStep, Goto, Advance, AdvanceThroughRouter,
           AdvanceToStep, AdvancePastStep, AdvanceToEnd, Change, Hold
    <2>4. UNCHANGED vars => store' = store
        BY DEF vars
    <2> QED BY <2>1, <2>2, <2>3, <2>4 DEF Next
<1> QED BY <1>1, <1>2, <1>3, Invariance, PTL DEF Spec, FollowsLifecycle, Lifecycle!Spec
=============================================================================
