---------------------------- MODULE WorkflowEngine ----------------------------
(***************************************************************************)
(* The workflow engine of nexus/core/workflow.py and its services in       *)
(* nexus/core/workflow_engine/.  One workflow is kept in storage.  Every   *)
(* engine operation loads a copy of it, changes the copy in memory and     *)
(* saves the whole copy back; nothing locks the stored workflow, so two    *)
(* callers may work on copies of the same version.                         *)
(*                                                                         *)
(* complete_step walks from the completed step to the next runnable one:   *)
(* each turn of the loop in advance_after_success is one Advance action on *)
(* the caller's copy.  Steps are numbered 1..N and names are resolved to   *)
(* numbers; 0 stands for "no step" (a name that resolves to nothing, the   *)
(* step after the last).  Agents report one verdict under one key, and     *)
(* conditions and routes are the sets of verdicts that make them true.     *)
(***************************************************************************)
EXTENDS Naturals, Sequences

CONSTANTS
    Callers,            \* threads and coroutines that call the engine
    N,                  \* number of steps of the workflow definition
    Verdicts,           \* what an agent may report
    NoVerdict,          \* outputs that lack the key the conditions read
    Routers,            \* steps with a non-empty `routes` list
    Routes,             \* per router, its `when` routes in order
    DefaultRoute,       \* per router, its default target, or 0
    RunsWhen,           \* per step, the verdicts its `condition` accepts
    OnSuccess,          \* per step, the step `on_success` names, or 0
    FinalSteps,         \* steps with final_step: true
    MaxRetries,         \* per step, step.retry or agent.max_retries
    MaxLoopIterations   \* _MAX_LOOP_ITERATIONS

Steps == 1..N
Outputs == Verdicts \cup {NoVerdict}

ASSUME DefinitionAssumption ==
    /\ N \in Nat \ {0}
    /\ NoVerdict \notin Verdicts
    /\ Routers \subseteq Steps
    /\ Routes \in [Routers -> Seq([when : SUBSET Verdicts, goto : 0..N])]
    /\ DefaultRoute \in [Routers -> 0..N]
    /\ RunsWhen \in [Steps -> SUBSET Verdicts]
    /\ OnSuccess \in [Steps -> 0..N]
    /\ FinalSteps \subseteq Steps
    /\ MaxRetries \in [Steps -> Nat]
    /\ MaxLoopIterations \in Nat

VARIABLES
    store,  \* the workflow as saved in the storage backend
    mem,    \* per caller, the copy its operation works on
    pc,     \* per caller, where its operation is
    nxt,    \* per caller, `next_step` of advance_after_success
    ctx     \* per caller, the verdict conditions and routes see

vars == <<store, mem, pc, nxt, ctx>>

-----------------------------------------------------------------------------
(* The workflow record and the transformations the services apply to it.   *)

WorkflowStates ==
    {"PENDING", "RUNNING", "PAUSED", "COMPLETED", "FAILED", "CANCELLED"}
StepStatuses == {"PENDING", "RUNNING", "COMPLETED", "FAILED", "SKIPPED"}

Workflow ==
    [state : WorkflowStates, current : 0..N,
     status : [Steps -> StepStatuses], iteration : [Steps -> Nat],
     retries : [Steps -> Nat], outputs : [Steps -> Outputs]]

NewWorkflow ==
    [state |-> "PENDING", current |-> 0,
     status |-> [n \in Steps |-> "PENDING"], iteration |-> [n \in Steps |-> 0],
     retries |-> [n \in Steps |-> 0], outputs |-> [n \in Steps |-> NoVerdict]]

\* States in which a step may still be in hand.  CANCELLED is one of them:
\* cancelling leaves the running step RUNNING, and complete_step does not
\* look at the workflow's state.
Live(w) == w.state \in {"RUNNING", "PAUSED", "CANCELLED"}

\* apply_retry_transition put the current step back to PENDING.
AwaitingRetry(w) == Live(w) /\ w.current \in Steps /\ w.status[w.current] = "PENDING"

\* A faulty variant: there is always a next step.
NextNumber(n) == n + 1

\* get_next_step: by number, whatever the status of that step.
StepAfter(n) == IF n + 1 \in Steps THEN n + 1 ELSE 0

\* _build_step_context merges the outputs of the COMPLETED steps in step
\* order, so the last one that carries the key decides what `key` means.
IsContext(w, v) ==
    LET reported == {n \in Steps : /\ w.status[n] = "COMPLETED"
                                   /\ w.outputs[n] # NoVerdict}
    IN \/ reported = {} /\ v = NoVerdict
       \/ \E n \in reported : /\ \A m \in reported : m <= n
                              /\ v = w.outputs[n]

\* A condition that raises (the key is missing) counts as true ...
ConditionHolds(n, v) == v = NoVerdict \/ v \in RunsWhen[n]

\* ... a route that raises counts as false.  The first route that matches
\* wins, wherever the default stands in the list.
IsRouteTarget(r, v, t) ==
    LET Matches(i) == v \in Routes[r][i].when
    IN \/ \E i \in DOMAIN Routes[r] :
             /\ Matches(i) /\ t = Routes[r][i].goto
             /\ \A j \in DOMAIN Routes[r] : j < i => ~ Matches(j)
       \/ (\A i \in DOMAIN Routes[r] : ~ Matches(i)) /\ t = DefaultRoute[r]

\* Faulty variants of the two definitions that follow.
LimitExceeded(w, t) == w.iteration[t] > MaxLoopIterations
ResetKeepsIteration(w, t) ==
    [w EXCEPT !.status[t] = "PENDING", !.outputs[t] = NoVerdict, !.retries[t] = 0]

\* reset_step_for_goto, its guard and its effect.
AtLoopLimit(w, t) == w.iteration[t] >= MaxLoopIterations

ResetForGoto(w, t) ==
    [w EXCEPT !.iteration[t] = @ + 1, !.status[t] = "PENDING",
              !.outputs[t] = NoVerdict, !.retries[t] = 0]

-----------------------------------------------------------------------------
(* Operations that change only the state: load, check, change.  Each ends  *)
(* in pc = "saving"; the save is an action of its own.                     *)

\* The caller's copy, which part of the operation comes next, the step it
\* looks at.
Hold(c, w, where, n) ==
    /\ mem' = [mem EXCEPT ![c] = w]
    /\ pc' = [pc EXCEPT ![c] = where]
    /\ nxt' = [nxt EXCEPT ![c] = n]
    /\ UNCHANGED store

\* An operation that has nothing to evaluate.
Change(c, w) ==
    /\ pc[c] = "idle"
    /\ Hold(c, w, "saving", 0)
    /\ UNCHANGED ctx

StartWorkflow(c) ==
    /\ store.state = "PENDING"
    /\ Change(c, IF store.status[1] = "PENDING"
                 THEN [store EXCEPT !.state = "RUNNING", !.current = 1,
                                    !.status[1] = "RUNNING"]
                 ELSE [store EXCEPT !.state = "RUNNING", !.current = 0])

PauseWorkflow(c) ==
    /\ store.state = "RUNNING"
    /\ Change(c, [store EXCEPT !.state = "PAUSED"])

ResumeWorkflow(c) ==
    /\ store.state = "PAUSED"
    /\ Change(c, [store EXCEPT !.state = "RUNNING"])

\* A faulty variant: no look at the state.
CancelAnyWorkflow(c) == Change(c, [store EXCEPT !.state = "CANCELLED"])

CancelWorkflow(c) ==
    /\ store.state \in {"RUNNING", "PAUSED"}
    /\ Change(c, [store EXCEPT !.state = "CANCELLED"])

\* complete_step with an error: another attempt while the step has retries
\* left, which leaves it PENDING; otherwise the workflow fails.
FailStep(c, n) ==
    \/ /\ store.retries[n] >= MaxRetries[n]
       /\ Change(c, [store EXCEPT !.status[n] = "FAILED", !.outputs[n] = NoVerdict,
                                  !.state = "FAILED"])
    \/ /\ store.retries[n] < MaxRetries[n]
       /\ Change(c, [store EXCEPT !.status[n] = "PENDING", !.outputs[n] = NoVerdict,
                                  !.retries[n] = @ + 1])

-----------------------------------------------------------------------------
(* complete_step without an error, and the loop of advance_after_success.  *)

\* try: reset_step_for_goto(target) -- at the limit the workflow fails.
Goto(c, w, t) ==
    \/ /\ AtLoopLimit(w, t)
       /\ Hold(c, [w EXCEPT !.state = "FAILED"], "saving", 0)
    \/ /\ ~ AtLoopLimit(w, t)
       /\ Hold(c, ResetForGoto(w, t), "advancing", t)

\* A faulty variant: the report is stored and the step stays RUNNING.
ReportedOnly(n, v) == [store EXCEPT !.outputs[n] = v]

\* The step that was completed, with what its agent reported.
Completed(n, v) == [store EXCEPT !.status[n] = "COMPLETED", !.outputs[n] = v]

\* The on_success target is reset unless it is still PENDING; without a
\* target the next step by number follows.
CompleteStep(c, n, v) ==
    LET w == Completed(n, v)
    IN /\ pc[c] = "idle"
       /\ \E k \in Outputs : IsContext(w, k) /\ ctx' = [ctx EXCEPT ![c] = k]
       /\ \/ /\ n \in FinalSteps
             /\ Hold(c, [w EXCEPT !.state = "COMPLETED"], "saving", 0)
          \/ /\ n \notin FinalSteps
             /\ OnSuccess[n] # 0
             /\ w.status[OnSuccess[n]] # "PENDING"
             /\ Goto(c, w, OnSuccess[n])
          \/ /\ n \notin FinalSteps
             /\ OnSuccess[n] # 0
             /\ w.status[OnSuccess[n]] = "PENDING"
             /\ Hold(c, w, "advancing", OnSuccess[n])
          \/ /\ n \notin FinalSteps
             /\ OnSuccess[n] = 0
             /\ Hold(c, w, "advancing", StepAfter(w.current))

\* A router is skipped and its target, PENDING or not, is reset.
AdvanceThroughRouter(c) ==
    /\ pc[c] = "advancing"
    /\ nxt[c] \in Routers
    /\ LET w == [mem[c] EXCEPT !.status[nxt[c]] = "SKIPPED", !.current = nxt[c]]
       IN \E t \in 0..N :
            /\ IsRouteTarget(nxt[c], ctx[c], t)
            /\ \/ /\ t = 0
                  /\ Hold(c, [w EXCEPT !.state = "COMPLETED"], "saving", 0)
               \/ /\ t # 0
                  /\ Goto(c, w, t)
    /\ UNCHANGED ctx

\* A faulty variant: current_step keeps naming an earlier step.
AdvanceWithoutMoving(c) ==
    /\ pc[c] = "advancing"
    /\ nxt[c] \in Steps \ Routers
    /\ ConditionHolds(nxt[c], ctx[c])
    /\ Hold(c, [mem[c] EXCEPT !.status[nxt[c]] = "RUNNING"], "saving", 0)
    /\ UNCHANGED ctx

\* A step whose condition holds becomes the running step.
AdvanceToStep(c) ==
    /\ pc[c] = "advancing"
    /\ nxt[c] \in Steps \ Routers
    /\ ConditionHolds(nxt[c], ctx[c])
    /\ Hold(c, [mem[c] EXCEPT !.status[nxt[c]] = "RUNNING", !.current = nxt[c]],
            "saving", 0)
    /\ UNCHANGED ctx

\* A step whose condition does not hold is skipped.
AdvancePastStep(c) ==
    /\ pc[c] = "advancing"
    /\ nxt[c] \in Steps \ Routers
    /\ ~ ConditionHolds(nxt[c], ctx[c])
    /\ Hold(c, [mem[c] EXCEPT !.status[nxt[c]] = "SKIPPED", !.current = nxt[c]],
            "advancing", StepAfter(nxt[c]))
    /\ UNCHANGED ctx

\* No step is left.
AdvanceToEnd(c) ==
    /\ pc[c] = "advancing"
    /\ nxt[c] = 0
    /\ Hold(c, [mem[c] EXCEPT !.state = "COMPLETED"], "saving", 0)
    /\ UNCHANGED ctx

Advance(c) ==
    \/ AdvanceThroughRouter(c)
    \/ AdvanceToStep(c)
    \/ AdvancePastStep(c)
    \/ AdvanceToEnd(c)

\* The operation is over: the caller holds nothing any more.
Release(c) ==
    /\ mem' = [mem EXCEPT ![c] = NewWorkflow]
    /\ pc' = [pc EXCEPT ![c] = "idle"]
    /\ nxt' = [nxt EXCEPT ![c] = 0]
    /\ ctx' = [ctx EXCEPT ![c] = NoVerdict]

\* save_workflow replaces the stored workflow by the copy, whatever was
\* saved since the copy was loaded.
Save(c) ==
    /\ pc[c] = "saving"
    /\ store' = mem[c]
    /\ Release(c)

\* The process dies, or storage raises, before the save.
Abort(c) ==
    /\ pc[c] # "idle"
    /\ Release(c)
    /\ UNCHANGED store

-----------------------------------------------------------------------------

Init ==
    /\ store = NewWorkflow
    /\ mem = [c \in Callers |-> NewWorkflow]
    /\ pc = [c \in Callers |-> "idle"]
    /\ nxt = [c \in Callers |-> 0]
    /\ ctx = [c \in Callers |-> NoVerdict]

ReportOn(c, n) == FailStep(c, n) \/ \E v \in Outputs : CompleteStep(c, n, v)

\* Callers report on a step they see RUNNING (the state plugin looks for it
\* before it calls the engine).
Report(c) == \E n \in Steps : store.status[n] = "RUNNING" /\ ReportOn(c, n)

\* get_runnable_steps: a caller of the library may find the step that waits
\* for another attempt, run it and report.  Nothing in src/ does.
Reattempt(c) ==
    /\ store.state = "RUNNING"
    /\ AwaitingRetry(store)
    /\ ReportOn(c, store.current)

Control(c) ==
    \/ StartWorkflow(c)
    \/ PauseWorkflow(c)
    \/ ResumeWorkflow(c)
    \/ CancelWorkflow(c)

Operate(c) ==
    Control(c) \/ Report(c) \/ Reattempt(c) \/ Advance(c) \/ Save(c)

Next == \E c \in Callers : Operate(c) \/ Abort(c)

Spec == Init /\ [][Next]_vars
=============================================================================
