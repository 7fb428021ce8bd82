-------------------------- MODULE WorkflowEngineProps --------------------------
(***************************************************************************)
(* What must hold of the workflows WorkflowEngine saves.                   *)
(***************************************************************************)
EXTENDS WorkflowEngine

-----------------------------------------------------------------------------
(* Invariants, for any number of callers.                                  *)

\* Type invariant: the stored workflow and every copy are workflow records.
TypeOK ==
    /\ store \in Workflow
    /\ mem \in [Callers -> Workflow]
    /\ pc \in [Callers -> {"idle", "advancing", "saving"}]
    /\ nxt \in [Callers -> 0..N]
    /\ ctx \in [Callers -> Outputs]

\* A workflow not yet started is untouched.
FreshUntilStarted(w) == w.state = "PENDING" => w = NewWorkflow

\* A workflow that is not ended has its current step in hand: running, or
\* back to PENDING because a failed attempt left it a retry.
LiveHasStep(w) ==
    Live(w) => /\ w.current \in Steps
               /\ w.status[w.current] \in {"RUNNING", "PENDING"}
               /\ w.status[w.current] = "PENDING" => w.retries[w.current] > 0

\* No other step is running, and none is once the workflow has ended.
OnlyCurrentRuns(w) ==
    \A n \in Steps : w.status[n] = "RUNNING" => Live(w) /\ n = w.current

\* complete_step saves a workflow only after advance_after_success has
\* activated exactly one step or ended the workflow, so whatever callers
\* interleave, crash or overwrite one another's saves, the stored workflow
\* never loses its step in hand and never has two
\* (workflow_state_engine_plugin.py:749, "single active step expected").
OneStepInHand ==
    /\ FreshUntilStarted(store)
    /\ LiveHasStep(store)
    /\ OnlyCurrentRuns(store)

\* The loop guard of reset_step_for_goto and the retry limit of
\* apply_retry_transition bound what one step can consume, and a workflow
\* fails only because one of them is used up: a step is FAILED after its
\* last retry, or some step was re-activated to the limit.
BudgetsKept(w) ==
    \A n \in Steps : /\ w.iteration[n] <= MaxLoopIterations
                     /\ w.retries[n] <= MaxRetries[n]
Exhausted(w, n) ==
    \/ w.status[n] = "FAILED" /\ w.retries[n] = MaxRetries[n]
    \/ w.iteration[n] = MaxLoopIterations
FailureExplained ==
    /\ BudgetsKept(store)
    /\ store.state = "FAILED" => \E n \in Steps : Exhausted(store, n)
    /\ \A n \in Steps : store.status[n] = "FAILED" => store.state = "FAILED"

\* The strengthening that is inductive: what is stored, and what any caller
\* is about to store, is consistent; a copy that complete_step is still
\* walking through has no step in hand yet.
Consistent(w) ==
    /\ FreshUntilStarted(w)
    /\ LiveHasStep(w)
    /\ OnlyCurrentRuns(w)
    /\ BudgetsKept(w)
    /\ w.state = "FAILED" => \E n \in Steps : Exhausted(w, n)
    /\ \A n \in Steps : w.status[n] = "FAILED" => w.state = "FAILED"
InTransit(w) ==
    /\ Live(w)
    /\ \A n \in Steps : w.status[n] \notin {"RUNNING", "FAILED"}
    /\ BudgetsKept(w)
Inductive ==
    /\ TypeOK
    /\ Consistent(store)
    /\ \A c \in Callers : /\ pc[c] = "saving" => Consistent(mem[c])
                          /\ pc[c] = "advancing" => InTransit(mem[c])

-----------------------------------------------------------------------------
(* Properties of a caller that has the workflow to itself.                 *)

\* The stored workflow follows the lifecycle: every save is one of its steps
\* and no save takes an ended workflow back.
Hand ==
    IF Live(store)
    THEN [step |-> store.current, waits |-> AwaitingRetry(store)]
    ELSE [step |-> 0, waits |-> FALSE]
Lifecycle == INSTANCE WorkflowLifecycle WITH state <- store.state, hand <- Hand
FollowsLifecycle == Lifecycle!Spec

\* The conditions and routes evaluated after a step see what that step
\* reported: _build_step_context promises "the most-recently-completed
\* step's outputs" (workflow.py:384).
RoutesOnLatestReport ==
    [][\A c \in Callers, n \in Steps, v \in Verdicts :
           CompleteStep(c, n, v) => ctx'[c] = v]_vars

-----------------------------------------------------------------------------
(* Liveness.  An operation that was begun runs to its end (no crash), a    *)
(* workflow that waits is started and resumed, and an agent whose step is  *)
(* RUNNING eventually reports, however often the workflow is paused and    *)
(* resumed meanwhile.  Nothing is assumed about cancelling or pausing, and *)
(* nothing about Reattempt, which no code of the repository calls.         *)

Uninterrupted == \E c \in Callers : Operate(c)

Fairness ==
    \A c \in Callers : /\ WF_vars(Advance(c))
                       /\ WF_vars(Save(c))
                       /\ WF_vars(StartWorkflow(c))
                       /\ SF_vars(ResumeWorkflow(c))
                       /\ SF_vars(Report(c))

FairSpec == Init /\ [][Uninterrupted]_vars /\ Fairness

\* Feedback loops end: whatever the agents keep answering, the loop guard
\* takes a started workflow to its end, unless a failed step waits for its
\* next attempt.
LoopsEnd == Live(store) ~> (store.state \in {"COMPLETED", "FAILED"} \/ AwaitingRetry(store))

\* A step that was put back for another attempt is attempted again
\* (README.md:27, "Auto-retry").
RetryIsAttempted == AwaitingRetry(store) ~> ~ AwaitingRetry(store)
=============================================================================
