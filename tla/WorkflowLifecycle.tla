--------------------------- MODULE WorkflowLifecycle ---------------------------
(***************************************************************************)
(* What the engine promises about one workflow, without its steps' data:   *)
(* a workflow that has started has exactly one step in hand until it ends, *)
(* that step is either being run or waits for another attempt, and an      *)
(* ended workflow never changes again.  Pausing and cancelling change the  *)
(* state and leave the step in hand.                                       *)
(***************************************************************************)
EXTENDS Naturals

CONSTANT N      \* number of steps

VARIABLES
    state,      \* the state of the workflow
    hand        \* the step in hand and whether it waits; step 0 is none

vars == <<state, hand>>

NoStep == [step |-> 0, waits |-> FALSE]
Running(n) == [step |-> n, waits |-> FALSE]
Begun == state \in {"RUNNING", "PAUSED", "CANCELLED"}

Init == state = "PENDING" /\ hand = NoStep

\* The step in hand can be reported on: it runs, or it waits for another
\* attempt in a workflow that is neither paused nor cancelled.
Reportable == Begun /\ (hand.waits => state = "RUNNING")

Start == state = "PENDING" /\ state' = "RUNNING" /\ hand' = Running(1)

Control ==
    /\ \/ state = "RUNNING" /\ state' = "PAUSED"
       \/ state = "PAUSED" /\ state' = "RUNNING"
       \/ state \in {"RUNNING", "PAUSED"} /\ state' = "CANCELLED"
    /\ UNCHANGED hand

\* The step in hand is done and another one (or the same again) follows.
HandOver ==
    /\ Reportable
    /\ \E n \in 1..N : hand' = Running(n)
    /\ UNCHANGED state

\* The step in hand failed and waits for its next attempt.
AwaitRetry ==
    /\ Reportable
    /\ hand' = [hand EXCEPT !.waits = TRUE]
    /\ UNCHANGED state

End ==
    /\ Reportable
    /\ state' \in {"COMPLETED", "FAILED"}
    /\ hand' = NoStep

Next == Start \/ Control \/ HandOver \/ AwaitRetry \/ End

Spec == Init /\ [][Next]_vars
=============================================================================
