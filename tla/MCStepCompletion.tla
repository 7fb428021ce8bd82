---------------------------- MODULE MCStepCompletion ----------------------------
(***************************************************************************)
(* A feedback loop for TLC: 1 develop, 2 review, 3 a router that sends     *)
(* rejected work back to 1 and ends the workflow otherwise.  Steps name    *)
(* their successor, as in examples/workflows/, so that every activation of *)
(* a step after the first counts as an iteration.                          *)
(***************************************************************************)
EXTENDS StepCompletionProps

CONSTANTS ok, no

LoopRouters == {3}
LoopRoutes == [r \in {3} |-> <<[when |-> {no}, goto |-> 1]>>]
LoopDefault == [r \in {3} |-> 0]
LoopRunsWhen == [n \in Steps |-> Verdicts]
LoopOnSuccess == [n \in 1..3 |-> IF n < 3 THEN n + 1 ELSE 0]
LoopRetries == [n \in 1..3 |-> 0]

\* A smaller loop: 1 develop and 2 the router.
PairRouters == {2}
PairRoutes == [r \in {2} |-> <<[when |-> {no}, goto |-> 1]>>]
PairDefault == [r \in {2} |-> 0]
PairRunsWhen == [n \in Steps |-> Verdicts]
PairOnSuccess == [n \in 1..2 |-> IF n = 1 THEN 2 ELSE 0]
PairRetries == [n \in 1..2 |-> 0]

\* Steps in a line, none of which names its successor.
LineRoutes == [r \in {} |-> <<>>]
LineDefault == [r \in {} |-> 0]
LineRunsWhen == [n \in Steps |-> Verdicts]
LineOnSuccess == [n \in Steps |-> 0]
LineRetries == [n \in Steps |-> 0]

\* The scan delivers a completion file under the key of its step
\* (build_completion_step_dedup_key), whichever iteration wrote it.
ScanEvents == [p \in Processes |-> [i \in 1..MaxReports |-> {"file"}]]

\* The scan delivers a report under the key of its step, the startup check
\* under the id of its comment.
ProcessorEvents ==
    [p \in Processes |-> [i \in 1..MaxReports |-> {"file", <<"c1", "c2", "c3">>[i]}]]

\* The processor finds a report as a completion file and as a comment; the
\* bot's reconcile delivers it without an event.
DeploymentEvents ==
    [p \in Processes |-> [i \in 1..MaxReports |->
        IF p = "processor" THEN {"file", "c1"} ELSE {""}]]

\* A workflow that was created and started.
StartedInit ==
    /\ store = [NewWorkflow EXCEPT !.state = "RUNNING", !.current = 1,
                                   !.status[1] = "RUNNING"]
    /\ mem = [c \in Callers |-> NewWorkflow]
    /\ pc = [c \in Callers |-> "idle"]
    /\ nxt = [c \in Callers |-> 0]
    /\ ctx = [c \in Callers |-> NoVerdict]
    /\ NothingReported
StartedSpec == StartedInit /\ [][CompletionNext]_allVars

OneProcess == [c \in Callers |-> "processor"]
CONSTANT c1
TwoProcesses == [c \in Callers |-> IF c = c1 THEN "processor" ELSE "bot"]
=============================================================================
