--------------------------- MODULE MCWorkflowEngine ---------------------------
(***************************************************************************)
(* Two workflow definitions for TLC.                                       *)
(*                                                                         *)
(* Feedback: 1 develop, 2 review, 3 a router that sends rejected work back *)
(* to 1 and approved work on to 5, by default to 4 (close, a final step);  *)
(* 5 comply, 6 a step that only a "no" runs.  It has the shape of          *)
(* examples/workflows/enterprise_full_workflow.yaml.                       *)
(*                                                                         *)
(* Detour: 1 triage, 2 a router that takes a "no" to 3 and ends the        *)
(* workflow otherwise; 3 debug, which goes back to 1.                      *)
(***************************************************************************)
EXTENDS WorkflowEngineProps

CONSTANTS ok, no

Route(when, goto) == [when |-> when, goto |-> goto]

FeedbackRouters == {3}
FeedbackRoutes == [r \in {3} |-> <<Route({no}, 1), Route({ok}, 5)>>]
FeedbackDefault == [r \in {3} |-> 4]
FeedbackRunsWhen == [n \in 1..6 |-> IF n = 6 THEN {no} ELSE {ok, no}]
FeedbackOnSuccess == [n \in 1..6 |-> CASE n = 1 -> 2 [] n = 2 -> 3 [] OTHER -> 0]
FeedbackFinal == {4}
FeedbackRetries == [n \in 1..6 |-> IF n \in {1, 5} THEN 1 ELSE 0]

DetourRouters == {2}
DetourRoutes == [r \in {2} |-> <<Route({no}, 3)>>]
DetourDefault == [r \in {2} |-> 0]
DetourRunsWhen == [n \in Steps |-> Verdicts]
DetourOnSuccess == [n \in 1..3 |-> IF n = 3 THEN 1 ELSE 0]
DetourRetries == [n \in 1..3 |-> IF n = 3 THEN 1 ELSE 0]
=============================================================================
