------------------------------- MODULE MCDelivery -------------------------------
(* An instance of the delivery: two tasks of one title.                    *)
EXTENDS IssueDeliveryProps

CONSTANTS f1, f2

Files == <<f1, f2>>

OneTitle == [t \in Tasks \ WebhookTasks |-> "title"]

===============================================================================
