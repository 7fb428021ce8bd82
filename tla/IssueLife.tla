------------------------------- MODULE IssueLife -------------------------------
(***************************************************************************)
(* What the delivery promises of an issue: it is opened for a task, its    *)
(* workflow is done, its changes are proposed, merged, and the issue is    *)
(* closed, by the merge or after it, and never dropped; before anything is *)
(* proposed its workflow may be done anew.                                 *)
(***************************************************************************)
CONSTANT Ids

VARIABLE life

Stages == {"none", "open", "done", "proposed", "merged", "closed"}

Init == life = [i \in Ids |-> "none"]

\* One issue is opened, or two at once.
Opens ==
    \E S \in SUBSET {i \in Ids : life[i] = "none"} :
       S # {} /\ life' = [i \in Ids |-> IF i \in S THEN "open" ELSE life[i]]

Moves(i, from, to) == life[i] = from /\ life' = [life EXCEPT ![i] = to]

Next ==
    \/ Opens
    \/ \E i \in Ids :
          \/ Moves(i, "open", "done") \/ Moves(i, "done", "open")
          \/ Moves(i, "done", "proposed") \/ Moves(i, "open", "proposed")
          \/ Moves(i, "proposed", "merged") \/ Moves(i, "proposed", "closed")
          \/ Moves(i, "merged", "closed")

Spec == Init /\ [][Next]_life

===============================================================================
