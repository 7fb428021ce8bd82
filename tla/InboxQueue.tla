------------------------------- MODULE InboxQueue -------------------------------
(***************************************************************************)
(* The inbox queue in Postgres: nexus/core/integrations/inbox_queue.py and *)
(* the loop of nexus/core/inbox/inbox_processor_entry_service.py that      *)
(* drains it.                                                              *)
(*                                                                         *)
(* The bot and the webhook server enqueue, the inbox processor claims.     *)
(* The look for an earlier row, the insert, which gives the new row its    *)
(* id, and the commit, which shows it, are steps of the client; a claim is *)
(* one transaction.  A task stands for project, workspace and file name;   *)
(* rows of one task have the same content, and then the search for an      *)
(* exact copy finds nothing the first look did not.                        *)
(***************************************************************************)
EXTENDS Integers, FiniteSets, Functions

CONSTANTS
    Tasks,          \* tasks that are submitted, by file name
    NoTask,
    ClaimLimit,     \* rows taken by one claim
    MaxRows,        \* bound on the rows
    FirstTasks,     \* bound: what may be submitted first, for the tasks are alike
    MaxFails,       \* bound on failing calls and crashes
    MaxAsked        \* bound on further submissions and requests of users

ASSUME QueueAssumption ==
    /\ IsFiniteSet(Tasks) /\ NoTask \notin Tasks
    /\ ClaimLimit \in Nat \ {0} /\ MaxRows \in Nat \ {0}
    /\ MaxFails \in Nat /\ MaxAsked \in Nat

VARIABLES
    rows,       \* the table, by id
    looked,     \* per task, how many clients have looked and will insert it
    batch,      \* ids claimed by the processor and not dealt with
    left,       \* history: claimed rows that nobody will settle any more: the
                \* processor died over them or could not write how they ended
    overtaken,  \* history: rows that were not committed yet when a later row of
                \* their task was claimed
    turns       \* history: how much of MaxFails and MaxAsked has happened

queueVars == <<rows, looked, batch, left, overtaken>>

RowIds == 1..MaxRows
NoRow == [task |-> NoTask, st |-> "absent", dup |-> FALSE]
Numbered == {n \in RowIds : rows[n].st # "absent"}
Uncommitted == {n \in RowIds : rows[n].st = "uncommitted"}
Stored == Numbered \ Uncommitted
RowsOf(t) == {n \in Stored : rows[n].task = t}

Works == turns' = turns
Fails == turns.fails < MaxFails /\ turns' = [turns EXCEPT !.fails = @ + 1]
Asked == turns.asked < MaxAsked /\ turns' = [turns EXCEPT !.asked = @ + 1]

Last(S) == CHOOSE n \in S : \A m \in S : m <= n
First(S) == CHOOSE n \in S : \A m \in S : n <= m

-----------------------------------------------------------------------------
(* enqueue_task                                                            *)

\* The last row of the task does not suppress the new one: there is none, it
\* failed, or it is done, and the window in which that counts may have passed.
Accepts(t) == RowsOf(t) # {} => rows[Last(RowsOf(t))].st \in {"failed", "done"}

\* How many rows are looked for and not yet inserted.
Inserting == Cardinality({l \in Tasks \X (1..MaxRows) : l[2] <= looked[l[1]]})

RoomForRow == Cardinality(Numbered) + Inserting < MaxRows

LooksFor(t) == looked' = [looked EXCEPT ![t] = IF Accepts(t) THEN @ + 1 ELSE @]

\* The first submission is not counted.
NothingSubmitted == Numbered = {} /\ Inserting = 0
Submission == IF NothingSubmitted THEN Works ELSE Asked

EnqueueLooks(t) ==
    /\ RoomForRow /\ Accepts(t)
    /\ NothingSubmitted => t \in FirstTasks
    /\ Submission
    /\ LooksFor(t)
    /\ UNCHANGED <<rows, batch, left, overtaken>>

EnqueueInserts(t) ==
    /\ looked[t] > 0
    /\ rows' = [rows EXCEPT ![First(RowIds \ Numbered)] =
                  [NoRow EXCEPT !.task = t, !.st = "uncommitted"]]
    /\ looked' = [looked EXCEPT ![t] = @ - 1]
    /\ Works
    /\ UNCHANGED <<batch, left, overtaken>>

\* A commit that fails is one that never comes.
EnqueueCommits(n) ==
    /\ n \in Uncommitted
    /\ rows' = [rows EXCEPT ![n].st = "pending"]
    /\ Works
    /\ UNCHANGED <<looked, batch, left, overtaken>>

-----------------------------------------------------------------------------
(* claim_pending_tasks, mark_task_done and mark_task_failed                *)

\* Faulty variant: rows that a dead processor left behind are taken again.
PendingOrLeft == {n \in Stored : rows[n].st = "pending" \/ n \in left}

Pending == {n \in Stored : rows[n].st = "pending"}

\* Faulty variant: only rows that are still at work count.
PriorAtWork(n) ==
    \E m \in RowsOf(rows[n].task) : m < n /\ rows[m].st \in {"pending", "processing"}

\* An earlier row of the task, whatever its age, that has not failed.
Prior(n) ==
    \E m \in RowsOf(rows[n].task) : m < n /\ rows[m].st \in {"pending", "processing", "done"}

\* The oldest rows that are no duplicates, up to the limit.
Claimed ==
    LET fresh == {n \in Pending : ~Prior(n)}
    IN  {n \in fresh : Cardinality({m \in fresh : m < n}) < ClaimLimit}

\* One transaction: duplicates are closed as done, the others are taken.
ClaimPending ==
    /\ batch = {} /\ Pending # {}
    /\ rows' = [n \in RowIds |->
                  IF n \in Pending /\ Prior(n) THEN [rows[n] EXCEPT !.st = "done", !.dup = TRUE]
                  ELSE IF n \in Claimed THEN [rows[n] EXCEPT !.st = "processing"]
                  ELSE rows[n]]
    /\ batch' = Claimed
    /\ overtaken' = overtaken \cup
          {m \in Uncommitted : \E n \in Claimed : m < n /\ rows[m].task = rows[n].task}
    /\ Works
    /\ UNCHANGED <<looked, left>>

\* The row in hand: the batch is worked off in the order of the ids.
InHand == First(batch)

\* How a row may end when something fails: a mark as done that raises is
\* followed by a mark as failed, and one that raises as well is suppressed.
Ends == {"done", "failed", "processing"}

Unsettled(st) == IF st = "processing" THEN left \cup {InHand} ELSE left

\* Faulty variant: only what succeeds is written to the table.
SettleDone(st) ==
    /\ rows' = IF st = "done" THEN [rows EXCEPT ![InHand].st = st] ELSE rows
    /\ batch' = batch \ {InHand}
    /\ left' = Unsettled(st)
    /\ UNCHANGED overtaken

\* Faulty variant: the row stays in hand.
SettleOnly(st) ==
    /\ rows' = [rows EXCEPT ![InHand].st = st]
    /\ left' = Unsettled(st)
    /\ UNCHANGED <<batch, overtaken>>

Settle(st) ==
    /\ rows' = [rows EXCEPT ![InHand].st = st]
    /\ batch' = batch \ {InHand}
    /\ left' = Unsettled(st)
    /\ UNCHANGED overtaken

QueueInit ==
    /\ rows = [n \in RowIds |-> NoRow]
    /\ looked = [t \in Tasks |-> 0]
    /\ batch = {} /\ left = {} /\ overtaken = {}
    /\ turns = [fails |-> 0, asked |-> 0]

===============================================================================
