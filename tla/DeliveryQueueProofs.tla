-------------------------- MODULE DeliveryQueueProofs --------------------------
(***************************************************************************)
(* Proofs about the way from a task to an issue with a workflow, for any   *)
(* tasks, titles and repositories and any bounds: the inbox queue and the  *)
(* dispatch, beside everything else that happens in the delivery.          *)
(***************************************************************************)
EXTENDS IssueDeliveryProps, FiniteSetTheorems, TLAPS

-----------------------------------------------------------------------------
(* The inductive invariant.                                                *)

RowType == [task : Tasks \cup {NoTask}, dup : BOOLEAN,
            st : {"absent", "uncommitted", "pending", "processing", "done", "failed"}]

\* The ids are given in order, only a closed row is a duplicate, and there is room
\* for every row that a client has yet to insert.
QueueInv ==
    /\ rows \in [RowIds -> RowType]
    /\ looked \in [Tasks -> 0..MaxRows]
    /\ batch \subseteq {n \in RowIds : rows[n].st = "processing"}
    /\ \A n \in RowIds :
          /\ rows[n].st = "absent" <=> rows[n].task = NoTask
          /\ rows[n].dup => rows[n].st = "done"
          /\ rows[n].st # "absent" => \A m \in RowIds : m < n => rows[m].st # "absent"
    /\ Cardinality(Numbered) + Inserting <= MaxRows

IssueType == [task : Tasks \cup {NoTask}, open : BOOLEAN, labels : BOOLEAN, plan : BOOLEAN]

\* A row is in hand from its preparation on, and an issue from its creation on.
DispatchInv ==
    /\ issue \in [IssueIds -> IssueType]
    /\ wf \in [IssueIds -> {"none", "pending", "running", "completed"}]
    /\ agent \in [IssueIds -> BOOLEAN]
    /\ at \in {"idle", "create", "workflow", "start", "launch"}
    /\ at # "idle" => batch # {} /\ Task \notin WebhookTasks
    /\ target \in IssueIds \cup {NoId}
    /\ at \in {"workflow", "start", "launch"} => target \in Made
    /\ notices \subseteq {"opened", "labeled"} \X Made
    /\ blind \in Nat

-----------------------------------------------------------------------------
(* Operators of the model.                                                 *)

\* A set of numbers that is not empty has a first member.
LEMMA FirstIsLeast ==
    ASSUME NEW S \in SUBSET Nat, S # {}
    PROVE  First(S) \in S /\ \A m \in S : First(S) <= m
<1>1. PICK n \in S : \A m \in S : <<m, n>> \notin OpToRel(<, Nat)
    BY NatLessThanWellFounded, WFMin, Zenon
<1>2. \A m \in S : n <= m
    <2> TAKE m \in S
    <2>1. ~(m < n)
        BY <1>1 DEF OpToRel
    <2> QED BY <2>1
<1> QED BY <1>2 DEF First

\* Ids are numbers, and there are finitely many.
LEMMA Ids ==
    /\ RowIds \subseteq Nat /\ IsFiniteSet(RowIds)
    /\ Cardinality(RowIds) = MaxRows
    /\ IssueIds \subseteq Nat /\ IsFiniteSet(IssueIds)
    /\ NoId \notin IssueIds /\ NoId \in Nat
<1>1. MaxRows \in Nat \ {0} /\ MaxIssues \in Nat \ {0}
    BY QueueAssumption, DispatchAssumption
<1>2. IsFiniteSet(1..MaxRows) /\ Cardinality(1..MaxRows) = MaxRows
    BY <1>1, FS_Interval
<1>3. IsFiniteSet(1..MaxIssues)
    BY <1>1, FS_Interval
<1> QED BY <1>1, <1>2, <1>3 DEF RowIds, IssueIds, NoId

\* The numbered rows are finitely many.
LEMMA NumberedIsFinite == IsFiniteSet(Numbered) /\ Cardinality(Numbered) \in Nat
<1>1. Numbered \in SUBSET RowIds
    BY DEF Numbered
<1> QED BY <1>1, Ids, FS_Subset, FS_CardinalityType

\* Every issue's webhook enqueues a task of its own.
LEMMA WebhookFiles ==
    /\ \A i \in IssueIds : IssueFile[i] \in Tasks /\ IssueFile[i] \in WebhookTasks
    /\ \A i, j \in IssueIds : IssueFile[i] = IssueFile[j] => i = j
    /\ \A t \in WebhookTasks : \E i \in IssueIds : IssueFile[i] = t
    /\ WebhookTasks \subseteq Tasks
<1>1. IssueFile \in [IssueIds -> Tasks] /\ IsInjective(IssueFile)
    BY DispatchAssumption DEF Injection, IssueIds
<1> QED BY <1>1 DEF IsInjective, WebhookTasks, Range

\* The pairs that Inserting counts.
InsertingOf(f) == {l \in Tasks \X (1..MaxRows) : l[2] <= f[l[1]]}

\* They are finitely many, and at least as many as the looks of any task.
LEMMA InsertingIsCount ==
    ASSUME NEW f \in [Tasks -> 0..MaxRows]
    PROVE  /\ IsFiniteSet(InsertingOf(f)) /\ Cardinality(InsertingOf(f)) \in Nat
           /\ \A t \in Tasks : f[t] <= Cardinality(InsertingOf(f))
<1> DEFINE P == Tasks \X (1..MaxRows)
<1>1. IsFiniteSet(P)
    BY Ids, QueueAssumption, FS_Product DEF RowIds
<1>2. IsFiniteSet(InsertingOf(f)) /\ Cardinality(InsertingOf(f)) \in Nat
    <2>1. InsertingOf(f) \in SUBSET P
        BY DEF InsertingOf
    <2> HIDE DEF P
    <2> QED BY <1>1, <2>1, FS_Subset, FS_CardinalityType
<1>3. ASSUME NEW t \in Tasks PROVE f[t] <= Cardinality(InsertingOf(f))
    <2> DEFINE k == f[t]
               S == {t} \X (1..k)
    <2>1. k \in 0..MaxRows /\ MaxRows \in Nat
        BY QueueAssumption
    <2>2. IsFiniteSet({t}) /\ Cardinality({t}) = 1
        BY FS_Singleton
    <2>3. IsFiniteSet(1..k) /\ Cardinality(1..k) = k
        BY <2>1, FS_Interval
    <2>4. Cardinality(S) = Cardinality({t}) * Cardinality(1..k)
        BY <2>2, <2>3, FS_Product
    <2>5. Cardinality(S) = k
        BY <2>1, <2>2, <2>3, <2>4
    <2>6. S \in SUBSET InsertingOf(f)
        BY <2>1 DEF InsertingOf
    <2>7. Cardinality(S) <= Cardinality(InsertingOf(f))
        <3> HIDE DEF S
        <3> QED BY <1>2, <2>6, FS_Subset
    <2> QED BY <2>5, <2>7
<1> QED BY <1>2, <1>3

\* A further look is one more.
LEMMA InsertingGrows ==
    ASSUME NEW f \in [Tasks -> 0..MaxRows], NEW t \in Tasks, f[t] < MaxRows
    PROVE  Cardinality(InsertingOf([f EXCEPT ![t] = @ + 1]))
              = Cardinality(InsertingOf(f)) + 1
<1> DEFINE g == [f EXCEPT ![t] = @ + 1]
           l == <<t, f[t] + 1>>
<1>1. l \notin InsertingOf(f)
    BY QueueAssumption DEF InsertingOf
<1>2. InsertingOf(g) = InsertingOf(f) \cup {l}
    BY QueueAssumption DEF InsertingOf
<1>3. IsFiniteSet(InsertingOf(f))
    BY InsertingIsCount
<1> HIDE DEF l, g
<1>4. Cardinality(InsertingOf(f) \cup {l}) = Cardinality(InsertingOf(f)) + 1
    BY <1>1, <1>3, FS_AddElement
<1>5. Cardinality(InsertingOf(g)) = Cardinality(InsertingOf(f)) + 1
    BY <1>2, <1>4
<1> QED BY <1>5 DEF g

\* An insert is one less.
LEMMA InsertingShrinks ==
    ASSUME NEW f \in [Tasks -> 0..MaxRows], NEW t \in Tasks, f[t] > 0
    PROVE  Cardinality(InsertingOf([f EXCEPT ![t] = @ - 1]))
              = Cardinality(InsertingOf(f)) - 1
<1> DEFINE g == [f EXCEPT ![t] = @ - 1]
<1>1. g \in [Tasks -> 0..MaxRows] /\ g[t] < MaxRows
    BY QueueAssumption
<1>2. [g EXCEPT ![t] = @ + 1] = f
    <2>1. \A u \in Tasks : f[u] = [g EXCEPT ![t] = @ + 1][u]
        BY QueueAssumption
    <2>2. f = [u \in Tasks |-> f[u]]
        OBVIOUS
    <2> QED BY <2>1, <2>2
<1>3. Cardinality(InsertingOf([g EXCEPT ![t] = @ + 1])) = Cardinality(InsertingOf(g)) + 1
    <2> HIDE DEF g
    <2> QED BY <1>1, InsertingGrows
<1>4. Cardinality(InsertingOf(g)) \in Nat
    <2> HIDE DEF g
    <2> QED BY <1>1, InsertingIsCount
<1>5. Cardinality(InsertingOf(f)) = Cardinality(InsertingOf(g)) + 1
    BY <1>2, <1>3
<1>6. Cardinality(InsertingOf(g)) = Cardinality(InsertingOf(f)) - 1
    BY <1>4, <1>5
<1> QED BY <1>6 DEF g

-----------------------------------------------------------------------------
(* The queue.                                                              *)

\* A merge, or its event, closes an issue.
ClosesIssue ==
    \E p : /\ <<p, "merged">> \in events \cup events'
           /\ issue' = [issue EXCEPT ![p[1]].open = FALSE]

\* The steps of finalisations, of the merge queue and of worktrees.
Elsewhere ==
    \/ \E f \in Editors : Finalizes(f) \/ Saves(f)
    \/ Merges \/ PressLoads \/ Users
    \/ \E i \in IssueIds : IssueClosed(i)
    \/ \E p \in PRs :
          \/ AgentWrites(p) \/ Removes("webhook", p)
          \/ PRClosed(p, "merged") \/ PRClosed(p, "closed")

LEMMA ElsewhereStays ==
    ASSUME Elsewhere
    PROVE  /\ UNCHANGED <<queueVars, wf, by, agent, at, target, notices, blind>>
           /\ UNCHANGED issue \/ ClosesIssue
<1>1. ASSUME NEW f \in Editors, Finalizes(f)
      PROVE  UNCHANGED <<queueVars, dispatchVars>>
    BY <1>1 DEF Finalizes, FinalizesRepo, CleansUp, FinalizeQueues, CleansBegin, FinalizeEnds, Removes
<1>2. ASSUME NEW p, MergesPR(p) PROVE UNCHANGED issue \/ ClosesIssue
    BY <1>2 DEF MergesPR, ClosesIssue
<1>3. CASE Merges
    <2>1. CASE PassBegins \/ MergeMarks
        BY <2>1 DEF PassBegins, MergeMarks, dispatchVars
    <2>2. CASE MergeCalls
        BY <2>2, <1>2 DEF MergeCalls, apart
    <2> QED BY <1>3, <2>1, <2>2 DEF Merges
<1>4. CASE Users
    <2>1. CASE \E p \in PRs : HumanMerges(p) \/ HumanRejects(p)
        BY <2>1, <1>2 DEF HumanMerges, HumanRejects, apart
    <2> QED BY <1>4, <2>1 DEF Users, ContinueFinalizes, Press, dispatchVars
<1>5. ASSUME NEW p \in PRs, PRClosed(p, "merged") \/ PRClosed(p, "closed")
      PROVE  /\ UNCHANGED <<queueVars, wf, by, agent, at, target, notices, blind>>
             /\ UNCHANGED issue \/ ClosesIssue
    BY <1>5 DEF PRClosed, Closes, ClosesIssue, apart
<1> QED BY <1>1, <1>3, <1>4, <1>5
    DEF Elsewhere, Saves, PressLoads, IssueClosed, AgentWrites, Removes, dispatchVars

\* Every step is one of these or one of the inbox, the dispatch, the agents or
\* the issues' webhooks.
LEMMA StepCases ==
    ASSUME [Next]_vars
    PROVE  \/ Elsewhere \/ Claims \/ Dispatches \/ ProcessorCrashes \/ Submits
           \/ \E i \in IssueIds :
                 \/ WorkflowDone(i) \/ ReviewerEnds(i) \/ OpensByHand(i) \/ RequestsPlan(i)
                 \/ IssueEvent("opened", i) \/ IssueEvent("labeled", i)
           \/ \E p \in PRs : PROpened(p)
           \/ UNCHANGED vars
BY Zenon DEF Next, Processor, Bot, Elsewhere, Editors

\* What a step may do to the queue.
Looks(t) == RoomForRow /\ LooksFor(t) /\ UNCHANGED <<rows, batch, overtaken>>
Settles == batch # {} /\ (\E st \in Ends : Settle(st)) /\ UNCHANGED looked
Drops == batch' = {} /\ UNCHANGED <<rows, looked, overtaken>>

QueueMove ==
    \/ UNCHANGED <<rows, looked, batch, overtaken>>
    \/ \E t \in Tasks : Looks(t) \/ EnqueueInserts(t)
    \/ \E n \in RowIds : EnqueueCommits(n)
    \/ ClaimPending \/ Settles \/ Drops

\* The dispatch of a row settles it at most.
LEMMA DispatchMoves ==
    ASSUME DispatchInv, Dispatches
    PROVE  UNCHANGED <<rows, looked, batch, overtaken>> \/ Settles
<1>1. ASSUME UNCHANGED looked, batch # {}, \E st \in Ends : Settle(st) PROVE Settles
    BY <1>1 DEF Settles
<1>2. batch # {}
    BY DEF DispatchInv, Dispatches, PrepareTask, CreateIssue, CreateWorkflow, StartWorkflow,
           LaunchFirst, WebhookTask
<1>3. CASE PrepareTask \/ CreateIssue
    BY <1>1, <1>2, <1>3 DEF PrepareTask, CreateIssue, queueVars
<1>4. CASE CreateWorkflow \/ StartWorkflow
    BY <1>1, <1>2, <1>4 DEF CreateWorkflow, StartWorkflow, queueVars
<1>5. CASE LaunchFirst \/ WebhookTask
    BY <1>1, <1>2, <1>5 DEF LaunchFirst, WebhookTask, Ends
<1> QED BY <1>3, <1>4, <1>5 DEF Dispatches

\* Every step does one of these things to the queue.
LEMMA QueueMoves ==
    ASSUME DispatchInv, [Next]_vars
    PROVE  QueueMove
<1>1. CASE Elsewhere
    BY <1>1, ElsewhereStays DEF queueVars, QueueMove
<1>2. CASE Claims
    BY <1>2 DEF Claims, QueueMove
<1>3. CASE Dispatches
    BY <1>3, DispatchMoves DEF QueueMove
<1>4. CASE ProcessorCrashes
    BY <1>4 DEF ProcessorCrashes, QueueMove, Drops
<1>5. CASE Submits
    BY <1>5 DEF Submits, EnqueueLooks, Looks, QueueMove
<1>6. CASE \E i \in IssueIds : IssueEvent("opened", i) \/ IssueEvent("labeled", i)
    BY <1>6, WebhookFiles DEF IssueEvent, Looks, QueueMove
<1>7. CASE \/ \E i \in IssueIds :
                 WorkflowDone(i) \/ ReviewerEnds(i) \/ OpensByHand(i) \/ RequestsPlan(i)
           \/ \E p \in PRs : PROpened(p)
           \/ UNCHANGED vars
    BY <1>7 DEF WorkflowDone, ReviewerEnds, OpensByHand, RequestsPlan, PROpened, vars, queueVars,
                QueueMove
<1> QED BY <1>1, <1>2, <1>3, <1>4, <1>5, <1>6, <1>7, StepCases, Zenon

\* The row in hand is the first of the batch.
LEMMA InHandIsFirst ==
    ASSUME QueueInv, batch # {}
    PROVE  /\ InHand \in batch /\ InHand \in RowIds
           /\ rows[InHand].st = "processing" /\ Task \in Tasks
           /\ \A n \in batch : InHand <= n
<1>1. batch \in SUBSET Nat
    BY Ids DEF QueueInv
<1>2. InHand \in batch /\ \A n \in batch : InHand <= n
    BY <1>1, FirstIsLeast DEF InHand
<1> QED BY <1>2 DEF QueueInv, RowType, Task

\* A row that a client inserts comes after all others.
LEMMA InsertsLast ==
    ASSUME QueueInv, NEW t \in Tasks, EnqueueInserts(t)
    PROVE  \E n \in RowIds \ Numbered :
              /\ rows' = [rows EXCEPT ![n] = [NoRow EXCEPT !.task = t, !.st = "uncommitted"]]
              /\ Numbered' = Numbered \cup {n}
              /\ \A m \in RowIds : m < n <=> m \in Numbered
<1> DEFINE n == First(RowIds \ Numbered)
<1>1. Numbered # RowIds
    <2>1. Inserting = Cardinality(InsertingOf(looked)) /\ looked[t] <= Inserting /\ Inserting \in Nat
        BY InsertingIsCount DEF QueueInv, Inserting, InsertingOf
    <2>2. looked[t] > 0 /\ looked[t] \in Nat
        BY QueueAssumption DEF EnqueueInserts, QueueInv
    <2> QED BY <2>1, <2>2, NumberedIsFinite, Ids, QueueAssumption DEF QueueInv
<1>2. n \in RowIds \ Numbered /\ \A m \in RowIds \ Numbered : n <= m
    <2>1. RowIds \ Numbered # {} /\ RowIds \ Numbered \in SUBSET Nat
        BY <1>1, Ids DEF Numbered
    <2> QED BY <2>1, FirstIsLeast
<1>3. rows' = [rows EXCEPT ![n] = [NoRow EXCEPT !.task = t, !.st = "uncommitted"]]
    BY DEF EnqueueInserts
<1> HIDE DEF n
<1>4. \A m \in RowIds : m < n <=> m \in Numbered
    BY <1>2, Ids DEF QueueInv, Numbered
<1>5. Numbered' = Numbered \cup {n}
    BY <1>2, <1>3 DEF Numbered, QueueInv, NoRow
<1> QED BY <1>2, <1>3, <1>4, <1>5

\* The queue's invariant is kept by what a step may do to the queue.
LEMMA QueueKept ==
    ASSUME QueueInv, QueueMove
    PROVE  QueueInv'
<1>1. CASE UNCHANGED <<rows, looked, batch>>
    BY <1>1 DEF QueueInv, Numbered, Inserting
<1>2. ASSUME NEW t \in Tasks, Looks(t) PROVE QueueInv'
    <2>1. CASE UNCHANGED looked
        BY <1>2, <2>1 DEF Looks, QueueInv, Numbered, Inserting
    <2>2. CASE looked' = [looked EXCEPT ![t] = @ + 1]
        <3>1. /\ Cardinality(InsertingOf(looked)) \in Nat
              /\ looked[t] <= Cardinality(InsertingOf(looked))
              /\ Inserting = Cardinality(InsertingOf(looked))
            BY InsertingIsCount DEF QueueInv, Inserting, InsertingOf
        <3>2. Cardinality(Numbered) \in Nat
            BY NumberedIsFinite
        <3>3. looked[t] < MaxRows /\ Cardinality(Numbered) + Inserting + 1 <= MaxRows
            BY <1>2, <3>1, <3>2, QueueAssumption DEF Looks, RoomForRow, QueueInv
        <3>4. Cardinality(InsertingOf(looked')) = Inserting + 1
            BY <2>2, <3>1, <3>3, InsertingGrows DEF QueueInv
        <3>5. Numbered' = Numbered /\ Inserting' = Cardinality(InsertingOf(looked'))
            BY <1>2 DEF Looks, Numbered, Inserting, InsertingOf
        <3>6. looked' \in [Tasks -> 0..MaxRows]
            BY <2>2, <3>3, QueueAssumption DEF QueueInv
        <3> QED BY <1>2, <3>1, <3>2, <3>3, <3>4, <3>5, <3>6 DEF Looks, QueueInv
    <2> QED BY <1>2, <2>1, <2>2 DEF Looks, LooksFor, QueueInv
<1>3. ASSUME NEW t \in Tasks, EnqueueInserts(t) PROVE QueueInv'
    <2>1. PICK n \in RowIds \ Numbered :
              /\ rows' = [rows EXCEPT ![n] = [NoRow EXCEPT !.task = t, !.st = "uncommitted"]]
              /\ Numbered' = Numbered \cup {n}
              /\ \A m \in RowIds : m < n <=> m \in Numbered
        BY <1>3, InsertsLast
    <2>2. Cardinality(Numbered') = Cardinality(Numbered) + 1 /\ Cardinality(Numbered) \in Nat
        BY <2>1, NumberedIsFinite, FS_AddElement
    <2>3. Inserting' = Inserting - 1 /\ Inserting \in Nat
        <3>1. /\ looked \in [Tasks -> 0..MaxRows] /\ looked[t] > 0
              /\ looked' = [looked EXCEPT ![t] = @ - 1]
            BY <1>3 DEF EnqueueInserts, QueueInv
        <3>2. /\ Inserting = Cardinality(InsertingOf(looked))
              /\ Inserting' = Cardinality(InsertingOf(looked'))
            BY DEF Inserting, InsertingOf
        <3> QED BY <3>1, <3>2, InsertingShrinks, InsertingIsCount
    <2>4. looked' \in [Tasks -> 0..MaxRows]
        BY <1>3, QueueAssumption DEF EnqueueInserts, QueueInv
    <2>5. rows' \in [RowIds -> RowType]
        BY <2>1 DEF QueueInv, RowType, NoRow
    <2>6. \A m \in RowIds :
             /\ rows'[m].st = "absent" <=> rows'[m].task = NoTask
             /\ rows'[m].dup => rows'[m].st = "done"
        BY <2>1, QueueAssumption DEF QueueInv, NoRow
    <2>7. \A k, m \in RowIds : rows'[k].st # "absent" /\ m < k => rows'[m].st # "absent"
        BY <2>1, Ids DEF QueueInv, NoRow, Numbered
    <2>8. batch' \subseteq {m \in RowIds : rows'[m].st = "processing"}
        BY <1>3, <2>1 DEF QueueInv, NoRow, Numbered, EnqueueInserts
    <2> QED BY <2>2, <2>3, <2>4, <2>5, <2>6, <2>7, <2>8 DEF QueueInv
<1>4. ASSUME NEW n \in RowIds, EnqueueCommits(n) PROVE QueueInv'
    <2>1. rows[n].st = "uncommitted" /\ rows' = [rows EXCEPT ![n].st = "pending"]
        BY <1>4 DEF EnqueueCommits, Uncommitted
    <2>2. Numbered' = Numbered /\ Inserting' = Inserting
        BY <1>4, <2>1 DEF EnqueueCommits, Numbered, Inserting, QueueInv, RowType
    <2> QED BY <1>4, <2>1, <2>2 DEF EnqueueCommits, QueueInv, RowType
<1>5. CASE ClaimPending
    <2>1. Claimed \subseteq Pending /\ \A n \in Claimed : ~Prior(n)
        BY DEF Claimed
    <2>2. Numbered' = Numbered /\ Inserting' = Inserting
        BY <1>5, <2>1, ZenonT(60)
        DEF ClaimPending, Numbered, Stored, Pending, QueueInv, RowType, Inserting
    <2>3. rows' \in [RowIds -> RowType]
        BY <1>5, ZenonT(60) DEF ClaimPending, QueueInv, RowType
    <2>4. \A n \in RowIds :
             /\ rows'[n].st = "absent" <=> rows[n].st = "absent"
             /\ rows'[n].task = rows[n].task
             /\ rows'[n].dup => rows'[n].st = "done"
        BY <1>5, <2>1, ZenonT(60) DEF ClaimPending, QueueInv, Pending, Stored, Numbered, RowType
    <2>5. \A n \in Claimed : n \in RowIds /\ rows'[n].st = "processing"
        BY <1>5, <2>1 DEF ClaimPending, QueueInv, Pending, Stored, Numbered, RowType
    <2> QED BY <1>5, <2>2, <2>3, <2>4, <2>5, ZenonT(60) DEF ClaimPending, QueueInv
<1>6. CASE Settles
    <2>1. PICK st \in Ends : Settle(st)
        BY <1>6 DEF Settles
    <2>2. InHand \in batch /\ InHand \in RowIds /\ rows[InHand].st = "processing"
        BY <1>6, InHandIsFirst DEF Settles
    <2> DEFINE n == InHand
    <2>3. rows' = [rows EXCEPT ![n].st = st] /\ batch' = batch \ {n} /\ looked' = looked
        BY <1>6, <2>1 DEF Settle, Settles
    <2> HIDE DEF n
    <2>4. n \in RowIds /\ rows[n].st = "processing"
        BY <2>2 DEF n
    <2>5. Numbered' = Numbered /\ Inserting' = Inserting
        BY <2>3, <2>4 DEF Numbered, QueueInv, RowType, Inserting, Ends
    <2> QED BY <2>3, <2>4, <2>5 DEF QueueInv, RowType, Ends
<1>7. CASE Drops
    BY <1>7 DEF Drops, QueueInv, Numbered, Inserting
<1> QED BY <1>1, <1>2, <1>3, <1>4, <1>5, <1>6, <1>7 DEF QueueMove

-----------------------------------------------------------------------------
(* The issues.                                                             *)

\* What a step may do to the issues and their notices.
IssueMove ==
    \/ issue' = issue /\ notices' \subseteq notices
    \/ \E t \in Tasks, new, labelled \in SUBSET Free : \E late \in SUBSET new :
          Creates(t, new, labelled, late)
    \/ ClosesIssue /\ notices' = notices
    \/ \E i \in Made : /\ issue' = [issue EXCEPT ![i].plan = TRUE]
                       /\ notices' = notices \cup {<<"labeled", i>>}

\* The first free number is one of an issue.
LEMMA FirstFree ==
    ASSUME NEW S \in SUBSET Free, S # {}
    PROVE  First(S) \in S
<1>1. S \in SUBSET Nat
    BY Ids DEF Free
<1> QED BY <1>1, FirstIsLeast

\* A set of two numbers has one beside its first.
LEMMA SecondFree ==
    ASSUME Cardinality(Free) >= 2
    PROVE  /\ First(Free) \in Free
           /\ First(Free \ {First(Free)}) \in Free \ {First(Free)}
<1>1. IsFiniteSet(Free)
    BY Ids, FS_Subset DEF Free
<1>2. Free # {}
    BY FS_EmptySet
<1>3. First(Free) \in Free
    BY <1>2, FirstFree
<1>4. Free # {First(Free)}
    BY FS_Singleton
<1> QED BY <1>3, <1>4, FirstFree

\* What is new has its labels or not, and all else stays.
LEMMA CreatedIssues ==
    ASSUME NEW t, NEW new, NEW labelled, NEW late, Creates(t, new, labelled, late)
    PROVE  \A i \in IssueIds :
              /\ i \in new /\ i \in labelled => issue'[i] = NewIssue(t, TRUE)
              /\ i \in new /\ i \notin labelled => issue'[i] = NewIssue(t, FALSE)
              /\ i \notin new => issue'[i] = issue[i]
<1>1. \A i \in IssueIds :
         issue'[i] = IF i \in new THEN NewIssue(t, i \in labelled) ELSE issue[i]
    BY Zenon DEF Creates
<1>2. ASSUME NEW i \in IssueIds, i \in labelled PROVE (i \in labelled) = TRUE
    BY <1>2, Zenon
<1>3. ASSUME NEW i \in IssueIds, i \notin labelled PROVE (i \in labelled) = FALSE
    BY <1>3
<1> QED BY <1>1, <1>2, <1>3, Zenon

\* What a dispatch creates: one issue, with its labels unless they were lost, or
\* two, of which one has them.  When there was one to find, or labels were lost,
\* or there are two, something was lost.
TaskCreated ==
    \E i, j \in Free : \E labelled \in SUBSET {i, j}, late \in SUBSET {i, j} :
       /\ Creates(Task, {i, j}, labelled, late)
       /\ i \in labelled \/ (i = j /\ Duplicates(Task) = {} /\ blind' = blind + 1)
       /\ i # j => Duplicates(Task) = {}
       /\ (i # j \/ Duplicates(Task) # {}) => blind' = blind + 1
       /\ target' \in {i, j}

LEMMA DispatchCreates ==
    ASSUME CreateIssue
    PROVE  \/ /\ UNCHANGED <<issue, notices, batch>>
              /\ at' = "workflow" /\ target' \in Duplicates(Task)
           \/ /\ UNCHANGED <<issue, notices, target>>
              /\ at' = "idle" /\ \E st \in Ends : Settle(st)
           \/ at' = "workflow" /\ UNCHANGED batch /\ TaskCreated
<1>1. ASSUME NEW i \in Free, target' = i, NEW labelled, NEW late \in SUBSET {i},
             Creates(Task, {i}, labelled, late),
             \/ labelled = {i} /\ (Duplicates(Task) = {} \/ blind' = blind + 1)
             \/ labelled = {} /\ Duplicates(Task) = {} /\ blind' = blind + 1
      PROVE  TaskCreated
    <2>1. {i} = {i, i} /\ labelled \in SUBSET {i, i} /\ late \in SUBSET {i, i}
        BY <1>1
    <2>2. i \in labelled \/ labelled = {}
        BY <1>1
    <2> QED BY <1>1, <2>1, <2>2, Zenon DEF TaskCreated
<1>2. ASSUME NEW i \in Free, NEW j \in Free, target' = j, i # j,
             NEW labelled \in {{i}, {i, j}}, Creates(Task, {i, j}, labelled, {j}),
             Duplicates(Task) = {}, blind' = blind + 1
      PROVE  TaskCreated
    <2>1. i \in labelled /\ labelled \in SUBSET {i, j} /\ {j} \in SUBSET {i, j} /\ j \in {i, j}
        BY <1>2
    <2> QED BY <1>2, <2>1, Zenon DEF TaskCreated
<1>3. Free # {} => First(Free) \in Free
    BY FirstFree
<1>4. CASE \/ /\ UNCHANGED <<issue, notices, batch>>
              /\ at' = "workflow" /\ target' \in Duplicates(Task)
           \/ /\ UNCHANGED <<issue, notices, target>>
              /\ at' = "idle" /\ \E st \in Ends : Settle(st)
    BY <1>4
<1>5. CASE /\ Free # {} /\ target' = First(Free) /\ at' = "workflow" /\ UNCHANGED batch
           /\ Creates(Task, {First(Free)}, {First(Free)}, {})
           /\ Duplicates(Task) = {} \/ blind' = blind + 1
    <2>1. {} \in SUBSET {First(Free)}
        OBVIOUS
    <2> QED BY <1>1, <1>3, <1>5, <2>1
<1>6. CASE /\ Free # {} /\ Duplicates(Task) = {} /\ target' = First(Free)
           /\ \/ Creates(Task, {First(Free)}, {First(Free)}, {First(Free)})
              \/ Creates(Task, {First(Free)}, {}, {First(Free)}) /\ blind' = blind + 1
           /\ at' = "workflow" /\ UNCHANGED batch
    <2>1. {First(Free)} \in SUBSET {First(Free)}
        OBVIOUS
    <2> QED BY <1>1, <1>3, <1>6, <2>1
<1>7. ASSUME Cardinality(Free) >= 2, Duplicates(Task) = {},
             target' = First(Free \ {First(Free)}),
             \E lab \in {{First(Free)}, {First(Free), First(Free \ {First(Free)})}} :
                Creates(Task, {First(Free), First(Free \ {First(Free)})}, lab,
                        {First(Free \ {First(Free)})}),
             blind' = blind + 1
      PROVE  TaskCreated
    <2> DEFINE i == First(Free)
               j == First(Free \ {i})
    <2>1. i \in Free /\ j \in Free /\ i # j
        BY <1>7, SecondFree
    <2>2. PICK lab \in {{i}, {i, j}} : Creates(Task, {i, j}, lab, {j})
        BY <1>7
    <2> HIDE DEF i, j
    <2>3. target' = j
        BY <1>7 DEF i, j
    <2> QED BY <1>2, <1>7, <2>1, <2>2, <2>3
<1> QED BY <1>4, <1>5, <1>6, <1>7 DEF CreateIssue, queueVars

\* Every step does one of these things to the issues.
LEMMA IssueMoves ==
    ASSUME QueueInv, DispatchInv, [Next]_vars
    PROVE  IssueMove
<1>1. CASE Elsewhere
    BY <1>1, ElsewhereStays DEF IssueMove
<1>2. CASE UNCHANGED <<issue, notices>>
    BY <1>2 DEF IssueMove
<1>3. CASE CreateIssue
    <2>1. Task \in Tasks
        BY <1>3, InHandIsFirst DEF DispatchInv, CreateIssue
    <2>2. ASSUME TaskCreated PROVE IssueMove
        <3>1. PICK i \in Free, j \in Free : \E labelled \in SUBSET {i, j}, late \in SUBSET {i, j} :
                 Creates(Task, {i, j}, labelled, late)
            BY <2>2 DEF TaskCreated
        <3>2. {i, j} \in SUBSET Free /\ SUBSET {i, j} \subseteq SUBSET Free
            BY <3>1
        <3> QED BY <2>1, <3>1, <3>2 DEF IssueMove
    <2> QED BY <1>2, <1>3, <2>2, DispatchCreates
<1>4. CASE \E i \in IssueIds : IssueEvent("opened", i) \/ IssueEvent("labeled", i)
    BY <1>4 DEF IssueEvent, Noticed, IssueMove
<1>5. ASSUME NEW i \in IssueIds, OpensByHand(i) PROVE IssueMove
    <2>1. Free # {}
        BY <1>5 DEF OpensByHand, Free
    <2>2. {i} \in SUBSET Free /\ {} \in SUBSET Free /\ {i} \in SUBSET {i}
        BY <1>5, <2>1, FirstFree DEF OpensByHand
    <2> QED BY <1>5, <2>2, WebhookFiles DEF OpensByHand, IssueMove
<1>6. CASE \E i \in IssueIds : RequestsPlan(i)
    BY <1>6 DEF RequestsPlan, IssueMove
<1>7. CASE \/ Claims \/ ProcessorCrashes \/ Submits
           \/ \E i \in IssueIds : WorkflowDone(i) \/ ReviewerEnds(i)
           \/ \E p \in PRs : PROpened(p)
           \/ UNCHANGED vars
    BY <1>2, <1>7 DEF Claims, ProcessorCrashes, Submits, WorkflowDone, ReviewerEnds, PROpened, vars,
                      dispatchVars
<1>8. CASE PrepareTask \/ CreateWorkflow \/ StartWorkflow \/ LaunchFirst \/ WebhookTask
    BY <1>2, <1>8 DEF PrepareTask, CreateWorkflow, StartWorkflow, LaunchFirst, WebhookTask
<1> QED BY <1>1, <1>3, <1>4, <1>5, <1>6, <1>7, <1>8, StepCases, Zenon DEF Dispatches

\* An issue keeps its number, its task and its labels.
IssuesGrow ==
    /\ issue' \in [IssueIds -> IssueType]
    /\ notices' \subseteq {"opened", "labeled"} \X Made'
    /\ \A i \in Made : /\ i \in Made'
                       /\ issue'[i].task = issue[i].task
                       /\ issue'[i].labels = issue[i].labels
                       /\ issue'[i].open => issue[i].open

LEMMA IssuesStay ==
    ASSUME DispatchInv, IssueMove
    PROVE  IssuesGrow
<1>1. CASE issue' = issue /\ notices' \subseteq notices
    BY <1>1 DEF DispatchInv, Made, IssuesGrow
<1>2. ASSUME NEW t \in Tasks, NEW new \in SUBSET Free, NEW labelled \in SUBSET Free,
             NEW late \in SUBSET new, Creates(t, new, labelled, late)
      PROVE  IssuesGrow
    <2>1. \A i \in IssueIds :
             /\ i \in new => issue'[i] \in {NewIssue(t, TRUE), NewIssue(t, FALSE)}
             /\ i \notin new => issue'[i] = issue[i]
        BY <1>2, CreatedIssues, Zenon
    <2>2. NewIssue(t, TRUE) \in IssueType /\ NewIssue(t, FALSE) \in IssueType
        BY DEF IssueType, NewIssue, NoIssue
    <2>3. issue' \in [IssueIds -> IssueType]
        <3>1. \A i \in IssueIds : issue'[i] \in IssueType
            BY <2>1, <2>2 DEF DispatchInv
        <3> QED BY <1>2, <3>1 DEF Creates
    <2>4. \A i \in Made : i \in Made' /\ issue'[i] = issue[i]
        BY <2>1 DEF Made, Free
    <2>5. new \subseteq Made'
        <3>1. NewIssue(t, TRUE).task = t /\ NewIssue(t, FALSE).task = t /\ t # NoTask
            BY QueueAssumption DEF NewIssue, NoIssue
        <3> QED BY <2>1, <3>1 DEF Made, Free
    <2>6. \A x \in notices' \ notices : \E i \in late : x = <<"opened", i>>
        BY <1>2 DEF Creates
    <2>7. notices' \subseteq {"opened", "labeled"} \X Made'
        BY <2>4, <2>5, <2>6 DEF DispatchInv
    <2> QED BY <2>3, <2>4, <2>7 DEF IssuesGrow
<1>3. ASSUME NEW i \in IssueIds, issue' = [issue EXCEPT ![i].open = FALSE], notices' = notices
      PROVE  IssuesGrow
    <2>1. issue' \in [IssueIds -> IssueType]
        BY <1>3 DEF DispatchInv, IssueType
    <2>2. Made' = Made
        BY <1>3 DEF DispatchInv, IssueType, Made
    <2> QED BY <1>3, <2>1, <2>2 DEF DispatchInv, IssueType, Made, IssuesGrow
<1>4. ASSUME NEW i \in Made, issue' = [issue EXCEPT ![i].plan = TRUE],
             notices' = notices \cup {<<"labeled", i>>}
      PROVE  IssuesGrow
    <2>1. issue' \in [IssueIds -> IssueType]
        BY <1>4, ZenonT(60) DEF DispatchInv, IssueType
    <2>2. Made' = Made
        BY <1>4 DEF DispatchInv, IssueType, Made
    <2> QED BY <1>4, <2>1, <2>2 DEF DispatchInv, IssueType, Made, IssuesGrow
<1>5. ASSUME ClosesIssue, notices' = notices PROVE IssuesGrow
    <2>1. PICK p : issue' = [issue EXCEPT ![p[1]].open = FALSE]
        BY <1>5 DEF ClosesIssue
    <2>2. p[1] \in IssueIds \/ issue' = issue
        BY <2>1 DEF DispatchInv
    <2> QED BY <1>1, <1>3, <1>5, <2>1, <2>2
<1> QED BY <1>1, <1>2, <1>4, <1>5 DEF IssueMove

\* The row in hand stays in hand with its task until the batch changes.
LEMMA HandStays ==
    ASSUME QueueInv, QueueMove, batch # {}, batch' = batch
    PROVE  InHand' = InHand /\ Task' = Task
<1>1. InHand' = InHand
    BY DEF InHand
<1>2. InHand \in batch /\ InHand \in Numbered /\ InHand \in RowIds
    BY InHandIsFirst DEF Numbered
<1>3. rows'[InHand].task = rows[InHand].task
    <2>1. ASSUME NEW t \in Tasks, EnqueueInserts(t) PROVE rows'[InHand].task = rows[InHand].task
        BY <1>2, <2>1, InsertsLast DEF QueueInv
    <2>2. ASSUME NEW n \in RowIds, EnqueueCommits(n)
          PROVE  rows'[InHand].task = rows[InHand].task
        BY <1>2, <2>2 DEF EnqueueCommits, QueueInv, RowType
    <2> QED BY <1>2, <2>1, <2>2 DEF QueueMove, Looks, ClaimPending, Settles, Settle, Drops
<1> QED BY <1>1, <1>3 DEF Task

\* What a step may do to the processor's place in the dispatch.
AtMove ==
    \/ /\ at' = "idle" /\ target' \in {target, NoId}
       /\ at = "idle" \/ batch' \subseteq batch \ {InHand}
    \/ UNCHANGED <<at, batch, target>>
    \/ /\ at = "idle" /\ at' = "create"
       /\ batch # {} /\ Task \notin WebhookTasks
       /\ UNCHANGED <<batch, target>>
    \/ /\ at = "create" /\ at' = "workflow"
       /\ target' \in Made'
       /\ UNCHANGED batch
    \/ /\ at \in {"workflow", "start"} /\ at' \in {"start", "launch"}
       /\ UNCHANGED <<batch, target>>

\* The issue that is created or found is one of the project's.
LEMMA CreatesMade ==
    ASSUME QueueInv, DispatchInv, CreateIssue
    PROVE  AtMove
<1>1. CASE at' = "idle" /\ UNCHANGED target /\ \E st \in Ends : Settle(st)
    BY <1>1 DEF Settle, AtMove
<1>2. CASE target' \in Duplicates(Task) /\ UNCHANGED <<issue, batch>> /\ at' = "workflow"
    BY <1>2 DEF Duplicates, CreateIssue, Made, AtMove
<1>3. ASSUME at' = "workflow", UNCHANGED batch, TaskCreated
      PROVE  AtMove
    <2>1. PICK new \in SUBSET Free : \E labelled, late : /\ Creates(Task, new, labelled, late)
                                                         /\ target' \in new
        <3>1. PICK i \in Free, j \in Free : \E labelled, late :
                 Creates(Task, {i, j}, labelled, late) /\ target' \in {i, j}
            BY <1>3, Zenon DEF TaskCreated
        <3>2. {i, j} \in SUBSET Free
            OBVIOUS
        <3> QED BY <3>1, <3>2
    <2>2. target' \in IssueIds
        BY <2>1 DEF Free
    <2>3. issue'[target'] \in {NewIssue(Task, TRUE), NewIssue(Task, FALSE)}
        BY <2>1, <2>2, CreatedIssues, Zenon
    <2>4. issue'[target'].task = Task /\ Task # NoTask
        BY <2>3, InHandIsFirst, QueueAssumption DEF NewIssue, NoIssue, DispatchInv, CreateIssue
    <2> QED BY <1>3, <2>2, <2>4 DEF CreateIssue, Made, AtMove
<1> QED BY <1>1, <1>2, <1>3, DispatchCreates

\* Every step does one of these things to it.
LEMMA AtMoves ==
    ASSUME QueueInv, DispatchInv, [Next]_vars
    PROVE  AtMove
<1>1. CASE Dispatches
    <2>1. CASE CreateIssue
        BY <2>1, CreatesMade
    <2>2. CASE PrepareTask \/ CreateWorkflow \/ StartWorkflow
        BY <2>2 DEF PrepareTask, CreateWorkflow, StartWorkflow, Settle, queueVars, AtMove
    <2>3. CASE LaunchFirst \/ WebhookTask
        BY <2>3 DEF LaunchFirst, WebhookTask, Settle, AtMove
    <2> QED BY <1>1, <2>1, <2>2, <2>3 DEF Dispatches
<1>2. CASE Elsewhere
    BY <1>2, ElsewhereStays DEF queueVars, AtMove
<1>3. CASE Claims \/ ProcessorCrashes \/ Submits
    BY <1>3 DEF Claims, ProcessorIdle, ProcessorCrashes, Submits, EnqueueLooks, EnqueueInserts,
                EnqueueCommits, dispatchVars, AtMove
<1>4. CASE \/ \E i \in IssueIds :
                 \/ WorkflowDone(i) \/ ReviewerEnds(i) \/ OpensByHand(i) \/ RequestsPlan(i)
                 \/ IssueEvent("opened", i) \/ IssueEvent("labeled", i)
           \/ \E p \in PRs : PROpened(p)
           \/ UNCHANGED vars
    BY <1>4 DEF WorkflowDone, ReviewerEnds, OpensByHand, RequestsPlan, IssueEvent, PROpened, vars,
                queueVars, dispatchVars, AtMove
<1> QED BY <1>1, <1>2, <1>3, <1>4, StepCases, Zenon

\* What a step may do to the workflows.
WorkflowMove ==
    \/ UNCHANGED <<wf, by>>
    \/ /\ at = "workflow" /\ at' = "start"
       /\ wf' = [wf EXCEPT ![target] = "pending"]
       /\ by' = [by EXCEPT ![target] = InHand]
       /\ UNCHANGED <<batch, rows>>
    \/ at = "start" /\ wf' = [wf EXCEPT ![target] = "running"] /\ by' = by
    \/ \E i \in IssueIds : /\ wf[i] = "running"
                           /\ wf' = [wf EXCEPT ![i] = "completed"] /\ by' = by

\* Every step does one of these things to them; what is lost is counted one by
\* one, and agents come and go.
LEMMA WorkflowMoves ==
    ASSUME DispatchInv, [Next]_vars
    PROVE  /\ WorkflowMove
           /\ agent' \in [IssueIds -> BOOLEAN]
           /\ blind' \in {blind, blind + 1}
<1> USE DEF WorkflowMove, DispatchInv
<1>1. CASE PrepareTask \/ CreateIssue
    BY <1>1 DEF PrepareTask, CreateIssue
<1>2. CASE CreateWorkflow \/ StartWorkflow
    BY <1>2 DEF CreateWorkflow, StartWorkflow, queueVars
<1>3. CASE LaunchFirst \/ WebhookTask
    BY <1>3 DEF LaunchFirst, WebhookTask
<1>4. CASE Elsewhere
    BY <1>4, ElsewhereStays
<1>5. ASSUME NEW i \in IssueIds, WorkflowDone(i)
      PROVE  /\ WorkflowMove /\ agent' \in [IssueIds -> BOOLEAN] /\ blind' = blind
    <2>1. CASE wf[i] = "running"
        BY <1>5, <2>1 DEF WorkflowDone
    <2>2. CASE wf[i] # "running"
        BY <1>5, <2>2 DEF WorkflowDone
    <2> QED BY <2>1, <2>2
<1>6. CASE \/ Claims \/ ProcessorCrashes \/ Submits
           \/ \E i \in IssueIds :
                 \/ ReviewerEnds(i) \/ OpensByHand(i) \/ RequestsPlan(i)
                 \/ IssueEvent("opened", i) \/ IssueEvent("labeled", i)
           \/ \E p \in PRs : PROpened(p)
           \/ UNCHANGED vars
    BY <1>6 DEF Claims, ProcessorCrashes, Submits, ReviewerEnds, OpensByHand, RequestsPlan,
                IssueEvent, PROpened, vars, dispatchVars
<1> QED BY <1>1, <1>2, <1>3, <1>4, <1>5, <1>6, StepCases, Zenon DEF Dispatches

\* The dispatch's invariant is kept by every step.
LEMMA DispatchKept ==
    ASSUME QueueInv, DispatchInv, [Next]_vars
    PROVE  DispatchInv'
<1>1. IssuesGrow /\ QueueMove /\ AtMove
    BY QueueMoves, IssueMoves, IssuesStay, AtMoves
<1>2. wf' \in [IssueIds -> {"none", "pending", "running", "completed"}]
    BY WorkflowMoves DEF WorkflowMove, DispatchInv
<1>3. agent' \in [IssueIds -> BOOLEAN] /\ blind' \in Nat
    BY WorkflowMoves DEF DispatchInv
<1>4. at' # "idle" => batch' # {} /\ (Task \notin WebhookTasks)'
    <2>1. CASE batch # {} /\ batch' = batch
        BY <1>1, <2>1, HandStays DEF AtMove, DispatchInv, WebhookTasks
    <2> QED BY <1>1, <2>1 DEF AtMove, DispatchInv
<1>5. /\ at' \in {"idle", "create", "workflow", "start", "launch"}
      /\ target' \in IssueIds \cup {NoId}
      /\ at' \in {"workflow", "start", "launch"} => target' \in Made'
    BY <1>1 DEF AtMove, DispatchInv, IssuesGrow, Made
<1> QED BY <1>1, <1>2, <1>3, <1>4, <1>5 DEF DispatchInv, IssuesGrow

-----------------------------------------------------------------------------
(* Initially and always.                                                   *)

\* Nothing is in the inbox at first.
LEMMA QueueStarts == Init => QueueInv /\ DispatchInv /\ Numbered = {} /\ Made = {}
<1> SUFFICES ASSUME Init PROVE QueueInv /\ DispatchInv /\ Numbered = {} /\ Made = {}
    OBVIOUS
<1> USE DEF Init, QueueInit, DispatchInit
<1>1. Numbered = {} /\ Made = {}
    BY DEF Numbered, NoRow, Made, NoIssue
<1>2. Cardinality(Numbered) = 0 /\ Inserting = 0
    <2>1. InsertingOf(looked) = {}
        BY QueueAssumption DEF InsertingOf
    <2> QED BY <1>1, <2>1, FS_EmptySet DEF Inserting, InsertingOf
<1>3. QueueInv
    BY <1>2, QueueAssumption DEF QueueInv, NoRow, RowType
<1>4. DispatchInv
    BY DEF DispatchInv, NoIssue, IssueType, NoId
<1> QED BY <1>1, <1>3, <1>4

LEMMA QueueSafe == Spec => [](QueueInv /\ DispatchInv)
<1>1. Init => QueueInv /\ DispatchInv
    BY QueueStarts
<1>2. QueueInv /\ DispatchInv /\ [Next]_vars => (QueueInv /\ DispatchInv)'
    BY QueueMoves, QueueKept, DispatchKept
<1> QED BY <1>1, <1>2, PTL DEF Spec

-----------------------------------------------------------------------------
(* A task is taken once.                                                   *)

\* The rows that are not committed yet are part of it: the later one of a task
\* was not claimed while the earlier one was seen.
TakenInv ==
    \A m, n \in Numbered :
       m < n /\ rows[m].task = rows[n].task /\ rows[m].st # "failed"
          => rows[n].dup \/ rows[n].st \in {"uncommitted", "pending"} \/ m \in overtaken

\* An earlier row that has not failed closes a later one as its duplicate.
LEMMA TakenOnceKept ==
    ASSUME QueueInv, TakenInv, QueueMove
    PROVE  TakenInv'
<1>1. CASE UNCHANGED <<rows, overtaken>>
    BY <1>1 DEF TakenInv, Numbered
<1>2. ASSUME NEW t \in Tasks, EnqueueInserts(t) PROVE TakenInv'
    <2>1. PICK k \in RowIds \ Numbered :
              /\ rows' = [rows EXCEPT ![k] = [NoRow EXCEPT !.task = t, !.st = "uncommitted"]]
              /\ Numbered' = Numbered \cup {k}
              /\ \A m \in RowIds : m < k <=> m \in Numbered
        BY <1>2, InsertsLast
    <2>2. /\ rows'[k].st = "uncommitted" /\ \A m \in Numbered : rows'[m] = rows[m] /\ m < k
          /\ overtaken' = overtaken
        BY <1>2, <2>1 DEF QueueInv, NoRow, Numbered, EnqueueInserts
    <2>3. ASSUME NEW m \in Numbered', NEW n \in Numbered', m < n,
                 rows'[m].task = rows'[n].task, rows'[m].st # "failed"
          PROVE  rows'[n].dup \/ rows'[n].st \in {"uncommitted", "pending"} \/ m \in overtaken'
        <3>1. CASE n = k
            BY <2>2, <3>1
        <3>2. CASE n # k
            <4>1. n \in Numbered /\ m \in Numbered
                BY <2>1, <2>2, <2>3, <3>2, Ids DEF Numbered
            <4> QED BY <2>2, <2>3, <4>1 DEF TakenInv
        <3> QED BY <3>1, <3>2
    <2> QED BY <2>3 DEF TakenInv
<1>3. ASSUME NEW k \in RowIds, EnqueueCommits(k) PROVE TakenInv'
    <2>1. /\ rows[k].st = "uncommitted" /\ rows' = [rows EXCEPT ![k].st = "pending"]
          /\ overtaken' = overtaken
        BY <1>3 DEF EnqueueCommits, Uncommitted
    <2>2. \A n \in RowIds :
             /\ rows'[n].task = rows[n].task /\ rows'[n].dup = rows[n].dup
             /\ n # k => rows'[n].st = rows[n].st
             /\ rows'[k].st = "pending"
        BY <2>1 DEF QueueInv, RowType
    <2>3. Numbered' = Numbered
        BY <2>1, <2>2 DEF Numbered
    <2> QED BY <2>1, <2>2, <2>3 DEF TakenInv, Numbered
<1>4. CASE ClaimPending
    <2>1. Claimed \subseteq Pending /\ \A n \in Claimed : ~Prior(n)
        BY DEF Claimed
    <2>2. Numbered' = Numbered
        BY <1>4, <2>1, ZenonT(60) DEF ClaimPending, Numbered, Stored, Pending, QueueInv, RowType
    <2>3. \A n \in Numbered :
             /\ rows'[n].task = rows[n].task
             /\ rows[n].st # "pending" => rows'[n] = rows[n]
             /\ rows[n].st = "pending" => rows'[n].st # "failed"
        BY <1>4, <2>1, ZenonT(60)
        DEF ClaimPending, Numbered, Uncommitted, Stored, Pending, QueueInv, RowType
    <2>4. overtaken \subseteq overtaken'
        BY <1>4 DEF ClaimPending
    <2>5. ASSUME NEW m \in Numbered, NEW n \in Numbered, m < n,
                 rows'[m].task = rows'[n].task, rows'[m].st # "failed"
          PROVE  rows'[n].dup \/ rows'[n].st \in {"uncommitted", "pending"} \/ m \in overtaken'
        <3>1. rows[m].task = rows[n].task /\ rows[m].st # "failed"
            BY <2>3, <2>5
        <3>2. CASE rows[n].st # "pending"
            BY <2>3, <2>4, <2>5, <3>1, <3>2 DEF TakenInv
        <3>3. CASE rows[n].st = "pending" /\ rows[m].st # "uncommitted"
            <4>1. Prior(n) /\ n \in Pending
                BY <2>5, <3>1, <3>3
                DEF Prior, RowsOf, Pending, Stored, Numbered, Uncommitted, QueueInv, RowType
            <4> QED BY <1>4, <4>1, ZenonT(60) DEF ClaimPending, Pending, Stored, Numbered, QueueInv, RowType
        <3>4. CASE rows[n].st = "pending" /\ rows[m].st = "uncommitted"
            <4>1. n \in RowIds /\ m \in Uncommitted
                BY <3>4 DEF Numbered, Uncommitted
            <4>2. CASE n \in Claimed
                BY <1>4, <2>5, <3>1, <4>1, <4>2 DEF ClaimPending
            <4>3. CASE n \notin Claimed /\ ~(n \in Pending /\ Prior(n))
                BY <1>4, <3>4, <4>1, <4>3 DEF ClaimPending
            <4>4. CASE n \in Pending /\ Prior(n)
                BY <1>4, <4>1, <4>4 DEF ClaimPending, QueueInv, RowType
            <4> QED BY <4>2, <4>3, <4>4
        <3> QED BY <3>2, <3>3, <3>4
    <2> QED BY <2>2, <2>5 DEF TakenInv
<1>5. CASE Settles
    <2>1. PICK st \in Ends : Settle(st)
        BY <1>5 DEF Settles
    <2> DEFINE k == InHand
    <2>2. /\ k \in RowIds /\ rows[k].st = "processing" /\ rows' = [rows EXCEPT ![k].st = st]
          /\ overtaken' = overtaken
        BY <1>5, <2>1, InHandIsFirst DEF Settles, Settle
    <2> HIDE DEF k
    <2>3. \A n \in RowIds :
             /\ rows'[n].task = rows[n].task /\ rows'[n].dup = rows[n].dup
             /\ n # k => rows'[n].st = rows[n].st
             /\ rows'[n].st = "absent" <=> rows[n].st = "absent"
        BY <2>2 DEF QueueInv, RowType, Ends
    <2>4. Numbered' = Numbered
        BY <2>3 DEF Numbered
    <2> QED BY <2>2, <2>3, <2>4 DEF TakenInv, Numbered
<1> QED BY <1>1, <1>2, <1>3, <1>4, <1>5 DEF QueueMove, Looks, Drops

\* However many clients submit a task, its rows are worked off one at a time and
\* only after a failure, but for a row whose commit a later row overtook (the look,
\* the insert and the claim of inbox_queue.py).
THEOREM TakenOnce == Spec => []TaskIsTakenOnce
<1>1. Init => TakenInv
    BY QueueStarts DEF TakenInv
<1>2. QueueInv /\ DispatchInv /\ TakenInv /\ [Next]_vars => TakenInv'
    BY QueueMoves, TakenOnceKept
<1>3. TakenInv => TaskIsTakenOnce
    BY DEF TakenInv, TaskIsTakenOnce, Stored, Uncommitted, Numbered
<1> QED BY <1>1, <1>2, <1>3, QueueSafe, PTL DEF Spec

-----------------------------------------------------------------------------
(* One issue per request.                                                  *)

\* The open issues of a title, of which the dispatch finds those with labels.
Opened(t) ==
    {i \in Made : /\ issue[i].open /\ issue[i].task \notin WebhookTasks
                  /\ Title[issue[i].task] = Title[t]}

\* When none is found, there are only those for which something was lost.
OpenInv ==
    \A t \in Tasks \ WebhookTasks :
       /\ Cardinality(Opened(t)) <= 1 + blind
       /\ Duplicates(t) = {} => Cardinality(Opened(t)) <= blind

\* What else a step may do to the issues: none is opened that counts, and none
\* is closed but altogether.
NoneCreated ==
    \A t \in Tasks : /\ Opened(t)' \subseteq Opened(t)
                     /\ \A i \in Duplicates(t) : i \in Opened(t)' => i \in Duplicates(t)'

LEMMA NothingNew ==
    ASSUME \A i \in Made' : i \in Made \/ issue'[i].task \in WebhookTasks,
           \A i \in Made : /\ issue'[i].task = issue[i].task
                           /\ issue'[i].labels = issue[i].labels
                           /\ issue'[i].open => issue[i].open
    PROVE  NoneCreated
BY ZenonT(60) DEF NoneCreated, Opened, Duplicates

\* Every step creates what the dispatch may create, or what does not count.
LEMMA CreationsCounted ==
    ASSUME QueueInv, DispatchInv, [Next]_vars
    PROVE  NoneCreated \/ (Task \in Tasks \ WebhookTasks /\ TaskCreated)
<1>1. IssuesGrow /\ IssueMove
    BY IssueMoves, IssuesStay
<1>2. ASSUME \A i \in Made' : i \in Made \/ issue'[i].task \in WebhookTasks PROVE NoneCreated
    BY <1>1, <1>2, NothingNew DEF IssuesGrow
<1>3. CASE UNCHANGED issue
    <2>1. Made' = Made
        BY <1>3 DEF Made
    <2> QED BY <1>2, <2>1
<1>4. CASE CreateIssue
    <2>1. Task \in Tasks \ WebhookTasks
        BY <1>4, InHandIsFirst DEF DispatchInv, CreateIssue
    <2> QED BY <1>3, <1>4, <2>1, DispatchCreates
<1>5. ASSUME NEW i \in IssueIds, OpensByHand(i) PROVE NoneCreated
    <2>1. Creates(IssueFile[i], {i}, {}, {i}) /\ IssueFile[i] \in WebhookTasks
        BY <1>5, WebhookFiles DEF OpensByHand
    <2>2. issue'[i].task = IssueFile[i]
        BY <2>1 DEF Creates, NewIssue, NoIssue
    <2>3. \A j \in IssueIds : j # i => issue'[j] = issue[j]
        BY <2>1 DEF Creates
    <2> QED BY <1>2, <2>1, <2>2, <2>3 DEF Made
<1>6. ASSUME NEW i \in IssueIds, \/ issue' = [issue EXCEPT ![i].open = FALSE]
                                 \/ issue' = [issue EXCEPT ![i].plan = TRUE]
      PROVE  NoneCreated
    <2>1. Made' = Made
        BY <1>6 DEF Made, DispatchInv, IssueType
    <2> QED BY <1>2, <2>1
<1>7. CASE ClosesIssue
    <2>1. PICK p : issue' = [issue EXCEPT ![p[1]].open = FALSE]
        BY <1>7 DEF ClosesIssue
    <2>2. p[1] \in IssueIds \/ issue' = issue
        BY <2>1 DEF DispatchInv
    <2> QED BY <1>3, <1>6, <2>1, <2>2
<1>8. CASE Elsewhere
    BY <1>3, <1>7, <1>8, ElsewhereStays
<1>9. CASE \/ Claims \/ ProcessorCrashes \/ Submits
           \/ \E i \in IssueIds :
                 \/ WorkflowDone(i) \/ ReviewerEnds(i)
                 \/ IssueEvent("opened", i) \/ IssueEvent("labeled", i)
           \/ \E p \in PRs : PROpened(p)
           \/ UNCHANGED vars
    BY <1>3, <1>9 DEF Claims, ProcessorCrashes, Submits, WorkflowDone, ReviewerEnds, IssueEvent,
                      PROpened, vars, dispatchVars
<1>10. CASE PrepareTask \/ CreateWorkflow \/ StartWorkflow \/ LaunchFirst \/ WebhookTask
    BY <1>3, <1>10 DEF PrepareTask, CreateWorkflow, StartWorkflow, LaunchFirst, WebhookTask
<1>11. CASE \E i \in IssueIds : RequestsPlan(i)
    BY <1>6, <1>11 DEF RequestsPlan
<1> QED BY <1>4, <1>5, <1>8, <1>9, <1>10, <1>11, StepCases, Zenon DEF Dispatches

\* The open issues of a title are finitely many.
LEMMA OpenedFinite ==
    ASSUME NEW t
    PROVE  /\ IsFiniteSet(Opened(t)) /\ Cardinality(Opened(t)) \in Nat
           /\ Duplicates(t) \subseteq Opened(t)
<1>1. Opened(t) \in SUBSET IssueIds
    BY DEF Opened, Made
<1>2. IsFiniteSet(Opened(t)) /\ Cardinality(Opened(t)) \in Nat
    BY <1>1, Ids, FS_Subset, FS_CardinalityType
<1> QED BY <1>2 DEF Duplicates, Opened

\* One member more is at most one more.
LEMMA AddingOne ==
    ASSUME NEW S, NEW x, IsFiniteSet(S)
    PROVE  /\ IsFiniteSet(S \cup {x}) /\ Cardinality(S) \in Nat /\ Cardinality(S \cup {x}) \in Nat
           /\ Cardinality(S \cup {x}) <= Cardinality(S) + 1
<1>1. IsFiniteSet(S \cup {x}) /\ Cardinality(S) \in Nat /\ Cardinality(S \cup {x}) \in Nat
    BY FS_AddElement, FS_CardinalityType
<1>2. CASE x \in S
    <2>1. S \cup {x} = S
        BY <1>2
    <2>2. Cardinality(S \cup {x}) = Cardinality(S)
        BY <2>1, Zenon
    <2> QED BY <1>1, <2>2
<1>3. CASE x \notin S
    <2>1. Cardinality(S \cup {x}) = Cardinality(S) + 1
        BY <1>3, FS_AddElement
    <2> QED BY <1>1, <2>1
<1> QED BY <1>2, <1>3

\* A set that grew by one member at most is larger by one at most.
LEMMA GrownByOne ==
    ASSUME NEW S, NEW T, NEW x, IsFiniteSet(S), T \subseteq S \cup {x}
    PROVE  /\ Cardinality(S) \in Nat /\ Cardinality(T) \in Nat
           /\ Cardinality(T) <= Cardinality(S) + 1
<1>1. /\ IsFiniteSet(S \cup {x}) /\ Cardinality(S) \in Nat /\ Cardinality(S \cup {x}) \in Nat
      /\ Cardinality(S \cup {x}) <= Cardinality(S) + 1
    BY AddingOne
<1>2. Cardinality(T) \in Nat /\ Cardinality(T) <= Cardinality(S \cup {x})
    BY <1>1, FS_Subset, FS_CardinalityType
<1> QED BY <1>1, <1>2

\* So an issue more is made only if something was lost.
LEMMA OneIssueKept ==
    ASSUME QueueInv, DispatchInv, OpenInv, [Next]_vars
    PROVE  OpenInv'
<1> SUFFICES ASSUME NEW t \in Tasks \ WebhookTasks
             PROVE  /\ Cardinality(Opened(t)') <= 1 + blind'
                    /\ Duplicates(t)' = {} => Cardinality(Opened(t)') <= blind'
    BY DEF OpenInv, WebhookTasks
<1>1. blind \in Nat /\ blind' \in {blind, blind + 1}
    BY WorkflowMoves DEF DispatchInv
<1>2. /\ Cardinality(Opened(t)) <= 1 + blind
      /\ Duplicates(t) = {} => Cardinality(Opened(t)) <= blind
      /\ IsFiniteSet(Opened(t)) /\ Cardinality(Opened(t)) \in Nat
      /\ Duplicates(t) \subseteq Opened(t)
    BY OpenedFinite DEF OpenInv
<1>3. ASSUME NEW S, S = Opened(t)', S \subseteq Opened(t),
             NEW D, D = Duplicates(t)', \A i \in Duplicates(t) : i \in S => i \in D
      PROVE  Cardinality(S) <= 1 + blind' /\ (D = {} => Cardinality(S) <= blind')
    <2>1. Cardinality(S) <= Cardinality(Opened(t)) /\ Cardinality(S) \in Nat
        BY <1>2, <1>3, FS_Subset, FS_CardinalityType
    <2>2. ASSUME D = {}, Duplicates(t) # {} PROVE Cardinality(S) <= blind'
        <3>1. PICK d \in Duplicates(t) : d \notin S
            BY <1>3, <2>2
        <3>2. d \in Opened(t) /\ S \subseteq Opened(t) \ {d}
            BY <1>2, <1>3, <3>1
        <3>3. /\ IsFiniteSet(Opened(t) \ {d})
              /\ Cardinality(Opened(t) \ {d}) = Cardinality(Opened(t)) - 1
            BY <1>2, <3>2, FS_RemoveElement
        <3>4. Cardinality(S) <= Cardinality(Opened(t) \ {d})
            BY <3>2, <3>3, FS_Subset
        <3> QED BY <1>1, <1>2, <2>1, <3>3, <3>4
    <2> QED BY <1>1, <1>2, <2>1, <2>2
<1>4. ASSUME TaskCreated, Task \in Tasks \ WebhookTasks
      PROVE  /\ Cardinality(Opened(t)') <= 1 + blind'
             /\ Duplicates(t)' = {} => Cardinality(Opened(t)') <= blind'
    <2>1. PICK i \in Free, j \in Free : \E labelled \in SUBSET {i, j}, late \in SUBSET {i, j} :
             /\ Creates(Task, {i, j}, labelled, late)
             /\ i \in labelled \/ (i = j /\ Duplicates(Task) = {} /\ blind' = blind + 1)
             /\ i # j => Duplicates(Task) = {}
             /\ (i # j \/ Duplicates(Task) # {}) => blind' = blind + 1
        BY <1>4 DEF TaskCreated
    <2>2. PICK labelled : \E late :
             /\ Creates(Task, {i, j}, labelled, late)
             /\ i \in labelled \/ (i = j /\ Duplicates(Task) = {} /\ blind' = blind + 1)
             /\ i # j => Duplicates(Task) = {}
             /\ (i # j \/ Duplicates(Task) # {}) => blind' = blind + 1
        BY <2>1
    <2>3. /\ \A k \in IssueIds :
                /\ k \in {i, j} /\ k \in labelled => issue'[k] = NewIssue(Task, TRUE)
                /\ k \in {i, j} /\ k \notin labelled => issue'[k] = NewIssue(Task, FALSE)
                /\ k \notin {i, j} => issue'[k] = issue[k]
          /\ i \in IssueIds /\ j \in IssueIds
        BY <2>2, CreatedIssues, Zenon DEF Free
    <2>4. /\ NewIssue(Task, TRUE).task = Task /\ NewIssue(Task, TRUE).open
          /\ NewIssue(Task, FALSE).task = Task /\ NewIssue(Task, FALSE).open
          /\ NewIssue(Task, TRUE).labels
          /\ Task # NoTask
        BY <1>4, QueueAssumption DEF NewIssue, NoIssue
    <2>5. /\ \A k \in {i, j} : issue'[k].task = Task /\ issue'[k].open
          /\ i \in labelled => issue'[i].labels
        BY <2>3, <2>4, Zenon
    <2>6. Made' = Made \cup {i, j}
        BY <2>3, <2>4, <2>5 DEF Made
    <2>7. CASE Title[Task] # Title[t]
        <3>1. Opened(t)' \subseteq Opened(t)
            BY <2>3, <2>5, <2>6, <2>7 DEF Opened, Made
        <3>2. \A k \in Duplicates(t) : k \notin {i, j} /\ k \in IssueIds
            BY DEF Duplicates, Made, Free
        <3>3. \A k \in Duplicates(t) : k \in Opened(t)' => k \in Duplicates(t)'
            BY <2>3, <2>6, <3>2 DEF Duplicates, Opened
        <3> QED BY <1>3, <3>1, <3>3
    <2>8. CASE Title[Task] = Title[t]
        <3>1. Duplicates(Task) = Duplicates(t)
            BY <2>8 DEF Duplicates
        <3>2. Opened(t)' \subseteq Opened(t) \cup {i, j}
            BY <2>3, <2>6 DEF Opened, Made
        <3>3. i \in labelled => Duplicates(t)' # {}
            <4>1. ASSUME i \in labelled PROVE i \in Duplicates(t)'
                BY <1>4, <2>5, <2>6, <2>8, <4>1 DEF Duplicates, WebhookTasks
            <4> QED BY <4>1
        <3>4. CASE i = j
            <4> DEFINE S == Opened(t)'
            <4>1. S \subseteq Opened(t) \cup {i}
                BY <3>2, <3>4
            <4> HIDE DEF S
            <4>2. Cardinality(S) \in Nat /\ Cardinality(S) <= Cardinality(Opened(t)) + 1
                BY <1>2, <4>1, GrownByOne
            <4>3. /\ Cardinality(S) <= 1 + blind'
                  /\ Duplicates(t)' = {} => Cardinality(S) <= blind'
                BY <1>1, <1>2, <2>2, <3>1, <3>3, <4>2
            <4> QED BY <4>3 DEF S
        <3>5. CASE i # j
            <4> DEFINE S == Opened(t)'
                       T == Opened(t) \cup {i}
            <4>1. S \subseteq T \cup {j}
                BY <3>2
            <4>2. /\ IsFiniteSet(T) /\ Cardinality(T) \in Nat
                  /\ Cardinality(T) <= Cardinality(Opened(t)) + 1
                BY <1>2, AddingOne
            <4> HIDE DEF S, T
            <4>3. Cardinality(S) \in Nat /\ Cardinality(S) <= Cardinality(T) + 1
                BY <4>1, <4>2, GrownByOne
            <4>4. Cardinality(S) <= 1 + blind' /\ Duplicates(t)' # {}
                BY <1>1, <1>2, <2>2, <3>1, <3>3, <3>5, <4>2, <4>3
            <4> QED BY <4>4 DEF S
        <3> QED BY <3>4, <3>5
    <2> QED BY <2>7, <2>8
<1>5. CASE NoneCreated
    BY <1>3, <1>5 DEF NoneCreated
<1> QED BY <1>4, <1>5, CreationsCounted

\* A task that is submitted again, or twice under one title, has one open issue,
\* and one more for each listing, answer or labelling that was lost (create_issue's
\* search for a duplicate in issue_lifecycle.py).
THEOREM OneIssue == Spec => []OneIssuePerRequest
<1>1. Init => OpenInv
    <2> SUFFICES ASSUME Init, NEW t \in Tasks \ WebhookTasks
                 PROVE  Cardinality(Opened(t)) = 0 /\ blind = 0
        BY DEF OpenInv
    <2>1. Opened(t) = {}
        BY QueueStarts DEF Opened
    <2> QED BY <2>1, FS_EmptySet DEF Init, DispatchInit
<1>2. QueueInv /\ DispatchInv /\ OpenInv /\ [Next]_vars => OpenInv'
    BY OneIssueKept
<1>3. OpenInv => OneIssuePerRequest
    BY DEF OpenInv, OneIssuePerRequest, Opened
<1> QED BY <1>1, <1>2, <1>3, QueueSafe, PTL DEF Spec

-----------------------------------------------------------------------------
(* A workflow starts anew only for another row.                            *)

\* The row that made a workflow was taken, and is not to be worked on any more
\* but for the rest of that dispatch.
RestartInv ==
    /\ by \in [IssueIds -> RowIds \cup {NoId}]
    /\ \A i \in IssueIds :
          /\ by[i] \in RowIds => rows[by[i]].st \in {"processing", "done", "failed"}
          /\ by[i] \in batch => at \in {"start", "launch"} /\ by[i] = InHand

\* A row that was taken is never pending again.
LEMMA TakenStays ==
    ASSUME QueueInv, QueueMove, NEW n \in RowIds,
           rows[n].st \in {"processing", "done", "failed"}
    PROVE  rows'[n].st \in {"processing", "done", "failed"}
<1>1. CASE UNCHANGED rows
    BY <1>1
<1>2. ASSUME NEW t \in Tasks, EnqueueInserts(t)
      PROVE  rows'[n].st \in {"processing", "done", "failed"}
    <2>1. PICK k \in RowIds \ Numbered :
              rows' = [rows EXCEPT ![k] = [NoRow EXCEPT !.task = t, !.st = "uncommitted"]]
        BY <1>2, InsertsLast
    <2> QED BY <2>1 DEF QueueInv, Numbered
<1>3. ASSUME NEW k \in RowIds, EnqueueCommits(k)
      PROVE  rows'[n].st \in {"processing", "done", "failed"}
    BY <1>3 DEF EnqueueCommits, Uncommitted, QueueInv, RowType
<1>4. CASE ClaimPending
    BY <1>4 DEF ClaimPending, Claimed, Pending, QueueInv
<1>5. CASE Settles
    <2>1. InHand \in RowIds /\ rows[InHand].st = "processing"
        BY <1>5, InHandIsFirst DEF Settles
    <2> QED BY <1>5, <2>1 DEF Settles, Settle, Ends, QueueInv, RowType
<1> QED BY <1>1, <1>2, <1>3, <1>4, <1>5 DEF QueueMove, Looks, Drops

\* A row comes into the batch only when it is pending.
LEMMA BatchMoves ==
    ASSUME QueueMove, NEW n \in batch'
    PROVE  n \in batch \/ rows[n].st = "pending"
BY DEF QueueMove, Looks, EnqueueInserts, EnqueueCommits, ClaimPending, Claimed, Pending, Settles,
       Settle, Drops

LEMMA RestartKept ==
    ASSUME QueueInv, DispatchInv, RestartInv, [Next]_vars
    PROVE  RestartInv'
<1>1. QueueMove /\ AtMove /\ WorkflowMove
    BY QueueMoves, AtMoves, WorkflowMoves
<1>2. NoId \notin RowIds /\ batch \subseteq RowIds
    BY QueueAssumption DEF NoId, RowIds, QueueInv
<1>3. CASE /\ at = "workflow" /\ at' = "start" /\ by' = [by EXCEPT ![target] = InHand]
           /\ UNCHANGED <<batch, rows>>
    <2>1. batch # {} /\ target \in IssueIds
        BY <1>3 DEF DispatchInv, Made
    <2>2. InHand \in RowIds /\ rows[InHand].st = "processing" /\ InHand' = InHand
        BY <1>3, <2>1, InHandIsFirst DEF InHand
    <2> QED BY <1>3, <2>1, <2>2 DEF RestartInv
<1>4. CASE by' = by
    <2>1. ASSUME NEW i \in IssueIds
          PROVE  /\ by[i] \in RowIds => rows'[by[i]].st \in {"processing", "done", "failed"}
                 /\ by[i] \in batch' => at' \in {"start", "launch"} /\ by[i] = InHand'
        <3>1. by[i] \in RowIds => rows'[by[i]].st \in {"processing", "done", "failed"}
            BY <1>1, TakenStays DEF RestartInv
        <3>2. ASSUME by[i] \in batch'
              PROVE  at' \in {"start", "launch"} /\ by[i] = InHand'
            <4>1. by[i] \in RowIds
                BY <1>2, <3>2, <1>1, QueueKept DEF QueueInv
            <4>2. by[i] \in batch
                BY <1>1, <3>2, <4>1, BatchMoves DEF RestartInv
            <4>3. at \in {"start", "launch"} /\ by[i] = InHand
                BY <4>2 DEF RestartInv
            <4>4. batch' = batch /\ at' \in {"start", "launch"}
                BY <1>1, <3>2, <4>3 DEF AtMove
            <4> QED BY <4>3, <4>4 DEF InHand
        <3> QED BY <3>1, <3>2
    <2> QED BY <1>4, <2>1 DEF RestartInv
<1> QED BY <1>1, <1>3, <1>4 DEF WorkflowMove

\* A dispatch resets the workflow of its issue only for another row than the one
\* that made it (create_workflow_for_issue in task_dispatch.py): after a crash, a
\* failed mark or a new claim no row comes to hand again.
THEOREM RestartsNeedRows == Spec => RestartNeedsResubmission
<1>1. Init => RestartInv
    BY QueueAssumption DEF Init, QueueInit, DispatchInit, RestartInv, NoId, RowIds
<1>2. QueueInv /\ DispatchInv /\ RestartInv /\ [Next]_vars => RestartInv'
    BY RestartKept
<1>3. ASSUME QueueInv, DispatchInv, RestartInv, [Next]_vars, NEW i \in IssueIds,
             wf[i] \in {"running", "completed"}, wf'[i] = "pending"
      PROVE  by'[i] # by[i]
    <2>1. at = "workflow" /\ by' = [by EXCEPT ![target] = InHand] /\ target = i
        BY <1>3, WorkflowMoves DEF WorkflowMove, DispatchInv
    <2>2. InHand \in batch
        BY <1>3, <2>1, InHandIsFirst DEF DispatchInv
    <2>3. by[i] # InHand /\ by'[i] = InHand
        BY <1>3, <2>1, <2>2 DEF RestartInv
    <2> QED BY <2>3
<1>4. QueueInv /\ DispatchInv /\ RestartInv /\ [Next]_vars
         => [\A i \in IssueIds :
                wf[i] \in {"running", "completed"} /\ wf'[i] = "pending" => by'[i] # by[i]]_vars
    BY <1>3
<1> QED BY <1>1, <1>2, <1>4, QueueSafe, PTL DEF Spec, RestartNeedsResubmission

===============================================================================
