-------------------------- MODULE DeliveryMergeProofs --------------------------
(***************************************************************************)
(* Proofs about the way from a completed workflow to a closed issue, for   *)
(* any repositories and any bounds: worktrees, finalisation, merge queue   *)
(* and the webhooks of pull requests; and that every issue follows its     *)
(* life.                                                                   *)
(***************************************************************************)
EXTENDS DeliveryQueueProofs

-----------------------------------------------------------------------------
(* The inductive invariant's types.                                        *)

Entry == [st : {"absent", "pending_auto_merge", "pending_manual_review", "merging", "merged",
                "failed"},
          over : BOOLEAN]

\* An editor is about to save one document at most.
DocInv ==
    /\ mode \in {"manual", "auto"}
    /\ doc \in [PRs -> Entry]
    /\ DOMAIN held = Editors
    /\ \A w \in Editors : held[w] = {} \/ \E d \in [PRs -> Entry] : held[w] = {d}

PassInv ==
    /\ merging \subseteq PRs /\ inMerge \in PRs \cup {NoPR}
    /\ press \in [act : {"none", "approve", "merge", "retry"}, todo : SUBSET PRs]

\* What was merged had been requested, and an event tells only of what was merged.
RequestInv ==
    /\ prs \in [PRs -> {"none", "open", "merged", "closed"}]
    /\ landed \subseteq PRs /\ byQueue \subseteq landed /\ approved \subseteq PRs
    /\ \A p : <<p, "merged">> \in events => p \in landed
    /\ \A p \in landed : prs[p] # "none"
    /\ \A p \in PRs : prs[p] = "merged" => p \in landed

MergeInv == DocInv /\ PassInv /\ RequestInv

FinType == [at : {"idle", "repos", "clean", "queue"}, issue : IssueIds \cup {NoId}, todo : SUBSET Repos,
            urls : SUBSET Repos, blocked : BOOLEAN]

\* A finalisation is of an issue of the project.
FinalInv ==
    /\ tree \in [PRs -> BOOLEAN]
    /\ removing \subseteq PRs \X Cleaners /\ raced \subseteq removing
    /\ work \in [PRs -> WorkStates]
    /\ fin \in [Editors -> FinType]
    /\ \A f \in Editors :
          /\ fin[f].issue # NoId => fin[f].issue \in Made
          /\ fin[f].at = "idle" <=> fin[f].issue = NoId
          /\ fin[f].at \in {"idle", "queue"} => fin[f].todo = {}
          /\ fin[f].at = "queue" => fin[f].urls # {}
    /\ ended \subseteq IssueIds /\ broken \subseteq PRs

-----------------------------------------------------------------------------
(* Operators of the model.                                                 *)

\* What comes in order is something there is.
LEMMA InOrderIsMember ==
    ASSUME NEW S, S # {}
    PROVE  InOrder(S) \in S
BY DEF InOrder

\* Pull requests are of an issue and a repository.
LEMMA PullRequests ==
    /\ \A p \in PRs : p[1] \in IssueIds /\ p[2] \in Repos /\ p = <<p[1], p[2]>>
    /\ \A i \in IssueIds, r \in Repos : <<i, r>> \in PRs
    /\ NoPR \notin PRs
BY Ids DEF PRs, NoPR

\* Editors and what they make of an entry.
LEMMA EntryTypes ==
    /\ NoEntry \in Entry /\ Queued \in Entry
    /\ \A a \in {"none", "approve", "merge", "retry"} : Target(a) \in Entry
    /\ \A e \in Entry : [e EXCEPT !.st = "merging"] \in Entry
BY DEF NoEntry, Entry, Queued, Target

-----------------------------------------------------------------------------
(* What a step may do to the merge queue.                                  *)

\* Every step leaves it alone but for these.
LEMMA MergeMoves ==
    ASSUME [Next]_vars
    PROVE  \/ UNCHANGED mergeVars
           \/ \E w \in Editors : Saves(w)
           \/ PassBegins \/ MergeMarks \/ MergeCalls \/ PressLoads
           \/ \E i \in IssueIds, act \in {"approve", "merge", "retry"} : Press(act, i)
           \/ \E p \in PRs : HumanMerges(p) \/ HumanRejects(p)
           \/ \E f \in Editors, r \in Repos : FinalizesRepo(f, r) \/ FinalizeQueues(f, r)
           \/ ProcessorCrashes
           \/ \E p \in PRs, how \in {"merged", "closed"} : PRClosed(p, how)
<1>1. CASE \E f \in Editors : Finalizes(f)
    BY <1>1 DEF Finalizes, CleansUp, CleansBegin, FinalizeEnds, Removes
<1>2. CASE Elsewhere /\ ~\E f \in Editors : Finalizes(f)
    BY <1>2 DEF Elsewhere, Merges, Users, ContinueFinalizes, IssueClosed, AgentWrites, Removes
<1>3. CASE Claims \/ Dispatches \/ Submits
    BY <1>3 DEF Claims, Dispatches, Submits
<1>4. CASE \/ \E i \in IssueIds :
                 \/ WorkflowDone(i) \/ ReviewerEnds(i) \/ OpensByHand(i) \/ RequestsPlan(i)
                 \/ IssueEvent("opened", i) \/ IssueEvent("labeled", i)
           \/ \E p \in PRs : PROpened(p)
           \/ UNCHANGED vars
    BY <1>4 DEF WorkflowDone, ReviewerEnds, OpensByHand, RequestsPlan, IssueEvent, PROpened, vars
<1> QED BY <1>1, <1>2, <1>3, <1>4, StepCases, Zenon

\* A document that is about to be saved has one entry changed.
LEMMA LoadsTyped ==
    ASSUME DocInv, NEW w \in Editors, NEW p \in PRs, NEW e \in Entry,
           Loads(w, p, e), UNCHANGED <<mode, doc>>
    PROVE  DocInv'
<1> DEFINE d == [doc EXCEPT ![p] = e]
<1>1. d \in [PRs -> Entry] /\ held' = [held EXCEPT ![w] = {d}]
    BY DEF DocInv, Loads
<1> HIDE DEF d
<1>2. DOMAIN held' = Editors
    BY <1>1 DEF DocInv
<1>3. \A v \in Editors : held'[v] = {} \/ \E c \in [PRs -> Entry] : held'[v] = {c}
    BY <1>1 DEF DocInv
<1> QED BY <1>2, <1>3 DEF DocInv

\* A pull request that is merged had been open.
LEMMA MergesTyped ==
    ASSUME RequestInv, NEW p \in PRs, MergesPR(p),
           byQueue' \in {byQueue, byQueue \cup {p}}, UNCHANGED approved
    PROVE  RequestInv'
<1>1. \A q : <<q, "merged">> \in events' => q \in landed'
    BY DEF RequestInv, MergesPR
<1> QED BY <1>1 DEF RequestInv, MergesPR

\* A finalisation in hand is of an issue and of one of its repositories.
LEMMA RepoInHand ==
    ASSUME FinalInv, NEW f \in Editors, NEW r \in Repos, fin[f].at # "idle"
    PROVE  /\ fin[f].issue \in Made /\ fin[f].issue \in IssueIds
           /\ <<fin[f].issue, r>> \in PRs
BY PullRequests DEF FinalInv, Made

LEMMA MergeKept ==
    ASSUME MergeInv, FinalInv, [Next]_vars
    PROVE  MergeInv'
<1>1. CASE UNCHANGED mergeVars
    BY <1>1 DEF mergeVars, MergeInv, DocInv, PassInv, RequestInv
<1>2. ASSUME NEW w \in Editors, Saves(w) PROVE MergeInv'
    <2>1. PICK d \in [PRs -> Entry] : held[w] = {d} /\ doc' = d
        BY <1>2 DEF Saves, MergeInv, DocInv
    <2>2. DocInv'
        BY <1>2, <2>1 DEF Saves, MergeInv, DocInv
    <2> QED BY <1>2, <2>2 DEF Saves, MergeInv, PassInv, RequestInv
<1>3. CASE PassBegins
    BY <1>3 DEF PassBegins, MergeInv, DocInv, PassInv, RequestInv
<1>4. CASE MergeMarks
    <2> DEFINE p == InOrder(merging)
               e == IF doc[p] = NoEntry THEN NoEntry ELSE [doc[p] EXCEPT !.st = "merging"]
    <2>1. p \in merging /\ p \in PRs
        BY <1>4, InOrderIsMember DEF MergeMarks, MergeInv, PassInv
    <2>2. /\ merging' = merging \ {p} /\ inMerge' = p /\ Loads("processor", p, e)
          /\ UNCHANGED <<mode, doc, press, prs, landed, byQueue, approved, events>>
        BY <1>4 DEF MergeMarks
    <2> HIDE DEF p
    <2>3. e \in Entry
        BY <2>1, EntryTypes DEF MergeInv, DocInv
    <2> HIDE DEF e
    <2>4. DocInv'
        BY <2>1, <2>2, <2>3, LoadsTyped DEF Editors, MergeInv
    <2> QED BY <2>1, <2>2, <2>4 DEF MergeInv, PassInv, RequestInv
<1>5. CASE MergeCalls
    <2>1. inMerge \in PRs /\ "processor" \in Editors
        BY <1>5 DEF MergeCalls, MergeInv, PassInv, Editors
    <2>2. ASSUME NEW st \in {"merged", "failed"}, Records(inMerge, st), UNCHANGED <<mode, doc>>
          PROVE  DocInv'
        <3>1. [st |-> st, over |-> st # "merged" /\ doc[inMerge].over] \in Entry
            BY <2>1 DEF Entry, MergeInv, DocInv
        <3>2. (IF doc[inMerge] = NoEntry THEN NoEntry
               ELSE [st |-> st, over |-> st # "merged" /\ doc[inMerge].over]) \in Entry
            BY <3>1, EntryTypes
        <3> QED BY <2>1, <2>2, <3>2, LoadsTyped DEF Records, MergeInv
    <2>3. DocInv'
        BY <1>5, <2>2 DEF MergeCalls, apart
    <2>4. RequestInv'
        <3>1. CASE MergesPR(inMerge) /\ byQueue' = byQueue \cup {inMerge}
            BY <1>5, <2>1, <3>1, MergesTyped DEF MergeCalls, MergeInv
        <3>2. CASE UNCHANGED <<prs, landed, byQueue, events>>
            BY <1>5, <3>2 DEF MergeCalls, MergeInv, RequestInv
        <3> QED BY <1>5, <3>1, <3>2 DEF MergeCalls
    <2> QED BY <1>5, <2>3, <2>4 DEF MergeCalls, apart, MergeInv, PassInv
<1>6. ASSUME NEW i \in IssueIds, NEW act \in {"approve", "merge", "retry"}, Press(act, i)
      PROVE  MergeInv'
    BY <1>6 DEF Press, MergeInv, DocInv, PassInv, RequestInv
<1>7. CASE PressLoads
    <2> DEFINE p == InOrder(press.todo)
               e == IF doc[p] = NoEntry THEN NoEntry ELSE Target(press.act)
    <2>1. p \in PRs
        BY <1>7, InOrderIsMember DEF PressLoads, MergeInv, PassInv
    <2>2. /\ press' = IF press.todo = {p} THEN NoPress ELSE [press EXCEPT !.todo = @ \ {p}]
          /\ Loads("bot", p, e)
          /\ UNCHANGED <<mode, doc, merging, inMerge, prs, landed, byQueue, approved, events>>
        BY <1>7 DEF PressLoads
    <2> HIDE DEF p
    <2>3. e \in Entry
        BY EntryTypes DEF MergeInv, PassInv
    <2> HIDE DEF e
    <2>4. DocInv'
        BY <2>1, <2>2, <2>3, LoadsTyped DEF Editors, MergeInv
    <2>5. press' \in [act : {"none", "approve", "merge", "retry"}, todo : SUBSET PRs]
        BY <2>2 DEF MergeInv, PassInv, NoPress
    <2> QED BY <2>2, <2>4, <2>5 DEF MergeInv, PassInv, RequestInv
<1>8. ASSUME NEW p \in PRs, HumanMerges(p) \/ HumanRejects(p) PROVE MergeInv'
    <2>1. CASE HumanMerges(p)
        <3>1. RequestInv'
            BY <2>1, MergesTyped DEF HumanMerges, MergeInv
        <3> QED BY <2>1, <3>1 DEF HumanMerges, apart, MergeInv, DocInv, PassInv
    <2>2. CASE HumanRejects(p)
        <3>1. \A q : <<q, "merged">> \in events' => q \in landed'
            BY <2>2 DEF HumanRejects, MergeInv, RequestInv
        <3> QED BY <2>2, <3>1 DEF HumanRejects, apart, MergeInv, DocInv, PassInv, RequestInv
    <2> QED BY <1>8, <2>1, <2>2
<1>9. ASSUME NEW f \in Editors, NEW r \in Repos, FinalizesRepo(f, r) PROVE MergeInv'
    <2> DEFINE p == <<fin[f].issue, r>>
    <2>1. p \in PRs
        BY <1>9, RepoInHand, SMTT(30) DEF FinalizesRepo
    <2>2. prs' = prs \/ prs' = [prs EXCEPT ![p] = "open"]
        BY <1>9 DEF FinalizesRepo, CreatesPR, LinksPR, CreateBreaks, LinkBreaks
    <2> HIDE DEF p
    <2>3. UNCHANGED <<mode, doc, held, merging, inMerge, press, landed, byQueue, approved, events>>
        BY <1>9 DEF FinalizesRepo
    <2> QED BY <2>1, <2>2, <2>3 DEF MergeInv, DocInv, PassInv, RequestInv
<1>10. ASSUME NEW f \in Editors, NEW r \in Repos, FinalizeQueues(f, r) PROVE MergeInv'
    <2> DEFINE p == <<fin[f].issue, r>>
    <2>1. p \in PRs
        BY <1>10, RepoInHand DEF FinalizeQueues
    <2>2. Loads(f, p, Queued) \/ held' = held
        BY <1>10 DEF FinalizeQueues
    <2> HIDE DEF p
    <2>3. UNCHANGED <<mode, doc, merging, inMerge, press, prs, landed, byQueue, approved, events>>
        BY <1>10 DEF FinalizeQueues
    <2>4. DocInv'
        BY <2>1, <2>2, <2>3, LoadsTyped, EntryTypes DEF MergeInv, DocInv
    <2> QED BY <2>3, <2>4 DEF MergeInv, PassInv, RequestInv
<1>11. CASE ProcessorCrashes
    BY <1>11 DEF ProcessorCrashes, MergeInv, DocInv, PassInv, RequestInv
<1>12. ASSUME NEW p \in PRs, NEW how, PRClosed(p, how) PROVE MergeInv'
    BY <1>12 DEF PRClosed, apart, MergeInv, DocInv, PassInv, RequestInv
<1> QED BY <1>1, <1>2, <1>3, <1>4, <1>5, <1>6, <1>7, <1>8, <1>9, <1>10, <1>11, <1>12, MergeMoves

-----------------------------------------------------------------------------
(* What a step may do to the agents and the finalisations.                 *)

\* Nothing belongs to an issue that is not made, and its task is not submitted.
MadeInv ==
    \A i \in IssueIds \ Made :
       /\ wf[i] = "none" /\ ~agent[i]
       /\ \A r \in Repos : prs[<<i, r>>] = "none"
       /\ looked[IssueFile[i]] = 0
       /\ \A n \in RowIds : rows[n].task # IssueFile[i]

\* An agent is launched for the issue in hand, for the one whose webhook
\* enqueued the row in hand, or where something is proposed.
LEMMA AgentMoves ==
    ASSUME DispatchInv, [Next]_vars, NEW i \in IssueIds, agent'[i], ~agent[i]
    PROVE  \/ at = "launch" /\ i = target
           \/ at = "idle" /\ batch # {} /\ Task = IssueFile[i]
           \/ \E r \in Repos : prs[<<i, r>>] # "none"
<1> USE DEF DispatchInv
<1>1. CASE WebhookTask
    <2> DEFINE j == CHOOSE k \in IssueIds : IssueFile[k] = Task
    <2>1. \E k \in IssueIds : IssueFile[k] = Task
        BY <1>1, WebhookFiles DEF WebhookTask
    <2>2. j \in IssueIds /\ IssueFile[j] = Task
        BY <2>1
    <2>3. agent' = agent \/ agent' = [agent EXCEPT ![j] = TRUE]
        BY <1>1 DEF WebhookTask
    <2> HIDE DEF j
    <2>4. i = j
        BY <2>2, <2>3
    <2> QED BY <1>1, <2>2, <2>4 DEF WebhookTask
<1>2. CASE Dispatches /\ ~WebhookTask
    BY <1>2 DEF Dispatches, PrepareTask, CreateIssue, CreateWorkflow, StartWorkflow, LaunchFirst
<1>3. CASE Elsewhere
    BY <1>3, ElsewhereStays
<1>4. CASE \/ Claims \/ ProcessorCrashes \/ Submits
           \/ \E j \in IssueIds :
                 \/ WorkflowDone(j) \/ ReviewerEnds(j) \/ OpensByHand(j) \/ RequestsPlan(j)
                 \/ IssueEvent("opened", j) \/ IssueEvent("labeled", j)
           \/ UNCHANGED vars
    BY <1>4 DEF Claims, ProcessorCrashes, Submits, WorkflowDone, ReviewerEnds, OpensByHand,
                RequestsPlan, IssueEvent, vars, dispatchVars
<1>5. CASE \E p \in PRs : PROpened(p)
    BY <1>5, PullRequests, SMTT(60) DEF PROpened
<1> QED BY <1>1, <1>2, <1>3, <1>4, <1>5, StepCases, Zenon

\* A pull request is opened by the finalisation of its issue, then merged or
\* turned down.
RequestMove ==
    \/ UNCHANGED <<prs, landed>>
    \/ \E f \in Editors, r \in Repos :
          /\ fin[f].at = "repos"
          /\ prs' = [prs EXCEPT ![<<fin[f].issue, r>>] = "open"] /\ landed' = landed
    \/ \E p \in PRs : /\ prs[p] = "open"
                      /\ \/ /\ prs' = [prs EXCEPT ![p] = "merged"]
                            /\ landed' = landed \cup {p}
                         \/ prs' = [prs EXCEPT ![p] = "closed"] /\ landed' = landed

LEMMA RequestMoves ==
    ASSUME MergeInv, [Next]_vars
    PROVE  RequestMove
<1>1. CASE \E f \in Editors, r \in Repos : FinalizesRepo(f, r)
    BY <1>1 DEF FinalizesRepo, CreatesPR, LinksPR, CreateBreaks, LinkBreaks, RequestMove
<1>2. CASE MergeCalls
    BY <1>2 DEF MergeCalls, MergesPR, MergeInv, PassInv, RequestMove
<1>3. CASE \E p \in PRs : HumanMerges(p) \/ HumanRejects(p)
    BY <1>3 DEF HumanMerges, HumanRejects, MergesPR, RequestMove
<1> QED BY <1>1, <1>2, <1>3, MergeMoves
        DEF mergeVars, Saves, PassBegins, MergeMarks, Press, PressLoads, FinalizeQueues,
            ProcessorCrashes, PRClosed, RequestMove

\* Only the event of an issue that is made enqueues its task.
LEMMA FilesLookedFor ==
    ASSUME QueueInv, DispatchInv, MadeInv, [Next]_vars, NEW i \in IssueIds \ Made
    PROVE  looked'[IssueFile[i]] = 0
<1> DEFINE t == IssueFile[i]
<1>1. t \in Tasks /\ t \in WebhookTasks /\ looked[t] = 0
    BY WebhookFiles DEF MadeInv
<1>2. CASE \E j \in IssueIds : IssueEvent("opened", j) \/ IssueEvent("labeled", j)
    <2>1. PICK j \in IssueIds : IssueEvent("opened", j) \/ IssueEvent("labeled", j)
        BY <1>2
    <2>2. j \in Made /\ j # i
        BY <2>1 DEF IssueEvent, Noticed, DispatchInv
    <2>3. IssueFile[j] # t
        BY <2>2, WebhookFiles
    <2> QED BY <1>1, <2>1, <2>3, WebhookFiles DEF IssueEvent, LooksFor, QueueInv
<1>3. CASE Submits
    <2>1. ASSUME NEW u \in Tasks \ WebhookTasks, EnqueueLooks(u) PROVE looked'[t] = 0
        BY <1>1, <2>1 DEF EnqueueLooks, LooksFor, QueueInv
    <2>2. ASSUME NEW u \in Tasks, EnqueueInserts(u) PROVE looked'[t] = 0
        BY <1>1, <2>2 DEF EnqueueInserts, QueueInv
    <2>3. ASSUME NEW n \in RowIds, EnqueueCommits(n) PROVE looked'[t] = 0
        BY <1>1, <2>3 DEF EnqueueCommits
    <2> QED BY <1>3, <2>1, <2>2, <2>3 DEF Submits
<1>4. CASE looked' = looked
    BY <1>1, <1>4
<1>5. CASE Dispatches
    BY <1>4, <1>5, DispatchMoves DEF Settles
<1>6. CASE Elsewhere
    BY <1>4, <1>6, ElsewhereStays, SMTT(30) DEF queueVars
<1>7. CASE \/ Claims \/ ProcessorCrashes
           \/ \E j \in IssueIds :
                 WorkflowDone(j) \/ ReviewerEnds(j) \/ OpensByHand(j) \/ RequestsPlan(j)
           \/ \E p \in PRs : PROpened(p)
           \/ UNCHANGED vars
    BY <1>4, <1>7 DEF Claims, ClaimPending, ProcessorCrashes, WorkflowDone, ReviewerEnds, OpensByHand,
                RequestsPlan, PROpened, vars, queueVars
<1> QED BY <1>2, <1>3, <1>5, <1>6, <1>7, StepCases, Zenon

\* A row has its task from its insertion on.
LEMMA TasksStay ==
    ASSUME QueueInv, QueueMove, NEW n \in RowIds, rows'[n].task # rows[n].task
    PROVE  \E t \in Tasks : looked[t] > 0 /\ rows'[n].task = t
<1>1. ASSUME NEW t \in Tasks, EnqueueInserts(t)
      PROVE  \E u \in Tasks : looked[u] > 0 /\ rows'[n].task = u
    <2>1. PICK k \in RowIds \ Numbered :
              rows' = [rows EXCEPT ![k] = [NoRow EXCEPT !.task = t, !.st = "uncommitted"]]
        BY <1>1, InsertsLast
    <2>2. rows'[n].task = t
        BY <2>1 DEF QueueInv, NoRow
    <2> QED BY <1>1, <2>2 DEF EnqueueInserts
<1>2. ~\E k \in RowIds : EnqueueCommits(k)
    BY DEF EnqueueCommits, QueueInv, RowType
<1>3. ASSUME ClaimPending PROVE FALSE
    <2>1. rows'[n] \in {[rows[n] EXCEPT !.st = "done", !.dup = TRUE],
                        [rows[n] EXCEPT !.st = "processing"], rows[n]}
        BY <1>3 DEF ClaimPending
    <2>2. rows[n] \in RowType
        BY DEF QueueInv
    <2> QED BY <2>1, <2>2 DEF RowType
<1>4. ~Settles
    BY InHandIsFirst DEF Settles, Settle, QueueInv, RowType
<1>5. rows' # rows
    OBVIOUS
<1> QED BY <1>1, <1>2, <1>3, <1>4, <1>5, Zenon DEF QueueMove, Looks, Drops

LEMMA MadeKept ==
    ASSUME QueueInv, DispatchInv, MergeInv, FinalInv, MadeInv, [Next]_vars
    PROVE  MadeInv'
<1> SUFFICES ASSUME NEW i \in IssueIds \ Made'
             PROVE  /\ wf'[i] = "none" /\ ~agent'[i]
                    /\ \A r \in Repos : prs'[<<i, r>>] = "none"
                    /\ looked'[IssueFile[i]] = 0
                    /\ \A n \in RowIds : rows'[n].task # IssueFile[i]
    BY DEF MadeInv
<1>1. i \notin Made /\ i \in IssueIds
    BY IssueMoves, IssuesStay DEF IssuesGrow
<1>2. wf'[i] = "none"
    BY <1>1, WorkflowMoves DEF WorkflowMove, DispatchInv, MadeInv
<1>3. ~agent'[i]
    <2>1. ~(at = "idle" /\ batch # {} /\ Task = IssueFile[i])
        BY <1>1, InHandIsFirst DEF MadeInv, Task
    <2> QED BY <1>1, <2>1, AgentMoves, ZenonT(60) DEF DispatchInv, MadeInv
<1>4. ASSUME NEW r \in Repos PROVE prs'[<<i, r>>] = "none"
    <2>1. prs[<<i, r>>] = "none" /\ <<i, r>> \in PRs
        BY <1>1, PullRequests DEF MadeInv
    <2>2. \A f \in Editors : fin[f].at = "repos" => fin[f].issue # i
        BY <1>1 DEF FinalInv
    <2>3. \A f \in Editors, s \in Repos : fin[f].at = "repos" => <<fin[f].issue, s>> # <<i, r>>
        BY <2>2
    <2> QED BY <2>1, <2>3, RequestMoves DEF RequestMove, MergeInv, RequestInv
<1>5. looked'[IssueFile[i]] = 0
    BY <1>1, FilesLookedFor
<1>6. \A n \in RowIds : rows'[n].task # IssueFile[i]
    BY <1>1, QueueMoves, TasksStay DEF MadeInv
<1> QED BY <1>2, <1>3, <1>4, <1>5, <1>6

\* What a step may do to the finalisations: one begins, deals with a
\* repository or its worktree, goes on to the worktrees or the merge queue,
\* enqueues, or ends.
FinMove ==
    \/ fin' = fin
    \/ \E f \in Editors, i \in Made : Begins(f, i)
    \/ \E f \in Editors : \E r \in fin[f].todo :
          \/ fin[f].at = "repos" /\ (Linked(f, r) \/ Blocked(f, r))
          \/ fin[f].at \in {"repos", "clean"} /\ Skipped(f, r)
    \/ \E f \in Editors : /\ fin[f].at = "repos" /\ fin[f].todo = {}
                          /\ fin' = [fin EXCEPT ![f].at = "clean", ![f].todo = Repos]
    \/ \E f \in Editors : /\ fin[f].at = "clean" /\ fin[f].todo = {} /\ fin[f].urls # {}
                          /\ fin' = [fin EXCEPT ![f].at = "queue"]
    \/ \E f \in Editors, r \in Repos : /\ fin[f].at = "queue" /\ fin[f].urls # {r}
                                       /\ fin' = [fin EXCEPT ![f].urls = @ \ {r}]
    \/ \E f \in Editors : fin' = [fin EXCEPT ![f] = NoFin]

\* Every step leaves worktrees, work and finalisations alone but for these.
LEMMA FinalMoves ==
    ASSUME [Next]_vars
    PROVE  \/ UNCHANGED finalVars
           \/ Dispatches
           \/ \E i \in IssueIds :
                 WorkflowDone(i) \/ ReviewerEnds(i) \/ IssueClosed(i) \/ ContinueFinalizes(i)
           \/ \E f \in Editors :
                 \/ CleansBegin(f) \/ FinalizeEnds(f)
                 \/ \E r \in Repos : FinalizesRepo(f, r) \/ CleansUp(f, r) \/ FinalizeQueues(f, r)
           \/ ProcessorCrashes
           \/ \E p \in PRs, w \in Cleaners : Removes(w, p)
           \/ \E p \in PRs, how \in {"merged", "closed"} : PRClosed(p, how)
           \/ \E p \in PRs : PROpened(p) \/ AgentWrites(p)
<1>1. ASSUME NEW f \in Editors, Finalizes(f)
      PROVE  \/ CleansBegin(f) \/ FinalizeEnds(f)
             \/ \E r \in Repos : FinalizesRepo(f, r) \/ CleansUp(f, r) \/ FinalizeQueues(f, r)
             \/ \E p \in PRs, w \in Cleaners : Removes(w, p)
    BY <1>1, Zenon DEF Finalizes, Cleaners
<1>2. CASE (Processor \/ Bot) /\ ~Dispatches /\ ~\E f \in Editors : Finalizes(f)
    BY <1>2 DEF Processor, Bot, Claims, Merges, Editors
<1>3. CASE Users \/ Submits
    BY <1>3 DEF Users, Submits
<1>4. CASE \/ \E i \in IssueIds :
                 \/ OpensByHand(i) \/ RequestsPlan(i)
                 \/ IssueEvent("opened", i) \/ IssueEvent("labeled", i)
           \/ UNCHANGED vars
    BY <1>4 DEF OpensByHand, RequestsPlan, IssueEvent, vars
<1>5. CASE \E p \in PRs :
              \/ AgentWrites(p) \/ PROpened(p) \/ Removes("webhook", p)
              \/ PRClosed(p, "merged") \/ PRClosed(p, "closed")
    BY <1>5, Zenon DEF Cleaners
<1> QED BY <1>1, <1>2, <1>3, <1>4, <1>5, Zenon DEF Next

LEMMA FinMoves ==
    ASSUME DispatchInv, MadeInv, FinalInv, [Next]_vars
    PROVE  FinMove
<1>1. CASE UNCHANGED finalVars
    BY <1>1 DEF finalVars, FinMove
<1>2. CASE \/ Dispatches
           \/ \E i \in IssueIds : ReviewerEnds(i) \/ IssueClosed(i)
           \/ \E p \in PRs, w \in Cleaners : Removes(w, p)
           \/ \E p \in PRs, how \in {"merged", "closed"} : PRClosed(p, how)
           \/ \E p \in PRs : PROpened(p) \/ AgentWrites(p)
    BY <1>2 DEF Dispatches, ReviewerEnds, IssueClosed, Removes, PRClosed, PROpened, AgentWrites, FinMove
<1>3. ASSUME NEW i \in IssueIds, WorkflowDone(i) PROVE FinMove
    <2>1. i \in Made /\ "processor" \in Editors
        BY <1>3 DEF WorkflowDone, MadeInv, Editors
    <2> QED BY <1>3, <2>1 DEF WorkflowDone, FinMove
<1>4. ASSUME NEW i \in IssueIds, ContinueFinalizes(i) PROVE FinMove
    <2>1. i \in Made /\ "bot" \in Editors
        BY <1>4 DEF ContinueFinalizes, MadeInv, Editors
    <2> QED BY <1>4, <2>1 DEF ContinueFinalizes, FinMove
<1>5. ASSUME NEW f \in Editors, NEW r \in Repos, FinalizesRepo(f, r) PROVE FinMove
    <2>1. r \in fin[f].todo /\ fin[f].at = "repos"
        BY <1>5, InOrderIsMember DEF FinalizesRepo
    <2>2. Linked(f, r) \/ Skipped(f, r) \/ Blocked(f, r)
        BY <1>5 DEF FinalizesRepo, CreatesPR, LinksPR, CreateBreaks, LinkBreaks
    <2> QED BY <2>1, <2>2 DEF FinMove
<1>6. ASSUME NEW f \in Editors, NEW r \in Repos, CleansUp(f, r) PROVE FinMove
    <2>1. r \in fin[f].todo /\ fin[f].at = "clean"
        BY <1>6, InOrderIsMember DEF CleansUp
    <2>2. Skipped(f, r)
        BY <1>6 DEF CleansUp, Skipped
    <2> QED BY <2>1, <2>2 DEF FinMove
<1>7. ASSUME NEW f \in Editors, NEW r \in Repos, FinalizeQueues(f, r) PROVE FinMove
    BY <1>7 DEF FinalizeQueues, FinMove
<1>8. ASSUME NEW f \in Editors, CleansBegin(f) \/ FinalizeEnds(f) PROVE FinMove
    BY <1>8 DEF CleansBegin, FinalizeEnds, FinMove
<1>9. CASE ProcessorCrashes
    BY <1>9 DEF ProcessorCrashes, FinMove, Editors
<1> QED BY <1>1, <1>2, <1>3, <1>4, <1>5, <1>6, <1>7, <1>8, <1>9, FinalMoves, Zenon

\* A finalisation that the invariant describes.
Sound(x) ==
    /\ x \in FinType
    /\ x.issue # NoId => x.issue \in Made
    /\ x.at = "idle" <=> x.issue = NoId
    /\ x.at \in {"idle", "queue"} => x.todo = {}
    /\ x.at = "queue" => x.urls # {}

LEMMA SoundStays ==
    ASSUME FinalInv, FinMove, Made \subseteq Made', NEW f \in Editors
    PROVE  Sound(fin[f]) /\ Sound(fin[f])'
<1>1. Sound(fin[f])
    BY DEF FinalInv, Sound
<1> DEFINE x == fin[f]
<1>2. Sound(x)' <=> /\ fin'[f] \in FinType
                    /\ fin'[f].issue # NoId => fin'[f].issue \in Made'
                    /\ fin'[f].at = "idle" <=> fin'[f].issue = NoId
                    /\ fin'[f].at \in {"idle", "queue"} => fin'[f].todo = {}
                    /\ fin'[f].at = "queue" => fin'[f].urls # {}
    BY DEF Sound
<1>3. CASE fin'[f] = fin[f]
    BY <1>1, <1>2, <1>3 DEF Sound
<1>4. CASE fin'[f] = NoFin
    BY <1>1, <1>2, <1>4 DEF NoFin, FinType
<1>5. ASSUME NEW i \in Made, Begins(f, i) PROVE Sound(x)'
    <2>1. fin'[f] = [at |-> "repos", issue |-> i, todo |-> Repos, urls |-> {}, blocked |-> FALSE]
        BY <1>5 DEF Begins, NoFin, FinalInv
    <2>2. i \in IssueIds /\ i # NoId
        BY Ids DEF Made
    <2> QED BY <1>2, <2>1, <2>2 DEF FinType
<1>6. ASSUME NEW r \in fin[f].todo, fin[f].at \in {"repos", "clean"},
             Linked(f, r) \/ Skipped(f, r) \/ Blocked(f, r)
      PROVE  Sound(x)'
    BY <1>1, <1>2, <1>6 DEF Linked, Skipped, Blocked, Sound, FinType, FinalInv
<1>7. CASE \/ /\ fin[f].at = "repos"
              /\ fin' = [fin EXCEPT ![f].at = "clean", ![f].todo = Repos]
           \/ /\ fin[f].at = "clean" /\ fin[f].todo = {} /\ fin[f].urls # {}
              /\ fin' = [fin EXCEPT ![f].at = "queue"]
    BY <1>1, <1>2, <1>7 DEF Sound, FinType, FinalInv
<1>8. ASSUME NEW r \in Repos, fin[f].at = "queue", fin[f].urls # {r},
             fin' = [fin EXCEPT ![f].urls = @ \ {r}]
      PROVE  Sound(x)'
    BY <1>1, <1>2, <1>8 DEF Sound, FinType, FinalInv
<1> QED BY <1>1, <1>3, <1>4, <1>5, <1>6, <1>7, <1>8, ZenonT(60)
        DEF FinMove, Begins, Linked, Skipped, Blocked, FinalInv

\* A check of a worktree adds to the removals under way at most.
LEMMA ChecksTyped ==
    ASSUME FinalInv, NEW w \in Cleaners, NEW p \in PRs, Checks(w, p), UNCHANGED raced
    PROVE  removing' \subseteq PRs \X Cleaners /\ raced' \subseteq removing'
BY DEF FinalInv, Checks

LEMMA FinalKept ==
    ASSUME QueueInv, DispatchInv, MadeInv, FinalInv, [Next]_vars
    PROVE  FinalInv'
<1>1. Made \subseteq Made'
    BY IssueMoves, IssuesStay DEF IssuesGrow
<1>2. \A f \in Editors : Sound(fin[f]) /\ Sound(fin[f])'
    BY <1>1, FinMoves, SoundStays
<1>3. /\ DOMAIN fin' = Editors
      /\ \A f \in Editors : /\ fin'[f] \in FinType
                            /\ fin'[f].issue # NoId => fin'[f].issue \in Made'
                            /\ fin'[f].at = "idle" <=> fin'[f].issue = NoId
                            /\ fin'[f].at \in {"idle", "queue"} => fin'[f].todo = {}
                            /\ fin'[f].at = "queue" => fin'[f].urls # {}
    <2>1. DOMAIN fin' = Editors
        BY FinMoves DEF FinMove, FinalInv, Begins, Linked, Skipped, Blocked
    <2> QED BY <2>1, <1>2 DEF Sound
<1>4. fin' \in [Editors -> FinType]
    <2>1. fin' = [f \in Editors |-> fin'[f]]
        BY <1>3, FinMoves, ZenonT(60) DEF FinMove, FinalInv, Begins, Linked, Skipped, Blocked
    <2> QED BY <1>3, <2>1
<1> DEFINE Ok == /\ tree' \in [PRs -> BOOLEAN] /\ work' \in [PRs -> WorkStates]
                 /\ removing' \subseteq PRs \X Cleaners /\ raced' \subseteq removing'
                 /\ ended' \subseteq IssueIds /\ broken' \subseteq PRs
<1>5. Ok
    <2> USE DEF FinalInv, WorkStates
    <2>1. CASE UNCHANGED finalVars
        BY <2>1 DEF finalVars, treeVars
    <2>2. ASSUME NEW i, Provides(i), UNCHANGED <<removing, work, ended, broken>> PROVE Ok
        BY <2>2 DEF Provides
    <2>3. CASE Dispatches \/ \E p \in PRs : PROpened(p)
        BY <2>2, <2>3 DEF Dispatches, PROpened
    <2>4. ASSUME NEW i \in IssueIds, WorkflowDone(i) \/ ReviewerEnds(i) \/ ContinueFinalizes(i)
          PROVE  Ok
        <3>1. {i} \X Repos \subseteq PRs
            BY PullRequests
        <3> QED BY <2>4, <3>1 DEF WorkflowDone, ReviewerEnds, ContinueFinalizes, treeVars
    <2>5. ASSUME NEW i \in IssueIds, IssueClosed(i) PROVE Ok
        <3>1. <<i, Home>> \in PRs /\ "webhook" \in Cleaners
            BY PullRequests, FinalizeAssumption DEF Cleaners
        <3> QED BY <2>5, <3>1, ChecksTyped DEF IssueClosed
    <2>6. ASSUME NEW f \in Editors, CleansBegin(f) \/ FinalizeEnds(f) PROVE Ok
        BY <2>6 DEF CleansBegin, FinalizeEnds, treeVars, Made
    <2>7. ASSUME NEW f \in Editors, NEW r \in Repos, CleansUp(f, r) PROVE Ok
        <3>1. <<fin[f].issue, r>> \in PRs /\ f \in Cleaners
            BY <2>7, RepoInHand DEF CleansUp, Cleaners
        <3> QED BY <2>7, <3>1, ChecksTyped DEF CleansUp
    <2>8. ASSUME NEW f \in Editors, NEW r \in Repos, FinalizesRepo(f, r) PROVE Ok
        <3> DEFINE p == <<fin[f].issue, r>>
        <3>1. p \in PRs
            BY <2>8, RepoInHand DEF FinalizesRepo
        <3>2. /\ tree' \in {tree, [tree EXCEPT ![p] = TRUE]}
              /\ work' = work \/ \E s \in WorkStates : work' = [work EXCEPT ![p] = s]
              /\ broken' \in {broken, broken \cup {p}}
              /\ UNCHANGED <<removing, raced, ended>>
            <4>1. ended' = ended
                BY <2>8 DEF FinalizesRepo
            <4>2. CASE CreatesPR(f, r) \/ CreateBreaks(f, r) \/ LinkBreaks(f, r)
                BY <4>1, <4>2 DEF CreatesPR, CreateBreaks, LinkBreaks, Holds, Breaks, treeVars
            <4>3. CASE LinksPR(f, r)
                <5>1. \/ UNCHANGED <<tree, work>>
                      \/ \E s \in {"proposed", "local"} :
                            work' = [work EXCEPT ![p] = IF work[p] = "dirty" THEN s ELSE work[p]]
                    BY <4>3 DEF LinksPR, treeVars
                <5>2. work[p] \in WorkStates
                    BY <3>1
                <5> QED BY <4>1, <4>3, <5>1, <5>2 DEF LinksPR, treeVars, Holds
            <4> QED BY <2>8, <4>2, <4>3 DEF FinalizesRepo
        <3> HIDE DEF p
        <3> QED BY <3>1, <3>2
    <2>9. ASSUME NEW f \in Editors, NEW r \in Repos, FinalizeQueues(f, r) PROVE Ok
        BY <2>9 DEF FinalizeQueues, treeVars
    <2>10. CASE ProcessorCrashes
        <3> DEFINE f == fin["processor"]
        <3>1. "processor" \in Editors
            BY DEF Editors
        <3>2. f.at # "idle" => f.issue \in IssueIds
            BY <3>1, Ids DEF Made, FinType
        <3>3. f.todo \subseteq Repos
            BY <3>1 DEF FinType
        <3>4. f.at = "repos" => {f.issue} \X f.todo \subseteq PRs
            BY <3>2, <3>3, PullRequests
        <3>5. f.at \in {"repos", "clean"} => f.issue \in IssueIds
            BY <3>2
        <3> HIDE DEF f
        <3>6. broken' = (IF f.at = "repos" THEN broken \cup {f.issue} \X f.todo ELSE broken)
            BY <2>10 DEF ProcessorCrashes, f
        <3>7. ended' = IF f.at \in {"repos", "clean"} THEN ended \cup {f.issue} ELSE ended
            BY <2>10 DEF ProcessorCrashes, f
        <3>8. broken' \subseteq PRs /\ ended' \subseteq IssueIds
            BY <3>4, <3>5, <3>6, <3>7
        <3> QED BY <2>10, <3>8 DEF ProcessorCrashes
    <2>11. ASSUME NEW p \in PRs, NEW w \in Cleaners, Removes(w, p) PROVE Ok
        BY <2>11 DEF Removes
    <2>12. ASSUME NEW p \in PRs, NEW how, PRClosed(p, how) PROVE Ok
        <3>1. "webhook" \in Cleaners
            BY DEF Cleaners
        <3> QED BY <2>12, <3>1, ChecksTyped DEF PRClosed
    <2>13. ASSUME NEW p \in PRs, AgentWrites(p) PROVE Ok
        BY <2>13 DEF AgentWrites
    <2> HIDE DEF Ok
    <2> QED BY <2>1, <2>3, <2>4, <2>5, <2>6, <2>7, <2>8, <2>9, <2>10, <2>11, <2>12, <2>13,
               FinalMoves, ZenonT(60)
<1> QED BY <1>3, <1>4, <1>5 DEF FinalInv

-----------------------------------------------------------------------------
(* Initially and always.                                                   *)

BaseInv == QueueInv /\ DispatchInv /\ MergeInv /\ FinalInv /\ MadeInv

LEMMA BaseStarts == Init => BaseInv
<1> SUFFICES ASSUME Init PROVE BaseInv
    OBVIOUS
<1>1. QueueInv /\ DispatchInv
    BY QueueStarts
<1> USE DEF Init, MergeInit, FinalizeInit, DispatchInit, QueueInit
<1>2. DocInv
    BY EntryTypes DEF DocInv
<1>3. PassInv /\ RequestInv
    BY DEF PassInv, RequestInv, NoPress
<1>4. FinalInv
    BY DEF FinalInv, NoFin, FinType, WorkStates
<1>5. MadeInv
    BY PullRequests, WebhookFiles, QueueAssumption DEF MadeInv, NoRow
<1> QED BY <1>1, <1>2, <1>3, <1>4, <1>5 DEF MergeInv, BaseInv

LEMMA BaseKept == BaseInv /\ [Next]_vars => BaseInv'
BY QueueMoves, QueueKept, DispatchKept, MergeKept, FinalKept, MadeKept DEF BaseInv

LEMMA BaseSafe == Spec => []BaseInv
BY BaseStarts, BaseKept, PTL DEF Spec

\* The variables of the inbox, the dispatch, the merge queue and the
\* finalisation have their types, and an editor of the queue's document holds
\* one version of it at most (load and save in state_manager.py).
THEOREM DeliveryTypes == Spec => []DeliveryTypeOK
<1>1. BaseInv => DeliveryTypeOK
    <2> SUFFICES ASSUME BaseInv PROVE DeliveryTypeOK
        OBVIOUS
    <2>1. ASSUME NEW w \in Editors PROVE Cardinality(held[w]) <= 1
        <3>1. CASE held[w] = {}
            <4>1. Cardinality(held[w]) = 0
                BY <3>1, FS_EmptySet, Zenon
            <4> QED BY <4>1
        <3>2. ASSUME NEW d, held[w] = {d} PROVE Cardinality(held[w]) <= 1
            <4>1. Cardinality(held[w]) = 1
                BY <3>2, FS_Singleton, Zenon
            <4> QED BY <4>1
        <3> QED BY <3>1, <3>2 DEF BaseInv, MergeInv, DocInv
    <2>2. /\ rows \in [RowIds -> RowType]
          /\ looked \in [Tasks -> 0..MaxRows]
          /\ batch \subseteq {n \in RowIds : rows[n].st = "processing"}
        BY DEF BaseInv, QueueInv
    <2>3. /\ wf \in [IssueIds -> {"none", "pending", "running", "completed"}]
          /\ at \in {"idle", "create", "workflow", "start", "launch"}
          /\ at # "idle" => batch # {}
          /\ target \in IssueIds \cup {NoId}
        BY DEF BaseInv, DispatchInv
    <2>4. merging \subseteq PRs /\ inMerge \in PRs \cup {NoPR}
        BY DEF BaseInv, MergeInv, PassInv
    <2>5. /\ work \in [PRs -> WorkStates]
          /\ raced \subseteq removing /\ removing \subseteq PRs \X Cleaners
          /\ \A p \in PRs : prs[p] = "merged" => p \in landed
        BY DEF BaseInv, MergeInv, RequestInv, FinalInv
    <2> QED BY <2>1, <2>2, <2>3, <2>4, <2>5 DEF DeliveryTypeOK, RowType
<1> QED BY <1>1, BaseSafe, PTL
-----------------------------------------------------------------------------
(* Manual review: only what a user approved is merged.                     *)

\* An override is given for what was approved only.
Cleared(d) == \A p \in PRs : d[p].over => p \in approved

\* Whatever the editors hold, and whoever saves last, an override stands for
\* an approval, and the pass works on overrides.
ApprovalInv ==
    mode = "manual" =>
       /\ Cleared(doc)
       /\ \A w \in Editors : \A d \in held[w] : Cleared(d)
       /\ merging \subseteq approved
       /\ inMerge \in approved \cup {NoPR}
       /\ press.act # "retry" => press.todo \subseteq approved
       /\ byQueue \subseteq approved

\* A change of an entry that gives an override to an approved one only.
LEMMA LoadsCleared ==
    ASSUME MergeInv, Cleared(doc), \A w \in Editors : \A d \in held[w] : Cleared(d),
           NEW v \in Editors, NEW p \in PRs, NEW e \in Entry, e.over => p \in approved,
           Loads(v, p, e), UNCHANGED approved
    PROVE  \A w \in Editors : \A d \in held'[w] : Cleared(d)'
<1> DEFINE n == [doc EXCEPT ![p] = e]
<1>1. \A q \in PRs : n[q].over => q \in approved
    BY DEF MergeInv, DocInv, Cleared
<1>2. \A w \in Editors : held'[w] = IF w = v THEN {n} ELSE held[w]
    BY DEF Loads, MergeInv, DocInv
<1> HIDE DEF n
<1> QED BY <1>1, <1>2 DEF Cleared

LEMMA ApprovalKept ==
    ASSUME MergeInv, FinalInv, ApprovalInv, [Next]_vars
    PROVE  ApprovalInv'
<1> SUFFICES ASSUME mode' = "manual" PROVE ApprovalInv'
    BY DEF ApprovalInv
<1> USE DEF Cleared
<1>1. CASE UNCHANGED mergeVars
    BY <1>1 DEF mergeVars, ApprovalInv
<1>2. ASSUME NEW w \in Editors, Saves(w) PROVE ApprovalInv'
    BY <1>2 DEF Saves, ApprovalInv, MergeInv, DocInv
<1>3. CASE PassBegins
    <2>1. mode = "manual" /\ merging' = {p \in PRs : Eligible(doc[p])}
        BY <1>3 DEF PassBegins
    <2>2. merging' \subseteq approved
        BY <2>1 DEF ApprovalInv, Eligible
    <2> QED BY <1>3, <2>2 DEF PassBegins, ApprovalInv
<1>4. CASE MergeMarks
    <2> DEFINE p == InOrder(merging)
               e == IF doc[p] = NoEntry THEN NoEntry ELSE [doc[p] EXCEPT !.st = "merging"]
    <2>1. p \in merging /\ p \in PRs
        BY <1>4, InOrderIsMember DEF MergeMarks, MergeInv, PassInv
    <2>2. /\ merging' = merging \ {p} /\ inMerge' = p /\ Loads("processor", p, e)
          /\ UNCHANGED <<mode, doc, press, byQueue, approved>>
        BY <1>4 DEF MergeMarks
    <2> HIDE DEF p
    <2>3. e \in Entry /\ e.over = doc[p].over
        BY <2>1, EntryTypes DEF MergeInv, DocInv, NoEntry, Entry
    <2> HIDE DEF e
    <2>4. \A w \in Editors : \A d \in held'[w] : Cleared(d)'
        <3>1. e.over => p \in approved
            BY <2>1, <2>2, <2>3 DEF ApprovalInv
        <3> QED BY <2>1, <2>2, <2>3, <3>1, LoadsCleared DEF Editors, ApprovalInv
    <2> QED BY <2>1, <2>2, <2>4 DEF ApprovalInv
<1>5. CASE MergeCalls
    <2>1. inMerge \in PRs /\ "processor" \in Editors /\ mode = "manual"
        BY <1>5 DEF MergeCalls, apart, MergeInv, PassInv, Editors
    <2>2. inMerge \in approved
        BY <2>1, PullRequests DEF ApprovalInv
    <2>3. ASSUME NEW st \in {"merged", "failed"}, Records(inMerge, st), UNCHANGED approved
          PROVE  \A w \in Editors : \A d \in held'[w] : Cleared(d)'
        <3> DEFINE e == IF doc[inMerge] = NoEntry THEN NoEntry
                        ELSE [st |-> st, over |-> st # "merged" /\ doc[inMerge].over]
        <3>1. e \in Entry
            <4>1. [st |-> st, over |-> st # "merged" /\ doc[inMerge].over] \in Entry
                BY <2>1 DEF Entry, MergeInv, DocInv
            <4> QED BY <4>1, EntryTypes
        <3>2. Loads("processor", inMerge, e)
            BY <2>3 DEF Records
        <3> HIDE DEF e
        <3> QED BY <2>1, <2>2, <2>3, <3>1, <3>2, LoadsCleared DEF ApprovalInv
    <2>4. UNCHANGED <<mode, doc, merging, press, approved>> /\ inMerge' = NoPR
        BY <1>5 DEF MergeCalls, apart
    <2>5. \A w \in Editors : \A d \in held'[w] : Cleared(d)'
        BY <1>5, <2>3, <2>4 DEF MergeCalls
    <2>6. byQueue' \in {byQueue, byQueue \cup {inMerge}}
        BY <1>5 DEF MergeCalls
    <2> QED BY <2>1, <2>2, <2>4, <2>5, <2>6 DEF ApprovalInv
<1>6. ASSUME NEW i \in IssueIds, NEW act \in {"approve", "merge", "retry"}, Press(act, i)
      PROVE  ApprovalInv'
    BY <1>6 DEF Press, ApprovalInv
<1>7. CASE PressLoads
    <2> DEFINE p == InOrder(press.todo)
               e == IF doc[p] = NoEntry THEN NoEntry ELSE Target(press.act)
    <2>1. p \in press.todo /\ p \in PRs
        BY <1>7, InOrderIsMember DEF PressLoads, MergeInv, PassInv
    <2>2. /\ press' = IF press.todo = {p} THEN NoPress ELSE [press EXCEPT !.todo = @ \ {p}]
          /\ Loads("bot", p, e)
          /\ UNCHANGED <<mode, doc, merging, inMerge, byQueue, approved>>
        BY <1>7 DEF PressLoads
    <2> HIDE DEF p
    <2>3. e \in Entry /\ (e.over => press.act # "retry")
        BY EntryTypes DEF MergeInv, PassInv, NoEntry, Target, Queued
    <2> HIDE DEF e
    <2>4. \A w \in Editors : \A d \in held'[w] : Cleared(d)'
        <3>1. e.over => p \in approved
            BY <2>1, <2>2, <2>3 DEF ApprovalInv
        <3> QED BY <2>1, <2>2, <2>3, <3>1, LoadsCleared DEF Editors, ApprovalInv
    <2>5. press'.act # "retry" => press'.todo \subseteq approved
        BY <2>2 DEF ApprovalInv, NoPress, MergeInv, PassInv
    <2> QED BY <2>2, <2>4, <2>5 DEF ApprovalInv
<1>8. ASSUME NEW p \in PRs, HumanMerges(p) \/ HumanRejects(p) PROVE ApprovalInv'
    BY <1>8 DEF HumanMerges, HumanRejects, apart, ApprovalInv
<1>9. ASSUME NEW f \in Editors, NEW r \in Repos, FinalizesRepo(f, r) PROVE ApprovalInv'
    BY <1>9 DEF FinalizesRepo, ApprovalInv
<1>10. ASSUME NEW f \in Editors, NEW r \in Repos, FinalizeQueues(f, r) PROVE ApprovalInv'
    <2> DEFINE p == <<fin[f].issue, r>>
    <2>1. p \in PRs
        BY <1>10, RepoInHand DEF FinalizeQueues
    <2>2. Loads(f, p, Queued) \/ held' = held
        BY <1>10 DEF FinalizeQueues
    <2> HIDE DEF p
    <2>3. UNCHANGED <<mode, doc, merging, inMerge, press, byQueue, approved>>
        BY <1>10 DEF FinalizeQueues
    <2>4. Queued \in Entry /\ ~Queued.over
        BY EntryTypes DEF MergeInv, DocInv, Queued
    <2>5. \A w \in Editors : \A d \in held'[w] : Cleared(d)'
        BY <2>1, <2>2, <2>3, <2>4, LoadsCleared DEF ApprovalInv
    <2> QED BY <2>3, <2>5 DEF ApprovalInv
<1>11. CASE ProcessorCrashes
    BY <1>11 DEF ProcessorCrashes, ApprovalInv, MergeInv, DocInv
<1>12. ASSUME NEW p \in PRs, NEW how, PRClosed(p, how) PROVE ApprovalInv'
    BY <1>12 DEF PRClosed, apart, ApprovalInv
<1> QED BY <1>1, <1>2, <1>3, <1>4, <1>5, <1>6, <1>7, <1>8, <1>9, <1>10, <1>11, <1>12, MergeMoves

\* In manual review mode the pass of merge_queue.py merges what a user approved
\* only, in whichever order the processor's and the bot's loads and saves of
\* the document fall.
THEOREM OnlyApprovedIsMerged == Spec => []MergedOnlyIfApproved
<1>1. Init => ApprovalInv
    BY DEF Init, MergeInit, ApprovalInv, Cleared, NoEntry, NoPress
<1>2. BaseInv /\ ApprovalInv /\ [Next]_vars => ApprovalInv'
    BY ApprovalKept DEF BaseInv
<1>3. ApprovalInv => MergedOnlyIfApproved
    BY DEF ApprovalInv, MergedOnlyIfApproved
<1> QED BY <1>1, <1>2, <1>3, BaseSafe, PTL DEF Spec

-----------------------------------------------------------------------------
(* Uncommitted work stays in its worktree.                                 *)

\* What was found removable still is, unless an agent was launched since.
CleanInv == \A s \in removing \ raced : ~agent[s[1][1]] /\ work[s[1]] # "dirty"

\* An agent is launched with its worktrees.
LEMMA LaunchesProvide ==
    ASSUME DispatchInv, [Next]_vars, NEW i \in IssueIds, agent'[i], ~agent[i]
    PROVE  Provides(i) /\ UNCHANGED <<removing, work>>
<1> USE DEF DispatchInv
<1>1. CASE Dispatches
    <2>1. agent' = agent \/ \E k \in IssueIds : agent' = [agent EXCEPT ![k] = TRUE]
        <3>1. CASE WebhookTask
            <4>1. \E k \in IssueIds : IssueFile[k] = Task
                BY <3>1, WebhookFiles DEF WebhookTask
            <4>2. (CHOOSE k \in IssueIds : IssueFile[k] = Task) \in IssueIds
                BY <4>1
            <4> QED BY <3>1, <4>2 DEF WebhookTask
        <3>2. CASE LaunchFirst
            BY <3>2 DEF LaunchFirst, Made
        <3> QED BY <1>1, <3>1, <3>2
                DEF Dispatches, PrepareTask, CreateIssue, CreateWorkflow, StartWorkflow
    <2>2. \A j \in IssueIds : agent'[j] /\ ~agent[j] => j = i
        BY <2>1
    <2> QED BY <1>1, <2>2 DEF Dispatches
<1>2. ASSUME NEW p \in PRs, PROpened(p) PROVE Provides(i) /\ UNCHANGED <<removing, work>>
    <2>1. i = p[1]
        BY <1>2, PullRequests DEF PROpened
    <2> QED BY <1>2, <2>1 DEF PROpened
<1>3. CASE Elsewhere
    BY <1>3, ElsewhereStays
<1>4. CASE \/ Claims \/ ProcessorCrashes \/ Submits
           \/ \E j \in IssueIds :
                 \/ WorkflowDone(j) \/ ReviewerEnds(j) \/ OpensByHand(j) \/ RequestsPlan(j)
                 \/ IssueEvent("opened", j) \/ IssueEvent("labeled", j)
           \/ UNCHANGED vars
    BY <1>4 DEF Claims, ProcessorCrashes, Submits, WorkflowDone, ReviewerEnds, OpensByHand,
                RequestsPlan, IssueEvent, vars, dispatchVars
<1> QED BY <1>1, <1>2, <1>3, <1>4, StepCases, Zenon

\* A worktree that is checked has no agent and no uncommitted work.
LEMMA ChecksClean ==
    ASSUME NEW w, NEW p, Checks(w, p), NEW s \in removing', s \notin removing
    PROVE  s[1] = p /\ ~agent[p[1]] /\ work[p] # "dirty"
BY DEF Checks, Removable

LEMMA CleanKept ==
    ASSUME BaseInv, CleanInv, [Next]_vars
    PROVE  CleanInv'
<1> SUFFICES ASSUME NEW s \in removing', s \notin raced'
             PROVE  ~agent'[s[1][1]] /\ work'[s[1]] # "dirty"
    BY DEF CleanInv
<1> DEFINE p == s[1]
           Ok == ~agent'[p[1]] /\ work'[p] # "dirty"
<1>1. p \in PRs /\ p[1] \in IssueIds
    <2>1. s \in PRs \X Cleaners
        BY BaseKept DEF BaseInv, FinalInv
    <2> QED BY <2>1, PullRequests
<1> USE DEF finalVars, treeVars, Provides
<1>2. ASSUME s \in removing, s \notin raced, work'[p] \in {work[p], "none", "proposed", "local"}
      PROVE  Ok
    <2>1. ~agent[p[1]] /\ work[p] # "dirty"
        BY <1>2 DEF CleanInv
    <2>2. ~agent'[p[1]]
        BY <1>1, <1>2, <2>1, LaunchesProvide DEF BaseInv
    <2> QED BY <1>2, <2>1, <2>2
<1>3. ASSUME NEW w, NEW q, Checks(w, q), UNCHANGED <<agent, work, raced>> PROVE Ok
    <2>1. CASE s \in removing
        BY <1>2, <1>3, <2>1
    <2>2. CASE s \notin removing
        BY <1>3, <2>2, ChecksClean
    <2> QED BY <2>1, <2>2
<1>4. ASSUME UNCHANGED finalVars PROVE Ok
    BY <1>2, <1>4
<1>5. ASSUME Dispatches \/ \E q \in PRs : PROpened(q) PROVE Ok
    BY <1>2, <1>5 DEF Dispatches, PROpened
<1>6. ASSUME NEW i \in IssueIds, WorkflowDone(i) \/ ReviewerEnds(i) \/ ContinueFinalizes(i)
      PROVE  Ok
    BY <1>2, <1>6 DEF WorkflowDone, ReviewerEnds, ContinueFinalizes
<1>7. ASSUME NEW i \in IssueIds, IssueClosed(i) PROVE Ok
    BY <1>3, <1>7 DEF IssueClosed, dispatchVars
<1>8. ASSUME NEW f \in Editors, CleansBegin(f) \/ FinalizeEnds(f) PROVE Ok
    BY <1>2, <1>8 DEF CleansBegin, FinalizeEnds
<1>9. ASSUME NEW f \in Editors, NEW r \in Repos, CleansUp(f, r) PROVE Ok
    BY <1>3, <1>9 DEF CleansUp, dispatchVars
<1>10. ASSUME NEW f \in Editors, NEW r \in Repos, FinalizesRepo(f, r) PROVE Ok
    <2>1. UNCHANGED <<removing, raced>>
        BY <1>10 DEF FinalizesRepo, CreatesPR, CreateBreaks, LinksPR, LinkBreaks
    <2>2. s \in removing /\ s \notin raced /\ work[p] # "dirty"
        BY <2>1 DEF CleanInv
    <2>3. work'[p] \in {work[p], "none", "proposed", "local"}
        BY <1>1, <1>10, <2>2
        DEF FinalizesRepo, CreatesPR, CreateBreaks, LinksPR, LinkBreaks, BaseInv, FinalInv
    <2> QED BY <1>2, <2>2, <2>3
<1>11. ASSUME NEW f \in Editors, NEW r \in Repos, FinalizeQueues(f, r) PROVE Ok
    BY <1>2, <1>11 DEF FinalizeQueues
<1>12. ASSUME ProcessorCrashes PROVE Ok
    BY <1>2, <1>12 DEF ProcessorCrashes
<1>13. ASSUME NEW q \in PRs, NEW w \in Cleaners, Removes(w, q) PROVE Ok
    BY <1>1, <1>2, <1>13 DEF Removes, BaseInv, FinalInv
<1>14. ASSUME NEW q \in PRs, NEW how, PRClosed(q, how) PROVE Ok
    <2>1. UNCHANGED <<agent, work, raced>>
        BY <1>14 DEF PRClosed, apart
    <2> QED BY <1>2, <1>3, <1>14, <2>1 DEF PRClosed
<1>15. ASSUME NEW q \in PRs, AgentWrites(q) PROVE Ok
    <2>1. s \in removing /\ s \notin raced
        BY <1>15 DEF AgentWrites
    <2>2. ~agent[p[1]]
        BY <2>1 DEF CleanInv
    <2>3. p # q
        BY <1>15, <2>2 DEF AgentWrites
    <2>4. work'[p] = work[p]
        BY <1>1, <1>15, <2>3 DEF AgentWrites, BaseInv, FinalInv
    <2>5. work'[p] \in {work[p], "none", "proposed", "local"}
        BY <2>4
    <2> QED BY <1>2, <2>1, <2>5, Zenon
<1> HIDE DEF Ok
<1>16. Ok
    BY <1>4, <1>5, <1>6, <1>7, <1>8, <1>9, <1>10, <1>11, <1>12, <1>13, <1>14, <1>15, FinalMoves,
       Zenon
<1> QED BY <1>16 DEF Ok

\* No removal of a worktree (cleanup_worktree_safe, called by the finalisation,
\* the pull request's and the issue's webhooks, each at a time of its own) takes
\* uncommitted work with it, but that of an agent that was launched between the
\* check and the removal; and a launch is all that can come in between.
THEOREM UncommittedIsKept == Spec => UncommittedWorkIsKept
<1>1. Init => CleanInv
    BY DEF Init, FinalizeInit, CleanInv
<1>2. BaseInv /\ CleanInv /\ [Next]_vars
      => \A p \in PRs : tree[p] /\ ~tree'[p] /\ work[p] = "dirty"
                           => \E w \in Cleaners : <<p, w>> \in raced
    <2> SUFFICES ASSUME BaseInv, CleanInv, [Next]_vars, NEW p \in PRs,
                        tree[p], ~tree'[p], work[p] = "dirty"
                 PROVE  \E w \in Cleaners : <<p, w>> \in raced
        OBVIOUS
    <2>1. PICK q \in PRs, w \in Cleaners : Removes(w, q)
        <3>1. ~UNCHANGED finalVars
            BY DEF finalVars, treeVars
        <3>2. ~(Dispatches \/ \E q \in PRs : PROpened(q) \/ AgentWrites(q))
            BY DEF Dispatches, PROpened, AgentWrites, Provides
        <3>3. \A i \in IssueIds :
                 ~(WorkflowDone(i) \/ ReviewerEnds(i) \/ ContinueFinalizes(i) \/ IssueClosed(i))
            BY DEF WorkflowDone, ReviewerEnds, ContinueFinalizes, IssueClosed, treeVars
        <3>4. \A f \in Editors : ~(CleansBegin(f) \/ FinalizeEnds(f))
            BY DEF CleansBegin, FinalizeEnds, treeVars
        <3>5. \A f \in Editors, r \in Repos : ~(CleansUp(f, r) \/ FinalizeQueues(f, r))
            BY DEF CleansUp, FinalizeQueues, treeVars
        <3>6. ASSUME NEW f \in Editors, NEW r \in Repos, FinalizesRepo(f, r) PROVE FALSE
            <4>1. tree' = tree \/ tree' = [tree EXCEPT ![<<fin[f].issue, r>>] = TRUE]
                BY <3>6 DEF FinalizesRepo, CreatesPR, CreateBreaks, LinksPR, LinkBreaks, treeVars
            <4> QED BY <4>1 DEF BaseInv, FinalInv
        <3>7. ~ProcessorCrashes
            BY DEF ProcessorCrashes
        <3>8. \A q \in PRs : \A how : ~PRClosed(q, how)
            BY DEF PRClosed
        <3> QED BY <3>1, <3>2, <3>3, <3>4, <3>5, <3>6, <3>7, <3>8, FinalMoves, Zenon
    <2>2. q = p /\ <<p, w>> \in removing
        BY <2>1 DEF Removes, BaseInv, FinalInv
    <2>3. <<p, w>>[1] = p
        OBVIOUS
    <2> QED BY <2>2, <2>3, Zenon DEF CleanInv
<1>3. BaseInv /\ CleanInv /\ [Next]_vars => CleanInv'
    BY CleanKept
<1>4. BaseInv /\ CleanInv /\ [Next]_vars
      => [\A p \in PRs : tree[p] /\ ~tree'[p] /\ work[p] = "dirty"
                            => \E w \in Cleaners : <<p, w>> \in raced]_vars
    BY <1>2
<1> QED BY <1>1, <1>3, <1>4, BaseSafe, PTL DEF Spec, UncommittedWorkIsKept
-----------------------------------------------------------------------------
(* Nothing is left behind when the issue is closed.                        *)

\* There is no work to propose, or the finalisation broke off.
Settled(p) == work[p] \in {"none", "proposed"} \/ p \in broken

\* A finalisation will come to it.
Covered(p) ==
    \E f \in Editors : fin[f].issue = p[1] /\ fin[f].at = "repos" /\ p[2] \in fin[f].todo

\* The issue's work is proposed, or is about to be.
Attended(i) == Proposed(i) \/ \E f \in Editors : fin[f].issue = i

\* From the first finalisation on, every repository of the issue is settled, will
\* be looked at, or has an agent at work; only a merge closes the issue.
WorkInv ==
    /\ \A p \in PRs : /\ work[p] \in {"local", "pushed"} => p \in broken
                      /\ prs[p] # "none" => Settled(p)
                      /\ Attended(p[1]) => Settled(p) \/ Covered(p) \/ agent[p[1]]
    /\ \A i \in Made : ~issue[i].open => Landed(i)

\* What a step may do to the work at p.
WorkMove(p) ==
    \/ /\ work'[p] = work[p] /\ (prs'[p] # "none" => prs[p] # "none")
       /\ p \in broken => p \in broken'
       /\ Covered(p) \/ agent[p[1]] => Covered(p)' \/ p \in broken' \/ agent'[p[1]]
       /\ Attended(p[1])' => Attended(p[1]) \/ Covered(p)'
    \/ Settled(p)'
    \/ work'[p] = "dirty" /\ prs'[p] = "none" /\ agent'[p[1]]

\* An agent ends with its workflow or beside it.
LEMMA AgentEnds ==
    ASSUME DispatchInv, [Next]_vars, NEW i \in IssueIds, agent[i], ~agent'[i]
    PROVE  WorkflowDone(i) \/ ReviewerEnds(i)
<1> USE DEF DispatchInv
<1>1. ~Dispatches
    BY DEF Dispatches, PrepareTask, CreateIssue, CreateWorkflow, StartWorkflow, LaunchFirst,
           WebhookTask
<1>2. ~Elsewhere
    BY ElsewhereStays
<1>3. ~(Claims \/ ProcessorCrashes \/ Submits \/ UNCHANGED vars)
    BY DEF Claims, ProcessorCrashes, Submits, vars, dispatchVars
<1>4. \A j \in IssueIds :
         ~(OpensByHand(j) \/ RequestsPlan(j) \/ IssueEvent("opened", j) \/ IssueEvent("labeled", j))
    BY DEF OpensByHand, RequestsPlan, IssueEvent
<1>5. \A p \in PRs : ~PROpened(p)
    BY DEF PROpened
<1>6. \A j \in IssueIds : WorkflowDone(j) \/ ReviewerEnds(j) => j = i
    BY DEF WorkflowDone, ReviewerEnds
<1> QED BY <1>1, <1>2, <1>3, <1>4, <1>5, <1>6, StepCases, Zenon

\* An issue is attended to from the beginning of a finalisation on.
LEMMA AttendedFrom ==
    ASSUME DispatchInv, MergeInv, FinalInv, MadeInv, [Next]_vars,
           NEW i \in IssueIds, Attended(i)'
    PROVE  Attended(i) \/ \E f \in Editors : Begins(f, i)
<1>1. CASE Proposed(i)'
    <2>1. PICK r \in Repos : prs'[<<i, r>>] # "none"
        BY <1>1 DEF Proposed
    <2>2. CASE prs[<<i, r>>] # "none"
        BY <2>2 DEF Attended, Proposed
    <2>3. CASE prs[<<i, r>>] = "none"
        <3>1. PICK f \in Editors, s \in Repos :
                 prs' = [prs EXCEPT ![<<fin[f].issue, s>>] = "open"]
            BY <2>1, <2>3, PullRequests, RequestMoves DEF RequestMove, MergeInv, RequestInv
        <3>2. <<fin[f].issue, s>> = <<i, r>>
            BY <2>1, <2>3, <3>1, PullRequests DEF MergeInv, RequestInv
        <3> QED BY <3>2 DEF Attended
    <2> QED BY <2>2, <2>3
<1>2. ASSUME NEW f \in Editors, fin'[f].issue = i PROVE Attended(i) \/ \E g \in Editors : Begins(g, i)
    <2>1. i # NoId
        BY Ids
    <2>2. CASE fin'[f].issue = fin[f].issue
        BY <1>2, <2>2 DEF Attended
    <2>3. CASE fin' = [fin EXCEPT ![f] = NoFin]
        BY <1>2, <2>1, <2>3 DEF NoFin, FinalInv
    <2>4. ASSUME NEW g \in Editors, NEW j \in Made, Begins(g, j)
          PROVE  Attended(i) \/ \E h \in Editors : Begins(h, i)
        BY <1>2, <2>2, <2>4 DEF Begins, NoFin, FinalInv
    <2>5. ASSUME NEW g \in Editors, fin' = [fin EXCEPT ![g] = NoFin]
          PROVE  Attended(i) \/ \E h \in Editors : Begins(h, i)
        BY <1>2, <2>2, <2>3, <2>5 DEF FinalInv
    <2>6. ASSUME NEW g \in Editors, NEW r, Linked(g, r) \/ Skipped(g, r) \/ Blocked(g, r)
          PROVE  fin'[f].issue = fin[f].issue
        BY <2>6 DEF Linked, Skipped, Blocked, FinalInv, FinType
    <2>7. ASSUME NEW g \in Editors, NEW r \in Repos,
                 \/ fin' = [fin EXCEPT ![g].at = "clean", ![g].todo = Repos]
                 \/ fin' = [fin EXCEPT ![g].at = "queue"]
                 \/ fin' = [fin EXCEPT ![g].urls = @ \ {r}]
          PROVE  fin'[f].issue = fin[f].issue
        BY <2>7 DEF FinalInv, FinType
    <2> QED BY <2>2, <2>4, <2>5, <2>6, <2>7, FinMoves, FinalizeAssumption DEF FinMove
<1> QED BY <1>1, <1>2 DEF Attended

LEMMA AttendedOrCovered ==
    ASSUME DispatchInv, MergeInv, FinalInv, MadeInv, [Next]_vars,
           NEW p \in PRs, Attended(p[1])'
    PROVE  Attended(p[1]) \/ Covered(p)'
<1>1. p[1] \in IssueIds /\ p[2] \in Repos
    BY PullRequests
<1>2. ASSUME NEW f \in Editors, Begins(f, p[1]) PROVE Covered(p)'
    <2>1. fin'[f].issue = p[1] /\ fin'[f].at = "repos" /\ fin'[f].todo = Repos
        BY <1>2 DEF Begins, NoFin, FinalInv
    <2> QED BY <1>1, <2>1 DEF Covered
<1> QED BY <1>1, <1>2, AttendedFrom

\* A finalisation that an idle editor begins takes nothing from the other's.
LEMMA BeginsCovers ==
    ASSUME FinalInv, NEW f \in Editors, NEW i \in IssueIds, fin[f] = NoFin, Begins(f, i),
           NEW p \in PRs
    PROVE  /\ Covered(p) => Covered(p)'
           /\ p[1] = i => Covered(p)'
<1>1. /\ fin'[f].issue = i /\ fin'[f].at = "repos" /\ fin'[f].todo = Repos
      /\ \A g \in Editors \ {f} : fin'[g] = fin[g]
    BY DEF Begins, NoFin, FinalInv
<1>2. fin[f].todo = {}
    BY DEF NoFin
<1> QED BY <1>1, <1>2, PullRequests DEF Covered

\* What is requested had been, but for the finalisation of a repository.
LEMMA RequestStays ==
    ASSUME MergeInv, [Next]_vars, NEW p \in PRs, prs'[p] # "none",
           ~\E f \in Editors, r \in Repos : FinalizesRepo(f, r)
    PROVE  prs[p] # "none"
BY MergeMoves
DEF mergeVars, Saves, PassBegins, MergeMarks, MergeCalls, MergesPR, Press, PressLoads, HumanMerges,
    HumanRejects, FinalizeQueues, ProcessorCrashes, PRClosed, MergeInv, PassInv, RequestInv

\* A repository that a finalisation has dealt with is settled.
LEMMA RepoSettles ==
    ASSUME MergeInv, FinalInv, WorkInv, NEW f \in Editors, NEW r \in Repos, FinalizesRepo(f, r),
           NEW p \in PRs, p = <<fin[f].issue, r>>
    PROVE  Settled(p)'
<1>1. work[p] \in WorkStates /\ p \in DOMAIN work
    BY DEF FinalInv
<1>2. SUFFICES work'[p] \in {"none", "proposed"} \/ p \in broken'
    BY DEF Settled
<1>3. CASE CreatesPR(f, r)
    BY <1>1, <1>3 DEF CreatesPR, Holds, WorkInv, WorkStates
<1>4. CASE CreateBreaks(f, r) \/ LinkBreaks(f, r)
    BY <1>4 DEF CreateBreaks, LinkBreaks, Breaks
<1>5. CASE LinksPR(f, r) /\ prs[p] # "none"
    <2>1. Settled(p)
        BY <1>5 DEF WorkInv
    <2>2. broken' = broken
        BY <1>5 DEF LinksPR, Holds
    <2>3. work[p] # "dirty" => work'[p] = work[p]
        BY <1>1, <1>5 DEF LinksPR, treeVars
    <2> QED BY <2>1, <2>2, <2>3 DEF Settled
<1> QED BY <1>3, <1>4, <1>5 DEF FinalizesRepo

LEMMA WorkMoves ==
    ASSUME DispatchInv, MergeInv, FinalInv, MadeInv, WorkInv, [Next]_vars, NEW p \in PRs
    PROVE  WorkMove(p)
<1>1. Attended(p[1])' => Attended(p[1]) \/ Covered(p)'
    BY AttendedOrCovered
<1>2. p[1] \in IssueIds /\ p[2] \in Repos /\ p = <<p[1], p[2]>>
    BY PullRequests
<1>3. ASSUME NEW f \in Editors, NEW r \in Repos, FinalizesRepo(f, r) PROVE WorkMove(p)
    <2> DEFINE q == <<fin[f].issue, r>>
    <2>1. q \in PRs
        BY <1>3, RepoInHand DEF FinalizesRepo
    <2>2. CASE p = q
        BY <1>3, <2>2, RepoSettles DEF WorkMove
    <2>3. CASE p # q
        <3>1. work'[p] = work[p] /\ prs'[p] = prs[p]
            BY <1>3, <2>1, <2>3 DEF FinalizesRepo, CreatesPR, LinksPR, CreateBreaks, LinkBreaks,
                                    treeVars, FinalInv, MergeInv, RequestInv
        <3>2. broken \subseteq broken' /\ agent' = agent
            BY <1>3 DEF FinalizesRepo, CreatesPR, LinksPR, CreateBreaks, LinkBreaks, Breaks, Holds,
                        dispatchVars
        <3>3. Linked(f, r) \/ Skipped(f, r) \/ Blocked(f, r)
            BY <1>3 DEF FinalizesRepo, CreatesPR, LinksPR, CreateBreaks, LinkBreaks
        <3>4. \A g \in Editors : /\ fin'[g].issue = fin[g].issue /\ fin'[g].at = fin[g].at
                                 /\ fin'[g].todo = IF g = f THEN fin[g].todo \ {r} ELSE fin[g].todo
            <4> TAKE g \in Editors
            <4>1. CASE g # f
                BY <3>3, <4>1 DEF Linked, Skipped, Blocked, FinalInv
            <4>2. /\ fin \in [Editors -> FinType] /\ fin[f] \in FinType
                  /\ DOMAIN fin[f] = {"at", "issue", "todo", "urls", "blocked"}
                BY DEF FinalInv, FinType
            <4>3. /\ fin'[f].issue = fin[f].issue /\ fin'[f].at = fin[f].at
                  /\ fin'[f].todo = fin[f].todo \ {r}
                BY <3>3, <4>2 DEF Linked, Skipped, Blocked
            <4> QED BY <4>1, <4>3
        <3>5. Covered(p) => Covered(p)'
            BY <1>2, <2>3, <3>4 DEF Covered
        <3> QED BY <1>1, <3>1, <3>2, <3>5 DEF WorkMove
    <2> QED BY <2>2, <2>3
<1>4. ASSUME ~\E f \in Editors, r \in Repos : FinalizesRepo(f, r),
             work'[p] = work[p], broken \subseteq broken',
             agent[p[1]] => agent'[p[1]] \/ Covered(p)',
             Covered(p) => Covered(p)' \/ p \in broken'
      PROVE  WorkMove(p)
    BY <1>1, <1>4, RequestStays DEF WorkMove
<1>5. ASSUME fin' = fin PROVE Covered(p) => Covered(p)'
    BY <1>5 DEF Covered
<1>6. ASSUME NEW i \in IssueIds, ReviewerEnds(i) PROVE WorkMove(p)
    <2>1. CASE p[1] = i
        <3>1. /\ work'[p] = work[p] /\ broken \subseteq broken'
              /\ work[p] = "dirty" => p \in broken'
            BY <1>2, <1>6, <2>1 DEF ReviewerEnds, treeVars
        <3>2. work[p] \in WorkStates /\ (work[p] \in {"local", "pushed"} => p \in broken)
            BY DEF FinalInv, WorkInv
        <3>3. work'[p] \in {"none", "proposed"} \/ p \in broken'
            BY <3>1, <3>2 DEF WorkStates
        <3> QED BY <3>3 DEF WorkMove, Settled
    <2>2. CASE p[1] # i
        <3>1. /\ agent'[p[1]] = agent[p[1]] /\ ~\E f \in Editors, r \in Repos : FinalizesRepo(f, r)
            <4>1. agent'[p[1]] = agent[p[1]]
                BY <1>2, <1>6, <2>2 DEF ReviewerEnds, DispatchInv
            <4>2. agent[i] /\ ~agent'[i]
                BY <1>6 DEF ReviewerEnds, DispatchInv
            <4> QED BY <4>1, <4>2 DEF FinalizesRepo, dispatchVars
        <3>2. work'[p] = work[p] /\ broken \subseteq broken' /\ fin' = fin
            BY <1>6 DEF ReviewerEnds, treeVars
        <3> QED BY <1>4, <1>5, <3>1, <3>2
    <2> QED BY <2>1, <2>2
<1>7. ASSUME NEW i \in IssueIds, WorkflowDone(i) PROVE WorkMove(p)
    <2>1. /\ fin["processor"] = NoFin /\ "processor" \in Editors /\ prs' = prs
          /\ work' = work /\ broken \subseteq broken'
        BY <1>7 DEF WorkflowDone, ProcessorIdle, Editors, mergeVars, treeVars
    <2>2. p[1] # i => agent'[p[1]] = agent[p[1]]
        BY <1>2, <1>7 DEF WorkflowDone, DispatchInv
    <2>3. CASE broken' = broken \cup {i} \X Repos /\ fin' = fin
        <3>1. CASE p[1] = i
            BY <1>2, <2>3, <3>1 DEF WorkMove, Settled
        <3>2. CASE p[1] # i
            <4>1. (Covered(p) => Covered(p)') /\ agent'[p[1]] = agent[p[1]]
                BY <1>5, <2>2, <2>3, <3>2
            <4> QED BY <1>1, <2>1, <4>1 DEF WorkMove
        <3> QED BY <3>1, <3>2
    <2>4. CASE Begins("processor", i)
        <3>1. (Covered(p) => Covered(p)') /\ (p[1] = i => Covered(p)')
            BY <2>1, <2>4, BeginsCovers
        <3> QED BY <1>1, <2>1, <2>2, <3>1 DEF WorkMove
    <2> QED BY <1>7, <2>3, <2>4 DEF WorkflowDone
<1> SUFFICES ASSUME ~\E f \in Editors, r \in Repos : FinalizesRepo(f, r),
                    ~\E i \in IssueIds : WorkflowDone(i) \/ ReviewerEnds(i)
             PROVE  WorkMove(p)
    BY <1>3, <1>6, <1>7
<1>8. agent[p[1]] => agent'[p[1]]
    BY <1>2, AgentEnds
<1>9. ASSUME work'[p] = work[p], broken \subseteq broken', Covered(p) => Covered(p)' \/ p \in broken'
      PROVE  WorkMove(p)
    BY <1>4, <1>8, <1>9
<1>10. CASE UNCHANGED finalVars
    BY <1>5, <1>9, <1>10 DEF finalVars, treeVars
<1>11. CASE Dispatches \/ \E q \in PRs : PROpened(q)
    BY <1>5, <1>9, <1>11 DEF Dispatches, PROpened
<1>12. ASSUME NEW i \in IssueIds, ContinueFinalizes(i) PROVE WorkMove(p)
    <2>1. Covered(p) => Covered(p)'
        BY <1>12, BeginsCovers DEF ContinueFinalizes, Editors
    <2> QED BY <1>9, <1>12, <2>1 DEF ContinueFinalizes, treeVars
<1>13. ASSUME NEW i \in IssueIds, IssueClosed(i) PROVE WorkMove(p)
    BY <1>5, <1>9, <1>13 DEF IssueClosed
<1>14. ASSUME NEW f \in Editors, fin[f].at # "repos" \/ fin[f].todo = {},
              \A g \in Editors \ {f} : fin'[g] = fin[g], UNCHANGED <<work, broken>>
       PROVE  WorkMove(p)
    BY <1>9, <1>14 DEF Covered
<1>15. ASSUME NEW f \in Editors, CleansBegin(f) \/ FinalizeEnds(f) PROVE WorkMove(p)
    BY <1>14, <1>15 DEF CleansBegin, FinalizeEnds, FinalInv, treeVars
<1>16. ASSUME NEW f \in Editors, NEW r \in Repos, CleansUp(f, r) \/ FinalizeQueues(f, r)
       PROVE  WorkMove(p)
    BY <1>14, <1>16 DEF CleansUp, FinalizeQueues, FinalInv, treeVars
<1>17. CASE ProcessorCrashes
    <2> DEFINE f == fin["processor"]
    <2>1. /\ work' = work
          /\ broken' = (IF f.at = "repos" THEN broken \cup {f.issue} \X f.todo ELSE broken)
          /\ \A g \in Editors \ {"processor"} : fin'[g] = fin[g]
        BY <1>17 DEF ProcessorCrashes, FinalInv
    <2>2. Covered(p) => Covered(p)' \/ p \in broken'
        BY <1>2, <2>1 DEF Covered
    <2> QED BY <1>9, <2>1, <2>2
<1>18. ASSUME NEW q \in PRs, NEW w \in Cleaners, Removes(w, q) PROVE WorkMove(p)
    <2>1. CASE p = q /\ work[p] = "dirty"
        <3>1. work'[p] = "none"
            BY <1>18, <2>1 DEF Removes, FinalInv
        <3> QED BY <3>1 DEF WorkMove, Settled
    <2>2. CASE ~(p = q /\ work[p] = "dirty")
        BY <1>5, <1>9, <1>18, <2>2 DEF Removes, FinalInv
    <2> QED BY <2>1, <2>2
<1>19. ASSUME NEW q \in PRs, NEW how, PRClosed(q, how) PROVE WorkMove(p)
    BY <1>5, <1>9, <1>19 DEF PRClosed
<1>20. ASSUME NEW q \in PRs, AgentWrites(q) PROVE WorkMove(p)
    <2>1. CASE p = q /\ prs[p] # "none"
        BY <1>20, <2>1 DEF AgentWrites, WorkMove, Settled
    <2>2. CASE p = q /\ prs[p] = "none"
        <3>1. work'[p] = "dirty" /\ prs'[p] = "none" /\ agent'[p[1]]
            BY <1>20, <2>2 DEF AgentWrites, FinalInv, mergeVars, dispatchVars
        <3> QED BY <3>1 DEF WorkMove
    <2>3. CASE p # q
        BY <1>5, <1>9, <1>20, <2>3 DEF AgentWrites, FinalInv
    <2> QED BY <2>1, <2>2, <2>3
<1> QED BY <1>10, <1>11, <1>12, <1>13, <1>15, <1>16, <1>17, <1>18, <1>19, <1>20, FinalMoves, Zenon

\* An issue is closed after a pull request of its own was merged.
ClosedLanded == \A i \in Made : ~issue[i].open => Landed(i)

LEMMA ClosedKept ==
    ASSUME DispatchInv, MergeInv, MergeInv', ClosedLanded, IssueMove, RequestMove
    PROVE  ClosedLanded'
<1> SUFFICES ASSUME NEW i \in Made', ~issue'[i].open
             PROVE  \E r \in Repos : <<i, r>> \in landed'
    BY DEF ClosedLanded, Landed
<1>1. landed \subseteq landed'
    BY DEF RequestMove
<1>2. i \in IssueIds
    BY DEF Made
<1>3. CASE i \in Made /\ ~issue[i].open
    BY <1>1, <1>3 DEF ClosedLanded, Landed
<1>4. ASSUME NEW t, NEW new, NEW labelled, NEW late, Creates(t, new, labelled, late)
      PROVE  i \in Made /\ ~issue[i].open
    <2>1. issue'[i] = issue[i] \/ issue'[i] = NewIssue(t, TRUE) \/ issue'[i] = NewIssue(t, FALSE)
        BY <1>2, <1>4, CreatedIssues, Zenon
    <2>2. NewIssue(t, TRUE).open /\ NewIssue(t, FALSE).open
        BY DEF NewIssue, NoIssue
    <2> QED BY <1>2, <2>1, <2>2 DEF Made
<1>5. ASSUME ClosesIssue
      PROVE  (i \in Made /\ ~issue[i].open) \/ \E r \in Repos : <<i, r>> \in landed'
    <2>1. PICK p : /\ <<p, "merged">> \in events \cup events'
                   /\ issue' = [issue EXCEPT ![p[1]].open = FALSE]
        BY <1>5 DEF ClosesIssue
    <2>2. p \in landed' /\ p \in PRs
        BY <1>1, <2>1 DEF MergeInv, RequestInv
    <2>3. CASE i = p[1]
        BY <2>2, <2>3, PullRequests
    <2>4. CASE i # p[1]
        BY <1>2, <2>1, <2>4 DEF Made, DispatchInv
    <2> QED BY <2>3, <2>4
<1>6. ASSUME NEW j \in IssueIds, issue' = [issue EXCEPT ![j].plan = TRUE]
      PROVE  i \in Made /\ ~issue[i].open
    BY <1>2, <1>6 DEF Made, DispatchInv, IssueType
<1>7. CASE issue' = issue
    BY <1>3, <1>7 DEF Made
<1> QED BY <1>3, <1>4, <1>5, <1>6, <1>7 DEF IssueMove, Made

LEMMA WorkKept ==
    ASSUME BaseInv, WorkInv, [Next]_vars
    PROVE  WorkInv'
<1>1. ClosedLanded'
    BY BaseKept, IssueMoves, RequestMoves, ClosedKept DEF BaseInv, WorkInv, ClosedLanded
<1>2. ASSUME NEW p \in PRs
      PROVE  /\ work'[p] \in {"local", "pushed"} => p \in broken'
             /\ prs'[p] # "none" => Settled(p)'
             /\ Attended(p[1])' => Settled(p)' \/ Covered(p)' \/ agent'[p[1]]
    <2>1. WorkMove(p)
        BY WorkMoves DEF BaseInv
    <2>2. Settled(p)' <=> work'[p] \in {"none", "proposed"} \/ p \in broken'
        BY DEF Settled
    <2>3. CASE Settled(p)'
        BY <2>2, <2>3
    <2>4. CASE work'[p] = "dirty" /\ prs'[p] = "none" /\ agent'[p[1]]
        BY <2>4
    <2>5. CASE /\ work'[p] = work[p] /\ (prs'[p] # "none" => prs[p] # "none")
               /\ p \in broken => p \in broken'
               /\ Covered(p) \/ agent[p[1]] => Covered(p)' \/ p \in broken' \/ agent'[p[1]]
               /\ Attended(p[1])' => Attended(p[1]) \/ Covered(p)'
        <3>1. Settled(p) => Settled(p)'
            BY <2>2, <2>5 DEF Settled
        <3> QED BY <2>2, <2>5, <3>1 DEF WorkInv
    <2> QED BY <2>1, <2>3, <2>4, <2>5 DEF WorkMove
<1> QED BY <1>1, <1>2 DEF WorkInv, ClosedLanded

LEMMA WorkSafe == Spec => []WorkInv
<1>1. Init => WorkInv
    BY QueueStarts, PullRequests
    DEF Init, FinalizeInit, MergeInit, WorkInv, Settled
<1>2. BaseInv /\ WorkInv /\ [Next]_vars => WorkInv'
    BY WorkKept
<1> QED BY <1>1, <1>2, BaseSafe, PTL DEF Spec

\* When a merge closes the issue, no repository's work is forgotten: the
\* finalisation proposes every repository's changes or comes to it yet
\* (finalize_workflow of workflow_policy_plugin.py), or an agent is still at work,
\* unless a finalisation broke off there.
THEOREM NoWorkIsLeft == Spec => []NothingLeftBehind
<1>1. BaseInv /\ WorkInv => NothingLeftBehind
    <2> SUFFICES ASSUME BaseInv, WorkInv, NEW p \in PRs, p[1] \in Made, ~issue[p[1]].open,
                        ~agent[p[1]],
                        \A f \in Editors : fin[f].issue = p[1] /\ fin[f].at = "repos"
                                              => p[2] \notin fin[f].todo
                 PROVE  work[p] \in {"none", "proposed"} \/ p \in broken
        BY DEF NothingLeftBehind
    <2>1. PICK r \in Repos : prs[<<p[1], r>>] # "none"
        BY DEF WorkInv, Landed, BaseInv, MergeInv, RequestInv
    <2>2. Attended(p[1])
        BY <2>1 DEF Attended, Proposed
    <2> QED BY <2>2 DEF WorkInv, Settled, Covered
<1> QED BY <1>1, BaseSafe, WorkSafe, PTL

-----------------------------------------------------------------------------
(* Every issue follows its life.                                           *)

\* A step changes issues, workflows or requests, but for a merge that closes its
\* issue at once.
LEMMA OneKind ==
    ASSUME MergeInv, [Next]_vars
    PROVE  \/ UNCHANGED <<wf, prs, landed>>
           \/ UNCHANGED <<issue, prs, landed>>
           \/ UNCHANGED <<issue, wf>>
           \/ \E p \in PRs : prs[p] = "open" /\ MergesPR(p) /\ UNCHANGED wf
<1>1. CASE Dispatches
    BY <1>1 DEF Dispatches, PrepareTask, CreateIssue, CreateWorkflow, StartWorkflow, LaunchFirst,
                WebhookTask, mergeVars
<1>2. CASE MergeCalls
    BY <1>2 DEF MergeCalls, apart, MergeInv, PassInv
<1>3. CASE \E p \in PRs : HumanMerges(p) \/ HumanRejects(p)
    BY <1>3 DEF HumanMerges, HumanRejects, apart
<1>4. ASSUME NEW f \in Editors, Finalizes(f) \/ Saves(f) PROVE UNCHANGED <<issue, wf>>
    <2>1. CASE Finalizes(f)
        BY <2>1 DEF Finalizes, FinalizesRepo, CleansUp, FinalizeQueues, CleansBegin, FinalizeEnds,
                    Removes, dispatchVars
    <2> QED BY <1>4, <2>1 DEF Saves, dispatchVars
<1>5. CASE PassBegins \/ MergeMarks \/ PressLoads
    BY <1>5 DEF PassBegins, MergeMarks, PressLoads, dispatchVars
<1>6. CASE \/ \E i \in IssueIds : ContinueFinalizes(i) \/ IssueClosed(i)
           \/ \E i \in IssueIds, act \in {"approve", "merge", "retry"} : Press(act, i)
           \/ \E p \in PRs : AgentWrites(p) \/ Removes("webhook", p)
    BY <1>6 DEF ContinueFinalizes, IssueClosed, Press, AgentWrites, Removes, dispatchVars, mergeVars
<1>7. CASE \E p \in PRs, how \in {"merged", "closed"} : PRClosed(p, how)
    BY <1>7 DEF PRClosed, apart
<1>8. CASE Claims \/ ProcessorCrashes \/ Submits \/ UNCHANGED vars
    BY <1>8 DEF Claims, ProcessorCrashes, Submits, vars, dispatchVars, mergeVars
<1>9. CASE \/ \E i \in IssueIds :
                 \/ WorkflowDone(i) \/ ReviewerEnds(i) \/ OpensByHand(i) \/ RequestsPlan(i)
                 \/ IssueEvent("opened", i) \/ IssueEvent("labeled", i)
           \/ \E p \in PRs : PROpened(p)
    BY <1>9 DEF WorkflowDone, ReviewerEnds, OpensByHand, RequestsPlan, IssueEvent, PROpened,
                dispatchVars, mergeVars
<1>10. CASE Elsewhere
    <2>1. CASE Users
        BY <1>3, <1>6, <2>1, Zenon DEF Users
    <2> QED BY <1>2, <1>4, <1>5, <1>6, <1>7, <1>10, <2>1, ZenonT(60) DEF Elsewhere, Merges
<1> QED BY <1>1, <1>8, <1>9, <1>10, StepCases, Zenon

\* The stages, one by one.
LifeIs(i) ==
    /\ i \notin Made => Life(i) = "none"
    /\ i \in Made /\ ~issue[i].open /\ Landed(i) => Life(i) = "closed"
    /\ i \in Made /\ issue[i].open /\ Landed(i) => Life(i) = "merged"
    /\ i \in Made /\ issue[i].open /\ ~Landed(i) /\ Proposed(i) => Life(i) = "proposed"
    /\ i \in Made /\ issue[i].open /\ ~Landed(i) /\ ~Proposed(i) /\ wf[i] = "completed"
         => Life(i) = "done"
    /\ i \in Made /\ issue[i].open /\ ~Landed(i) /\ ~Proposed(i) /\ wf[i] # "completed"
         => Life(i) = "open"

LEMMA LifeIsSo == ASSUME NEW i PROVE LifeIs(i) /\ LifeIs(i)'
<1>1. LifeIs(i)
    BY Zenon DEF LifeIs, Life
<1>2. LifeIs(i)'
    BY Zenon DEF LifeIs, Life
<1> QED BY <1>1, <1>2

\* A step that one issue's life takes.
Steps(a, b) ==
    \/ a = b
    \/ <<a, b>> \in {<<"open", "done">>, <<"done", "open">>, <<"done", "proposed">>,
                     <<"open", "proposed">>, <<"proposed", "merged">>, <<"proposed", "closed">>,
                     <<"merged", "closed">>}

Lives == [i \in IssueIds |-> Life(i)]

LEMMA OneSteps ==
    ASSUME NEW i \in IssueIds, Steps(Life(i), Life(i)'),
           \A j \in IssueIds \ {i} : Life(j)' = Life(j)
    PROVE  IL!Next \/ Lives' = Lives
<1>1. Lives' = [Lives EXCEPT ![i] = Life(i)']
    BY DEF Lives
<1>2. Lives[i] = Life(i)
    BY DEF Lives
<1>3. CASE Life(i)' = Life(i)
    BY <1>1, <1>3 DEF Lives
<1>4. ASSUME NEW a, NEW b, Life(i) = a, Life(i)' = b PROVE IL!Moves(i, a, b)
    BY <1>1, <1>2, <1>4 DEF IL!Moves, Lives
<1> QED BY <1>3, <1>4 DEF Steps, IL!Next

LEMMA ManyOpen ==
    ASSUME NEW S \in SUBSET IssueIds, \A i \in S : Life(i) = "none" /\ Life(i)' = "open",
           \A j \in IssueIds \ S : Life(j)' = Life(j)
    PROVE  IL!Next \/ Lives' = Lives
<1>1. CASE S = {}
    BY <1>1 DEF Lives
<1>2. CASE S # {}
    <2>1. Lives' = [i \in IssueIds |-> IF i \in S THEN "open" ELSE Lives[i]]
        BY DEF Lives
    <2>2. S \in SUBSET {i \in IssueIds : Lives[i] = "none"}
        BY DEF Lives
    <2> QED BY <1>2, <2>1, <2>2 DEF Lives, IL!Next, IL!Opens
<1> QED BY <1>1, <1>2

\* What becomes of the other issues depends on what is said of them only.
LEMMA LivesAlike ==
    ASSUME NEW j, j \in Made' <=> j \in Made, issue'[j].open = issue[j].open,
           Landed(j)' <=> Landed(j), Proposed(j)' <=> Proposed(j), wf'[j] = wf[j]
    PROVE  Life(j)' = Life(j)
BY LifeIsSo, Zenon DEF Life

LEMMA LifeMoves ==
    ASSUME BaseInv, ClosedLanded, [Next]_vars
    PROVE  IL!Next \/ Lives' = Lives
<1> USE DEF LifeIs
<1>1. IssueMove /\ WorkflowMove /\ RequestMove
    BY IssueMoves, WorkflowMoves, RequestMoves DEF BaseInv
<1>2. \A i \in IssueIds \ Made : wf[i] = "none" /\ ~Landed(i) /\ ~Proposed(i)
    BY PullRequests DEF BaseInv, MadeInv, MergeInv, RequestInv, Proposed, Landed
<1>3. ASSUME UNCHANGED <<issue, wf, prs, landed>> PROVE Lives' = Lives
    BY <1>3 DEF Lives, Life, Proposed, Landed, Made
<1>4. CASE UNCHANGED <<wf, prs, landed>>
    <2>1. \A i \in IssueIds : (Proposed(i)' <=> Proposed(i)) /\ (Landed(i)' <=> Landed(i))
        BY <1>4 DEF Proposed, Landed
    <2>2. ASSUME NEW t \in Tasks, NEW new \in SUBSET Free, NEW labelled, NEW late,
                 Creates(t, new, labelled, late)
          PROVE  IL!Next \/ Lives' = Lives
        <3>1. \A i \in new : issue'[i] \in {NewIssue(t, TRUE), NewIssue(t, FALSE)}
            BY <2>2, CreatedIssues, Zenon DEF Free
        <3>2. \A i \in new : issue'[i].open /\ issue'[i].task = t
            BY <3>1 DEF NewIssue, NoIssue
        <3>3. \A i \in new : i \in Made' /\ i \in IssueIds \ Made
            BY <3>2, QueueAssumption DEF Made, Free
        <3>4. \A i \in new : Life(i) = "none" /\ Life(i)' = "open"
            BY <1>2, <1>4, <2>1, <3>2, <3>3, LifeIsSo
        <3>5. \A i \in IssueIds \ new : issue'[i] = issue[i]
            BY <2>2, CreatedIssues, Zenon
        <3>6. \A i \in IssueIds \ new : Life(i)' = Life(i)
            BY <1>4, <2>1, <3>5, LivesAlike DEF Made
        <3>7. new \in SUBSET IssueIds
            BY DEF Free
        <3> QED BY <3>4, <3>6, <3>7, ManyOpen
    <2>3. ASSUME ClosesIssue PROVE IL!Next \/ Lives' = Lives
        <3>1. PICK p : /\ <<p, "merged">> \in events \cup events'
                       /\ issue' = [issue EXCEPT ![p[1]].open = FALSE]
            BY <2>3 DEF ClosesIssue
        <3>2. p \in landed /\ p \in PRs
            BY <1>4, <3>1, BaseKept DEF BaseInv, MergeInv, RequestInv
        <3> DEFINE i == p[1]
        <3>3. i \in IssueIds /\ Landed(i) /\ issue' = [issue EXCEPT ![i].open = FALSE]
            BY <3>1, <3>2, PullRequests DEF Landed
        <3> HIDE DEF i
        <3>4. i \in Made
            BY <1>2, <3>3
        <3>5. i \in Made' /\ ~issue'[i].open
            BY <3>3, <3>4 DEF Made, BaseInv, DispatchInv, IssueType
        <3>6. Life(i)' = "closed" /\ Life(i) \in {"closed", "merged"}
            BY <2>1, <3>3, <3>4, <3>5, LifeIsSo
        <3>7. \A j \in IssueIds \ {i} : Life(j)' = Life(j)
            <4> TAKE j \in IssueIds \ {i}
            <4>1. issue'[j] = issue[j]
                BY <3>3 DEF BaseInv, DispatchInv
            <4> QED BY <1>4, <2>1, <4>1, LivesAlike DEF Made
        <3> QED BY <3>3, <3>6, <3>7, OneSteps DEF Steps
    <2>4. ASSUME NEW i \in Made, issue' = [issue EXCEPT ![i].plan = TRUE]
          PROVE  Lives' = Lives
        <3>1. \A j \in IssueIds : issue'[j].open = issue[j].open /\ issue'[j].task = issue[j].task
            BY <2>4 DEF Made, BaseInv, DispatchInv, IssueType
        <3>2. \A j \in IssueIds : Life(j)' = Life(j)
            BY <1>4, <2>1, <3>1, LivesAlike DEF Made
        <3> QED BY <3>2 DEF Lives
    <2> QED BY <1>1, <1>3, <1>4, <2>2, <2>3, <2>4, Zenon DEF IssueMove
<1>5. CASE UNCHANGED <<issue, prs, landed>>
    <2>1. \A i \in IssueIds : /\ Proposed(i)' <=> Proposed(i)
                              /\ Landed(i)' <=> Landed(i)
                              /\ i \in Made' <=> i \in Made
        BY <1>5 DEF Proposed, Landed, Made
    <2>2. ASSUME NEW i \in IssueIds, NEW s, wf' = [wf EXCEPT ![i] = s]
          PROVE  IL!Next \/ Lives' = Lives
        <3>1. \A j \in IssueIds \ {i} : Life(j)' = Life(j)
            <4> TAKE j \in IssueIds \ {i}
            <4>1. wf'[j] = wf[j]
                BY <2>2 DEF BaseInv, DispatchInv
            <4> QED BY <1>5, <2>1, <4>1, LivesAlike
        <3>2. Life(i)' = Life(i) \/ (Life(i) \in {"open", "done"} /\ Life(i)' \in {"open", "done"})
            <4>1. CASE i \in Made /\ ~issue[i].open
                BY <1>5, <2>1, <4>1, LifeIsSo DEF ClosedLanded
            <4>2. CASE i \notin Made \/ issue[i].open
                BY <1>5, <2>1, <4>2, LifeIsSo
            <4> QED BY <4>1, <4>2
        <3> QED BY <3>1, <3>2, OneSteps DEF Steps
    <2> QED BY <1>1, <1>3, <1>5, <2>2 DEF WorkflowMove, BaseInv, DispatchInv
<1>6. ASSUME NEW p \in PRs, prs[p] = "open", prs' = [prs EXCEPT ![p] = "merged"],
             landed' = landed \cup {p}, wf' = wf,
             \/ issue' = issue
             \/ issue' = [issue EXCEPT ![p[1]].open = FALSE]
      PROVE  IL!Next \/ Lives' = Lives
    <2> DEFINE i == p[1]
    <2>1. i \in IssueIds /\ p[2] \in Repos /\ p = <<i, p[2]>>
        BY PullRequests
    <2>2. Proposed(i) /\ i \in Made
        BY <1>2, <1>6, <2>1 DEF Proposed
    <2>3. \A j \in IssueIds : Proposed(j)' <=> Proposed(j)
        BY <1>6, PullRequests DEF Proposed, BaseInv, MergeInv, RequestInv
    <2>4. \A j \in IssueIds \ {i} : Landed(j)' <=> Landed(j)
        BY <1>6, <2>1 DEF Landed
    <2>5. Landed(i)'
        BY <1>6, <2>1 DEF Landed
    <2>6. issue' = issue \/ issue' = [issue EXCEPT ![i].open = FALSE]
        BY <1>6
    <2> HIDE DEF i
    <2>7. \A j \in IssueIds \ {i} : Life(j)' = Life(j)
        <3> TAKE j \in IssueIds \ {i}
        <3>1. issue'[j] = issue[j]
            BY <2>6 DEF BaseInv, DispatchInv
        <3> QED BY <1>6, <2>3, <2>4, <3>1, LivesAlike DEF Made
    <2>8. i \in Made' /\ (issue'[i].open => issue[i].open)
        BY <2>1, <2>2, <2>6 DEF Made, BaseInv, DispatchInv, IssueType
    <2>9. /\ issue'[i].open => Life(i)' = "merged"
          /\ ~issue'[i].open => Life(i)' = "closed"
        BY <2>5, <2>8, LifeIsSo
    <2>10. /\ issue[i].open => Life(i) \in {"merged", "proposed"}
           /\ ~issue[i].open => Life(i) = "closed"
        BY <2>2, LifeIsSo DEF ClosedLanded
    <2>11. Steps(Life(i), Life(i)')
        <3> HIDE DEF LifeIs
        <3>1. CASE issue'[i].open
            BY <2>8, <2>9, <2>10, <3>1 DEF Steps
        <3>2. CASE ~issue'[i].open
            BY <2>8, <2>9, <2>10, <3>2 DEF Steps
        <3> QED BY <3>1, <3>2
    <2> QED BY <2>1, <2>7, <2>11, OneSteps
<1>7. CASE UNCHANGED <<issue, wf>>
    <2>1. \A i \in IssueIds : i \in Made' <=> i \in Made
        BY <1>7 DEF Made
    <2>2. ASSUME NEW f \in Editors, NEW r \in Repos, fin[f].at = "repos",
                 prs' = [prs EXCEPT ![<<fin[f].issue, r>>] = "open"], landed' = landed
          PROVE  IL!Next \/ Lives' = Lives
        <3>1. PICK i \in Made : i = fin[f].issue
            BY <2>2, RepoInHand DEF BaseInv
        <3>2. i \in IssueIds /\ <<i, r>> \in PRs /\ prs' = [prs EXCEPT ![<<i, r>>] = "open"]
            BY <2>2, <3>1, PullRequests DEF Made
        <3>3. \A j \in IssueIds : Landed(j)' <=> Landed(j)
            BY <2>2 DEF Landed
        <3>4. \A j \in IssueIds \ {i} : Proposed(j)' <=> Proposed(j)
            BY <3>2, PullRequests DEF Proposed, BaseInv, MergeInv, RequestInv
        <3>5. \A j \in IssueIds \ {i} : Life(j)' = Life(j)
            BY <1>7, <2>1, <3>3, <3>4, LivesAlike
        <3>6. prs'[<<i, r>>] = "open"
            BY <3>2 DEF BaseInv, MergeInv, RequestInv
        <3>7. Proposed(i)'
            BY <3>6 DEF Proposed
        <3>8. Steps(Life(i), Life(i)')
            <4>1. i \in Made' /\ issue' = issue /\ (Landed(i)' <=> Landed(i))
                BY <1>7, <2>1, <3>2, <3>3
            <4>2. CASE Landed(i)
                BY <4>1, <4>2, LifeIsSo DEF Steps
            <4>3. CASE issue[i].open /\ ~Landed(i)
                <5>1. Life(i)' = "proposed"
                    BY <3>7, <4>1, <4>3, LifeIsSo
                <5>2. Life(i) \in {"open", "done", "proposed"}
                    BY <4>3, LifeIsSo
                <5> QED BY <5>1, <5>2 DEF Steps
            <4> QED BY <4>2, <4>3 DEF ClosedLanded
        <3> QED BY <3>2, <3>5, <3>8, OneSteps
    <2>3. ASSUME NEW p \in PRs, prs[p] = "open", prs' = [prs EXCEPT ![p] = "closed"],
                 landed' = landed
          PROVE  IL!Next \/ Lives' = Lives
        <3>1. \A j \in IssueIds : (Proposed(j)' <=> Proposed(j)) /\ (Landed(j)' <=> Landed(j))
            BY <2>3, PullRequests DEF Proposed, Landed, BaseInv, MergeInv, RequestInv
        <3>2. \A j \in IssueIds : Life(j)' = Life(j)
            BY <1>7, <2>1, <3>1, LivesAlike
        <3> QED BY <3>2 DEF Lives
    <2> QED BY <1>1, <1>3, <1>6, <1>7, <2>2, <2>3 DEF RequestMove
<1>8. CASE \E p \in PRs : prs[p] = "open" /\ MergesPR(p) /\ UNCHANGED wf
    BY <1>6, <1>8 DEF MergesPR
<1> QED BY <1>4, <1>5, <1>7, <1>8, OneKind DEF BaseInv

\* Whatever the processes do, in whatever order and with whatever failures, an
\* issue is closed only by the merge of one of its own pull requests or after it,
\* merged only after it was proposed, and never opened again (create_pr_from_changes
\* of github.py, pr_service.py, finalize_workflow, create_issue).
THEOREM IssuesFollowTheirLife == Spec => FollowsIssueLife
<1>1. Init => IL!Init
    <2> SUFFICES ASSUME Init PROVE IL!Init
        OBVIOUS
    <2>1. \A i \in IssueIds : Life(i) = "none"
        BY QueueStarts DEF Life
    <2> QED BY <2>1 DEF IL!Init
<1>2. BaseInv /\ WorkInv /\ [Next]_vars => [IL!Next]_Lives
    BY LifeMoves DEF WorkInv, ClosedLanded
<1> QED BY <1>1, <1>2, BaseSafe, WorkSafe, PTL DEF Spec, FollowsIssueLife, IL!Spec, Lives

===============================================================================
