--------------------------- MODULE IssueDeliveryProps ---------------------------
(* What the delivery of issues is to guarantee.                            *)
EXTENDS IssueDelivery

\* Types.
DeliveryTypeOK ==
    /\ rows \in [RowIds -> [task : Tasks \cup {NoTask}, dup : BOOLEAN,
                            st : {"absent", "uncommitted", "pending", "processing", "done", "failed"}]]
    /\ looked \in [Tasks -> 0..MaxRows]
    /\ batch \subseteq {n \in RowIds : rows[n].st = "processing"}
    /\ wf \in [IssueIds -> {"none", "pending", "running", "completed"}]
    /\ at \in {"idle", "create", "workflow", "start", "launch"}
    /\ at # "idle" => batch # {}
    /\ target \in IssueIds \cup {NoId}
    /\ \A w \in Editors : Cardinality(held[w]) <= 1
    /\ merging \subseteq PRs /\ inMerge \in PRs \cup {NoPR}
    /\ work \in [PRs -> WorkStates]
    /\ raced \subseteq removing /\ removing \subseteq PRs \X Cleaners
    /\ \A p \in PRs : prs[p] = "merged" => p \in landed

\* A submission that arrives several times, or from two places under one title,
\* makes one issue a day, and one more for each time that the listing of issues,
\* the answer to a creation or an issue's labels were lost (the marker and title
\* search of create_issue).
OneIssuePerRequest ==
    \A t \in Tasks \ WebhookTasks :
       Cardinality({i \in Made : /\ issue[i].open /\ issue[i].task \notin WebhookTasks
                                 /\ Title[issue[i].task] = Title[t]}) <= 1 + blind

\* However the looks, inserts and commits of the clients interleave with the
\* claims, no two rows of a task are worked off unless the earlier one has failed
\* or was committed after the later one was claimed.
TaskIsTakenOnce ==
    \A m, n \in Stored :
       m < n /\ rows[m].task = rows[n].task /\ rows[m].st # "failed"
          => rows[n].dup \/ rows[n].st = "pending" \/ m \in overtaken

\* A workflow that has started is reset by the dispatch of another row than the
\* one that made it, which led to this very issue: no crash, failed mark or new
\* claim makes a row start its workflow twice.
RestartNeedsResubmission ==
    [][\A i \in IssueIds :
          wf[i] \in {"running", "completed"} /\ wf'[i] = "pending" => by'[i] # by[i]]_vars

\* The processor, the bot and the webhook server remove worktrees, each at a time
\* of its own, while agents are launched from three places and write.  None takes
\* uncommitted work with it, but that of an agent launched after its check.
UncommittedWorkIsKept ==
    [][\A p \in PRs :
          tree[p] /\ ~tree'[p] /\ work[p] = "dirty" => \E w \in Cleaners : <<p, w>> \in raced]_vars

\* In manual review mode the queue merges only what a user approved, also when
\* the saves of the bot and the processor overwrite each other.
MergedOnlyIfApproved == mode = "manual" => byQueue \subseteq approved

\* When a merge, in whichever repository, closes the issue, the work in the others
\* is proposed as well, or an agent or a finalisation is still at it, unless a
\* finalisation broke off there.
NothingLeftBehind ==
    \A p \in PRs :
       /\ p[1] \in Made /\ ~issue[p[1]].open /\ ~agent[p[1]]
       /\ \A f \in Editors :
             fin[f].issue = p[1] /\ fin[f].at = "repos" => p[2] \notin fin[f].todo
       => work[p] \in {"none", "proposed"} \/ p \in broken

Proposed(i) == \E r \in Repos : prs[<<i, r>>] # "none"
Landed(i) == \E r \in Repos : <<i, r>> \in landed

Life(i) ==
    IF i \notin Made THEN "none"
    ELSE IF Landed(i) THEN IF issue[i].open THEN "merged" ELSE "closed"
    ELSE IF ~issue[i].open THEN "dropped"
    ELSE IF Proposed(i) THEN "proposed"
    ELSE IF wf[i] = "completed" THEN "done" ELSE "open"

IL == INSTANCE IssueLife WITH Ids <- IssueIds, life <- [i \in IssueIds |-> Life(i)]

\* Every issue follows its life: it is merged only after it was proposed, closed
\* only by the merge of one of its own pull requests or after it, whatever else
\* happens to them, and never dropped or opened again.
FollowsIssueLife == IL!Spec

\* Again and again every stored row is done or has failed, but for the rows over
\* which the processor died or whose end it could not write.
InboxDrains == []<>(\A n \in Stored : rows[n].st \in {"done", "failed"} \/ n \in left)

\* Again and again no completed workflow is left whose finalisation goes on or
\* has not begun: it ended, broke off, or was skipped over by a restart.
CompletedAreFinalized == []<>(\A i \in IssueIds : wf[i] = "completed" => i \in ended)

\* Again and again no entry of the merge queue is left that may be merged: what
\* is pending_auto_merge is tried.
MergeQueueDrains == []<>(\A p \in PRs : ~Eligible(doc[p]))

===============================================================================
