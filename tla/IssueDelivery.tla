----------------------------- MODULE IssueDelivery -----------------------------
(***************************************************************************)
(* From a submitted task to a closed issue: the inbox queue, the dispatch  *)
(* of tasks, the finalisation of completed workflows, the merge queue and  *)
(* the webhooks of pull requests, in their processes.                      *)
(*                                                                         *)
(* The inbox processor (nexus/core/processor_loops.py and                  *)
(* examples/nexus-bot/src/inbox_processor.py) is one thread: it drains the *)
(* inbox, scans for completions and merges, one after the other.  The bot  *)
(* and the webhook server (nexus/core/webhook/pr_service.py) are processes *)
(* of their own.                                                           *)
(***************************************************************************)
EXTENDS IssueFinalize

vars == <<queueVars, turns, dispatchVars, mergeVars, finalVars>>

ProcessorIdle ==
    /\ at = "idle" /\ batch = {}
    /\ fin["processor"] = NoFin
    /\ merging = {} /\ inMerge = NoPR /\ held["processor"] = {}

-----------------------------------------------------------------------------
(* The inbox processor                                                     *)

Claims == ProcessorIdle /\ ClaimPending /\ UNCHANGED <<dispatchVars, mergeVars, finalVars>>

\* A launch makes the worktrees.
Dispatches ==
    /\ PrepareTask \/ CreateIssue \/ CreateWorkflow \/ StartWorkflow \/ LaunchFirst \/ WebhookTask
    /\ \/ \E i \in IssueIds : agent'[i] /\ ~agent[i] /\ Provides(i)
       \/ agent' = agent /\ UNCHANGED <<tree, raced>>
    /\ UNCHANGED <<mergeVars, removing, work, fin, ended, broken>>

\* An agent changes files in a worktree.  What it changes where a pull request
\* has been made is not part of that.
AgentWrites(p) ==
    /\ agent[p[1]] /\ tree[p] /\ work[p] # "dirty"
    /\ work' = [work EXCEPT ![p] = "dirty"]
    /\ broken' = IF prs[p] # "none" THEN broken \cup {p} ELSE broken
    /\ Works
    /\ UNCHANGED <<queueVars, dispatchVars, mergeVars, tree, removing, raced, fin, ended>>

\* The scan finds the last step's report: the workflow is completed and then
\* finalised, unless an exception ends that, or the processor was restarted
\* before the scan and its startup check completed the workflow.  Without a
\* workflow the reports name the next agents, and the last ends the work.
WorkflowDone(i) ==
    /\ ProcessorIdle
    /\ wf[i] \in {"running", "none"} /\ agent[i]
    /\ wf' = [wf EXCEPT ![i] = IF @ = "running" THEN "completed" ELSE @]
    /\ agent' = [agent EXCEPT ![i] = FALSE]
    /\ \/ /\ Works /\ Begins("processor", i)
          /\ UNCHANGED <<ended, broken>>
       \/ /\ Fails /\ ended' = ended \cup {i}
          /\ broken' = broken \cup {i} \X Repos
          /\ UNCHANGED fin
    /\ UNCHANGED <<queueVars, issue, by, at, target, notices, blind, mergeVars, treeVars>>

Finalizes(f) ==
    \/ \E r \in Repos : FinalizesRepo(f, r) \/ CleansUp(f, r) \/ FinalizeQueues(f, r)
    \/ CleansBegin(f) \/ FinalizeEnds(f)
    \/ \E p \in PRs : Removes(f, p)

Merges ==
    /\ \/ ProcessorIdle /\ PassBegins
       \/ MergeMarks
       \/ MergeCalls
    /\ UNCHANGED finalVars

\* The processor dies and is started again: what it had claimed stays
\* "processing", what it had marked stays "merging".
ProcessorCrashes ==
    /\ ~ProcessorIdle
    /\ Fails
    /\ at' = "idle" /\ target' = NoId
    /\ left' = left \cup batch /\ batch' = {}
    /\ fin' = [fin EXCEPT !["processor"] = NoFin]
    /\ LET f == fin["processor"]
       IN  /\ broken' = IF f.at = "repos" THEN broken \cup {f.issue} \X f.todo ELSE broken
           /\ ended' = IF f.at \in {"repos", "clean"} THEN ended \cup {f.issue} ELSE ended
    /\ removing' = {s \in removing : s[2] # "processor"}
    /\ raced' = {s \in raced : s[2] # "processor"}
    /\ held' = [held EXCEPT !["processor"] = {}]
    /\ merging' = {} /\ inMerge' = NoPR
    /\ UNCHANGED <<rows, looked, overtaken, issue, wf, by, agent, notices, blind, mode, doc, press,
                   prs, landed, byQueue, approved, events, tree, work>>

Processor ==
    \/ Claims \/ Dispatches \/ Finalizes("processor") \/ Merges
    \/ Saves("processor") /\ UNCHANGED finalVars

-----------------------------------------------------------------------------
(* The bot                                                                 *)

\* A user asks to continue a completed workflow whose issue is open.
ContinueFinalizes(i) ==
    /\ fin["bot"] = NoFin
    /\ wf[i] = "completed" /\ issue[i].open /\ ~agent[i]
    /\ Asked
    /\ Begins("bot", i)
    /\ UNCHANGED <<queueVars, dispatchVars, mergeVars, treeVars, ended, broken>>

Bot ==
    \/ Finalizes("bot")
    \/ Saves("bot") /\ UNCHANGED finalVars
    \/ PressLoads /\ UNCHANGED finalVars

Users ==
    \/ \E i \in IssueIds : ContinueFinalizes(i)
    \/ /\ \/ \E i \in IssueIds, act \in {"approve", "merge", "retry"} : Press(act, i)
          \/ \E p \in PRs : HumanMerges(p) \/ HumanRejects(p)
       /\ UNCHANGED finalVars

-----------------------------------------------------------------------------
(* Webhooks of pull requests                                               *)

\* The reviewer is launched on the issue that the title names, also when its
\* workflow is completed, unless the guards refuse.
PROpened(p) ==
    LET i == p[1]
    IN  /\ prs[p] # "none" /\ ~agent[i]
        /\ Asked
        /\ agent' = [agent EXCEPT ![i] = TRUE]
        /\ Provides(i)
        /\ UNCHANGED <<queueVars, issue, wf, by, at, target, notices, blind, mergeVars, removing,
                       work, fin, ended, broken>>

\* An agent that runs beside the workflow ends, and leaves what it changed.
ReviewerEnds(i) ==
    /\ agent[i] /\ wf[i] # "running"
    /\ agent' = [agent EXCEPT ![i] = FALSE]
    /\ broken' = broken \cup {p \in {i} \X Repos : work[p] = "dirty"}
    /\ Works
    /\ UNCHANGED <<queueVars, issue, wf, by, at, target, notices, blind, mergeVars, treeVars, fin,
                   ended>>

\* Faulty variant: a pull request that was turned down closes its issue, too.
ClosesUnmerged(p, how) == p[2] = Home

\* An event closes the issue of that number in the repository of the pull
\* request, which is ours at home only, and after a merge only.
Closes(p, how) == p[2] = Home /\ how = "merged"

\* The issue is closed, which may fail; after a merge the worktree is to go, too.
\* An event that is lost is one that never arrives.
PRClosed(p, how) ==
    /\ <<p, how>> \in events /\ events' = events \ {<<p, how>>}
    /\ \/ Closes(p, how) /\ Works /\ issue' = [issue EXCEPT ![p[1]].open = FALSE]
       \/ Closes(p, how) /\ Fails /\ UNCHANGED issue
       \/ ~Closes(p, how) /\ Works /\ UNCHANGED issue
    /\ IF how = "merged" THEN Checks("webhook", p) ELSE UNCHANGED removing
    /\ UNCHANGED <<apart, held, inMerge, press, prs, landed, byQueue, approved, tree, raced, work,
                   fin, ended, broken>>

-----------------------------------------------------------------------------
(* Webhooks of issues: nexus/core/webhook/issue_service.py                 *)

Noticed(kind, i) == <<kind, i>> \in notices /\ notices' = notices \ {<<kind, i>>}

\* The task of the issue is enqueued; the insert is a step of its own.  An event
\* that never arrives is one that is lost.
IssueEvent(kind, i) ==
    /\ Noticed(kind, i) /\ kind \in {"opened", "labeled"}
    /\ RoomForRow
    /\ Submission
    /\ LooksFor(IssueFile[i])
    /\ UNCHANGED <<rows, batch, left, overtaken, issue, wf, by, agent, at, target, blind,
                   mergeVars, finalVars>>

\* A closed issue needs its worktree no more; the event arrives at some time
\* after the closing, or again, or never.
IssueClosed(i) ==
    /\ i \in Made /\ ~issue[i].open
    /\ Checks("webhook", <<i, Home>>)
    /\ Works
    /\ UNCHANGED <<queueVars, dispatchVars, mergeVars, tree, raced, work, fin, ended, broken>>

\* Somebody opens an issue, or labels one for a plan.  The bounds allow an issue
\* that is opened by hand or tasks that are submitted, but not both.
ByHand == \E i \in Made : issue[i].task \in WebhookTasks

OpensByHand(i) ==
    /\ Made = {} /\ NothingSubmitted
    /\ i = First(Free)
    /\ Works
    /\ Creates(IssueFile[i], {i}, {}, {i})
    /\ UNCHANGED <<queueVars, wf, by, agent, at, target, blind, mergeVars, finalVars>>

RequestsPlan(i) ==
    /\ i \in Made /\ ~issue[i].plan
    /\ Asked
    /\ issue' = [issue EXCEPT ![i].plan = TRUE]
    /\ notices' = notices \cup {<<"labeled", i>>}
    /\ UNCHANGED <<queueVars, wf, by, agent, at, target, blind, mergeVars, finalVars>>

-----------------------------------------------------------------------------
Submits ==
    /\ \/ ~ByHand /\ \E t \in Tasks \ WebhookTasks : EnqueueLooks(t)
       \/ \E t \in Tasks : EnqueueInserts(t)
       \/ \E n \in RowIds : EnqueueCommits(n)
    /\ UNCHANGED <<dispatchVars, mergeVars, finalVars>>

Init == QueueInit /\ DispatchInit /\ MergeInit /\ FinalizeInit

Next ==
    \/ Processor \/ ProcessorCrashes
    \/ Bot \/ Users \/ Submits
    \/ \E i \in IssueIds :
          \/ WorkflowDone(i) \/ ReviewerEnds(i)
          \/ IssueEvent("opened", i) \/ IssueEvent("labeled", i) \/ IssueClosed(i)
          \/ OpensByHand(i) \/ RequestsPlan(i)
    \/ \E p \in PRs :
          \/ AgentWrites(p)
          \/ PROpened(p) \/ Removes("webhook", p)
          \/ PRClosed(p, "merged") \/ PRClosed(p, "closed")

Spec == Init /\ [][Next]_vars

(***************************************************************************)
(* The processor's loop goes on, also after a crash, for the service is    *)
(* restarted.  What it does first is left open: each phase of its loop     *)
(* uses up something that is bounded.  All others may stop, the agents on  *)
(* whose reports the completion of a workflow waits among them.           *)
(***************************************************************************)
FairSpec == Spec /\ WF_vars(Processor)

===============================================================================
