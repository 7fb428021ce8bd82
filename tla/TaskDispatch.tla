------------------------------ MODULE TaskDispatch ------------------------------
(***************************************************************************)
(* A task becomes an issue with a workflow: handle_new_task of             *)
(* nexus/core/task_dispatch.py and create_issue of                         *)
(* nexus/core/issue_lifecycle.py, in the inbox processor's thread.         *)
(*                                                                         *)
(* A workflow is reduced to its state; the modules AgentControl and        *)
(* StepCompletion show how it runs.  A task that a webhook enqueued for    *)
(* an issue that exists already only launches an agent.                    *)
(* Task files are left out.                                                *)
(***************************************************************************)
EXTENDS InboxQueue

CONSTANTS
    Title,      \* the title of a task's issue, with its type and workflow labels
    MaxIssues,  \* bound on the issues
    IssueFile   \* per issue, the task that its webhook enqueues

ASSUME DispatchAssumption ==
    /\ MaxIssues \in Nat \ {0}
    /\ IssueFile \in Injection(1..MaxIssues, Tasks)
    /\ DOMAIN Title = Tasks \ Range(IssueFile)

VARIABLES
    issue,      \* the issues of the project
    wf,         \* per issue, the state of its workflow
    by,         \* history: and the row whose dispatch made it
    agent,      \* per issue, whether an agent is at work on it
    at,         \* where handle_new_task is
    target,     \* the issue in hand
    notices,    \* issue events to heed that a webhook may bring
    blind       \* history: listings, answers and labels of issues that were lost

dispatchVars == <<issue, wf, by, agent, at, target, notices, blind>>

IssueIds == 1..MaxIssues
NoId == 0
NoIssue == [task |-> NoTask, open |-> FALSE, labels |-> FALSE, plan |-> FALSE]
Made == {i \in IssueIds : issue[i].task # NoTask}
Free == IssueIds \ Made

Task == rows[InHand].task

WebhookTasks == Range(IssueFile)

\* Faulty variant: only the marker is compared.
Marked(t) == {i \in Made : issue[i].open /\ issue[i].labels /\ issue[i].task = t}

\* The open issues that are listed under the project's label and carry the task's
\* title, type and workflow, as those with its marker do.  An issue that lost its
\* labels, or was opened by hand, is not listed.
Duplicates(t) ==
    {i \in Made : /\ issue[i].open /\ issue[i].labels
                  /\ issue[i].task \notin WebhookTasks
                  /\ Title[issue[i].task] = Title[t]}

-----------------------------------------------------------------------------
\* The task is refined and named and its requester's access checked.  An
\* exception or an unknown project fails the row; a refusal completes it.
PrepareTask ==
    /\ at = "idle" /\ batch # {} /\ Task \notin WebhookTasks
    /\ \/ /\ Works
          /\ at' = "create"
          /\ UNCHANGED queueVars
       \/ /\ Fails
          /\ UNCHANGED <<at, looked>>
          /\ \E st \in Ends : Settle(st)
    /\ UNCHANGED <<issue, wf, by, agent, target, notices, blind>>

NewIssue(t, lab) == [NoIssue EXCEPT !.task = t, !.open = TRUE, !.labels = lab]

\* The new issues of task t, of which some have the labels of a dispatch in the
\* end.  Those that were opened without, the late ones, are heeded by the webhook.
Creates(t, new, labelled, late) ==
    /\ issue' = [i \in IssueIds |-> IF i \in new THEN NewIssue(t, i \in labelled) ELSE issue[i]]
    /\ notices' = notices \cup {"opened"} \X late

\* create_issue: a duplicate is used instead of a new issue.  It is not found
\* when the listing fails or when the issue is older than the window.  When the
\* first attempt fails, or only its answer is lost, the second is made without
\* labels; they are added afterwards, and when that fails, nobody hears of it.
\* When both attempts fail, the row has failed.
CreateIssue ==
    /\ at = "create"
    /\ \/ /\ Duplicates(Task) # {} /\ Works
          /\ target' \in Duplicates(Task)
          /\ at' = "workflow"
          /\ UNCHANGED <<issue, notices, blind, queueVars>>
       \/ /\ Free # {}
          /\ IF Duplicates(Task) = {} THEN Works ELSE Fails
          /\ target' = First(Free)
          /\ Creates(Task, {First(Free)}, {First(Free)}, {})
          /\ blind' = IF Duplicates(Task) = {} THEN blind ELSE blind + 1
          /\ at' = "workflow"
          /\ UNCHANGED queueVars
       \/ /\ Free # {} /\ Duplicates(Task) = {} /\ Fails
          /\ target' = First(Free)
          /\ \/ Creates(Task, {First(Free)}, {First(Free)}, {First(Free)}) /\ UNCHANGED blind
             \/ Creates(Task, {First(Free)}, {}, {First(Free)}) /\ blind' = blind + 1
          /\ at' = "workflow"
          /\ UNCHANGED queueVars
       \/ /\ Cardinality(Free) >= 2 /\ Duplicates(Task) = {} /\ Fails
          /\ LET i == First(Free) j == First(Free \ {i})
             IN  /\ target' = j
                 /\ \E lab \in {{i}, {i, j}} : Creates(Task, {i, j}, lab, {j})
          /\ blind' = blind + 1
          /\ at' = "workflow"
          /\ UNCHANGED queueVars
       \/ /\ Duplicates(Task) = {} /\ Fails
          /\ at' = "idle" /\ \E st \in Ends \ {"done"} : Settle(st)
          /\ UNCHANGED <<looked, issue, target, notices, blind>>
    /\ UNCHANGED <<wf, by, agent>>

\* create_workflow_for_issue saves a new workflow, over one that the issue may
\* have.  When there is none to save, dispatching goes on; an exception ends it.
CreateWorkflow ==
    /\ at = "workflow"
    /\ \/ /\ Works
          /\ wf' = [wf EXCEPT ![target] = "pending"]
          /\ by' = [by EXCEPT ![target] = InHand]
          /\ at' = "start"
          /\ UNCHANGED <<queueVars, target>>
       \/ /\ Fails
          /\ at' = "launch"
          /\ UNCHANGED <<queueVars, wf, by, target>>
       \/ /\ Fails
          /\ at' = "idle" /\ target' = NoId /\ \E st \in Ends \ {"done"} : Settle(st)
          /\ UNCHANGED <<looked, wf, by>>
    /\ UNCHANGED <<issue, agent, notices, blind>>

\* A workflow that does not start is only logged.
StartWorkflow ==
    /\ at = "start"
    /\ \/ Works /\ wf' = [wf EXCEPT ![target] = "running"]
       \/ Fails /\ UNCHANGED wf
    /\ at' = "launch"
    /\ UNCHANGED <<queueVars, issue, by, agent, target, notices, blind>>

\* The repositories are synchronised and the first agent is launched, without
\* the launch guard.  A refusal completes the row, an exception fails it.
LaunchFirst ==
    /\ at = "launch"
    /\ \/ /\ Works
          /\ agent' = [agent EXCEPT ![target] = TRUE]
          /\ Settle("done")
       \/ /\ Fails
          /\ agent' \in {agent, [agent EXCEPT ![target] = TRUE]}
          /\ \E st \in Ends : Settle(st)
    /\ at' = "idle" /\ target' = NoId
    /\ UNCHANGED <<looked, issue, wf, by, notices, blind>>

-----------------------------------------------------------------------------
\* handle_webhook_task: an agent is launched on the issue, whatever its state,
\* and no workflow is made.  When an agent is at work the launch guard refuses;
\* a setting that is missing ends the row as done, too.
WebhookTask ==
    /\ at = "idle" /\ batch # {} /\ Task \in WebhookTasks
    /\ LET i == CHOOSE j \in IssueIds : IssueFile[j] = Task
       IN  \/ ~agent[i] /\ Works /\ agent' = [agent EXCEPT ![i] = TRUE] /\ Settle("done")
           \/ agent[i] /\ Works /\ UNCHANGED agent /\ Settle("done")
           \/ /\ Fails
              /\ agent' \in {agent, [agent EXCEPT ![i] = TRUE]}
              /\ \E st \in Ends : Settle(st)
    /\ UNCHANGED <<looked, issue, wf, by, at, target, notices, blind>>

DispatchInit ==
    /\ issue = [i \in IssueIds |-> NoIssue]
    /\ wf = [i \in IssueIds |-> "none"]
    /\ by = [i \in IssueIds |-> NoId]
    /\ agent = [i \in IssueIds |-> FALSE]
    /\ at = "idle" /\ target = NoId
    /\ notices = {}
    /\ blind = 0

===============================================================================
