------------------------------ MODULE AgentControl ------------------------------
(***************************************************************************)
(* What reaches the agents of an issue from outside the inbox processor:   *)
(* the bot's commands (nexus/core/runtime/workflow_commands.py, and        *)
(* workflow_control_service.py and workflow_reprocess_continue_service.py  *)
(* of nexus/core/workflow_runtime) and the comments that the webhook       *)
(* server receives (nexus/core/webhook/comment_service.py).                *)
(*                                                                         *)
(* Each costs one of `MaxTriggers`.  A command that finds nothing to do    *)
(* answers with a message and is left out.                                 *)
(***************************************************************************)
EXTENDS ProcessOrchestrator, FiniteSetsExt

Asked == triggers < MaxTriggers /\ triggers' = triggers + 1

\* The pid that find_agent_pid_for_issue answers, if it sees one.
FoundPid(i) == Min(Seen(i))

LatestReport(i) == Max({0} \cup {n \in Agents : <<i, n>> \in reports})

-----------------------------------------------------------------------------
(* The bot's commands.                                                     *)

Pause(i) ==
    /\ Asked
    /\ wf[i].state = "running"
    /\ wf' = [wf EXCEPT ![i].state = "paused"]
    /\ UNCHANGED <<open, agentVars, launchVars, faults, excused, retries, loopVars>>

\* No agent is launched; the user was asked to look into what tripped the fuse.
Resume(i) ==
    /\ Asked
    /\ wf[i].state = "paused"
    /\ wf' = [wf EXCEPT ![i].state = "running"]
    /\ Forgets(i)
    /\ UNCHANGED <<open, agentVars, launchVars, faults, excused, loopVars>>

\* The agent's process is terminated; its entry in the tracker remains.
Kill(i) ==
    /\ Asked
    /\ Seen(i) # {}
    /\ proc' = [proc EXCEPT ![FoundPid(i)] = NoProc]
    /\ UNCHANGED <<wf, open, reports, newest, fresh, launchVars, faults, excused,
                   retries, loopVars>>

\* The agent is killed if it is seen and can be, the workflow paused and the entry
\* dropped.  Closing the issue comes last and fails, as it starts an event
\* loop inside the running one.
Stop(i) ==
    /\ Asked
    /\ \/ Seen(i) = {} /\ Works /\ UNCHANGED proc
       \/ Seen(i) # {} /\ Works /\ proc' = [proc EXCEPT ![FoundPid(i)] = NoProc]
       \/ Seen(i) # {} /\ Fails /\ UNCHANGED proc
    /\ wf' = [wf EXCEPT ![i].state = IF @ = "running" THEN "paused" ELSE @]
    /\ tracker' = [tracker EXCEPT ![i] = NoEntry]
    /\ Forgets(i)
    /\ UNCHANGED <<open, reports, newest, fresh, guard, req, excused, loopVars>>

\* The agent after the one that reported last, or the first.
NextByReports(i) == LatestReport(i) + 1

\* /continue starts there, unless the workflow waits for another agent.
ContinueAgent(i) ==
    LET e == Expected(i) IN
    IF e \notin {NoAgent, LatestReport(i)} THEN e ELSE NextByReports(i)

\* The workflow is reset to the agent's step when its RUNNING step is another.
MovesOn(i, a) ==
    \/ /\ Expected(i) \in {NoAgent, a}
       /\ UNCHANGED <<wf, retries>>
    \/ /\ Expected(i) \notin {NoAgent, a}
       /\ wf' = [wf EXCEPT ![i] = [state |-> "running", step |-> a]]
       /\ Forgets(i)

\* /continue, when no agent of the open issue is seen and the last step has not
\* reported (otherwise it only finalises): the workflow is moved on when its
\* RUNNING step has reported, and the agent is started without the launch
\* guard and without the exclusions in the tracker.
Continue(i) ==
    LET a == ContinueAgent(i)
    IN  /\ Asked
        /\ ~Busy("bot")
        /\ IF Seen(i) = {} THEN Works ELSE Fails
        /\ open[i] /\ LatestReport(i) < NumSteps
        /\ MovesOn(i, a)
        /\ Request("bot", i, a, {}, "bot")
        /\ UNCHANGED <<open, agentVars, tracker, guard, excused, loopVars>>

-----------------------------------------------------------------------------
(* Comments that the webhook server receives.                              *)

\* The launch begins; or an agent of the issue runs, or the same was launched
\* just now.
WebhookRequests(i, a) ==
    /\ guard' = Cooled(guard, "webhook", i, a)
    /\ Request("webhook", i, a, Exclusions(i, {}), "webhook")

WebhookRefuses(i, a) ==
    /\ AgentFound(i) \/ Cooling(guard, "webhook", i, a)
    /\ guard' = IF AgentFound(i) THEN guard ELSE Cooled(guard, "webhook", i, a)
    /\ UNCHANGED req

WebhookLaunches(i, a) ==
    \/ GuardAllows(i) /\ WebhookRequests(i, a)
    \/ Works /\ WebhookRefuses(i, a)

\* The comment of an agent that finished its step names the next one; the
\* workflow is not asked.
AgentComments(k) ==
    /\ Asked
    /\ ~Busy("webhook")
    /\ k \in reports /\ k[2] < NumSteps
    /\ WebhookLaunches(k[1], k[2] + 1)
    /\ UNCHANGED <<wf, open, agentVars, tracker, excused, retries, loopVars>>

\* The workflow is reset to the step, also when it is that one already.
ResetTo(i, a) ==
    LET w == IF wf[i].state = "unmapped" THEN wf[i] ELSE [state |-> "running", step |-> a]
    IN  /\ wf' = [wf EXCEPT ![i] = w]
        /\ IF w = wf[i] THEN UNCHANGED retries ELSE Forgets(i)

\* The author of the issue orders an agent: the workflow is reset to its step
\* and the agent is launched.  What makes the reset fail may also blind the guard.
AuthorOverrides(i, a) ==
    /\ Asked
    /\ ~Busy("webhook")
    /\ \/ ResetTo(i, a) /\ WebhookLaunches(i, a)
       \/ /\ Fails /\ UNCHANGED <<wf, retries>>
          /\ WebhookRequests(i, a) \/ WebhookRefuses(i, a)
    /\ UNCHANGED <<open, agentVars, tracker, excused, loopVars>>

-----------------------------------------------------------------------------
(* The host: the processor's loop, the other launchers, the agents.        *)

Loop ==
    \/ PassIsEmpty \/ ScanFinalizes \/ ScanComments \/ ScanChains
    \/ \E k \in Issues \X Agents :
         ScanSkipsOld(k) \/ ScanWaits(k) \/ ScanRefused(k) \/ ScanApplies(k)
    \/ ProcessorSpawns \/ ProcessorRefused
    \/ RetryRefused \/ RetryIsCounted \/ RetryUncounted \/ FuseTrips
    \/ StuckRelaunches \/ LostRelaunches \/ DeadRelaunches \/ OrphanRelaunches
    \/ RetryUnannounced \/ GivesUp \/ GivesUpDead
    \/ \E i \in Issues :
         \/ StuckSkips(i) \/ StuckIsStale(i) \/ StuckIsKilled(i) \/ StuckOrphan(i)
         \/ DeadWaits(i) \/ DeadIsQuiet(i) \/ DeadIsStale(i) \/ DeadIsRetried(i)
         \/ OrphanSkips(i) \/ OrphanIsClosed(i) \/ OrphanIsRetried(i)

Elsewhere(l) ==
    /\ l # "processor"
    /\ \/ SpawnNext(l) /\ UNCHANGED <<pc, back, todo, snap, saved>>
       \/ Refuse(l) /\ UNCHANGED loopVars

Agent(p) == (AgentReports(p) \/ AgentEnds(p) \/ QuotaDetected(p)) /\ UNCHANGED loopVars
Recovery(p) == RecoverFromLog(p) /\ UNCHANGED loopVars

\* The fuse's window is looked at only when the fuse is asked.
FuseRests(i) ==
    /\ pc \notin {"retry", "trip", "alert", "giveup"}
    /\ FuseWindowExpires(i)
    /\ UNCHANGED loopVars

Outside ==
    \E i \in Issues :
       \/ IssueCloses(i) /\ UNCHANGED loopVars
       \/ FuseRests(i)
       \/ Pause(i) \/ Resume(i) \/ Kill(i) \/ Stop(i) \/ Continue(i)
       \/ \E a \in Agents : AgentComments(<<i, a>>) \/ AuthorOverrides(i, a)

Next ==
    \/ Loop
    \/ \E l \in Launchers : Elsewhere(l)
    \/ \E p \in Pids : Agent(p) \/ Recovery(p)
    \/ Outside
    \/ ProcessorRestarts

Init == LaunchInit /\ LoopInit

Spec == Init /\ [][Next]_vars

\* The loop, the launches and the recovery watchdogs go on.
FairSpec ==
    /\ Spec
    /\ WF_vars(Loop)
    /\ \A l \in Launchers : WF_vars(Elsewhere(l))
    /\ \A p \in Pids : WF_vars(Recovery(p))

===============================================================================
