------------------------------ MODULE AgentLaunch ------------------------------
(***************************************************************************)
(* Launching the agents of issues: nexus/core/runtime/agent_launcher.py,   *)
(* the launch guard of nexus/core/guards.py, and the launch and retry      *)
(* decisions of nexus/core/runtime/nexus_agent_runtime.py.                 *)
(*                                                                         *)
(* Three processes launch agents: the inbox processor, the webhook server  *)
(* and the bot; the quota watchdog is a thread of whichever launched the   *)
(* agent it watches.  Each process has a launch guard in memory, all share *)
(* the launched-agents tracker, a document that every writer loads, edits  *)
(* and saves whole.  A launch is two steps here, as other processes act    *)
(* while it resolves the issue: the checks, and the spawn with its         *)
(* bookkeeping.                                                            *)
(*                                                                         *)
(* A workflow is reduced to its state and its RUNNING step; the agent of   *)
(* step n is n.  What fails costs one of `MaxFaults`.                      *)
(***************************************************************************)
EXTENDS Integers, FiniteSets

CONSTANTS
    Issues,         \* issues with a workflow
    NumSteps,       \* steps of a workflow
    Tools,          \* command-line AI tools
    LoggedTools,    \* tools whose log names the timeout scan recognises
    SeenTools,      \* tools whose processes the runtime-ops plugin recognises
    FuseMax,        \* RETRY_FUSE_MAX_ATTEMPTS
    MaxPids,        \* bound on the agent processes started
    MaxFaults,      \* bound on failing calls, agents and processes
    MaxTriggers     \* bound on launches that users and webhooks ask for

Agents == 1..NumSteps
Pids == 1..MaxPids
NoAgent == 0
NoPid == 0
NoTool == "no tool"

ASSUME LaunchAssumption ==
    /\ NumSteps \in Nat \ {0} /\ FuseMax \in Nat \ {0, 1}
    /\ MaxPids \in Nat \ {0} /\ MaxFaults \in Nat /\ MaxTriggers \in Nat
    /\ LoggedTools \subseteq Tools /\ SeenTools \subseteq Tools /\ NoTool \notin Tools
    /\ IsFiniteSet(Issues) /\ Issues # {}

VARIABLES
    wf,         \* per issue, the workflow's state and its RUNNING step
    open,       \* per issue, whether it is open on the Git platform
    proc,       \* per pid, the agent process
    reports,    \* completions in the store: <<issue, step>>
    tracker,    \* per issue, the entry of launched_agents
    guard,      \* per guarded process, the launches its guard remembers
    req,        \* per launcher, the launch it is about to perform
    newest,     \* per issue, the pid that writes the newest recognised log
    fresh,      \* per issue, whether that log is no older than the tracker's launch
    faults,     \* history: failures so far
    triggers,   \* history: launches asked for from outside the processor
    excused,    \* history: agents spawned by anyone but the processor, and its launches
                \*          that a failed look at the processes let pass
    granted,    \* history: per issue, the retries granted since its step began or its entry
                \*          was dropped as stale
    allowed     \* history: per issue, how many retries the fuse may have granted by then

agentVars == <<proc, reports, newest, fresh>>
launchVars == <<tracker, guard, req>>
retries == <<granted, allowed>>
hostVars == <<wf, open, agentVars, launchVars, faults, triggers, excused, retries>>

Launchers == {"processor", "webhook", "bot", "watchdog"}
Hosts == {"processor", "webhook", "bot"}

\* The processes whose guard is ever asked; the bot's only records.
Guarded == {"processor", "webhook"}

NoFuse == [agent |-> NoAgent, attempts |-> 0, tripped |-> FALSE]
NoEntry == [pid |-> NoPid, agent |-> NoAgent, tool |-> NoTool, excl |-> {}, fuse |-> NoFuse]
NoProc == [st |-> "gone", issue |-> CHOOSE i \in Issues : TRUE, agent |-> NoAgent,
           tool |-> NoTool, host |-> "processor"]
NoReq == [issue |-> CHOOSE i \in Issues : TRUE, agent |-> NoAgent, excl |-> {},
          host |-> "processor"]

-----------------------------------------------------------------------------
(* What the host can see of processes and workflows.                       *)

Live(p) == proc[p].st \in {"up", "hung"}
LiveOf(i) == {p \in Pids : Live(p) /\ proc[p].issue = i}

\* The tracker's pid answers.
TrackedRunning(i) == tracker[i].pid # NoPid /\ Live(tracker[i].pid)

\* The launch guard's own search: any process that names the issue.
AgentFound(i) == LiveOf(i) # {}

\* find_agent_pid_for_issue and is_issue_process_running of the runtime-ops
\* plugin: pgrep finds the agents of the issue whose tool it recognises.
Seen(i) == {p \in LiveOf(i) : proc[p].tool \in SeenTools}

\* is_process_running
ProcessRunning(i) == Seen(i) # {} \/ TrackedRunning(i)

PidAlive(p) == p # NoPid /\ Live(p)

\* get_workflow_state answers nothing for a running or an unmapped workflow.
Terminal(i) == wf[i].state = "completed"
Quiet(i) == wf[i].state \in {"paused", "completed"}

\* get_expected_running_agent: a paused workflow still has its RUNNING step.
Expected(i) == IF wf[i].state \in {"running", "paused"} THEN wf[i].step ELSE NoAgent

\* Faulty variant: whatever runs now, the agent is wanted.
AnyAgentWanted(i, a) == TRUE

\* should_retry_dead_agent
StillWanted(i, a) == a # NoAgent /\ a = Expected(i)

\* What may fail: one of the faults is used up, or none.
Fails == faults < MaxFaults /\ faults' = faults + 1
Works == faults' = faults

\* is_process_running answers no: nothing is found, or the plugin's pgrep fails
\* and the tracker's pid is dead or unknown.
FoundIdle(i) ==
    \/ ~ProcessRunning(i) /\ Works
    \/ ProcessRunning(i) /\ ~TrackedRunning(i) /\ Fails

-----------------------------------------------------------------------------
(* The launch guard.                                                       *)

\* can_launch, but for the cooldown, looks for a running agent of the issue.
\* (The search for a recent log looks in tasks/logs while logs are written to
\* tasks/<project>/logs.)  When the look fails, the launch is allowed.
GuardAllows(i) == IF AgentFound(i) THEN Fails ELSE Works

\* The cooldown of 120 s after a launch of the same agent: it is over by now,
\* or refuses this launch; a bound of the model is that it refuses just one.
Cooling(g, l, i, a) == <<i, a>> \in g[l]
Cooled(g, l, i, a) == [g EXCEPT ![l] = @ \ {<<i, a>>}]

RecordLaunch(l, i, a) ==
    IF l \in Guarded THEN [guard EXCEPT ![l] = @ \cup {<<i, a>>}] ELSE guard
ClearGuard(l, i) == [guard EXCEPT ![l] = {g \in @ : g[1] # i}]

-----------------------------------------------------------------------------
(* The retry fuse.                                                         *)

\* The rolling window of the agent; it starts anew for another agent.
Window(i, a) ==
    IF tracker[i].fuse.agent = a THEN tracker[i].fuse ELSE [NoFuse EXCEPT !.agent = a]

\* Faulty variant: the attempt that reaches the limit is still granted.
LateFuse(i, a) ==
    LET f == Window(i, a) IN
    [f EXCEPT !.attempts = f.attempts + 1, !.tripped = f.attempts >= FuseMax]

\* The fuse after one more attempt, which trips it at FuseMax.  (A third and
\* later trip is "hard", which changes the alert only: both kinds are reset
\* with the window.)
Attempted(i, a) ==
    LET n == Window(i, a).attempts + 1 IN
    IF n < FuseMax THEN [agent |-> a, attempts |-> n, tripped |-> FALSE]
    ELSE [agent |-> a, attempts |-> n, tripped |-> TRUE]

\* The tracker with the attempt counted.
FuseSaved(i, a) == [tracker EXCEPT ![i].fuse = Attempted(i, a)]

\* A new count of retries: the fuse grants one less than the attempts that trip it.
FuseGrants == FuseMax - 1
Forgets(i) ==
    /\ granted' = [granted EXCEPT ![i] = 0]
    /\ allowed' = [allowed EXCEPT ![i] = FuseGrants]

\* A retry is granted, which counts for the RUNNING step; one is not made after all.
GrantedTo(i, a) == granted' = [granted EXCEPT ![i] = IF a = Expected(i) THEN @ + 1 ELSE @]
NotMade(i) == granted' = [granted EXCEPT ![i] = IF @ = 0 THEN 0 ELSE @ - 1]

\* A failure that the fuse does not survive allows as many retries again.
Slips(i) == allowed' = [allowed EXCEPT ![i] = @ + FuseGrants]

\* More than RETRY_FUSE_WINDOW_SECONDS after the window began, the next retry
\* starts a new one.
FuseWindowExpires(i) ==
    /\ tracker[i].fuse # NoFuse
    /\ Fails
    /\ tracker' = [tracker EXCEPT ![i].fuse = NoFuse]
    /\ Forgets(i)
    /\ UNCHANGED <<wf, open, agentVars, guard, req, triggers, excused>>

-----------------------------------------------------------------------------
(* launch_next_agent and invoke_ai_agent.                                  *)

Busy(l) == req[l].agent # NoAgent

\* What launch_next_agent excludes: what its caller names and what the
\* tracker has recorded for the issue.
Exclusions(i, named) == named \cup tracker[i].excl

Request(l, i, a, excluded, host) ==
    req' = [req EXCEPT ![l] = [issue |-> i, agent |-> a, excl |-> excluded, host |-> host]]

\* The log of the new process is the newest if the timeout scan recognises
\* its name; otherwise an older log is still the newest, and is up to date
\* only while its own process still writes.
Logged(i, p, t) ==
    IF t \in LoggedTools
    THEN /\ newest' = [newest EXCEPT ![i] = p]
         /\ fresh' = [fresh EXCEPT ![i] = TRUE]
    ELSE /\ UNCHANGED newest
         /\ fresh' = [fresh EXCEPT ![i] = newest[i] # NoPid /\ proc[newest[i]].st = "up"]

\* The entry of the new process; the fuse and the exclusions it held are kept.
Tracked(r, p, t) ==
    LET e == tracker[r.issue]
    IN  [tracker EXCEPT ![r.issue] = [pid |-> p, agent |-> r.agent, tool |-> t,
                                      excl |-> e.excl \cup r.excl, fuse |-> e.fuse]]

\* invoke_ai_agent starts a tool that is not excluded, as process p, and then
\* keeps the books; a failure to do so does not fail the launch.
Spawn(l, p) ==
    LET r == req[l]
    IN  /\ Busy(l)
        /\ proc[p].st = "gone"
        /\ \E t \in Tools \ r.excl :
             /\ proc' = [proc EXCEPT ![p] = [st |-> "up", issue |-> r.issue,
                                             agent |-> r.agent, tool |-> t, host |-> r.host]]
             /\ \/ /\ Works
                   /\ tracker' = Tracked(r, p, t)
                   /\ guard' = RecordLaunch(r.host, r.issue, r.agent)
                   /\ Logged(r.issue, p, t)
                \/ /\ Fails
                   /\ UNCHANGED <<tracker, guard>>
                   /\ newest' = [newest EXCEPT ![r.issue] = IF t \in LoggedTools THEN p ELSE @]
                   /\ fresh' = [fresh EXCEPT ![r.issue] = @ \/ t \in LoggedTools]
        /\ req' = [req EXCEPT ![l] = NoReq]
        /\ excused' = IF l = "processor" THEN excused ELSE excused + 1
        /\ UNCHANGED <<wf, open, reports, triggers, retries>>

\* The issue, its project, its tier or the requester's access does not resolve.
NotResolved == Fails /\ UNCHANGED <<wf, tracker>>

\* The worktree of the issue cannot be made, which pauses the workflow.
NotProvisioned(i) ==
    /\ wf[i].state = "running"
    /\ Fails
    /\ wf' = [wf EXCEPT ![i].state = "paused"]
    /\ UNCHANGED tracker

\* Every tool is excluded, or one is found rate-limited, which is recorded.
NoToolLeft(i, excluded) ==
    /\ \/ /\ Tools \subseteq excluded
          /\ Works /\ UNCHANGED tracker
       \/ /\ Fails
          /\ \E t \in Tools : tracker' = [tracker EXCEPT ![i].excl = @ \cup {t}]
    /\ UNCHANGED wf

\* No agent is started.
Refuse(l) ==
    LET r == req[l]
    IN  /\ Busy(l)
        /\ NotResolved \/ NotProvisioned(r.issue) \/ NoToolLeft(r.issue, r.excl)
        /\ req' = [req EXCEPT ![l] = NoReq]
        /\ UNCHANGED <<open, agentVars, guard, triggers, excused, retries>>

-----------------------------------------------------------------------------
(* The agents and their watchdogs.                                         *)

\* The agent stores its completion; it may do so and run on.
AgentReports(p) ==
    /\ proc[p].st = "up"
    /\ <<proc[p].issue, proc[p].agent>> \notin reports
    /\ reports' = reports \cup {<<proc[p].issue, proc[p].agent>>}
    /\ UNCHANGED <<wf, open, proc, newest, fresh, launchVars, faults, triggers, excused, retries>>

\* It ends, it crashes without a completion or with one that is only in its
\* log, or it hangs: its log is not written for the agent's timeout.
AgentEnds(p) ==
    /\ proc[p].st = "up"
    /\ \/ /\ <<proc[p].issue, proc[p].agent>> \in reports
          /\ Works /\ proc' = [proc EXCEPT ![p] = NoProc]
       \/ /\ <<proc[p].issue, proc[p].agent>> \notin reports
          /\ Fails
          /\ \E q \in {NoProc, [proc[p] EXCEPT !.st = "unposted"]} : proc' = [proc EXCEPT ![p] = q]
       \/ /\ Fails /\ proc' = [proc EXCEPT ![p].st = "hung"]
    /\ UNCHANGED <<wf, open, reports, newest, fresh, launchVars, triggers, excused, retries>>

\* The recovery watchdog of a dead agent: it stores the completion it finds
\* in the log, unless the tracker names another process by now.
RecoverFromLog(p) ==
    /\ proc[p].st = "unposted"
    /\ proc' = [proc EXCEPT ![p] = NoProc]
    /\ reports' = IF tracker[proc[p].issue].pid = p
                  THEN reports \cup {<<proc[p].issue, proc[p].agent>>} ELSE reports
    /\ UNCHANGED <<wf, open, newest, fresh, launchVars, faults, triggers, excused, retries>>

\* The quota watchdog reads a quota failure in the log of the agent that the
\* tracker names: it kills the process, which may survive the signal, excludes
\* the tool and has another tool started, without a look at the guard.
QuotaDetected(p) ==
    LET i == proc[p].issue
    IN  /\ proc[p].st = "up" /\ tracker[i].pid = p /\ ~Busy("watchdog")
        /\ Fails
        /\ \E q \in {NoProc, [proc[p] EXCEPT !.st = "hung"]} : proc' = [proc EXCEPT ![p] = q]
        /\ tracker' = [tracker EXCEPT ![i].excl = @ \cup {proc[p].tool}]
        /\ Request("watchdog", i, proc[p].agent, tracker'[i].excl, proc[p].host)
        /\ UNCHANGED <<wf, open, reports, newest, fresh, guard, triggers, excused, retries>>

\* Someone closes the issue.
IssueCloses(i) ==
    /\ open[i] /\ triggers < MaxTriggers
    /\ open' = [open EXCEPT ![i] = FALSE]
    /\ triggers' = triggers + 1
    /\ UNCHANGED <<wf, agentVars, launchVars, faults, excused, retries>>

-----------------------------------------------------------------------------
\* Every workflow has started and its first agent is not launched yet.
LaunchInit ==
    /\ wf = [i \in Issues |-> [state |-> "running", step |-> 1]]
    /\ open = [i \in Issues |-> TRUE]
    /\ proc = [p \in Pids |-> NoProc]
    /\ reports = {}
    /\ tracker = [i \in Issues |-> NoEntry]
    /\ guard = [l \in Guarded |-> {}]
    /\ req = [l \in Launchers |-> NoReq]
    /\ newest = [i \in Issues |-> NoPid]
    /\ fresh = [i \in Issues |-> FALSE]
    /\ faults = 0 /\ triggers = 0 /\ excused = 0
    /\ granted = [i \in Issues |-> 0] /\ allowed = [i \in Issues |-> FuseGrants]

===============================================================================
