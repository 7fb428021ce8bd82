-------------------------- MODULE ProcessOrchestrator --------------------------
(***************************************************************************)
(* The passes of the inbox processor's loop over agents and workflows:     *)
(* nexus/core/process_orchestrator.py (completion scan, timed-out and dead *)
(* agents) and nexus/core/workflow_runtime/workflow_recovery_service.py    *)
(* (orphaned RUNNING steps).  One thread runs them in turn:                *)
(*                                                                         *)
(*    scan  ->  stuck  ->  dead  ->  orphan  ->  scan                      *)
(*                                                                         *)
(* It stops in between wherever it waits for the Git platform, a chat or a *)
(* launch ("comment", "relay", "done", "launch"), and wherever it decides  *)
(* over a retry: when it asks the fuse ("retry"), when the fuse trips      *)
(* ("trip"), and when it announces a retry or gives up ("alert",           *)
(* "giveup").  Others act in between, and it may be killed and started     *)
(* again at any of these places.                                           *)
(***************************************************************************)
EXTENDS AgentLaunch

CONSTANTS MissMax     \* _DEAD_PID_LIVENESS_MISS_THRESHOLD

ASSUME MissAssumption == MissMax \in Nat \ {0}

VARIABLES
    pc,         \* what the thread is doing
    back,       \* the pass that a launch or a retry belongs to ("lost": of pass "stuck")
    todo,       \* what the pass has yet to look at
    cur,        \* the completion being chained, or the step to retry
    snap,       \* the tracker as the dead-agent pass, or a timeout, read it
    held,       \* the tracker that the trip of a fuse saved and will save again
    seen,       \* dedup_seen: the completions that are done with
    saved,      \* completion_comments: the same as saved after the last scan
    miss,       \* _dead_pid_miss_counts
    dead,       \* _dead_agent_alerted
    orphaned,   \* _orphaned_step_alerted: <<issue, agent>>
    recent,     \* issues within the cooldown of the orphan recovery
    applied,    \* the ledger: the completions that the engine has applied
    finals      \* history: per issue, how often the scan finalised it

passVars == <<back, todo, cur, snap, held, saved>>
memoryVars == <<seen, miss, dead, orphaned, recent>>
loopVars == <<pc, passVars, memoryVars, applied, finals>>
vars == <<hostVars, loopVars>>

NoCur == [issue |-> CHOOSE i \in Issues : TRUE, step |-> NoAgent]
NoSnap == [i \in Issues |-> NoEntry]
Key(c) == <<c.issue, c.step>>

\* The pass after this one, with what it looks at: the completions that are
\* not done with, the issues that the tracker has a pid for, or all issues.  A
\* scan ends with saving which completions are done with.
Enter(pass) ==
    /\ CASE pass = "scan"  -> /\ pc' = "stuck" /\ todo' = Issues /\ snap' = NoSnap
         [] pass = "stuck" -> /\ pc' = "dead" /\ todo' = {i \in Issues : tracker'[i].pid # NoPid}
                              /\ snap' = tracker'
         [] pass = "dead"  -> /\ pc' = "orphan" /\ todo' = Issues /\ snap' = NoSnap
         [] OTHER          -> /\ pc' = "scan" /\ todo' = reports \ seen /\ snap' = NoSnap
    /\ saved' = IF pass = "scan" THEN seen' ELSE saved

\* The pass goes on with the rest, holding the tracker as in s, or is over.
Onward(pass, rest, s) ==
    IF rest # {} THEN pc' = pass /\ todo' = rest /\ snap' = s /\ UNCHANGED saved
    ELSE Enter(pass)

\* A pass that has nothing to look at.
PassIsEmpty ==
    /\ pc \in {"scan", "dead"} /\ todo = {}
    /\ UNCHANGED <<hostVars, back, cur, held, memoryVars, applied, finals>>
    /\ Enter(pc)

Unspent == UNCHANGED <<triggers, excused>>

-----------------------------------------------------------------------------
(* The completion scan.                                                    *)

\* The replay guard drops an old completion unless the workflow expects it.
ReplayedFor(k) == Expected(k[1]) # k[2]

ScanTurn(k) == pc = "scan" /\ k \in todo
ScanGoesOn(k) == Onward("scan", todo \ {k}, snap)

\* The completion is done with.
ScanDrops(k) ==
    /\ seen' = seen \cup {k}
    /\ Unspent
    /\ UNCHANGED <<wf, open, agentVars, launchVars, retries,
                   back, cur, held, miss, dead, orphaned, recent, applied, finals>>
    /\ ScanGoesOn(k)

ScanSkipsOld(k) == ScanTurn(k) /\ ReplayedFor(k) /\ Works /\ ScanDrops(k)

\* An agent of the issue still runs: its completion may be partial.
ScanWaits(k) ==
    /\ ScanTurn(k)
    /\ ProcessRunning(k[1])
    /\ UNCHANGED <<hostVars, back, cur, held, memoryVars, applied, finals>>
    /\ ScanGoesOn(k)

\* Faulty variant: the completion is applied to whatever runs.
AppliesAnyway(k) == wf[k[1]].state # "unmapped"

\* complete_step_for_issue applies a completion of the RUNNING step, once.
Applies(k) ==
    /\ wf[k[1]].state \in {"running", "paused"} /\ wf[k[1]].step = k[2]
    /\ k \notin applied

\* Without a workflow the completion itself says what comes next.
Unmapped(k) == wf[k[1]].state = "unmapped"

\* A duplicate no-op, a stale or a malformed completion is done with.
ScanRefused(k) ==
    /\ ScanTurn(k)
    /\ FoundIdle(k[1]) /\ ~Applies(k) /\ ~Unmapped(k)
    /\ ScanDrops(k)

\* A workflow of which the RUNNING step is done; its last step completes it.
Advanced(w) ==
    IF w.step = NumSteps THEN [w EXCEPT !.state = "completed"] ELSE [w EXCEPT !.step = @ + 1]

\* The workflow advances.
ScanApplies(k) ==
    /\ ScanTurn(k)
    /\ FoundIdle(k[1])
    /\ Applies(k) \/ Unmapped(k)
    /\ pc' = IF k[2] = NumSteps THEN "done" ELSE "comment"
    /\ wf' = IF Unmapped(k) THEN wf ELSE [wf EXCEPT ![k[1]] = Advanced(wf[k[1]])]
    /\ Forgets(k[1])
    /\ cur' = [issue |-> k[1], step |-> k[2]]
    /\ applied' = IF Unmapped(k) THEN applied ELSE applied \cup {k}
    /\ todo' = todo \ {k}
    /\ Unspent
    /\ UNCHANGED <<open, agentVars, launchVars, back, snap, held, saved, memoryVars, finals>>

\* _handle_workflow_done: the tracker's entry goes and the workflow is
\* finalised; only if that does not fail is the completion done with.
ScanFinalizes ==
    /\ pc = "done"
    /\ tracker' = [tracker EXCEPT ![cur.issue] = NoEntry]
    /\ \/ Works /\ seen' = seen \cup {Key(cur)}
       \/ Fails /\ UNCHANGED seen
    /\ finals' = [finals EXCEPT ![cur.issue] = @ + 1]
    /\ cur' = NoCur
    /\ Unspent
    /\ UNCHANGED <<wf, open, agentVars, guard, req, retries,
                   back, held, miss, dead, orphaned, recent, applied>>
    /\ Onward("scan", todo, snap)

\* The completion is posted as a comment.  For a closed issue, and once the
\* comment is posted, it is done with; when posting fails, it is not.
ScanComments ==
    /\ pc = "comment"
    /\ \/ /\ ~open[cur.issue] /\ Works
          /\ seen' = seen \cup {Key(cur)}
          /\ cur' = NoCur /\ Onward("scan", todo, snap)
       \/ /\ Fails
          /\ UNCHANGED seen
          /\ cur' = NoCur /\ Onward("scan", todo, snap)
       \/ /\ IF open[cur.issue] THEN Works ELSE Fails
          /\ seen' = seen \cup {Key(cur)}
          /\ pc' = "relay" /\ UNCHANGED <<cur, todo, snap, saved>>
    /\ Unspent
    /\ UNCHANGED <<wf, open, agentVars, launchVars, retries,
                   back, held, miss, dead, orphaned, recent, applied, finals>>

\* launch_agent: the launch begins, unless the workflow is over, an agent of
\* the issue runs or the same was launched just now; a paused workflow does not
\* stop it.  If not, the pass goes on.  The guard remembers the launches of g,
\* the pass has yet to look at rest and holds tracker s.
LaunchBegins(pass, i, a, excluded, g, rest, s) ==
    \/ /\ ~Terminal(i) /\ GuardAllows(i)
       /\ excused' = IF AgentFound(i) THEN excused + 1 ELSE excused
       /\ guard' = Cooled(g, "processor", i, a)
       /\ Request("processor", i, a, excluded, "processor")
       /\ pc' = "launch" /\ back' = pass /\ todo' = rest /\ snap' = s
       /\ UNCHANGED saved
    \/ /\ Terminal(i) \/ AgentFound(i) \/ Cooling(g, "processor", i, a)
       /\ guard' = IF Terminal(i) \/ AgentFound(i) THEN g ELSE Cooled(g, "processor", i, a)
       /\ back' = "idle"
       /\ Works
       /\ UNCHANGED <<req, excused>>
       /\ Onward(pass, rest, s)

\* The next step is launched, unless an agent of the issue is seen to run.
ScanChains ==
    /\ pc = "relay"
    /\ cur' = NoCur
    /\ UNCHANGED <<wf, open, agentVars, tracker, triggers, retries, held, memoryVars,
                   applied, finals>>
    /\ \/ /\ ~ProcessRunning(cur.issue)
          /\ LaunchBegins("scan", cur.issue, cur.step + 1, Exclusions(cur.issue, {}),
                          guard, todo, snap)
       \/ /\ ProcessRunning(cur.issue) /\ Works
          /\ UNCHANGED <<guard, req, back, excused>>
          /\ Onward("scan", todo, snap)

\* A new process: the pid of one that is gone and that nothing names any more
\* stands for it, and nothing is remembered of that.
FreePids ==
    {p \in Pids : /\ proc[p].st = "gone"
                  /\ \A i \in Issues : p \notin {tracker[i].pid, snap[i].pid, held[i].pid, newest[i]}}
NextPid == CHOOSE p \in FreePids : \A q \in FreePids : p <= q

SpawnNext(l) ==
    /\ FreePids # {}
    /\ Spawn(l, NextPid)
    /\ miss' = [miss EXCEPT ![NextPid] = 0]
    /\ dead' = dead \ {NextPid}
    /\ UNCHANGED <<cur, held, seen, orphaned, recent, applied, finals>>

\* A launch ends and the pass goes on.
ProcessorSpawns ==
    /\ pc = "launch"
    /\ SpawnNext("processor")
    /\ back' = "idle" /\ Onward(back, todo, snap)

ProcessorRefused ==
    /\ pc = "launch"
    /\ Refuse("processor")
    /\ UNCHANGED <<cur, held, memoryVars, applied, finals>>
    /\ back' = "idle" /\ Onward(back, todo, snap)

-----------------------------------------------------------------------------
(* Retries, which three passes decide on, each in its own way.             *)

\* The pass has found the step of agent a to be retried, and holds tracker s.
RetryBegins(kind, i, a, s) ==
    /\ pc' = "retry" /\ back' = kind
    /\ cur' = [issue |-> i, step |-> a]
    /\ todo' = todo \ {i} /\ snap' = s
    /\ UNCHANGED saved

RetryGoesTo(place) == pc' = place /\ UNCHANGED <<back, cur, todo, snap, saved>>

Pass(kind) == IF kind = "lost" THEN "stuck" ELSE kind

\* The guard as clear_launch_guard leaves it.
Forgotten(i) == ClearGuard("processor", i)

\* The state of the workflow, the issue and the window of the agent allow an
\* attempt; an issue that the platform does not tell to be closed counts as open.
MayAttempt(i, a) == ~Quiet(i) /\ ~Window(i, a).tripped
TellsClosed(i) == ~open[i] /\ Works

RetryRefused ==
    /\ pc = "retry"
    /\ (~MayAttempt(cur.issue, cur.step) /\ Works) \/ TellsClosed(cur.issue)
    /\ RetryGoesTo("giveup")
    /\ Unspent
    /\ UNCHANGED <<wf, open, agentVars, launchVars, retries, held, memoryVars, applied, finals>>

\* The attempt is saved before should_retry answers; when it is the last one,
\* the fuse trips.
RetryIsCounted ==
    LET i == cur.issue
        a == cur.step
    IN  /\ pc = "retry"
        /\ MayAttempt(i, a)
        /\ IF open[i] THEN Works /\ UNCHANGED allowed ELSE Fails /\ Slips(i)
        /\ tracker' = FuseSaved(i, a)
        /\ IF Attempted(i, a).tripped
           THEN RetryGoesTo("trip") /\ held' = tracker' /\ UNCHANGED granted
           ELSE RetryGoesTo("alert") /\ UNCHANGED held /\ GrantedTo(i, a)
        /\ Unspent
        /\ UNCHANGED <<wf, open, agentVars, guard, req, memoryVars, applied, finals>>

\* The bookkeeping fails, which grants the retry without counting it.
RetryUncounted ==
    /\ pc = "retry"
    /\ ~Quiet(cur.issue) /\ open[cur.issue]
    /\ Fails
    /\ RetryGoesTo("alert")
    /\ GrantedTo(cur.issue, cur.step) /\ Slips(cur.issue)
    /\ Unspent
    /\ UNCHANGED <<wf, open, agentVars, launchVars, held, memoryVars, applied, finals>>

\* A fuse that tripped pauses the workflow, which may fail, and alerts; then the
\* tracker is saved as it was when the fuse tripped: what others wrote since is
\* lost.  When that fails, the retry is granted after all.
FuseTrips ==
    LET i == cur.issue
        paused == IF wf[i].state = "running" THEN [wf EXCEPT ![i].state = "paused"] ELSE wf
    IN  /\ pc = "trip"
        /\ \/ /\ Works
              /\ wf' = paused /\ tracker' = held
              /\ RetryGoesTo("giveup") /\ UNCHANGED retries
           \/ /\ Fails
              /\ UNCHANGED wf /\ tracker' = held
              /\ RetryGoesTo("giveup") /\ UNCHANGED granted /\ Slips(i)
           \/ /\ Fails
              /\ wf' = paused /\ UNCHANGED tracker
              /\ RetryGoesTo("alert") /\ GrantedTo(i, cur.step) /\ Slips(i)
        /\ held' = NoSnap
        /\ Unspent
        /\ UNCHANGED <<open, agentVars, guard, req, memoryVars, applied, finals>>

-----------------------------------------------------------------------------
(* Timed-out agents.                                                       *)

\* The newest recognised log of the issue is old: its process hangs or is
\* gone.  A log that predates the launch in the tracker says nothing.
LogIsOld(i) ==
    /\ newest[i] # NoPid
    /\ proc[newest[i]].st # "up"
    /\ tracker[i].pid # NoPid => fresh[i]

TimeoutSeen(i) == ~Quiet(i) /\ Expected(i) # NoAgent /\ LogIsOld(i)

StuckAgent(i) == IF tracker[i].agent = NoAgent THEN Expected(i) ELSE tracker[i].agent

\* Faulty variant: only the tracker's.
TrackedPid(i) == tracker[i].pid

\* The pid to kill: the tracker's, or else the one pgrep finds.
StuckPid(i) ==
    IF tracker[i].pid # NoPid THEN tracker[i].pid
    ELSE IF Seen(i) # {} THEN CHOOSE p \in Seen(i) : \A q \in Seen(i) : p <= q
    ELSE NoPid

StuckTurn(i) == pc = "stuck" /\ i \in todo
StuckGoesOn(i) == Onward("stuck", todo \ {i}, NoSnap)

\* Nothing timed out, or the tracked agent is dead, which is for the next pass.
StuckSkips(i) ==
    /\ StuckTurn(i)
    /\ \/ ~TimeoutSeen(i)
       \/ /\ StillWanted(i, StuckAgent(i))
          /\ tracker[i].pid # NoPid /\ ~PidAlive(tracker[i].pid)
    /\ UNCHANGED <<hostVars, back, cur, held, memoryVars, applied, finals>>
    /\ StuckGoesOn(i)

\* The workflow waits for another agent by now: the entry is dropped.
StuckIsStale(i) ==
    /\ StuckTurn(i)
    /\ TimeoutSeen(i) /\ ~StillWanted(i, StuckAgent(i))
    /\ tracker' = [tracker EXCEPT ![i] = NoEntry]
    /\ Forgets(i)
    /\ Works /\ Unspent
    /\ UNCHANGED <<wf, open, agentVars, guard, req, back, cur, held, memoryVars, applied, finals>>
    /\ StuckGoesOn(i)

\* A live agent is killed, and then the fuse is asked for its step; a kill that
\* fails ends the matter for this pass.
StuckIsKilled(i) ==
    LET p == StuckPid(i)
    IN  /\ StuckTurn(i)
        /\ TimeoutSeen(i) /\ StillWanted(i, StuckAgent(i)) /\ PidAlive(p)
        /\ Unspent
        /\ UNCHANGED <<wf, open, reports, newest, fresh, launchVars, retries, held,
                       memoryVars, applied, finals>>
        /\ \/ /\ Works
              /\ proc' = [proc EXCEPT ![p] = NoProc]
              /\ RetryBegins("stuck", i, StuckAgent(i), tracker)
           \/ /\ Fails
              /\ UNCHANGED <<proc, back, cur>>
              /\ StuckGoesOn(i)

\* Neither the tracker nor pgrep, which may fail, knows an agent of the RUNNING
\* step: that is reported once.
StuckOrphan(i) ==
    /\ StuckTurn(i)
    /\ TimeoutSeen(i) /\ StillWanted(i, StuckAgent(i)) /\ tracker[i].pid = NoPid
    /\ IF Seen(i) = {} THEN Works ELSE Fails
    /\ Unspent
    /\ UNCHANGED <<wf, open, agentVars, launchVars, retries, held, memoryVars, applied, finals>>
    /\ IF <<i, Expected(i)>> \in orphaned
       THEN UNCHANGED <<back, cur>> /\ StuckGoesOn(i)
       ELSE RetryBegins("lost", i, Expected(i), tracker)

-----------------------------------------------------------------------------
(* Dead agents.                                                            *)

DeadTurn(i) == pc = "dead" /\ i \in todo

\* The pid that the pass read from the tracker.
Missing(i) == snap[i].pid # NoPid /\ ~PidAlive(snap[i].pid)

\* It is alive, or missing for the first times (one look is enough once the
\* launch is older than the agent's timeout).
DeadWaits(i) ==
    LET p == snap[i].pid
    IN  /\ DeadTurn(i)
        /\ Missing(i) => miss[p] + 1 < MissMax
        /\ miss' = [miss EXCEPT ![p] = IF Missing(i) THEN @ + 1 ELSE 0]
        /\ UNCHANGED <<hostVars, back, cur, held, seen, dead, orphaned, recent, applied, finals>>
        /\ Onward("dead", todo \ {i}, snap)

\* The misses that count: enough of them, or one of an old launch.
Overdue(i) ==
    /\ DeadTurn(i) /\ Missing(i)
    /\ IF miss[snap[i].pid] + 1 >= MissMax THEN Works ELSE Fails
    /\ miss' = [miss EXCEPT ![snap[i].pid] = IF @ < MissMax THEN @ + 1 ELSE @]

\* The workflow is paused or over, or the pid was reported before.
DeadIsQuiet(i) ==
    /\ Overdue(i)
    /\ Quiet(i) \/ snap[i].pid \in dead
    /\ Unspent
    /\ UNCHANGED <<wf, open, agentVars, launchVars, retries,
                   back, cur, held, seen, dead, orphaned, recent, applied, finals>>
    /\ Onward("dead", todo \ {i}, snap)

Reported(p) ==
    /\ dead' = dead \cup {p}
    /\ miss' = [miss EXCEPT ![p] = 0]

\* The workflow no longer waits for the agent: its entry is dropped.  Here and
\* below the pass saves the whole tracker as it read it, with issue i changed:
\* what others wrote to it since is lost.
DeadIsStale(i) ==
    LET p == snap[i].pid
        s == [snap EXCEPT ![i] = NoEntry]
    IN  /\ DeadTurn(i) /\ Missing(i)
        /\ IF miss[p] + 1 >= MissMax THEN Works ELSE Fails
        /\ ~Quiet(i) /\ p \notin dead /\ ~StillWanted(i, snap[i].agent)
        /\ tracker' = s
        /\ Reported(p)
        /\ Forgets(i)
        /\ Unspent
        /\ UNCHANGED <<wf, open, agentVars, guard, req,
                       back, cur, held, seen, orphaned, recent, applied, finals>>
        /\ Onward("dead", todo \ {i}, s)

\* The agent died without a completion: the fuse is asked for its step.
DeadIsRetried(i) ==
    /\ Overdue(i)
    /\ ~Quiet(i) /\ snap[i].pid \notin dead /\ StillWanted(i, snap[i].agent)
    /\ RetryBegins("dead", i, snap[i].agent, snap)
    /\ Unspent
    /\ UNCHANGED <<wf, open, agentVars, launchVars, retries, held, seen, dead, orphaned, recent,
                   applied, finals>>

-----------------------------------------------------------------------------
(* Orphaned RUNNING steps.                                                 *)

OrphanTurn(i) == pc = "orphan" /\ i \in todo
OrphanGoesOn(i) == Onward("orphan", todo \ {i}, NoSnap)

\* Faulty variant: only for agents that the tracker knows.
AwaitedIfTracked(i) == ~Quiet(i) /\ Expected(i) # NoAgent /\ tracker[i].pid # NoPid

\* The workflow runs and waits for an agent.
Awaited(i) == ~Quiet(i) /\ Expected(i) # NoAgent

\* Within the cooldown of the last relaunch (a bound of the model is that it
\* makes the pass skip the issue once), or nothing to recover.
OrphanSkips(i) ==
    /\ OrphanTurn(i)
    /\ i \in recent \/ ~Awaited(i) \/ ProcessRunning(i)
    /\ recent' = recent \ {i}
    /\ UNCHANGED <<hostVars, back, cur, held, seen, miss, dead, orphaned, applied, finals>>
    /\ OrphanGoesOn(i)

\* The issue is closed: its entry, its mapping and its launch guard go.  When
\* the platform does not tell, nothing is done.
OrphanIsClosed(i) ==
    /\ OrphanTurn(i) /\ Awaited(i)
    /\ \/ /\ ~open[i] /\ FoundIdle(i)
          /\ tracker' = [tracker EXCEPT ![i] = NoEntry]
          /\ wf' = [wf EXCEPT ![i].state = "unmapped"]
          /\ guard' = Forgotten(i)
          /\ Forgets(i)
       \/ /\ ~ProcessRunning(i) /\ Fails
          /\ UNCHANGED <<wf, tracker, guard, retries>>
    /\ recent' = recent \ {i}
    /\ Unspent
    /\ UNCHANGED <<open, agentVars, req, back, cur, held, seen, miss, dead, orphaned, applied,
                   finals>>
    /\ OrphanGoesOn(i)

\* No agent is found for the step of an open issue: the fuse is asked.
OrphanIsRetried(i) ==
    /\ OrphanTurn(i) /\ i \notin recent /\ Awaited(i) /\ open[i]
    /\ FoundIdle(i)
    /\ RetryBegins("orphan", i, Expected(i), NoSnap)
    /\ Unspent
    /\ UNCHANGED <<wf, open, agentVars, launchVars, retries, held, memoryVars, applied, finals>>

-----------------------------------------------------------------------------
(* A retry that was granted is announced and launched; one that was not is  *)
(* announced as the end of the matter.                                      *)

\* The launch without the tools in `named`.
RetryLaunches(named, g, s) ==
    /\ LaunchBegins(Pass(back), cur.issue, cur.step, Exclusions(cur.issue, named), g, todo, s)
    /\ cur' = NoCur
    /\ UNCHANGED <<wf, open, agentVars, triggers, retries, held, applied, finals>>

\* Neither is a launch: the pass goes on.
RetryEnds(s) ==
    /\ Onward(Pass(back), todo, s)
    /\ back' = "idle" /\ cur' = NoCur
    /\ Unspent
    /\ UNCHANGED <<wf, open, agentVars, guard, req, allowed, held, applied, finals>>

\* The tool that failed.
FailedTool(i) == {snap[i].tool} \ {NoTool}

\* After a timeout the guard forgets the issue; nobody needs to hear of it.
StuckRelaunches ==
    LET i == cur.issue IN
    /\ pc = "alert" /\ back = "stuck"
    /\ UNCHANGED <<tracker, memoryVars>>
    /\ RetryLaunches(FailedTool(i) \cup snap[i].excl, Forgotten(i), NoSnap)

\* A step without an agent is reported first.
LostRelaunches ==
    LET i == cur.issue IN
    /\ pc = "alert" /\ back = "lost"
    /\ orphaned' = orphaned \cup {Key(cur)}
    /\ UNCHANGED <<tracker, seen, miss, dead, recent>>
    /\ RetryLaunches(FailedTool(i) \cup snap[i].excl, Forgotten(i), NoSnap)

\* Faulty variant: the fuse is taken from the tracker as the pass read it.
StaleMeta(i) == [NoEntry EXCEPT !.excl = snap[i].excl, !.fuse = snap[i].fuse]

\* What remains of the entry: the fuse that was saved and the exclusions.
KeptMeta(i) == [NoEntry EXCEPT !.excl = tracker[i].excl, !.fuse = tracker[i].fuse]

\* A dead agent is reported first, and its entry cleared.
DeadRelaunches ==
    LET i == cur.issue
        s == [snap EXCEPT ![i] = KeptMeta(i)]
    IN  /\ pc = "alert" /\ back = "dead"
        /\ Reported(snap[i].pid)
        /\ tracker' = s
        /\ UNCHANGED <<seen, orphaned, recent>>
        /\ RetryLaunches(FailedTool(i), Forgotten(i), s)

\* The cooldown of an orphan's relaunch starts, even when the guard refuses it.
OrphanRelaunches ==
    /\ pc = "alert" /\ back = "orphan"
    /\ recent' = recent \cup {cur.issue}
    /\ UNCHANGED <<tracker, seen, miss, dead, orphaned>>
    /\ RetryLaunches({}, guard, NoSnap)

\* The report cannot be sent: the next pass decides anew, with the attempt used up.
RetryUnannounced ==
    /\ pc \in {"alert", "giveup"} /\ back \in {"lost", "dead"}
    /\ Fails
    /\ IF pc = "alert" THEN NotMade(cur.issue) ELSE UNCHANGED granted
    /\ UNCHANGED <<tracker, memoryVars>>
    /\ RetryEnds(IF back = "dead" THEN snap ELSE NoSnap)

\* No retry: a step without an agent is not reported again, the entry of a dead
\* agent is dropped, with its fuse.
GivesUp ==
    /\ pc = "giveup" /\ back \in {"stuck", "lost", "orphan"}
    /\ orphaned' = IF back = "lost" THEN orphaned \cup {Key(cur)} ELSE orphaned
    /\ Works
    /\ UNCHANGED <<tracker, granted, seen, miss, dead, recent>>
    /\ RetryEnds(NoSnap)

GivesUpDead ==
    LET s == [snap EXCEPT ![cur.issue] = NoEntry]
    IN  /\ pc = "giveup" /\ back = "dead"
        /\ Reported(snap[cur.issue].pid)
        /\ tracker' = s
        /\ Works
        /\ UNCHANGED <<granted, seen, orphaned, recent>>
        /\ RetryEnds(s)

-----------------------------------------------------------------------------
(* The inbox processor is killed and started again: what it had in memory  *)
(* is gone, with its threads; the agents run on.  It starts with a check   *)
(* of the completions (nexus/core/startup_recovery.py) and then enters its *)
(* loop with a pass over timed-out agents.                                 *)

\* The startup check finds a completion of the RUNNING step, as the last
\* structured comment or, when there is none or none can be read, in the store.
\* (Which of the two is the last is left open.)
Signalled(i) ==
    wf[i].state \in {"running", "paused"} /\ <<i, wf[i].step>> \in reports

\* It is applied, under an event of its own, unless that fails; no agent is
\* launched, and a workflow that it completes is not finalised.  (A restart
\* between the trip of a fuse and its pause is a failure the fuse does not survive.)
StartupApplies ==
    \E S \in SUBSET {i \in Issues : Signalled(i)} :
       /\ wf' = [i \in Issues |-> IF i \in S THEN Advanced(wf[i]) ELSE wf[i]]
       /\ granted' = [i \in Issues |-> IF i \in S THEN 0 ELSE granted[i]]
       /\ allowed' = [i \in Issues |-> IF i \in S THEN FuseGrants
                                      ELSE IF pc = "trip" /\ i = cur.issue
                                           THEN allowed[i] + FuseGrants ELSE allowed[i]]

ProcessorRestarts ==
    /\ Fails
    /\ guard' = [guard EXCEPT !["processor"] = {}]
    /\ req' = [l \in Launchers |-> IF req[l].host = "processor" THEN NoReq ELSE req[l]]
    /\ proc' = [p \in Pids |-> IF proc[p].st = "unposted" /\ proc[p].host = "processor"
                               THEN NoProc ELSE proc[p]]
    /\ StartupApplies
    /\ pc' = "stuck" /\ back' = "idle" /\ todo' = Issues /\ cur' = NoCur
    /\ snap' = NoSnap /\ held' = NoSnap
    /\ seen' = saved /\ dead' = {} /\ orphaned' = {} /\ recent' = {}
    /\ miss' = [p \in Pids |-> 0]
    /\ Unspent
    /\ UNCHANGED <<open, reports, newest, fresh, tracker, saved, applied, finals>>

LoopInit ==
    /\ pc = "scan" /\ back = "idle" /\ todo = {} /\ cur = NoCur
    /\ snap = NoSnap /\ held = NoSnap
    /\ seen = {} /\ saved = {} /\ dead = {} /\ orphaned = {} /\ recent = {}
    /\ miss = [p \in Pids |-> 0]
    /\ applied = {}
    /\ finals = [i \in Issues |-> 0]

===============================================================================
