--------------------------- MODULE AgentControlProps ---------------------------
(***************************************************************************)
(* What the host promises about the agents of an issue.                    *)
(***************************************************************************)
EXTENDS AgentControl

Entries == [pid : Pids \cup {NoPid}, agent : Agents \cup {NoAgent},
            tool : Tools \cup {NoTool}, excl : SUBSET Tools,
            fuse : [agent : Agents \cup {NoAgent}, attempts : 0..FuseMax, tripped : BOOLEAN]]

\* Where the processor's thread may be.
Passes == {"scan", "stuck", "dead", "orphan"}
ScanPlaces == {"done", "comment", "relay"}
RetryPlaces == {"retry", "trip", "alert", "giveup"}

\* Every variable has its type; a launch never finds the pids used up, and
\* the processor has a launch in flight only while its thread is in one.
TypeOK ==
    /\ wf \in [Issues -> [state : {"running", "paused", "completed", "unmapped"}, step : Agents]]
    /\ open \in [Issues -> BOOLEAN]
    /\ proc \in [Pids -> [st : {"up", "hung", "unposted", "gone"}, issue : Issues,
                          agent : Agents \cup {NoAgent}, tool : Tools \cup {NoTool},
                          host : Hosts]]
    /\ reports \subseteq Issues \X Agents /\ applied \subseteq reports
    /\ seen \subseteq reports /\ saved \subseteq seen
    /\ tracker \in [Issues -> Entries]
    /\ snap \in [Issues -> Entries] /\ held \in [Issues -> Entries]
    /\ guard \in [Guarded -> SUBSET (Issues \X Agents)]
    /\ req \in [Launchers -> [issue : Issues, agent : Agents \cup {NoAgent},
                              excl : SUBSET Tools, host : Hosts]]
    /\ newest \in [Issues -> Pids \cup {NoPid}] /\ fresh \in [Issues -> BOOLEAN]
    /\ pc \in Passes \cup ScanPlaces \cup RetryPlaces \cup {"launch"}
    /\ back \in Passes \cup {"lost", "idle"}
    /\ cur \in [issue : Issues, step : Agents \cup {NoAgent}]
    /\ todo \subseteq IF pc \in {"scan"} \cup ScanPlaces \/ back = "scan"
                      THEN Issues \X Agents ELSE Issues
    /\ miss \in [Pids -> 0..MissMax] /\ dead \subseteq Pids
    /\ orphaned \subseteq Issues \X Agents /\ recent \subseteq Issues
    /\ faults \in 0..MaxFaults /\ triggers \in 0..MaxTriggers /\ excused \in Nat
    /\ granted \in [Issues -> Nat] /\ allowed \in [Issues -> Nat]
    /\ (\E l \in Launchers : Busy(l)) => FreePids # {}
    /\ Busy("processor") <=> pc = "launch"

\* The checks before a launch keep a second agent off an issue, whatever the
\* tracker and the plugin's pgrep know of the first: two run at once only as far
\* as someone besides the processor launched, or the launch guard's own look at
\* the processes failed.
OneAgentUnlessAskedFor ==
    \A i \in Issues : Cardinality(LiveOf(i)) <= 1 + excused

\* The fuse bounds the automatic retries of a step, whichever of the passes
\* asks for them, whatever becomes of the relaunched agents and of the tracker
\* that the passes and others save over each other: one retry less than
\* RETRY_FUSE_MAX_ATTEMPTS, and as many again for every failure that the fuse
\* does not survive (its bookkeeping, the pause of the workflow, an issue of
\* which the platform does not tell that it is closed).
FuseBoundsRetries ==
    \A i \in Issues : granted[i] <= allowed[i]

\* A workflow is finalised by the scan once, also when the completion is read
\* again after a failure or a restart.
FinalizedAtMostOnce ==
    \A i \in Issues : wf[i].state # "unmapped" => finals[i] <= 1

\* Without commands and comments from outside, a retry is launched for the
\* RUNNING step only, though the fuse, the alert and the launch come one after
\* the other: the agent of a step that is over is not relaunched because its
\* process died or hung.
RetriesAreForTheRunningStep ==
    [][ pc = "alert" /\ Busy("processor")' => req'["processor"].agent = Expected(cur.issue) ]_vars

Tripped(i) == Window(i, Expected(i)).tripped

\* A RUNNING step of an open issue does not stay without an agent: one is
\* launched, the fuse gives up, or the workflow stops running.
StrandedStepIsServed ==
    \A i \in Issues :
       (wf[i].state = "running" /\ open[i] /\ LiveOf(i) = {})
          ~> (LiveOf(i) # {} \/ wf[i].state # "running" \/ ~open[i] \/ Tripped(i))

\* A workflow that is completed is finalised, its pull requests made and its
\* tracker entry dropped, also when the processor is restarted in between.
CompletedIsFinalized ==
    \A i \in Issues :
       wf[i].state = "completed" ~> (finals[i] > 0 \/ wf[i].state # "completed")

\* The only agent of the issue hangs; its log is one that the timeout scan
\* recognises and its process one that the plugin's pgrep finds.
Hangs(i) ==
    \E p \in LiveOf(i) :
       LiveOf(i) = {p} /\ proc[p].st = "hung" /\ proc[p].tool \in LoggedTools \cap SeenTools

\* An agent that hangs is killed, unless its workflow no longer runs or
\* another agent of the issue is at work.
HungAgentIsStopped ==
    \A i \in Issues : Hangs(i) ~> (~Hangs(i) \/ wf[i].state # "running")

===============================================================================
