--------------------------- MODULE AgentControlProofs ---------------------------
(***************************************************************************)
(* Proofs about the agents' host, for any issues, steps, tools, fuse and   *)
(* bounds, and any interleaving of the processor's loop with the webhook   *)
(* server, the bot, the watchdogs and the agents: its types, and how many  *)
(* agents an issue has at once.                                            *)
(***************************************************************************)
EXTENDS AgentControlProps, FiniteSetTheorems, TLAPS

-----------------------------------------------------------------------------
(* The inductive invariant of the types.                                   *)

WfType == [state : {"running", "paused", "completed", "unmapped"}, step : Agents]
ProcType == [st : {"up", "hung", "unposted", "gone"}, issue : Issues,
             agent : Agents \cup {NoAgent}, tool : Tools \cup {NoTool}, host : Hosts]
ReqType == [issue : Issues, agent : Agents \cup {NoAgent}, excl : SUBSET Tools, host : Hosts]
FuseType == [agent : Agents \cup {NoAgent}, attempts : 0..FuseMax, tripped : BOOLEAN]

\* A fuse has used up its attempts only when it is tripped.
OkFuse(f) == f \in FuseType /\ (~f.tripped => f.attempts < FuseMax)
OkTracker(t) == t \in [Issues -> Entries] /\ \A i \in Issues : OkFuse(t[i].fuse)

WfInv == wf \in [Issues -> WfType] /\ open \in [Issues -> BOOLEAN]

\* A process that is not gone is an agent's.
ProcInv ==
    /\ proc \in [Pids -> ProcType]
    /\ \A p \in Pids : proc[p].st # "gone" => proc[p].agent \in Agents /\ proc[p].tool \in Tools
    /\ reports \subseteq Issues \X Agents
    /\ newest \in [Issues -> Pids \cup {NoPid}] /\ fresh \in [Issues -> BOOLEAN]

TrackerInv == OkTracker(tracker) /\ OkTracker(snap) /\ OkTracker(held)

\* The processor's requests are its own, and last while its thread is in a launch.
RequestInv ==
    /\ guard \in [Guarded -> SUBSET (Issues \X Agents)]
    /\ req \in [Launchers -> ReqType]
    /\ req["processor"].host = "processor"
    /\ Busy("processor") <=> pc = "launch"

CountInv ==
    /\ faults \in 0..MaxFaults /\ triggers \in 0..MaxTriggers /\ excused \in Nat
    /\ granted \in [Issues -> Nat] /\ allowed \in [Issues -> Nat]
    /\ finals \in [Issues -> Nat]

\* What a retry may belong to.
Kinds == {"stuck", "lost", "dead", "orphan"}

\* The thread is in a pass, or waits within the one that `back` or `cur` tells.
LoopInv ==
    /\ pc \in Passes \cup ScanPlaces \cup RetryPlaces \cup {"launch"}
    /\ pc = "launch" => back \in Passes
    /\ pc \in RetryPlaces => back \in Kinds
    /\ pc \in Passes \cup ScanPlaces => back = "idle"
    /\ cur \in [issue : Issues, step : Agents \cup {NoAgent}]
    /\ pc \in ScanPlaces \cup RetryPlaces => cur.step # NoAgent
    /\ pc \in Passes \cup {"launch"} => cur = NoCur
    /\ pc = "done" => cur.step = NumSteps
    /\ pc \in {"comment", "relay"} => cur.step < NumSteps
    /\ pc \in ScanPlaces => Key(cur) \in reports
    /\ pc \in RetryPlaces /\ back = "dead" => snap[cur.issue].pid # NoPid
    /\ todo \subseteq IF pc = "scan" \/ pc \in ScanPlaces \/ back = "scan"
                      THEN reports ELSE Issues

MemoryInv ==
    /\ seen \subseteq reports /\ saved \subseteq seen /\ applied \subseteq reports
    /\ miss \in [Pids -> 0..MissMax] /\ dead \subseteq Pids
    /\ orphaned \subseteq Issues \X Agents /\ recent \subseteq Issues

HostInv == WfInv /\ ProcInv /\ TrackerInv /\ RequestInv /\ CountInv /\ LoopInv /\ MemoryInv

-----------------------------------------------------------------------------
(* Operators of the model.                                                 *)

LEMMA Constants ==
    /\ NumSteps \in Nat \ {0} /\ FuseMax \in Nat \ {0, 1} /\ MaxPids \in Nat \ {0}
    /\ MaxFaults \in Nat /\ MaxTriggers \in Nat /\ MissMax \in Nat \ {0}
    /\ LoggedTools \subseteq Tools /\ SeenTools \subseteq Tools /\ NoTool \notin Tools
    /\ IsFiniteSet(Issues) /\ (CHOOSE i \in Issues : TRUE) \in Issues
    /\ IsFiniteSet(Pids) /\ Cardinality(Pids) = MaxPids
    BY LaunchAssumption, MissAssumption, FS_Interval DEF Pids

\* What stands for nothing has the types of what it stands for.
LEMMA Nothings ==
    /\ NoEntry \in Entries /\ OkFuse(NoEntry.fuse) /\ OkFuse(NoFuse)
    /\ NoProc \in ProcType /\ NoProc.st = "gone"
    /\ NoReq \in ReqType /\ NoReq.agent = NoAgent /\ NoReq.host = "processor"
    /\ NoCur \in [issue : Issues, step : Agents \cup {NoAgent}] /\ NoCur.step = NoAgent
    /\ OkTracker(NoSnap)
    /\ NoAgent \notin Agents /\ NoPid \notin Pids
<1>1. NoEntry \in Entries /\ OkFuse(NoEntry.fuse) /\ OkFuse(NoFuse)
    BY Constants DEF NoEntry, Entries, OkFuse, FuseType, NoFuse, NoAgent
<1>2. OkTracker(NoSnap)
    BY <1>1 DEF OkTracker, NoSnap
<1> DEFINE i0 == CHOOSE i \in Issues : TRUE
<1>3. i0 \in Issues
    BY Constants
<1>4. /\ NoProc = [st |-> "gone", issue |-> i0, agent |-> NoAgent, tool |-> NoTool,
                   host |-> "processor"]
      /\ NoReq = [issue |-> i0, agent |-> NoAgent, excl |-> {}, host |-> "processor"]
      /\ NoCur = [issue |-> i0, step |-> NoAgent]
    BY DEF NoProc, NoReq, NoCur
<1> HIDE DEF i0
<1>5. NoProc \in ProcType /\ NoProc.st = "gone"
    BY <1>3, <1>4 DEF ProcType, Hosts
<1>6. NoReq \in ReqType /\ NoReq.agent = NoAgent /\ NoReq.host = "processor"
    BY <1>3, <1>4 DEF ReqType, Hosts
<1>7. NoCur \in [issue : Issues, step : Agents \cup {NoAgent}] /\ NoCur.step = NoAgent
    BY <1>3, <1>4
<1>8. NoAgent \notin Agents /\ NoPid \notin Pids
    BY Constants DEF NoAgent, NoPid, Agents, Pids
<1> QED BY <1>1, <1>2, <1>5, <1>6, <1>7, <1>8

\* The window of an agent is its fuse, or a new one.
LEMMA WindowFacts ==
    ASSUME TrackerInv, NEW i \in Issues, NEW a \in Agents \cup {NoAgent}
    PROVE  /\ OkFuse(Window(i, a)) /\ Window(i, a).agent = a
           /\ tracker[i].fuse.agent = a => Window(i, a) = tracker[i].fuse
           /\ tracker[i].fuse.agent # a =>
                 Window(i, a).attempts = 0 /\ ~Window(i, a).tripped
<1>1. OkFuse(tracker[i].fuse)
    BY DEF TrackerInv, OkTracker
<1>2. CASE tracker[i].fuse.agent = a
    BY <1>1, <1>2 DEF Window
<1>3. CASE tracker[i].fuse.agent # a
    <2>1. Window(i, a) = [agent |-> a, attempts |-> 0, tripped |-> FALSE]
        BY <1>3 DEF Window, NoFuse
    <2> QED BY <1>3, <2>1, Constants DEF OkFuse, FuseType
<1> QED BY <1>2, <1>3

\* An attempt that may be made counts, and trips the fuse when it is the last.
LEMMA AttemptFacts ==
    ASSUME TrackerInv, NEW i \in Issues, NEW a \in Agents \cup {NoAgent}, MayAttempt(i, a)
    PROVE  /\ OkFuse(Attempted(i, a))
           /\ Attempted(i, a).agent = a
           /\ Attempted(i, a).attempts = Window(i, a).attempts + 1
           /\ ~Attempted(i, a).tripped => Window(i, a).attempts + 1 < FuseMax
<1>1. Window(i, a) \in FuseType /\ ~Window(i, a).tripped /\ Window(i, a).attempts < FuseMax
    BY WindowFacts DEF MayAttempt, OkFuse
<1> DEFINE n == Window(i, a).attempts + 1
<1>2. n \in 0..FuseMax
    BY <1>1, Constants DEF FuseType
<1>3. Attempted(i, a) = IF n < FuseMax THEN [agent |-> a, attempts |-> n, tripped |-> FALSE]
                        ELSE [agent |-> a, attempts |-> n, tripped |-> TRUE]
    BY DEF Attempted
<1> HIDE DEF n
<1>4. OkFuse(Attempted(i, a)) /\ Attempted(i, a).agent = a /\ Attempted(i, a).attempts = n
      /\ (~Attempted(i, a).tripped => n < FuseMax)
    BY <1>2, <1>3, Constants DEF OkFuse, FuseType
<1> QED BY <1>4 DEF n


\* An attempt is saved in the fuse of its issue and nothing else.
LEMMA FuseSavedFacts ==
    ASSUME TrackerInv, NEW i \in Issues, NEW a \in Agents \cup {NoAgent}, MayAttempt(i, a)
    PROVE  /\ OkTracker(FuseSaved(i, a))
           /\ \A j \in Issues : FuseSaved(i, a)[j].pid = tracker[j].pid
           /\ \A j \in Issues \ {i} : FuseSaved(i, a)[j] = tracker[j]
           /\ FuseSaved(i, a)[i].fuse = Attempted(i, a)
<1> DEFINE f == Attempted(i, a)
           e == [tracker[i] EXCEPT !.fuse = f]
<1>1. f \in FuseType /\ OkFuse(f)
    BY AttemptFacts DEF OkFuse
<1>2. OkTracker(tracker) /\ tracker \in [Issues -> Entries]
    BY DEF TrackerInv, OkTracker
<1>3. FuseSaved(i, a) = [tracker EXCEPT ![i].fuse = f]
    BY DEF FuseSaved
<1> HIDE DEF f
<1>4. e \in Entries /\ e.fuse = f /\ e.pid = tracker[i].pid
    BY <1>1, <1>2 DEF Entries, FuseType
<1>5. FuseSaved(i, a) = [tracker EXCEPT ![i] = e]
    BY <1>2, <1>3
<1> HIDE DEF e
<1>6. OkTracker(FuseSaved(i, a))
    BY <1>1, <1>2, <1>4, <1>5 DEF OkTracker
<1>7. /\ \A j \in Issues : FuseSaved(i, a)[j].pid = tracker[j].pid
      /\ \A j \in Issues \ {i} : FuseSaved(i, a)[j] = tracker[j]
      /\ FuseSaved(i, a)[i].fuse = f
    BY <1>2, <1>4, <1>5
<1> QED BY <1>6, <1>7 DEF f

\* An entry of a tracker is replaced by another.
LEMMA Replaced ==
    ASSUME NEW t, OkTracker(t), NEW i \in Issues, NEW e \in Entries, OkFuse(e.fuse)
    PROVE  OkTracker([t EXCEPT ![i] = e])
    BY DEF OkTracker

\* A set of numbers that is not empty has a first member.
LEMMA LeastExists ==
    ASSUME NEW S \in SUBSET Nat, S # {}
    PROVE  \E n \in S : \A m \in S : n <= m
<1>1. PICK n \in S : \A m \in S : <<m, n>> \notin OpToRel(<, Nat)
    BY NatLessThanWellFounded, WFMin, Zenon
<1>2. \A m \in S : n <= m
    <2> TAKE m \in S
    <2>1. ~(m < n)
        BY <1>1 DEF OpToRel
    <2> QED BY <2>1
<1> QED BY <1>2

LEMMA NextPidIsFree ==
    ASSUME FreePids # {}
    PROVE  NextPid \in FreePids /\ NextPid \in Pids /\ proc[NextPid].st = "gone"
<1>1. FreePids \in SUBSET Nat /\ FreePids \subseteq Pids
    BY DEF FreePids, Pids
<1>2. NextPid \in FreePids
    BY <1>1, LeastExists DEF NextPid
<1> QED BY <1>1, <1>2 DEF FreePids

\* The last report of an issue is of one of its steps, or there is none.
LEMMA LatestReportIsAStep ==
    ASSUME NEW i
    PROVE  LatestReport(i) \in 0..NumSteps
<1> DEFINE S == {0} \cup {n \in Agents : <<i, n>> \in reports}
           T == {NumSteps - n : n \in S}
<1>1. S \subseteq 0..NumSteps /\ T \in SUBSET Nat /\ T # {}
    <2>1. S \subseteq 0..NumSteps /\ 0 \in S
        BY Constants DEF Agents
    <2> HIDE DEF S
    <2>2. T \in SUBSET Nat /\ NumSteps - 0 \in T
        BY <2>1, Constants
    <2> QED BY <2>1, <2>2
<1>2. PICK k \in T : \A m \in T : k <= m
    BY <1>1, LeastExists
<1>3. PICK n \in S : k = NumSteps - n
    BY <1>2
<1>4. \A m \in S : n >= m
    <2> TAKE m \in S
    <2>1. k <= NumSteps - m
        BY <1>2
    <2> QED BY <1>1, <1>3, <2>1, Constants
<1>5. LatestReport(i) = Max(S)
    BY DEF LatestReport
<1>6. Max(S) \in S
    BY <1>4 DEF Max
<1> QED BY <1>1, <1>5, <1>6

\* What a pass that goes on, or ends, does to the loop's variables.
LEMMA OnwardMoves ==
    ASSUME NEW pass \in Passes, NEW rest, NEW s, Onward(pass, rest, s)
    PROVE  /\ pc' \in Passes
           /\ \/ /\ pc' = pass /\ todo' = rest /\ snap' = s /\ saved' = saved
              \/ /\ pc' = "scan" /\ todo' = reports \ seen
                 /\ snap' = NoSnap /\ saved' = saved
              \/ /\ pc' \in Passes \ {"scan"} /\ todo' \subseteq Issues
                 /\ \/ snap' = tracker'
                    \/ snap' = NoSnap /\ pc' # "dead"
                 /\ saved' = IF pass = "scan" THEN seen' ELSE saved
<1>1. CASE rest # {}
    BY <1>1 DEF Onward
<1>2. CASE rest = {}
    <2>1. Enter(pass)
        BY <1>2 DEF Onward
    <2> QED BY <2>1 DEF Enter, Passes
<1> QED BY <1>1, <1>2

\* So it keeps the types of a snapshot, and looks at what it may look at.
LEMMA OnwardTypes ==
    ASSUME NEW pass \in Passes, NEW rest, NEW s, Onward(pass, rest, s),
           rest \subseteq IF pass = "scan" THEN reports ELSE Issues
    PROVE  /\ pc' \in Passes
           /\ todo' \subseteq IF pc' = "scan" THEN reports ELSE Issues
           /\ snap' \in {s, tracker', NoSnap}
           /\ saved' \in {saved, seen'}
    BY OnwardMoves DEF Passes

-----------------------------------------------------------------------------
(* The steps, by the thread or the pass that takes them.                   *)

ScanStep ==
    \/ PassIsEmpty \/ ScanFinalizes \/ ScanComments \/ ScanChains
    \/ \E k \in Issues \X Agents :
          ScanSkipsOld(k) \/ ScanWaits(k) \/ ScanRefused(k) \/ ScanApplies(k)
LaunchStep == ProcessorSpawns \/ ProcessorRefused \/ \E l \in Launchers : Elsewhere(l)
StuckStep ==
    \E i \in Issues : StuckSkips(i) \/ StuckIsStale(i) \/ StuckIsKilled(i) \/ StuckOrphan(i)
DeadStep ==
    \E i \in Issues : DeadWaits(i) \/ DeadIsQuiet(i) \/ DeadIsStale(i) \/ DeadIsRetried(i)
OrphanStep ==
    \E i \in Issues : OrphanSkips(i) \/ OrphanIsClosed(i) \/ OrphanIsRetried(i)
Deciding == RetryRefused \/ RetryIsCounted \/ RetryUncounted \/ FuseTrips
Relaunching == StuckRelaunches \/ LostRelaunches \/ DeadRelaunches \/ OrphanRelaunches
Ending == RetryUnannounced \/ GivesUp \/ GivesUpDead
RetryStep == Deciding \/ Relaunching \/ Ending
AgentStep == \E p \in Pids : Agent(p) \/ Recovery(p)

LEMMA StepCases ==
    Next => \/ ScanStep \/ LaunchStep \/ StuckStep \/ DeadStep \/ OrphanStep \/ RetryStep
            \/ AgentStep \/ Outside \/ ProcessorRestarts
    BY DEF Next, Loop, ScanStep, LaunchStep, StuckStep, DeadStep, OrphanStep, Deciding,
       Relaunching, Ending, RetryStep, AgentStep

\* A launch that the processor begins, or does not, fails or works.
LEMMA LaunchSpends ==
    ASSUME NEW pass, NEW i, NEW a, NEW X, NEW g, NEW rest, NEW s,
           LaunchBegins(pass, i, a, X, g, rest, s)
    PROVE  Fails \/ Works
    BY DEF LaunchBegins, GuardAllows

\* The steps of a retry leave the agents alone, and what the scan has done.
LEMMA RetryKeeps ==
    RetryStep => /\ UNCHANGED <<open, agentVars, triggers, seen, applied, finals>>
                 /\ Fails \/ Works
<1>1. CASE Deciding
    BY <1>1 DEF Deciding, RetryRefused, RetryIsCounted, RetryUncounted, FuseTrips, TellsClosed,
       memoryVars, Unspent
<1>2. CASE Relaunching
    BY <1>2, LaunchSpends DEF Relaunching, StuckRelaunches, LostRelaunches, DeadRelaunches,
       OrphanRelaunches, RetryLaunches, memoryVars
<1>3. CASE Ending
    BY <1>3 DEF Ending, RetryUnannounced, GivesUp, GivesUpDead, RetryEnds, memoryVars, Unspent
<1> QED BY <1>1, <1>2, <1>3 DEF RetryStep

\* What a granted retry launches, and what a pass holds when a retry ends.
LEMMA RelaunchFacts ==
    ASSUME Relaunching
    PROVE  \E named, g, s : /\ RetryLaunches(named, g, s) /\ pc = "alert"
                            /\ named \subseteq FailedTool(cur.issue) \cup snap[cur.issue].excl
                            /\ g \in {guard, Forgotten(cur.issue)}
                            /\ \/ s = NoSnap /\ tracker' = tracker
                               \/ s = tracker' /\ back = "dead"
<1> DEFINE i == cur.issue
           t == [snap EXCEPT ![i] = KeptMeta(i)]
<1>1. ASSUME StuckRelaunches \/ LostRelaunches
      PROVE  /\ RetryLaunches(FailedTool(i) \cup snap[i].excl, Forgotten(i), NoSnap)
             /\ pc = "alert" /\ tracker' = tracker
    BY <1>1 DEF StuckRelaunches, LostRelaunches
<1>2. ASSUME DeadRelaunches
      PROVE  /\ RetryLaunches(FailedTool(i), Forgotten(i), tracker')
             /\ pc = "alert" /\ back = "dead"
    BY <1>2 DEF DeadRelaunches
<1>3. ASSUME OrphanRelaunches
      PROVE  RetryLaunches({}, guard, NoSnap) /\ pc = "alert" /\ tracker' = tracker
    BY <1>3 DEF OrphanRelaunches
<1> QED BY <1>1, <1>2, <1>3 DEF Relaunching

\* Only the trip of a fuse touches the workflow.
LEMMA RetryKeepsWf == RetryStep /\ ~FuseTrips => wf' = wf
<1>1. Deciding /\ ~FuseTrips => wf' = wf
    BY DEF Deciding, RetryRefused, RetryIsCounted, RetryUncounted
<1>2. Relaunching => wf' = wf
    BY DEF Relaunching, StuckRelaunches, LostRelaunches, DeadRelaunches, OrphanRelaunches,
       RetryLaunches
<1>3. Ending => wf' = wf
    BY DEF Ending, RetryUnannounced, GivesUp, GivesUpDead, RetryEnds
<1> QED BY <1>1, <1>2, <1>3 DEF RetryStep

LEMMA EndFacts ==
    ASSUME Ending
    PROVE  \E s : /\ RetryEnds(s) /\ pc \in {"alert", "giveup"}
                  /\ \/ s = NoSnap /\ tracker' = tracker
                     \/ back = "dead" /\ s = snap /\ tracker' = tracker
                     \/ back = "dead" /\ s = tracker'
                        /\ tracker' = [snap EXCEPT ![cur.issue] = NoEntry]
    BY DEF Ending, RetryUnannounced, GivesUp, GivesUpDead

-----------------------------------------------------------------------------
(* The types are kept.                                                     *)

LEMMA InitTypes == Init => HostInv
<1> SUFFICES ASSUME Init PROVE HostInv
    OBVIOUS
<1>1. WfInv /\ CountInv /\ MemoryInv /\ LoopInv
    BY Nothings, Constants DEF Init, LaunchInit, LoopInit, WfInv, WfType, Agents, CountInv,
       MemoryInv, LoopInv, Passes, ScanPlaces, RetryPlaces, NoAgent, FuseGrants
<1>2. ProcInv /\ TrackerInv /\ RequestInv
    BY Nothings, Constants DEF Init, LaunchInit, LoopInit, ProcInv, TrackerInv, OkTracker,
       RequestInv, Busy, Launchers
<1> QED BY <1>1, <1>2 DEF HostInv

LEMMA AdvancedType ==
    ASSUME NEW w \in WfType
    PROVE  Advanced(w) \in WfType
    BY Constants DEF WfType, Advanced, Agents

LEMMA WfStep == HostInv /\ Next => WfInv'
<1> SUFFICES ASSUME HostInv, Next PROVE WfInv'
    OBVIOUS
<1> USE DEF HostInv, WfInv
<1>1. open' \in [Issues -> BOOLEAN]
    <2>1. CASE \E i \in Issues : IssueCloses(i)
        BY <2>1 DEF IssueCloses
    <2>2. CASE \A i \in Issues : ~IssueCloses(i)
        <3>1. open' = open
            BY <2>2, StepCases, RetryKeeps, ZenonT(60) DEF ScanStep, LaunchStep,
               StuckStep, DeadStep, OrphanStep, AgentStep, Elsewhere, Agent, Recovery, Outside, ProcessorRestarts,
               PassIsEmpty, ScanFinalizes, ScanComments, ScanChains, ScanSkipsOld,
               ScanDrops, ScanWaits, ScanRefused, ScanApplies, ProcessorSpawns,
               ProcessorRefused, SpawnNext, Spawn, Refuse, StuckSkips, StuckIsStale,
               StuckIsKilled, StuckOrphan, DeadWaits, DeadIsQuiet, DeadIsStale,
               DeadIsRetried, OrphanSkips, OrphanIsClosed, OrphanIsRetried, AgentReports,
               AgentEnds, QuotaDetected, RecoverFromLog, FuseRests, FuseWindowExpires, Pause, Resume,
               Kill, Stop, Continue, AgentComments, AuthorOverrides, hostVars
        <3> QED BY <3>1
    <2> QED BY <2>1, <2>2
<1>2. wf' \in [Issues -> WfType]
    <2> USE DEF WfType
    <2>1. CASE \E k \in Issues \X Agents : ScanApplies(k)
        <3>1. PICK k \in Issues \X Agents : ScanApplies(k)
            BY <2>1
        <3>2. Unmapped(k) \/ Advanced(wf[k[1]]) \in WfType
            BY <3>1, Constants DEF ScanApplies, Applies, Advanced, Agents
        <3> QED BY <3>1, <3>2 DEF ScanApplies
    <2>2. CASE \E l \in Launchers : Refuse(l)
        BY <2>2 DEF Refuse, NotResolved, NotProvisioned, NoToolLeft
    <2>3. CASE FuseTrips
        BY <2>3 DEF FuseTrips
    <2>6. CASE \E i \in Issues : OrphanIsClosed(i)
        BY <2>6 DEF OrphanIsClosed
    <2>8. CASE \E i \in Issues : Pause(i) \/ Resume(i) \/ Stop(i)
        BY <2>8 DEF Pause, Resume, Stop
    <2>9. CASE \E i \in Issues : Continue(i)
        <3>1. PICK i \in Issues : Continue(i)
            BY <2>9
        <3>2. ContinueAgent(i) \in Agents
            BY <3>1, LatestReportIsAStep, Constants
               DEF Continue, ContinueAgent, Expected, NextByReports, Agents, NoAgent
        <3> QED BY <3>1, <3>2 DEF Continue, MovesOn
    <2>10. CASE \E i \in Issues, a \in Agents : AuthorOverrides(i, a)
        BY <2>10 DEF AuthorOverrides, ResetTo
    <2>11. CASE ProcessorRestarts
        <3>1. \A i \in Issues : Advanced(wf[i]) \in WfType
            BY AdvancedType
        <3> QED BY <2>11, <3>1 DEF ProcessorRestarts, StartupApplies, Signalled
    <2>12. ASSUME \A k \in Issues \X Agents : ~ScanApplies(k),
                  \A l \in Launchers : ~Refuse(l),
                  \A i \in Issues : /\ ~OrphanIsClosed(i)
                                    /\ ~Pause(i) /\ ~Resume(i) /\ ~Stop(i) /\ ~Continue(i),
                  \A i \in Issues, a \in Agents : ~AuthorOverrides(i, a),
                  ~ProcessorRestarts, ~FuseTrips
           PROVE  wf' = wf
        BY <2>12, StepCases, RetryKeepsWf, ZenonT(60) DEF ScanStep, LaunchStep, StuckStep,
           DeadStep, OrphanStep, AgentStep, Elsewhere, Agent, Recovery, Outside, PassIsEmpty,
           ScanFinalizes, ScanComments, ScanChains, ScanSkipsOld, ScanDrops, ScanWaits,
           ScanRefused, ProcessorSpawns, ProcessorRefused, SpawnNext, Spawn, StuckSkips,
           StuckIsStale, StuckIsKilled, StuckOrphan, DeadWaits, DeadIsQuiet, DeadIsStale,
           DeadIsRetried, OrphanSkips, OrphanIsRetried, AgentReports,
           AgentEnds, QuotaDetected, RecoverFromLog, IssueCloses, FuseRests, FuseWindowExpires,
           Kill, AgentComments, hostVars, Launchers
    <2> QED BY <2>1, <2>2, <2>3, <2>6, <2>8, <2>9, <2>10, <2>11, <2>12
<1> QED BY <1>1, <1>2

LEMMA ProcStep == HostInv /\ Next => ProcInv'
<1> SUFFICES ASSUME HostInv, Next PROVE ProcInv'
    OBVIOUS
<1> USE Nothings DEF HostInv, ProcInv
<1>1. CASE \E l \in Launchers : SpawnNext(l)
    <2>1. PICK l \in Launchers : SpawnNext(l)
        BY <1>1
    <2> DEFINE r == req[l]
               p == NextPid
    <2>2. p \in Pids /\ r \in ReqType /\ r.agent \in Agents
        BY <2>1, NextPidIsFree DEF SpawnNext, Spawn, Busy, RequestInv, ReqType
    <2>3. PICK t \in Tools :
             /\ proc' = [proc EXCEPT ![p] = [st |-> "up", issue |-> r.issue,
                                             agent |-> r.agent, tool |-> t, host |-> r.host]]
             /\ \/ Logged(r.issue, p, t)
                \/ /\ newest' = [newest EXCEPT ![r.issue] = IF t \in LoggedTools THEN p ELSE @]
                   /\ fresh' = [fresh EXCEPT ![r.issue] = @ \/ t \in LoggedTools]
        BY <2>1 DEF SpawnNext, Spawn
    <2>4. reports' = reports
        BY <2>1 DEF SpawnNext, Spawn
    <2> HIDE DEF r, p
    <2>5. proc' \in [Pids -> ProcType]
        BY <2>2, <2>3 DEF ProcType, ReqType
    <2>6. \A q \in Pids : proc[q]'.st # "gone" => proc[q]'.agent \in Agents /\ proc[q]'.tool \in Tools
        BY <2>2, <2>3
    <2>7. newest' \in [Issues -> Pids \cup {NoPid}]
        BY <2>2, <2>3 DEF Logged, ReqType
    <2>8. fresh' \in [Issues -> BOOLEAN]
        BY <2>2, <2>3 DEF Logged, ReqType
    <2> QED BY <2>4, <2>5, <2>6, <2>7, <2>8
<1>2. CASE \E p \in Pids : AgentReports(p) \/ AgentEnds(p)
    BY <1>2 DEF AgentReports, AgentEnds, ProcType
<1>3. ASSUME NEW p \in Pids, QuotaDetected(p) \/ RecoverFromLog(p)
      PROVE  ProcInv'
    <2>1. PICK q \in ProcType : /\ proc' = [proc EXCEPT ![p] = q]
                                /\ q.st # "gone" => q.agent \in Agents /\ q.tool \in Tools
        <3>1. CASE QuotaDetected(p)
            <4>1. [proc[p] EXCEPT !.st = "hung"] \in ProcType
                  /\ [proc[p] EXCEPT !.st = "hung"].agent = proc[p].agent
                  /\ [proc[p] EXCEPT !.st = "hung"].tool = proc[p].tool
                BY DEF ProcType
            <4> QED BY <3>1, <4>1 DEF QuotaDetected
        <3>2. CASE RecoverFromLog(p)
            BY <3>2 DEF RecoverFromLog
        <3> QED BY <1>3, <3>1, <3>2
    <2>2. reports' \subseteq Issues \X Agents /\ newest' = newest /\ fresh' = fresh
        BY <1>3 DEF QuotaDetected, RecoverFromLog, ProcType
    <2> QED BY <2>1, <2>2
<1>4. CASE \E i \in Issues : StuckIsKilled(i) \/ Kill(i) \/ Stop(i)
    <2>1. reports' = reports /\ newest' = newest /\ fresh' = fresh
        BY <1>4 DEF StuckIsKilled, Kill, Stop
    <2>2. proc' = proc \/ \E p : proc' = [proc EXCEPT ![p] = NoProc]
        BY <1>4, Zenon DEF StuckIsKilled, Kill, Stop
    <2> QED BY <2>1, <2>2
<1>5. CASE ProcessorRestarts
    BY <1>5, SMTT(60) DEF ProcessorRestarts
<1>6. ASSUME \A l \in Launchers : ~SpawnNext(l),
             \A p \in Pids : /\ ~AgentReports(p) /\ ~AgentEnds(p)
                             /\ ~QuotaDetected(p) /\ ~RecoverFromLog(p),
             \A i \in Issues : ~StuckIsKilled(i) /\ ~Kill(i) /\ ~Stop(i),
             ~ProcessorRestarts
      PROVE  UNCHANGED agentVars
    BY <1>6, StepCases, RetryKeeps, ZenonT(60) DEF ScanStep, LaunchStep,
               StuckStep, DeadStep, OrphanStep, AgentStep, Elsewhere, Agent, Recovery, Outside, PassIsEmpty, ScanFinalizes,
       ScanComments, ScanChains, ScanSkipsOld, ScanDrops, ScanWaits, ScanRefused,
       ScanApplies, ProcessorSpawns, ProcessorRefused, Refuse, StuckSkips, StuckIsStale,
       StuckOrphan, DeadWaits, DeadIsQuiet, DeadIsStale, DeadIsRetried, OrphanSkips,
       OrphanIsClosed, OrphanIsRetried, IssueCloses, FuseRests, FuseWindowExpires, Pause, Resume,
       Continue, AgentComments, AuthorOverrides, hostVars, agentVars, Launchers
<1> QED BY <1>1, <1>2, <1>3, <1>4, <1>5, <1>6 DEF agentVars

\* What a step uses up of the failures and of the requests from outside.
LEMMA SpendingMoves == Next => (Fails \/ Works) /\ (Asked \/ triggers' = triggers)
<1> SUFFICES ASSUME Next PROVE (Fails \/ Works) /\ (Asked \/ triggers' = triggers)
    OBVIOUS
<1>1. Fails \/ Works
    <2>1. CASE ScanStep
        BY <2>1, LaunchSpends DEF ScanStep, PassIsEmpty, ScanFinalizes, ScanComments, ScanChains,
           ScanSkipsOld, ScanDrops, ScanWaits, ScanRefused, ScanApplies, FoundIdle, hostVars, Works
    <2>2. CASE LaunchStep
        BY <2>2, ZenonT(60) DEF LaunchStep, ProcessorSpawns, ProcessorRefused, SpawnNext, Spawn, Refuse,
           Elsewhere, hostVars, Launchers, NotResolved, NotProvisioned, NoToolLeft, Works
    <2>3. CASE StuckStep
        BY <2>3 DEF StuckStep, StuckSkips, StuckIsStale, StuckIsKilled, StuckOrphan,
           hostVars, Works
    <2>4. CASE DeadStep
        BY <2>4 DEF DeadStep, DeadWaits, DeadIsQuiet, DeadIsStale, DeadIsRetried, hostVars,
           Overdue, Works
    <2>5. CASE OrphanStep
        BY <2>5 DEF OrphanStep, OrphanSkips, OrphanIsClosed, OrphanIsRetried, FoundIdle, hostVars,
           Works
    <2>6. CASE AgentStep
        BY <2>6 DEF AgentStep, Agent, Recovery, AgentReports, AgentEnds, QuotaDetected,
           RecoverFromLog, hostVars, Works
    <2>7. CASE Outside
        <3>1. CASE \E i \in Issues : \/ IssueCloses(i) \/ FuseRests(i) \/ Pause(i)
                                     \/ Resume(i) \/ Kill(i) \/ Stop(i) \/ Continue(i)
            BY <3>1 DEF IssueCloses, FuseRests, FuseWindowExpires, Pause, Resume, Kill, Stop,
               Continue, Works
        <3>2. CASE \E i \in Issues, a \in Agents : AgentComments(<<i, a>>) \/ AuthorOverrides(i, a)
            BY <3>2 DEF AgentComments, AuthorOverrides, WebhookLaunches, GuardAllows
        <3> QED BY <2>7, <3>1, <3>2 DEF Outside
    <2>8. CASE ProcessorRestarts
        BY <2>8 DEF ProcessorRestarts, hostVars, Works
    <2> QED BY StepCases, RetryKeeps, <2>1, <2>2, <2>3, <2>4, <2>5, <2>6, <2>7, <2>8
<1>2. Asked \/ triggers' = triggers
    <2>1. CASE ScanStep
        BY <2>1 DEF ScanStep, PassIsEmpty, ScanFinalizes, ScanComments, ScanChains,
           ScanSkipsOld, ScanDrops, ScanWaits, ScanRefused, ScanApplies, hostVars, Unspent
    <2>2. CASE LaunchStep
        BY <2>2 DEF LaunchStep, ProcessorSpawns, ProcessorRefused, SpawnNext, Spawn, Refuse,
           Elsewhere, hostVars, Launchers, Unspent
    <2>3. CASE StuckStep
        BY <2>3 DEF StuckStep, StuckSkips, StuckIsStale, StuckIsKilled, StuckOrphan,
           hostVars, Unspent
    <2>4. CASE DeadStep
        BY <2>4 DEF DeadStep, DeadWaits, DeadIsQuiet, DeadIsStale, DeadIsRetried, hostVars,
           Unspent
    <2>5. CASE OrphanStep
        BY <2>5 DEF OrphanStep, OrphanSkips, OrphanIsClosed, OrphanIsRetried, hostVars,
           Unspent
    <2>6. CASE AgentStep
        BY <2>6 DEF AgentStep, Agent, Recovery, AgentReports, AgentEnds, QuotaDetected,
           RecoverFromLog, hostVars, Unspent
    <2>7. CASE Outside
        BY <2>7 DEF Outside, Asked, IssueCloses, FuseRests, FuseWindowExpires, Pause, Resume, Kill,
           Stop, Continue, AgentComments, AuthorOverrides, hostVars, Unspent
    <2>8. CASE ProcessorRestarts
        BY <2>8 DEF ProcessorRestarts, hostVars, Unspent
    <2> QED BY StepCases, RetryKeeps, <2>1, <2>2, <2>3, <2>4, <2>5, <2>6, <2>7, <2>8
<1> QED BY <1>1, <1>2

\* What is excused: a spawn of the others and a launch that a failed look passes.
LEMMA ExcusedMoves == Next => excused' \in {excused, excused + 1}
<1> SUFFICES ASSUME Next PROVE excused' \in {excused, excused + 1}
    OBVIOUS
<1> DEFINE Ok == excused' \in {excused, excused + 1}
<1>1. excused' = excused => Ok
    OBVIOUS
<1>2. ASSUME NEW pass, NEW i, NEW a, NEW X, NEW g, NEW rest, NEW s,
             LaunchBegins(pass, i, a, X, g, rest, s)
      PROVE  Ok
    BY <1>2 DEF LaunchBegins
<1> SUFFICES Ok
    OBVIOUS
<1>3. ASSUME NEW l \in Launchers, SpawnNext(l) PROVE Ok
    BY <1>3 DEF SpawnNext, Spawn
<1> HIDE DEF Ok
<1>4. CASE ScanStep
    BY <1>1, <1>2, <1>4 DEF ScanStep, PassIsEmpty, ScanFinalizes, ScanComments, ScanChains,
       ScanSkipsOld, ScanDrops, ScanWaits, ScanRefused, ScanApplies, hostVars, Unspent
<1>5. CASE LaunchStep
    BY <1>1, <1>3, <1>5 DEF LaunchStep, ProcessorSpawns, ProcessorRefused, Refuse,
       Elsewhere, Launchers
<1>6. CASE StuckStep
    BY <1>1, <1>6 DEF StuckStep, StuckSkips, StuckIsStale, StuckIsKilled, StuckOrphan,
       hostVars, Unspent
<1>7. CASE DeadStep
    BY <1>1, <1>7 DEF DeadStep, DeadWaits, DeadIsQuiet, DeadIsStale, DeadIsRetried, hostVars,
       Unspent
<1>8. CASE OrphanStep
    BY <1>1, <1>8 DEF OrphanStep, OrphanSkips, OrphanIsClosed, OrphanIsRetried, hostVars,
       Unspent
<1>9. CASE Deciding \/ Ending
    BY <1>1, <1>9 DEF Deciding, RetryRefused, RetryIsCounted, RetryUncounted, FuseTrips,
       Ending, RetryUnannounced, GivesUp, GivesUpDead, RetryEnds, Unspent
<1>10. CASE Relaunching
    BY <1>2, <1>10, RelaunchFacts DEF RetryLaunches
<1>11. CASE AgentStep
    BY <1>1, <1>11 DEF AgentStep, Agent, Recovery, AgentReports, AgentEnds, QuotaDetected,
       RecoverFromLog
<1>12. CASE Outside
    BY <1>1, <1>12 DEF Outside, IssueCloses, FuseRests, FuseWindowExpires, Pause, Resume, Kill,
       Stop, Continue, AgentComments, AuthorOverrides
<1>13. CASE ProcessorRestarts
    BY <1>1, <1>13 DEF ProcessorRestarts, Unspent
<1> QED BY StepCases, <1>4, <1>5, <1>6, <1>7, <1>8, <1>9, <1>10, <1>11, <1>12, <1>13 DEF RetryStep

LEMMA CountStep == HostInv /\ Next => CountInv'
<1> SUFFICES ASSUME HostInv, Next PROVE CountInv'
    OBVIOUS
<1> USE Constants DEF HostInv, CountInv
<1>1. excused' \in Nat
    BY ExcusedMoves
<1>2. finals' \in [Issues -> Nat]
    <2>1. CASE ScanStep
        BY <2>1 DEF ScanStep, PassIsEmpty, ScanFinalizes, ScanComments, ScanChains,
           ScanSkipsOld, ScanDrops, ScanWaits, ScanRefused, ScanApplies, loopVars
    <2>2. CASE LaunchStep
        BY <2>2 DEF LaunchStep, ProcessorSpawns, ProcessorRefused, SpawnNext, Spawn, Refuse,
           Elsewhere, loopVars, Launchers
    <2>3. CASE StuckStep
        BY <2>3 DEF StuckStep, StuckSkips, StuckIsStale, StuckIsKilled, StuckOrphan,
           loopVars
    <2>4. CASE DeadStep
        BY <2>4 DEF DeadStep, DeadWaits, DeadIsQuiet, DeadIsStale, DeadIsRetried, loopVars
    <2>5. CASE OrphanStep
        BY <2>5 DEF OrphanStep, OrphanSkips, OrphanIsClosed, OrphanIsRetried, loopVars
    <2>6. CASE AgentStep
        BY <2>6 DEF AgentStep, Agent, Recovery, AgentReports, AgentEnds, QuotaDetected,
           RecoverFromLog, loopVars
    <2>7. CASE Outside
        BY <2>7 DEF Outside, IssueCloses, FuseRests, FuseWindowExpires, Pause, Resume, Kill, Stop,
           Continue, AgentComments, AuthorOverrides, loopVars
    <2>8. CASE ProcessorRestarts
        BY <2>8 DEF ProcessorRestarts, loopVars
    <2> QED BY StepCases, RetryKeeps, <2>1, <2>2, <2>3, <2>4, <2>5, <2>6, <2>7, <2>8
<1>3. granted' \in [Issues -> Nat] /\ allowed' \in [Issues -> Nat]
    <2> DEFINE Ok == granted' \in [Issues -> Nat] /\ allowed' \in [Issues -> Nat]
    <2> SUFFICES Ok
        OBVIOUS
    <2>1. UNCHANGED retries => Ok
        BY DEF retries
    <2>2. \A i \in Issues : Forgets(i) => Ok
        BY DEF Forgets, FuseGrants
    <2>3. \A i \in Issues : \A a : GrantedTo(i, a) \/ NotMade(i) => granted' \in [Issues -> Nat]
        BY SMTT(60) DEF GrantedTo, NotMade
    <2>4. \A i \in Issues : Slips(i) => allowed' \in [Issues -> Nat]
        BY DEF Slips, FuseGrants
    <2>5. StartupApplies => Ok
        BY SMTT(60) DEF StartupApplies, FuseGrants
    <2>6. (\/ granted' = granted \/ \E i \in Issues : \E a : GrantedTo(i, a) \/ NotMade(i))
          /\ (allowed' = allowed \/ \E i \in Issues : Slips(i)) => Ok
        BY <2>3, <2>4
    <2> HIDE DEF Ok
    <2>7. CASE ScanStep
        BY <2>1, <2>2, <2>7 DEF ScanStep, PassIsEmpty, ScanFinalizes, ScanComments, ScanChains,
           ScanSkipsOld, ScanDrops, ScanWaits, ScanRefused, ScanApplies, hostVars
    <2>8. CASE LaunchStep
        BY <2>1, <2>8 DEF LaunchStep, ProcessorSpawns, ProcessorRefused, SpawnNext, Spawn, Refuse,
           Elsewhere, Launchers
    <2>9. CASE StuckStep
        BY <2>1, <2>2, <2>9 DEF StuckStep, StuckSkips, StuckIsStale, StuckIsKilled, StuckOrphan,
           hostVars
    <2>10. CASE DeadStep
        BY <2>1, <2>2, <2>10 DEF DeadStep, DeadWaits, DeadIsQuiet, DeadIsStale, DeadIsRetried,
           hostVars
    <2>11. CASE OrphanStep
        BY <2>1, <2>2, <2>11 DEF OrphanStep, OrphanSkips, OrphanIsClosed, OrphanIsRetried, hostVars
    <2>12. CASE Deciding
        <3>1. cur.issue \in Issues
            BY DEF LoopInv
        <3>2. /\ granted' = granted \/ GrantedTo(cur.issue, cur.step)
              /\ allowed' = allowed \/ Slips(cur.issue)
            BY <2>12 DEF Deciding, RetryRefused, RetryIsCounted, RetryUncounted, FuseTrips, retries
        <3> QED BY <2>6, <3>1, <3>2
    <2>13. CASE Relaunching
        BY <2>1, <2>13, RelaunchFacts DEF RetryLaunches
    <2>14. CASE Ending
        <3>1. cur.issue \in Issues
            BY DEF LoopInv
        <3>2. (granted' = granted \/ NotMade(cur.issue)) /\ allowed' = allowed
            BY <2>14 DEF Ending, RetryUnannounced, GivesUp, GivesUpDead, RetryEnds
        <3> QED BY <2>6, <3>1, <3>2
    <2>15. CASE AgentStep
        BY <2>1, <2>15 DEF AgentStep, Agent, Recovery, AgentReports, AgentEnds, QuotaDetected,
           RecoverFromLog
    <2>16. CASE Outside
        <3>1. CASE \E i \in Issues : \/ IssueCloses(i) \/ FuseRests(i) \/ Pause(i)
                                     \/ Resume(i) \/ Kill(i) \/ Stop(i)
            BY <2>1, <2>2, <3>1 DEF IssueCloses, FuseRests, FuseWindowExpires, Pause, Resume,
               Kill, Stop
        <3>2. CASE \E i \in Issues : Continue(i)
            BY <2>1, <2>2, <3>2 DEF Continue, MovesOn, retries
        <3>3. CASE \E i \in Issues, a \in Agents : AgentComments(<<i, a>>) \/ AuthorOverrides(i, a)
            BY <2>1, <2>2, <3>3, Zenon DEF AgentComments, AuthorOverrides, ResetTo, retries
        <3> QED BY <2>16, <3>1, <3>2, <3>3 DEF Outside
    <2>17. CASE ProcessorRestarts
        BY <2>5, <2>17 DEF ProcessorRestarts
    <2> QED BY StepCases, <2>7, <2>8, <2>9, <2>10, <2>11, <2>12, <2>13, <2>14, <2>15, <2>16, <2>17
            DEF RetryStep
<1>4. faults' \in 0..MaxFaults /\ triggers' \in 0..MaxTriggers
    BY SpendingMoves DEF Fails, Works, Asked
<1> QED BY <1>1, <1>2, <1>3, <1>4

\* Whatever the step, the loop holds a tracker that it held, none or the tracker.
LEMMA SnapStep == HostInv /\ Next => snap' \in {snap, NoSnap, tracker'}
<1> SUFFICES ASSUME HostInv, Next PROVE snap' \in {snap, NoSnap, tracker'}
    OBVIOUS
<1> DEFINE Ok == snap' \in {snap, NoSnap, tracker'}
<1>1. \A pass, rest, s : Onward(pass, rest, s) /\ s \in {snap, NoSnap, tracker'} => Ok
    BY DEF Onward, Enter
<1>2. UNCHANGED snap => Ok
    OBVIOUS
<1>3. ASSUME NEW pass, NEW i, NEW a, NEW X, NEW g, NEW rest, NEW s, s \in {snap, NoSnap, tracker'},
             LaunchBegins(pass, i, a, X, g, rest, s)
      PROVE  Ok
    BY <1>1, <1>3 DEF LaunchBegins
<1>4. PassIsEmpty \/ ProcessorRestarts => Ok
    BY DEF PassIsEmpty, Enter, ProcessorRestarts
<1>5. ASSUME NEW kind, NEW i, NEW a, NEW s, s \in {snap, NoSnap, tracker'}, RetryBegins(kind, i, a, s)
      PROVE  Ok
    BY <1>5 DEF RetryBegins
<1> SUFFICES Ok
    OBVIOUS
<1> HIDE DEF Ok
<1>6. CASE ScanStep
    <2>1. ScanFinalizes \/ ScanComments \/ ScanChains => Ok
        BY <1>1, <1>2, <1>3 DEF ScanFinalizes, ScanComments, ScanChains
    <2>2. \A k \in Issues \X Agents :
             ScanSkipsOld(k) \/ ScanWaits(k) \/ ScanRefused(k) \/ ScanApplies(k) => Ok
        BY <1>1, <1>2 DEF ScanSkipsOld, ScanDrops, ScanWaits, ScanRefused, ScanGoesOn, ScanApplies
    <2> QED BY <1>4, <1>6, <2>1, <2>2 DEF ScanStep
<1>7. CASE LaunchStep
    BY <1>1, <1>2, <1>7 DEF LaunchStep, ProcessorSpawns, ProcessorRefused, Elsewhere, loopVars,
       passVars
<1>8. ASSUME NEW i \in Issues,
             StuckSkips(i) \/ StuckIsStale(i) \/ StuckIsKilled(i) \/ StuckOrphan(i)
      PROVE  Ok
    <2>1. StuckIsKilled(i) \/ StuckOrphan(i) => tracker' = tracker
        BY DEF StuckIsKilled, StuckOrphan, launchVars
    <2>2. StuckGoesOn(i) => Ok
        BY <1>1 DEF StuckGoesOn
    <2> QED BY <1>5, <1>8, <2>1, <2>2 DEF StuckSkips, StuckIsStale, StuckIsKilled, StuckOrphan
<1>9. ASSUME NEW i \in Issues,
             DeadWaits(i) \/ DeadIsQuiet(i) \/ DeadIsStale(i) \/ DeadIsRetried(i)
      PROVE  Ok
    BY <1>1, <1>5, <1>9 DEF DeadWaits, DeadIsQuiet, DeadIsStale, DeadIsRetried
<1>10. ASSUME NEW i \in Issues, OrphanSkips(i) \/ OrphanIsClosed(i) \/ OrphanIsRetried(i)
       PROVE  Ok
    BY <1>1, <1>5, <1>10 DEF OrphanSkips, OrphanIsClosed, OrphanGoesOn, OrphanIsRetried
<1>11. CASE Deciding
    BY <1>2, <1>11 DEF Deciding, RetryRefused, RetryIsCounted, RetryUncounted, FuseTrips, RetryGoesTo
<1>12. CASE Relaunching
    BY <1>3, <1>12, RelaunchFacts DEF RetryLaunches
<1>13. CASE Ending
    BY <1>1, <1>13, EndFacts DEF RetryEnds
<1>14. CASE AgentStep \/ Outside
    <2>1. snap' = snap
        BY <1>14 DEF AgentStep, Agent, Recovery, Outside, FuseRests, Pause, Resume, Kill, Stop,
           Continue, AgentComments, AuthorOverrides, loopVars, passVars
    <2> QED BY <1>2, <2>1
<1> QED BY StepCases, <1>4, <1>6, <1>7, <1>8, <1>9, <1>10, <1>11, <1>12, <1>13, <1>14
        DEF RetryStep, StuckStep, DeadStep, OrphanStep

LEMMA HeldStep == HostInv /\ Next => held' \in {held, NoSnap, tracker'}
<1> SUFFICES ASSUME HostInv, Next PROVE held' \in {held, NoSnap, tracker'}
    OBVIOUS
<1>1. CASE RetryStep
    <2>1. Deciding => held' \in {held, NoSnap, tracker'}
        BY DEF Deciding, RetryRefused, RetryIsCounted, RetryUncounted, FuseTrips
    <2>2. Relaunching => held' = held
        BY RelaunchFacts DEF RetryLaunches
    <2>3. Ending => held' = held
        BY EndFacts DEF RetryEnds
    <2> QED BY <1>1, <2>1, <2>2, <2>3 DEF RetryStep
<1>2. CASE ProcessorRestarts
    BY <1>2 DEF ProcessorRestarts
<1>3. CASE ~RetryStep /\ ~ProcessorRestarts
    <2>1. held' = held
        BY <1>3, StepCases, ZenonT(60) DEF ScanStep, LaunchStep, StuckStep, DeadStep, OrphanStep,
           AgentStep, Elsewhere, Agent, Recovery, Outside, PassIsEmpty, ScanFinalizes,
           ScanComments, ScanChains, ScanSkipsOld, ScanDrops, ScanWaits, ScanRefused,
           ScanApplies, ProcessorSpawns, ProcessorRefused, SpawnNext, StuckSkips, StuckIsStale,
           StuckIsKilled, StuckOrphan, DeadWaits, DeadIsQuiet, DeadIsStale, DeadIsRetried,
           OrphanSkips, OrphanIsClosed, OrphanIsRetried, FuseRests, Pause, Resume,
           Kill, Stop, Continue, AgentComments, AuthorOverrides, loopVars, passVars
    <2> QED BY <2>1
<1> QED BY <1>1, <1>2, <1>3

LEMMA TrackerStep == HostInv /\ Next => TrackerInv'
<1> SUFFICES ASSUME HostInv, Next PROVE OkTracker(tracker')
    BY SnapStep, HeldStep, Nothings DEF HostInv, TrackerInv
<1> USE DEF HostInv
<1>1. OkTracker(tracker) /\ OkTracker(snap) /\ OkTracker(held)
    BY DEF TrackerInv
<1>2. \A t : OkTracker(t) => \A i \in Issues : OkTracker([t EXCEPT ![i] = NoEntry])
    BY Replaced, Nothings
<1>3. \A i \in Issues, t \in Tools : OkTracker([tracker EXCEPT ![i].excl = @ \cup {t}])
    <2> TAKE i \in Issues, t \in Tools
    <2> DEFINE e == [tracker[i] EXCEPT !.excl = tracker[i].excl \cup {t}]
    <2>1. tracker[i] \in Entries /\ OkFuse(tracker[i].fuse)
        BY <1>1 DEF OkTracker
    <2>2. e \in Entries /\ e.fuse = tracker[i].fuse
        BY <2>1 DEF Entries
    <2>3. [tracker EXCEPT ![i].excl = @ \cup {t}] = [tracker EXCEPT ![i] = e]
        BY <1>1 DEF OkTracker
    <2> HIDE DEF e
    <2> QED BY <1>1, <2>1, <2>2, <2>3, Replaced
<1>4. cur.issue \in Issues /\ cur.step \in Agents \cup {NoAgent}
    BY DEF LoopInv
<1>5. ASSUME NEW i \in Issues, DeadIsStale(i) \/ StuckIsStale(i) \/ OrphanIsClosed(i) \/ Stop(i)
      PROVE  OkTracker(tracker')
    BY <1>1, <1>2, <1>5 DEF DeadIsStale, StuckIsStale, OrphanIsClosed, Stop
<1>6. ASSUME NEW l \in Launchers, SpawnNext(l) PROVE OkTracker(tracker')
    <2>1. NextPid \in Pids /\ req[l] \in ReqType
        BY <1>6, NextPidIsFree DEF SpawnNext, RequestInv
    <2>2. \A t \in Tools : OkTracker(Tracked(req[l], NextPid, t))
        <3> TAKE t \in Tools
        <3> DEFINE r == req[l]
                   e == tracker[r.issue]
                   n == [pid |-> NextPid, agent |-> r.agent, tool |-> t,
                         excl |-> e.excl \cup r.excl, fuse |-> e.fuse]
        <3>1. r.issue \in Issues /\ e \in Entries /\ OkFuse(e.fuse)
            BY <1>1, <2>1 DEF OkTracker, ReqType
        <3>2. n \in Entries /\ n.fuse = e.fuse
            BY <2>1, <3>1 DEF Entries, ReqType
        <3>3. Tracked(r, NextPid, t) = [tracker EXCEPT ![r.issue] = n]
            BY DEF Tracked
        <3> HIDE DEF r, e, n
        <3>4. OkTracker([tracker EXCEPT ![r.issue] = n])
            BY <1>1, <3>1, <3>2, Replaced
        <3>5. OkTracker(Tracked(r, NextPid, t))
            BY <3>3, <3>4, Zenon
        <3> QED BY <3>5 DEF r
    <2> QED BY <1>1, <1>6, <2>2 DEF SpawnNext, Spawn
<1>7. ScanFinalizes => OkTracker(tracker')
    <2> HAVE ScanFinalizes
    <2>1. PICK i \in Issues : i = cur.issue
        BY <1>4
    <2>2. tracker' = [tracker EXCEPT ![i] = NoEntry]
        BY <2>1 DEF ScanFinalizes
    <2> QED BY <1>1, <1>2, <2>2
<1>8. ASSUME NEW l \in Launchers, Refuse(l) PROVE OkTracker(tracker')
    <2>1. PICK i \in Issues : i = req[l].issue
        BY DEF RequestInv, ReqType
    <2>2. tracker' = tracker \/ \E t \in Tools : tracker' = [tracker EXCEPT ![i].excl = @ \cup {t}]
        BY <1>8, <2>1 DEF Refuse, NotResolved, NotProvisioned, NoToolLeft
    <2> QED BY <1>1, <1>3, <2>2
<1>9. ASSUME RetryStep PROVE OkTracker(tracker')
    <2>1. Deciding => OkTracker(tracker')
        <3>1. RetryIsCounted => OkTracker(tracker')
            BY <1>4, FuseSavedFacts DEF RetryIsCounted
        <3> QED BY <1>1, <3>1 DEF Deciding, RetryRefused, RetryUncounted, FuseTrips, launchVars
    <2>2. DeadRelaunches => OkTracker(tracker')
        <3> DEFINE e == KeptMeta(cur.issue)
        <3>1. /\ tracker[cur.issue].excl \in SUBSET Tools
              /\ tracker[cur.issue].fuse \in FuseType /\ OkFuse(tracker[cur.issue].fuse)
            BY <1>1, <1>4 DEF OkTracker, Entries, OkFuse
        <3>2. e \in Entries /\ e.fuse = tracker[cur.issue].fuse
            BY <3>1, Nothings DEF KeptMeta, Entries, FuseType
        <3> HIDE DEF e
        <3>3. OkTracker([snap EXCEPT ![cur.issue] = e])
            BY <1>1, <1>4, <3>1, <3>2, Replaced
        <3> QED BY <3>3 DEF DeadRelaunches, e
    <2>3. Relaunching /\ ~DeadRelaunches => tracker' = tracker
        BY DEF Relaunching, StuckRelaunches, LostRelaunches, OrphanRelaunches
    <2>4. Ending => OkTracker(tracker')
        BY <1>1, <1>2, <1>4, EndFacts
    <2> QED BY <1>1, <1>9, <2>1, <2>2, <2>3, <2>4 DEF RetryStep
<1>10. ASSUME NEW p \in Pids, QuotaDetected(p)
       PROVE  OkTracker(tracker')
    <2>1. proc[p].issue \in Issues /\ proc[p].tool \in Tools
        BY <1>10 DEF QuotaDetected, ProcInv, ProcType
    <2> QED BY <1>3, <1>10, <2>1 DEF QuotaDetected
<1>11. ASSUME NEW i \in Issues, FuseRests(i)
       PROVE  OkTracker(tracker')
    <2> DEFINE e == [tracker[i] EXCEPT !.fuse = NoFuse]
    <2>1. e \in Entries /\ e.fuse = NoFuse
        BY <1>1, Nothings DEF OkTracker, OkFuse, FuseType, Entries
    <2>2. tracker' = [tracker EXCEPT ![i] = e]
        BY <1>1, <1>11 DEF FuseRests, FuseWindowExpires, OkTracker
    <2> HIDE DEF e
    <2> QED BY <1>1, <2>1, <2>2, Replaced, Nothings
<1>12. ASSUME ~ScanFinalizes, ~RetryStep,
              \A l \in Launchers : ~Refuse(l) /\ ~SpawnNext(l),
              \A i \in Issues : /\ ~StuckIsStale(i) /\ ~OrphanIsClosed(i) /\ ~DeadIsStale(i)
                                /\ ~Stop(i) /\ ~FuseRests(i),
              \A p \in Pids : ~QuotaDetected(p)
       PROVE  tracker' = tracker
    BY <1>12, StepCases, ZenonT(60) DEF ScanStep, LaunchStep, StuckStep, DeadStep, OrphanStep,
       AgentStep, Elsewhere, Agent, Recovery, Outside, ProcessorRestarts,
       PassIsEmpty, ScanComments, ScanChains, ScanSkipsOld, ScanDrops, ScanWaits,
       ScanRefused, ScanApplies, ProcessorSpawns, ProcessorRefused, StuckSkips, StuckIsKilled,
       StuckOrphan, DeadWaits, DeadIsQuiet, DeadIsRetried, OrphanSkips, OrphanIsRetried,
       AgentReports, AgentEnds, RecoverFromLog, IssueCloses,
       Pause, Resume, Kill, Continue, AgentComments, AuthorOverrides, hostVars, launchVars,
       Launchers
<1> QED BY <1>1, <1>5, <1>6, <1>7, <1>8, <1>9, <1>10, <1>11, <1>12

\* Where the thread is tells what it has in hand and what it looks at.
LEMMA WhereItIs ==
    ASSUME HostInv
    PROVE  /\ pc \in Passes \cup ScanPlaces => back = "idle"
           /\ pc # "launch" => ~Busy("processor")
           /\ pc \in Passes \cup {"launch"} => cur = NoCur
           /\ pc \in ScanPlaces \cup RetryPlaces => cur.step \in Agents /\ cur.issue \in Issues
           /\ pc \in {"scan"} \cup ScanPlaces => todo \subseteq reports
           /\ pc \in Passes \ {"scan"} => todo \subseteq Issues
           /\ pc \in RetryPlaces =>
                 back \in Kinds /\ Pass(back) \in Passes \ {"scan"} /\ todo \subseteq Issues
           /\ pc = "launch" =>
                 back \in Passes /\ todo \subseteq IF back = "scan" THEN reports ELSE Issues
    BY DEF HostInv, RequestInv, LoopInv, Passes, ScanPlaces, RetryPlaces, Kinds, Pass

\* The pass goes on: the thread neither chains a completion nor launches.
LEMMA PassGoesOn ==
    ASSUME HostInv, NEW pass \in Passes, NEW rest, NEW s, Onward(pass, rest, s),
           rest \subseteq IF pass = "scan" THEN reports ELSE Issues,
           reports' = reports, back' = "idle", cur' = NoCur, ~Busy("processor")'
    PROVE  LoopInv' /\ (Busy("processor") <=> pc = "launch")'
<1>1. pc' \in Passes /\ todo' \subseteq IF pc' = "scan" THEN reports ELSE Issues
    BY OnwardTypes
<1>2. cur' \in [issue : Issues, step : Agents \cup {NoAgent}]
    BY Nothings
<1> QED BY <1>1, <1>2 DEF LoopInv, Passes, ScanPlaces, RetryPlaces

\* The pass launches an agent.
LEMMA PassLaunches ==
    ASSUME HostInv, NEW pass \in Passes, NEW rest,
           rest \subseteq IF pass = "scan" THEN reports ELSE Issues,
           pc' = "launch", back' = pass, todo' = rest,
           reports' = reports, cur' = NoCur, Busy("processor")'
    PROVE  LoopInv' /\ (Busy("processor") <=> pc = "launch")'
<1>1. cur' \in [issue : Issues, step : Agents \cup {NoAgent}]
    BY Nothings
<1> QED BY <1>1 DEF LoopInv, Passes, ScanPlaces, RetryPlaces

\* A launch that begins, or does not.
LEMMA LaunchBeginsOrNot ==
    ASSUME HostInv, NEW pass \in Passes, NEW i \in Issues, NEW a \in Agents, NEW excl,
           NEW g, NEW rest, NEW s, LaunchBegins(pass, i, a, excl, g, rest, s),
           rest \subseteq IF pass = "scan" THEN reports ELSE Issues,
           pc # "launch", reports' = reports, cur' = NoCur
    PROVE  LoopInv' /\ (Busy("processor") <=> pc = "launch")'
<1>1. CASE /\ Request("processor", i, a, excl, "processor")
           /\ pc' = "launch" /\ back' = pass /\ todo' = rest
    <2>1. Busy("processor")'
        BY <1>1, Nothings DEF Request, Busy, HostInv, RequestInv, Launchers
    <2> QED BY <1>1, <2>1, PassLaunches
<1>2. CASE req' = req /\ back' = "idle" /\ Onward(pass, rest, s)
    <2>1. ~Busy("processor")'
        BY <1>2, WhereItIs DEF Busy
    <2> QED BY <1>2, <2>1, PassGoesOn
<1> QED BY <1>1, <1>2 DEF LaunchBegins

\* A step is to be retried.
LEMMA RetryBeginsTypes ==
    ASSUME HostInv, NEW kind \in Kinds, NEW i \in Issues, NEW a \in Agents, NEW s,
           RetryBegins(kind, i, a, s), pc = Pass(kind), req' = req,
           kind = "dead" => s[i].pid # NoPid
    PROVE  LoopInv' /\ (Busy("processor") <=> pc = "launch")'
<1>1. /\ pc' = "retry" /\ back' = kind /\ cur' = [issue |-> i, step |-> a]
      /\ todo' = todo \ {i} /\ snap' = s
    BY DEF RetryBegins
<1>2. pc \in Passes \ {"scan"} /\ todo \subseteq Issues
    <2>1. pc \in Passes \ {"scan"}
        BY DEF Pass, Kinds, Passes
    <2> QED BY <2>1, WhereItIs
<1>3. a # NoAgent /\ cur'.step = a /\ cur'.issue = i
      /\ cur' \in [issue : Issues, step : Agents \cup {NoAgent}]
    BY <1>1, Nothings
<1>4. ~Busy("processor")'
    BY <1>2, WhereItIs DEF Busy, Passes
<1> QED BY <1>1, <1>2, <1>3, <1>4 DEF LoopInv, Passes, ScanPlaces, RetryPlaces, Kinds

\* The agents that a retry and a chained launch are of.
LEMMA WantedAgents ==
    ASSUME HostInv
    PROVE  /\ \A i \in Issues : Expected(i) \in Agents \cup {NoAgent}
           /\ \A i \in Issues : \A a : StillWanted(i, a) => a \in Agents
           /\ \A i \in Issues : Exclusions(i, {}) \in SUBSET Tools
           /\ pc = "relay" => cur.step + 1 \in Agents
<1>1. \A i \in Issues : Expected(i) \in Agents \cup {NoAgent}
    BY DEF HostInv, WfInv, WfType, Expected
<1>2. \A i \in Issues : \A a : StillWanted(i, a) => a \in Agents
    BY <1>1 DEF StillWanted
<1>3. \A i \in Issues : Exclusions(i, {}) \in SUBSET Tools
    BY DEF HostInv, TrackerInv, OkTracker, Entries, Exclusions
<1>4. pc = "relay" => cur.step + 1 \in Agents
    BY Constants, WhereItIs DEF HostInv, LoopInv, Agents, ScanPlaces
<1> QED BY <1>1, <1>2, <1>3, <1>4

LEMMA LoopStep == HostInv /\ Next => LoopInv' /\ (Busy("processor") <=> pc = "launch")'
<1> SUFFICES ASSUME HostInv, Next
             PROVE  LoopInv' /\ (Busy("processor") <=> pc = "launch")'
    OBVIOUS
<1> DEFINE Ok == LoopInv' /\ (Busy("processor") <=> pc = "launch")'
<1> SUFFICES Ok
    OBVIOUS
<1>1. ASSUME NEW pass \in Passes, NEW rest, NEW s, Onward(pass, rest, s),
             rest \subseteq IF pass = "scan" THEN reports ELSE Issues,
             UNCHANGED <<reports, req>>, back' = "idle", pc # "launch", cur' = NoCur
      PROVE  Ok
    <2>1. ~Busy("processor")'
        BY <1>1, WhereItIs DEF Busy
    <2> QED BY <1>1, <2>1, PassGoesOn
<1> HIDE DEF Ok
<1>2. CASE ScanStep
    <2> USE WhereItIs DEF Passes, ScanPlaces
    <2>1. PassIsEmpty => Ok
        <3> HAVE PassIsEmpty
        <3>1. Onward(pc, {}, snap) /\ pc \in Passes
            BY DEF PassIsEmpty, Onward
        <3> QED BY <1>1, <3>1 DEF PassIsEmpty, hostVars, agentVars, launchVars
    <2>2. ScanFinalizes => Ok
        BY <1>1 DEF ScanFinalizes, agentVars
    <2>3. ScanComments => Ok
        <3> HAVE ScanComments
        <3>1. CASE cur' = NoCur /\ Onward("scan", todo, snap)
            BY <1>1, <3>1 DEF ScanComments, agentVars, launchVars
        <3>2. CASE pc' = "relay" /\ UNCHANGED <<cur, todo, snap>>
            <4>1. pc = "comment" /\ UNCHANGED <<back, reports, req>>
                BY DEF ScanComments, agentVars, launchVars
            <4> QED BY <3>2, <4>1 DEF Ok, HostInv, LoopInv, RequestInv, Busy, Key, RetryPlaces
        <3> QED BY <3>1, <3>2 DEF ScanComments
    <2>4. ScanChains => Ok
        <3> HAVE ScanChains
        <3>1. cur.step + 1 \in Agents /\ cur.issue \in Issues /\ pc = "relay"
            BY WantedAgents DEF ScanChains
        <3>2. reports' = reports /\ cur' = NoCur
            BY DEF ScanChains, agentVars
        <3>3. CASE LaunchBegins("scan", cur.issue, cur.step + 1, Exclusions(cur.issue, {}),
                                guard, todo, snap)
            BY <3>1, <3>2, <3>3, LaunchBeginsOrNot DEF Ok
        <3>4. CASE UNCHANGED <<req, back>> /\ Onward("scan", todo, snap)
            BY <1>1, <3>1, <3>2, <3>4
        <3> QED BY <3>3, <3>4 DEF ScanChains
    <2>5. ASSUME NEW k \in Issues \X Agents, ScanSkipsOld(k) \/ ScanWaits(k) \/ ScanRefused(k)
          PROVE  Ok
        BY <1>1, <2>5 DEF ScanSkipsOld, ScanDrops, ScanWaits, ScanRefused, ScanTurn,
           ScanGoesOn, hostVars, agentVars, launchVars
    <2>6. ASSUME NEW k \in Issues \X Agents, ScanApplies(k)
          PROVE  Ok
        <3>1. cur' \in [issue : Issues, step : Agents \cup {NoAgent}] /\ cur'.step = k[2]
            BY <2>6 DEF ScanApplies
        <3>2. k \in reports /\ Key(cur)' = k /\ k[2] \in Agents /\ k[2] # NoAgent
            BY <2>6, Nothings DEF ScanApplies, ScanTurn, Key
        <3>3. todo' \subseteq reports' /\ back' = "idle" /\ ~Busy("processor")'
            BY <2>6 DEF ScanApplies, ScanTurn, agentVars, launchVars, Busy
        <3>4. /\ pc' = IF k[2] = NumSteps THEN "done" ELSE "comment"
              /\ reports' = reports
            BY <2>6 DEF ScanApplies, agentVars
        <3>5. k[2] # NumSteps => k[2] < NumSteps
            BY <3>2, Constants DEF Agents
        <3> QED BY <3>1, <3>2, <3>3, <3>4, <3>5 DEF Ok, LoopInv, RetryPlaces
    <2> QED BY <1>2, <2>1, <2>2, <2>3, <2>4, <2>5, <2>6 DEF ScanStep
<1>3. CASE LaunchStep
    <2>1. ASSUME ProcessorSpawns \/ ProcessorRefused
          PROVE  Ok
        <3>1. /\ pc = "launch" /\ Onward(back, todo, snap) /\ back' = "idle"
              /\ reports' = reports /\ cur' = cur /\ req' = [req EXCEPT !["processor"] = NoReq]
            BY <2>1 DEF ProcessorSpawns, ProcessorRefused, SpawnNext, Spawn, Refuse, agentVars
        <3>2. ~Busy("processor")' /\ cur' = NoCur
            BY <3>1, WhereItIs, Nothings DEF Busy, HostInv, RequestInv, Launchers
        <3> QED BY <3>1, <3>2, WhereItIs, PassGoesOn DEF Ok
    <2>2. ASSUME NEW l \in Launchers, Elsewhere(l)
          PROVE  Ok
        <3>1. /\ UNCHANGED <<pc, back, todo, cur, reports, snap>>
              /\ req' = [req EXCEPT ![l] = NoReq] /\ l # "processor"
            BY <2>2 DEF Elsewhere, SpawnNext, Spawn, Refuse, agentVars, loopVars, passVars
        <3>2. req'["processor"] = req["processor"]
            BY <3>1 DEF HostInv, RequestInv, Launchers
        <3> QED BY <3>1, <3>2 DEF Ok, HostInv, LoopInv, RequestInv, Busy, Key
    <2> QED BY <1>3, <2>1, <2>2 DEF LaunchStep
<1>4. ASSUME NEW i \in Issues,
             StuckSkips(i) \/ StuckIsStale(i) \/ StuckIsKilled(i) \/ StuckOrphan(i)
      PROVE  Ok
    <2>1. pc = "stuck" /\ todo \ {i} \subseteq Issues /\ cur = NoCur /\ back = "idle"
        BY <1>4, WhereItIs DEF StuckSkips, StuckIsStale, StuckIsKilled, StuckOrphan, StuckTurn,
           Passes
    <2>2. reports' = reports /\ req' = req
        BY <1>4 DEF StuckSkips, StuckIsStale, StuckIsKilled, StuckOrphan, hostVars, agentVars,
           launchVars
    <2>3. CASE StuckGoesOn(i) /\ UNCHANGED <<back, cur>>
        BY <1>1, <2>1, <2>2, <2>3 DEF StuckGoesOn, Passes
    <2>4. CASE RetryBegins("stuck", i, StuckAgent(i), tracker) /\ StillWanted(i, StuckAgent(i))
        BY <2>1, <2>2, <2>4, WantedAgents, RetryBeginsTypes DEF Kinds, Pass, Ok
    <2>5. CASE RetryBegins("lost", i, Expected(i), tracker) /\ StillWanted(i, StuckAgent(i))
        <3>1. Expected(i) \in Agents
            BY <2>5, WantedAgents DEF StillWanted
        <3> QED BY <2>1, <2>2, <2>5, <3>1, RetryBeginsTypes DEF Kinds, Pass, Ok
    <2> QED BY <1>4, <2>3, <2>4, <2>5 DEF StuckSkips, StuckIsStale, StuckIsKilled, StuckOrphan
<1>5. ASSUME NEW i \in Issues,
             DeadWaits(i) \/ DeadIsQuiet(i) \/ DeadIsStale(i) \/ DeadIsRetried(i)
      PROVE  Ok
    <2>1. pc = "dead" /\ todo \ {i} \subseteq Issues /\ cur = NoCur /\ back = "idle"
        BY <1>5, WhereItIs DEF DeadWaits, DeadIsQuiet, DeadIsStale, DeadIsRetried, DeadTurn,
           Overdue, Passes
    <2>2. CASE DeadWaits(i) \/ DeadIsQuiet(i) \/ DeadIsStale(i)
        BY <1>1, <2>1, <2>2 DEF DeadWaits, DeadIsQuiet, DeadIsStale, hostVars, agentVars,
           launchVars, Passes
    <2>3. CASE DeadIsRetried(i)
        <3>1. snap[i].agent \in Agents /\ snap[i].pid # NoPid
            BY <2>3, WantedAgents DEF DeadIsRetried, Overdue, Missing
        <3>2. req' = req /\ RetryBegins("dead", i, snap[i].agent, snap)
            BY <2>3 DEF DeadIsRetried, launchVars
        <3> QED BY <2>1, <3>1, <3>2, RetryBeginsTypes DEF Kinds, Pass, Ok
    <2> QED BY <1>5, <2>2, <2>3
<1>6. ASSUME NEW i \in Issues, OrphanSkips(i) \/ OrphanIsClosed(i) \/ OrphanIsRetried(i)
      PROVE  Ok
    <2>1. pc = "orphan" /\ todo \ {i} \subseteq Issues /\ cur = NoCur /\ back = "idle"
        BY <1>6, WhereItIs DEF OrphanSkips, OrphanIsClosed, OrphanIsRetried, OrphanTurn, Passes
    <2>2. CASE OrphanSkips(i) \/ OrphanIsClosed(i)
        BY <1>1, <2>1, <2>2 DEF OrphanSkips, OrphanIsClosed, OrphanGoesOn, hostVars, agentVars,
           launchVars, Passes
    <2>3. CASE OrphanIsRetried(i)
        <3>1. Expected(i) \in Agents
            BY <2>3, WantedAgents DEF OrphanIsRetried, Awaited
        <3>2. req' = req /\ RetryBegins("orphan", i, Expected(i), NoSnap)
            BY <2>3 DEF OrphanIsRetried, launchVars
        <3> QED BY <2>1, <3>1, <3>2, RetryBeginsTypes DEF Kinds, Pass, Ok
    <2> QED BY <1>6, <2>2, <2>3
<1>7. CASE Deciding
    <2>1. /\ pc \in RetryPlaces /\ req' = req /\ UNCHANGED <<reports, back, cur, todo, snap>>
          /\ pc' \in RetryPlaces
        BY <1>7, Zenon DEF Deciding, RetryRefused, RetryIsCounted, RetryUncounted, FuseTrips, RetryGoesTo,
           RetryPlaces, agentVars, launchVars
    <2> QED BY <2>1 DEF Ok, HostInv, LoopInv, RequestInv, Busy, Key, Passes, ScanPlaces, RetryPlaces
<1>8. CASE Relaunching
    <2>1. PICK named, g, s : RetryLaunches(named, g, s) /\ pc = "alert"
        BY <1>8, RelaunchFacts
    <2>2. /\ cur.issue \in Issues /\ cur.step \in Agents /\ todo \subseteq Issues
          /\ Pass(back) \in Passes \ {"scan"}
        BY <2>1, WhereItIs DEF RetryPlaces
    <2>3. reports' = reports /\ cur' = NoCur
        BY <2>1 DEF RetryLaunches, agentVars
    <2> QED BY <2>1, <2>2, <2>3, LaunchBeginsOrNot DEF RetryLaunches, Ok
<1>9. CASE Ending
    <2>1. PICK s : RetryEnds(s) /\ pc \in {"alert", "giveup"}
        BY <1>9, EndFacts
    <2>2. todo \subseteq Issues /\ Pass(back) \in Passes \ {"scan"} /\ pc # "launch"
        BY <2>1, WhereItIs DEF RetryPlaces
    <2> QED BY <1>1, <2>1, <2>2 DEF RetryEnds, agentVars
<1>10. CASE AgentStep \/ Outside
    <2>1. UNCHANGED loopVars
        BY <1>10 DEF AgentStep, Agent, Recovery, Outside, FuseRests, Pause, Resume, Kill, Stop,
           Continue, AgentComments, AuthorOverrides
    <2>2. req'["processor"] = req["processor"]
        <3>1. \/ req' = req
              \/ \E l \in Launchers \ {"processor"} : \E i, a, X, h : Request(l, i, a, X, h)
            <4>1. CASE AgentStep
                BY <4>1 DEF AgentStep, Agent, Recovery, AgentReports, AgentEnds, QuotaDetected,
                   RecoverFromLog, Launchers, launchVars
            <4>2. CASE \E i \in Issues : \/ IssueCloses(i) \/ FuseRests(i) \/ Pause(i)
                                         \/ Resume(i) \/ Kill(i) \/ Stop(i)
                BY <4>2 DEF IssueCloses, FuseRests, FuseWindowExpires, Pause, Resume, Kill, Stop,
                   launchVars
            <4>3. CASE \E i \in Issues : Continue(i)
                BY <4>3 DEF Continue, Launchers
            <4>4. CASE \E i \in Issues, a \in Agents : AgentComments(<<i, a>>) \/ AuthorOverrides(i, a)
                BY <4>4 DEF AgentComments, AuthorOverrides, WebhookLaunches, WebhookRequests,
                   WebhookRefuses, Launchers
            <4> QED BY <1>10, <4>1, <4>2, <4>3, <4>4 DEF Outside
        <3> QED BY <3>1 DEF Request, HostInv, RequestInv, Launchers
    <2>3. reports \subseteq reports'
        BY <1>10 DEF AgentStep, Agent, Recovery, AgentReports, AgentEnds, QuotaDetected,
           RecoverFromLog, Outside, IssueCloses, FuseRests, FuseWindowExpires, Pause, Resume, Kill,
           Stop, Continue, AgentComments, AuthorOverrides, agentVars
    <2>4. UNCHANGED <<pc, back, todo, cur, snap>>
        BY <2>1 DEF loopVars, passVars
    <2> QED BY <2>2, <2>3, <2>4 DEF Ok, HostInv, LoopInv, RequestInv, Busy, Key
<1>11. CASE ProcessorRestarts
    <2>1. ~Busy("processor")'
        BY <1>11, Nothings DEF ProcessorRestarts, Busy, HostInv, RequestInv, Launchers
    <2> QED BY <1>11, <2>1, Nothings DEF ProcessorRestarts, Ok, LoopInv, Passes, ScanPlaces, RetryPlaces
<1> QED BY StepCases, <1>2, <1>3, <1>4, <1>5, <1>6, <1>7, <1>8, <1>9, <1>10, <1>11
        DEF StuckStep, DeadStep, OrphanStep, RetryStep

\* Whoever requests a launch, requests it of an agent of an issue.
LEMMA RequestMoves ==
    HostInv /\ Next =>
       \/ req' = req
       \/ \E l \in Launchers : req' = [req EXCEPT ![l] = NoReq]
       \/ \E l \in Launchers, i \in Issues, a \in Agents, X \in SUBSET Tools, h \in Hosts :
             Request(l, i, a, X, h) /\ (l = "processor" => h = "processor")
       \/ ProcessorRestarts
<1> SUFFICES ASSUME HostInv, Next,
                    req' # req, ~ProcessorRestarts,
                    \A l \in Launchers : req' # [req EXCEPT ![l] = NoReq]
             PROVE  \E l \in Launchers, i \in Issues, a \in Agents, X \in SUBSET Tools, h \in Hosts :
                       Request(l, i, a, X, h) /\ (l = "processor" => h = "processor")
    OBVIOUS
<1> DEFINE Ok == \E l \in Launchers, i \in Issues, a \in Agents, X \in SUBSET Tools, h \in Hosts :
                       Request(l, i, a, X, h) /\ (l = "processor" => h = "processor")
<1> SUFFICES Ok
    OBVIOUS
<1>1. ASSUME NEW l \in Launchers, NEW i \in Issues, NEW a \in Agents, NEW X \in SUBSET Tools,
             NEW h \in Hosts, Request(l, i, a, X, h), l = "processor" => h = "processor"
      PROVE  Ok
    BY <1>1
<1> HIDE DEF Ok
<1>2. \A i \in Issues, X \in SUBSET Tools : Exclusions(i, X) \in SUBSET Tools
    BY DEF HostInv, TrackerInv, OkTracker, Entries, Exclusions
<1>3. "processor" \in Launchers \cap Hosts /\ "webhook" \in Launchers \cap Hosts
      /\ "bot" \in Launchers \cap Hosts /\ "watchdog" \in Launchers
    BY DEF Launchers, Hosts
<1>4. ASSUME NEW i \in Issues, NEW a \in Agents, NEW X \in SUBSET Tools, NEW pass, NEW g, NEW rest,
             NEW s, LaunchBegins(pass, i, a, X, g, rest, s)
      PROVE  Ok
    <2>1. Request("processor", i, a, X, "processor")
        BY <1>4 DEF LaunchBegins
    <2> QED BY <1>1, <1>3, <2>1
<1>5. ScanChains => Ok
    <2> HAVE ScanChains
    <2>1. cur.step + 1 \in Agents /\ cur.issue \in Issues /\ Exclusions(cur.issue, {}) \in SUBSET Tools
        BY WantedAgents, WhereItIs DEF ScanChains, ScanPlaces
    <2> QED BY <1>4, <2>1 DEF ScanChains
<1>6. Relaunching => Ok
    <2> HAVE Relaunching
    <2>1. PICK named, g, s : /\ RetryLaunches(named, g, s) /\ pc = "alert"
                             /\ named \subseteq FailedTool(cur.issue) \cup snap[cur.issue].excl
        BY RelaunchFacts
    <2>2. cur.issue \in Issues /\ cur.step \in Agents
        BY <2>1, WhereItIs DEF RetryPlaces
    <2>3. named \in SUBSET Tools
        BY <2>1, <2>2 DEF FailedTool, HostInv, TrackerInv, OkTracker, Entries
    <2>4. Exclusions(cur.issue, named) \in SUBSET Tools
        BY <1>2, <2>2, <2>3
    <2> QED BY <1>4, <2>1, <2>2, <2>4 DEF RetryLaunches
<1>7. ASSUME NEW p \in Pids, QuotaDetected(p) PROVE Ok
    <2> DEFINE i == proc[p].issue
    <2>1. i \in Issues /\ proc[p].agent \in Agents /\ proc[p].host \in Hosts /\ proc[p].tool \in Tools
        BY <1>7 DEF QuotaDetected, HostInv, ProcInv, ProcType
    <2>2. tracker'[i].excl \in SUBSET Tools
        BY <2>1, TrackerStep DEF TrackerInv, OkTracker, Entries
    <2>3. Request("watchdog", i, proc[p].agent, tracker'[i].excl, proc[p].host)
        BY <1>7 DEF QuotaDetected
    <2>4. PICK X \in SUBSET Tools : X = tracker'[i].excl
        BY <2>2
    <2> QED BY <1>1, <1>3, <2>1, <2>3, <2>4
<1>8. ASSUME NEW i \in Issues, Continue(i) PROVE Ok
    <2>1. ContinueAgent(i) \in Agents
        BY WantedAgents, <1>8, LatestReportIsAStep, Constants
           DEF Continue, ContinueAgent, NextByReports, Agents, NoAgent
    <2>2. {} \in SUBSET Tools
        OBVIOUS
    <2> QED BY <1>1, <1>3, <1>8, <2>1, <2>2 DEF Continue
<1>9. ASSUME NEW i \in Issues, NEW a \in Agents, WebhookRequests(i, a) \/ WebhookRefuses(i, a)
      PROVE  Ok
    <2>1. Request("webhook", i, a, Exclusions(i, {}), "webhook")
        BY <1>9 DEF WebhookRequests, WebhookRefuses
    <2>2. Exclusions(i, {}) \in SUBSET Tools
        BY WantedAgents
    <2> QED BY <1>1, <1>3, <2>1, <2>2
<1>10. ASSUME NEW i \in Issues, NEW a \in Agents, AgentComments(<<i, a>>) \/ AuthorOverrides(i, a)
       PROVE  Ok
    <2>1. CASE AgentComments(<<i, a>>)
        <3>1. a + 1 \in Agents /\ WebhookLaunches(i, a + 1)
            BY <2>1, Constants DEF AgentComments, Agents
        <3> QED BY <1>9, <3>1 DEF WebhookLaunches
    <2>2. CASE AuthorOverrides(i, a)
        BY <1>9, <2>2 DEF AuthorOverrides, WebhookLaunches
    <2> QED BY <1>10, <2>1, <2>2
<1>11. ~LaunchStep
    BY <1>3, SMTT(60) DEF LaunchStep, ProcessorSpawns, ProcessorRefused, Elsewhere, SpawnNext, Spawn,
       Refuse
<1>12. ~Deciding /\ ~Ending
    BY EndFacts DEF Deciding, RetryRefused, RetryIsCounted, RetryUncounted, FuseTrips, RetryEnds,
       launchVars
<1>13. ASSUME ~ScanChains, ~Relaunching,
              \A i \in Issues : ~Continue(i),
              \A i \in Issues, a \in Agents : ~AgentComments(<<i, a>>) /\ ~AuthorOverrides(i, a),
              \A p \in Pids : ~QuotaDetected(p)
       PROVE  req' = req
    BY <1>11, <1>12, <1>13, StepCases, ZenonT(60) DEF RetryStep, ScanStep, StuckStep, DeadStep,
       OrphanStep, AgentStep, Agent, Recovery, Outside, PassIsEmpty, ScanFinalizes,
       ScanComments, ScanSkipsOld, ScanDrops, ScanWaits, ScanRefused, ScanApplies,
       StuckSkips, StuckIsStale, StuckIsKilled, StuckOrphan, DeadWaits, DeadIsQuiet, DeadIsStale,
       DeadIsRetried, OrphanSkips, OrphanIsClosed, OrphanIsRetried, AgentReports, AgentEnds,
       RecoverFromLog, IssueCloses, FuseRests, FuseWindowExpires, Pause, Resume, Kill, Stop,
       hostVars, launchVars
<1> QED BY <1>5, <1>6, <1>7, <1>8, <1>10, <1>13

LEMMA RequestStep == HostInv /\ Next => RequestInv'
<1> SUFFICES ASSUME HostInv, Next PROVE RequestInv'
    OBVIOUS
<1>1. guard' \in [Guarded -> SUBSET (Issues \X Agents)]
    <2> DEFINE Is(g) == g \in [Guarded -> SUBSET (Issues \X Agents)]
               Ok == Is(guard')
    <2> SUFFICES Ok
        OBVIOUS
    <2>1. Is(guard)
        BY DEF HostInv, RequestInv
    <2>2. \A g, l, i, a : Is(g) => Is(Cooled(g, l, i, a))
        BY DEF Cooled
    <2>3. \A l, i : Is(ClearGuard(l, i))
        BY <2>1 DEF ClearGuard
    <2>4. ASSUME NEW l \in Launchers, SpawnNext(l) PROVE Ok
        <3>1. req[l] \in ReqType /\ req[l].agent \in Agents
            BY <2>4 DEF SpawnNext, Spawn, Busy, HostInv, RequestInv, ReqType
        <3>2. guard' \in {guard, RecordLaunch(req[l].host, req[l].issue, req[l].agent)}
            BY <2>4 DEF SpawnNext, Spawn
        <3> QED BY <3>1, <3>2 DEF RecordLaunch, HostInv, RequestInv, ReqType
    <2>5. ProcessorRestarts => Ok
        BY DEF ProcessorRestarts, HostInv, RequestInv
    <2> HIDE DEF Is
    <2>6. ASSUME NEW pass, NEW i, NEW a, NEW X, NEW g, NEW rest, NEW s, Is(g),
                 LaunchBegins(pass, i, a, X, g, rest, s)
          PROVE  Ok
        BY <2>2, <2>6 DEF LaunchBegins
    <2>7. ASSUME NEW i, NEW a, WebhookRequests(i, a) \/ WebhookRefuses(i, a) PROVE Ok
        BY <2>1, <2>2, <2>7 DEF WebhookRequests, WebhookRefuses
    <2>8. ScanChains => Ok
        BY <2>1, <2>6 DEF ScanChains
    <2>9. Relaunching => Ok
        BY <2>1, <2>3, <2>6, RelaunchFacts DEF RetryLaunches, Forgotten
    <2>10. ASSUME NEW i \in Issues, OrphanIsClosed(i) PROVE Ok
        BY <2>1, <2>3, <2>10 DEF OrphanIsClosed, Forgotten
    <2>11. ASSUME NEW i \in Issues, NEW a \in Agents, AgentComments(<<i, a>>) \/ AuthorOverrides(i, a)
           PROVE  Ok
        BY <2>7, <2>11 DEF AgentComments, AuthorOverrides, WebhookLaunches
    <2>12. Deciding \/ Ending => guard' = guard
        BY EndFacts DEF Deciding, RetryRefused, RetryIsCounted, RetryUncounted, FuseTrips, RetryEnds,
           launchVars
    <2>13. ASSUME ~ScanChains, ~ProcessorRestarts, ~Relaunching, ~Deciding, ~Ending,
                  \A l \in Launchers : ~SpawnNext(l),
                  \A i \in Issues : ~OrphanIsClosed(i),
                  \A i \in Issues, a \in Agents : ~AgentComments(<<i, a>>) /\ ~AuthorOverrides(i, a)
           PROVE  guard' = guard
        BY <2>13, StepCases, ZenonT(60) DEF RetryStep, ScanStep, LaunchStep, StuckStep, DeadStep,
           OrphanStep, AgentStep, Elsewhere, Agent, Recovery, Outside, PassIsEmpty,
           ScanFinalizes, ScanComments, ScanSkipsOld, ScanDrops, ScanWaits, ScanRefused,
           ScanApplies, ProcessorSpawns, ProcessorRefused, Refuse, StuckSkips, StuckIsStale,
           StuckIsKilled, StuckOrphan, DeadWaits, DeadIsQuiet, DeadIsStale, DeadIsRetried,
           OrphanSkips, OrphanIsRetried, AgentReports, AgentEnds,
           QuotaDetected, RecoverFromLog, IssueCloses, FuseRests, FuseWindowExpires, Pause,
           Resume, Kill, Stop, Continue, hostVars, launchVars, Launchers
    <2> QED BY <2>1, <2>4, <2>5, <2>8, <2>9, <2>10, <2>11, <2>12, <2>13
<1>2. req' \in [Launchers -> ReqType] /\ req'["processor"].host = "processor"
    <2>1. CASE \E l \in Launchers : req' = [req EXCEPT ![l] = NoReq]
        BY <2>1, Nothings DEF HostInv, RequestInv, Launchers
    <2>2. CASE \E l \in Launchers, i \in Issues, a \in Agents, X \in SUBSET Tools, h \in Hosts :
                  Request(l, i, a, X, h) /\ (l = "processor" => h = "processor")
        BY <2>2 DEF HostInv, RequestInv, Launchers, Request, ReqType
    <2>3. CASE ProcessorRestarts
        BY <2>3, Nothings DEF ProcessorRestarts, HostInv, RequestInv, Launchers
    <2>4. CASE req' = req
        BY <2>4 DEF HostInv, RequestInv
    <2> QED BY <2>1, <2>2, <2>3, <2>4, RequestMoves
<1> QED BY <1>1, <1>2, LoopStep DEF RequestInv

\* What was done with is saved by a step that ends a scan.
LEMMA SavedStep == Next => saved' \in {saved, seen'}
<1> SUFFICES ASSUME Next PROVE saved' \in {saved, seen'}
    OBVIOUS
<1> DEFINE Ok == saved' \in {saved, seen'}
<1> SUFFICES Ok
    OBVIOUS
<1>1. \A pass, rest, s : Onward(pass, rest, s) => Ok
    BY DEF Onward, Enter
<1>2. saved' = saved => Ok
    OBVIOUS
<1>3. PassIsEmpty => Ok
    BY DEF PassIsEmpty, Enter
<1> HIDE DEF Ok
<1>4. CASE ScanStep
    <2>1. ASSUME NEW k \in Issues \X Agents,
                 ScanSkipsOld(k) \/ ScanWaits(k) \/ ScanRefused(k) \/ ScanApplies(k)
          PROVE  Ok
        BY <1>1, <1>2, <2>1 DEF ScanSkipsOld, ScanDrops, ScanWaits, ScanRefused, ScanGoesOn,
           ScanApplies
    <2>2. ScanFinalizes \/ ScanComments \/ ScanChains => Ok
        BY <1>1, <1>2 DEF ScanFinalizes, ScanComments, ScanChains, LaunchBegins
    <2> QED BY <1>3, <1>4, <2>1, <2>2 DEF ScanStep
<1>5. CASE LaunchStep
    BY <1>1, <1>2, <1>5 DEF LaunchStep, ProcessorSpawns, ProcessorRefused, Elsewhere, loopVars,
       passVars
<1>6. CASE StuckStep
    BY <1>1, <1>2, <1>6 DEF StuckStep, StuckSkips, StuckIsStale, StuckGoesOn, StuckIsKilled,
       StuckOrphan, RetryBegins
<1>7. CASE DeadStep
    BY <1>1, <1>2, <1>7 DEF DeadStep, DeadWaits, DeadIsQuiet, DeadIsStale, DeadIsRetried,
       RetryBegins
<1>8. CASE OrphanStep
    BY <1>1, <1>2, <1>8 DEF OrphanStep, OrphanSkips, OrphanIsClosed, OrphanGoesOn,
       OrphanIsRetried, RetryBegins
<1>9. CASE RetryStep
    <2>1. Deciding => saved' = saved
        BY DEF Deciding, RetryRefused, RetryIsCounted, RetryUncounted, FuseTrips, RetryGoesTo
    <2>2. Relaunching => Ok
        BY <1>1, <1>2, RelaunchFacts DEF RetryLaunches, LaunchBegins
    <2>3. Ending => Ok
        BY <1>1, EndFacts DEF RetryEnds
    <2> QED BY <1>2, <1>9, <2>1, <2>2, <2>3 DEF RetryStep
<1>10. CASE AgentStep \/ Outside \/ ProcessorRestarts
    <2>1. saved' = saved
        BY <1>10 DEF AgentStep, Agent, Recovery, Outside, FuseRests, Pause, Resume, Kill, Stop,
           Continue, AgentComments, AuthorOverrides, loopVars, passVars, ProcessorRestarts
    <2> QED BY <1>2, <2>1
<1> QED BY StepCases, <1>4, <1>5, <1>6, <1>7, <1>8, <1>9, <1>10

LEMMA MissUpdated ==
    ASSUME NEW f \in [Pids -> 0..MissMax], NEW p, NEW n, p \in Pids => n \in 0..MissMax
    PROVE  [f EXCEPT ![p] = n] \in [Pids -> 0..MissMax]
    OBVIOUS

LEMMA MemoryStep == HostInv /\ Next => MemoryInv'
<1> SUFFICES ASSUME HostInv, Next PROVE MemoryInv'
    OBVIOUS
<1>1. reports \subseteq reports'
    BY StepCases, RetryKeeps, ZenonT(60) DEF ScanStep, LaunchStep, StuckStep, DeadStep, OrphanStep,
       AgentStep, Elsewhere, Agent, Recovery, Outside, ProcessorRestarts, PassIsEmpty,
       ScanFinalizes, ScanComments, ScanChains, ScanSkipsOld, ScanDrops, ScanWaits,
       ScanRefused, ScanApplies, ProcessorSpawns, ProcessorRefused, SpawnNext, Spawn,
       Refuse, StuckSkips, StuckIsStale, StuckIsKilled, StuckOrphan, DeadWaits, DeadIsQuiet,
       DeadIsStale, DeadIsRetried, OrphanSkips, OrphanIsClosed, OrphanIsRetried,
       AgentReports, AgentEnds, QuotaDetected, RecoverFromLog, IssueCloses,
       FuseRests, FuseWindowExpires, Pause, Resume, Kill, Stop, Continue, AgentComments,
       AuthorOverrides, hostVars, agentVars, Launchers
<1>2. dead' \subseteq Pids /\ miss' \in [Pids -> 0..MissMax]
    <2> USE Constants, Nothings DEF HostInv, MemoryInv
    <2>1. CASE \E l \in Launchers : SpawnNext(l)
        BY <2>1, NextPidIsFree DEF SpawnNext
    <2>2. ASSUME NEW i \in Issues, DeadWaits(i)
          PROVE  dead' \subseteq Pids /\ miss' \in [Pids -> 0..MissMax]
        <3> DEFINE p == snap[i].pid
        <3>1. dead' = dead /\ (Missing(i) => miss[p] + 1 < MissMax)
            BY <2>2 DEF DeadWaits
        <3>2. miss' = [miss EXCEPT ![p] = IF Missing(i) THEN miss[p] + 1 ELSE 0]
            BY <2>2 DEF DeadWaits
        <3>3. p \in Pids => miss[p] \in 0..MissMax
            OBVIOUS
        <3>4. p \in Pids => (IF Missing(i) THEN miss[p] + 1 ELSE 0) \in 0..MissMax
            BY <3>1, <3>3
        <3> QED BY <3>1, <3>2, <3>4, MissUpdated
    <2>3. ASSUME NEW i \in Issues, DeadIsQuiet(i) \/ DeadIsRetried(i)
          PROVE  dead' \subseteq Pids /\ miss' \in [Pids -> 0..MissMax]
        <3> DEFINE p == snap[i].pid
        <3>1. dead' = dead /\ Overdue(i)
            BY <2>3 DEF DeadIsQuiet, DeadIsRetried
        <3>2. miss' = [miss EXCEPT ![p] = IF miss[p] < MissMax THEN miss[p] + 1 ELSE miss[p]]
            BY <3>1 DEF Overdue
        <3>3. p \in Pids => miss[p] \in 0..MissMax
            OBVIOUS
        <3>4. p \in Pids => (IF miss[p] < MissMax THEN miss[p] + 1 ELSE miss[p]) \in 0..MissMax
            BY <3>3
        <3> QED BY <3>1, <3>2, <3>4, MissUpdated
    <2>4. ASSUME NEW p \in Pids, Reported(p)
          PROVE  dead' \subseteq Pids /\ miss' \in [Pids -> 0..MissMax]
        BY <2>4 DEF Reported
    <2>5. ASSUME NEW i \in Issues, DeadIsStale(i)
          PROVE  dead' \subseteq Pids /\ miss' \in [Pids -> 0..MissMax]
        <3>1. snap[i].pid \in Pids
            BY <2>5 DEF DeadIsStale, Missing, TrackerInv, OkTracker, Entries
        <3> QED BY <2>4, <2>5, <3>1 DEF DeadIsStale
    <2>6. CASE DeadRelaunches \/ GivesUpDead
        <3>1. cur.issue \in Issues /\ snap[cur.issue].pid # NoPid
            BY <2>6 DEF LoopInv, DeadRelaunches, GivesUpDead, RetryPlaces
        <3>2. snap[cur.issue].pid \in Pids
            BY <3>1 DEF TrackerInv, OkTracker, Entries
        <3> QED BY <2>4, <2>6, <3>2 DEF DeadRelaunches, GivesUpDead
    <2>7. CASE ProcessorRestarts
        BY <2>7 DEF ProcessorRestarts
    <2>8. RetryStep /\ ~DeadRelaunches /\ ~GivesUpDead => UNCHANGED <<dead, miss>>
        BY DEF RetryStep, Deciding, RetryRefused, RetryIsCounted, RetryUncounted, FuseTrips,
           Relaunching, StuckRelaunches, LostRelaunches, OrphanRelaunches, Ending,
           RetryUnannounced, GivesUp, memoryVars
    <2>9. ASSUME \A l \in Launchers : ~SpawnNext(l),
                 \A i \in Issues : /\ ~DeadWaits(i) /\ ~DeadIsQuiet(i)
                                   /\ ~DeadIsStale(i) /\ ~DeadIsRetried(i),
                 ~DeadRelaunches, ~GivesUpDead, ~ProcessorRestarts
           PROVE  UNCHANGED <<dead, miss>>
        BY <2>8, <2>9, StepCases, ZenonT(60) DEF ScanStep, LaunchStep, StuckStep, DeadStep,
           OrphanStep, AgentStep, Elsewhere, Agent, Recovery, Outside, PassIsEmpty, ScanFinalizes,
           ScanComments, ScanChains, ScanSkipsOld, ScanDrops, ScanWaits, ScanRefused,
           ScanApplies, ProcessorSpawns, ProcessorRefused, StuckSkips,
           StuckIsStale, StuckIsKilled, StuckOrphan, OrphanSkips, OrphanIsClosed,
           OrphanIsRetried, FuseRests, Pause, Resume, Kill, Stop, Continue,
           AgentComments, AuthorOverrides, loopVars, memoryVars, Launchers
    <2> QED BY <2>1, <2>2, <2>3, <2>5, <2>6, <2>7, <2>9
<1>3. orphaned' \subseteq Issues \X Agents /\ recent' \subseteq Issues
    <2> USE DEF HostInv, MemoryInv
    <2>1. CASE RetryStep
        <3>1. pc \in RetryPlaces => Key(cur) \in Issues \X Agents /\ cur.issue \in Issues
            BY WhereItIs DEF Key
        <3>2. Deciding => UNCHANGED <<orphaned, recent>>
            BY DEF Deciding, RetryRefused, RetryIsCounted, RetryUncounted, FuseTrips, memoryVars
        <3>3. /\ orphaned' \in {orphaned, orphaned \cup {Key(cur)}}
              /\ recent' \in {recent, recent \cup {cur.issue}}
            BY <2>1, <3>2 DEF RetryStep, Relaunching, StuckRelaunches, LostRelaunches,
               DeadRelaunches, OrphanRelaunches, Ending, RetryUnannounced, GivesUp, GivesUpDead,
               memoryVars
        <3>4. pc \in RetryPlaces
            BY <2>1, Zenon DEF RetryStep, Deciding, RetryRefused, RetryIsCounted, RetryUncounted, FuseTrips,
               Relaunching, StuckRelaunches, LostRelaunches, DeadRelaunches, OrphanRelaunches,
               Ending, RetryUnannounced, GivesUp, GivesUpDead, RetryPlaces
        <3> QED BY <3>1, <3>3, <3>4
    <2>2. ASSUME NEW i \in Issues, OrphanSkips(i) \/ OrphanIsClosed(i)
          PROVE  orphaned' \subseteq Issues \X Agents /\ recent' \subseteq Issues
        BY <2>2 DEF OrphanSkips, OrphanIsClosed
    <2>3. CASE ProcessorRestarts
        BY <2>3 DEF ProcessorRestarts
    <2>4. ASSUME \A i \in Issues : ~OrphanSkips(i) /\ ~OrphanIsClosed(i),
                 ~ProcessorRestarts, ~RetryStep
          PROVE  UNCHANGED <<orphaned, recent>>
        BY <2>4, StepCases, ZenonT(60) DEF ScanStep, LaunchStep, StuckStep, DeadStep,
           OrphanStep, AgentStep, Elsewhere, Agent, Recovery, Outside, PassIsEmpty,
           ScanFinalizes, ScanComments, ScanChains, ScanSkipsOld, ScanDrops, ScanWaits,
           ScanRefused, ScanApplies, ProcessorSpawns, ProcessorRefused, SpawnNext,
           StuckSkips, StuckIsStale, StuckIsKilled, StuckOrphan, DeadWaits, DeadIsQuiet,
           DeadIsStale, DeadIsRetried, OrphanIsRetried, FuseRests, Pause, Resume, Kill, Stop,
           Continue, AgentComments, AuthorOverrides, loopVars, memoryVars, Launchers
    <2> QED BY <2>1, <2>2, <2>3, <2>4
<1>4. applied' \subseteq reports'
    <2>1. ASSUME NEW k \in Issues \X Agents, ScanApplies(k) PROVE applied' \subseteq reports'
        BY <2>1, WhereItIs DEF ScanApplies, ScanTurn, agentVars, HostInv, MemoryInv
    <2>2. ASSUME \A k \in Issues \X Agents : ~ScanApplies(k) PROVE applied' = applied
        BY <2>2, StepCases, RetryKeeps, ZenonT(60) DEF ScanStep, LaunchStep, StuckStep, DeadStep,
           OrphanStep, AgentStep, Elsewhere, Agent, Recovery, Outside, ProcessorRestarts,
           PassIsEmpty, ScanFinalizes, ScanComments, ScanChains, ScanSkipsOld, ScanDrops,
           ScanWaits, ScanRefused, ProcessorSpawns, ProcessorRefused, SpawnNext,
           StuckSkips, StuckIsStale, StuckIsKilled, StuckOrphan, DeadWaits,
           DeadIsQuiet, DeadIsStale, DeadIsRetried, OrphanSkips, OrphanIsClosed,
           OrphanIsRetried, FuseRests, Pause, Resume, Kill, Stop, Continue,
           AgentComments, AuthorOverrides, loopVars, Launchers
    <2> QED BY <1>1, <2>1, <2>2 DEF HostInv, MemoryInv
<1>5. seen' \subseteq reports' /\ (seen \subseteq seen' \/ ProcessorRestarts)
    <2> USE DEF HostInv, MemoryInv
    <2>1. CASE ScanFinalizes \/ ScanComments
        <3>1. Key(cur) \in reports
            BY <2>1 DEF ScanFinalizes, ScanComments, LoopInv, ScanPlaces
        <3> QED BY <1>1, <2>1, <3>1 DEF ScanFinalizes, ScanComments
    <2>2. ASSUME NEW k \in Issues \X Agents, ScanSkipsOld(k) \/ ScanRefused(k)
          PROVE  seen' \subseteq reports' /\ seen \subseteq seen'
        BY <1>1, <2>2, WhereItIs DEF ScanSkipsOld, ScanRefused, ScanDrops, ScanTurn
    <2>3. CASE ProcessorRestarts
        BY <1>1, <2>3 DEF ProcessorRestarts
    <2>4. ASSUME ~ScanFinalizes, ~ScanComments, ~ProcessorRestarts,
                 \A k \in Issues \X Agents : ~ScanSkipsOld(k) /\ ~ScanRefused(k)
          PROVE  seen' = seen
        BY <2>4, StepCases, RetryKeeps, ZenonT(60) DEF ScanStep, LaunchStep, StuckStep, DeadStep,
           OrphanStep, AgentStep, Elsewhere, Agent, Recovery, Outside, PassIsEmpty,
           ScanChains, ScanWaits, ScanApplies, ProcessorSpawns, ProcessorRefused, SpawnNext,
           StuckSkips, StuckIsStale, StuckIsKilled, StuckOrphan, DeadWaits,
           DeadIsQuiet, DeadIsStale, DeadIsRetried, OrphanSkips, OrphanIsClosed,
           OrphanIsRetried, FuseRests, Pause, Resume, Kill, Stop, Continue,
           AgentComments, AuthorOverrides, loopVars, memoryVars, Launchers
    <2> QED BY <1>1, <2>1, <2>2, <2>3, <2>4
<1>6. saved' \subseteq seen'
    <2>1. CASE ProcessorRestarts
        BY <2>1 DEF ProcessorRestarts
    <2> QED BY <1>5, <2>1, SavedStep DEF HostInv, MemoryInv
<1> QED BY <1>2, <1>3, <1>4, <1>5, <1>6, SMTT(60) DEF MemoryInv

LEMMA TypesAreKept == HostInv /\ [Next]_vars => HostInv'
<1> SUFFICES ASSUME HostInv, [Next]_vars PROVE HostInv'
    OBVIOUS
<1>1. CASE Next
    BY <1>1, WfStep, ProcStep, TrackerStep, RequestStep, CountStep, LoopStep, MemoryStep DEF HostInv
<1>2. CASE UNCHANGED vars
    BY <1>2 DEF vars, hostVars, agentVars, launchVars, retries, loopVars, passVars, memoryVars,
       HostInv, WfInv, ProcInv, TrackerInv, OkTracker, RequestInv, Busy, CountInv, LoopInv, Key,
       MemoryInv
<1> QED BY <1>1, <1>2

\* Every variable has its type, the fuse of an entry is used up only when it is
\* tripped, and the thread of the processor is where `back`, `cur` and its
\* request tell: the inductive invariant of the types.
THEOREM HostTypes == Spec => []HostInv
<1>1. Init => HostInv
    BY InitTypes
<1>2. HostInv /\ [Next]_vars => HostInv'
    BY TypesAreKept
<1> QED BY <1>1, <1>2, PTL DEF Spec

-----------------------------------------------------------------------------
(* One agent at a time.                                                    *)

\* While the processor is launching an agent of an issue, others run only as
\* far as somebody else launched them.
LaunchInv == Busy("processor") => Cardinality(LiveOf(req["processor"].issue)) <= excused

\* The processor begins to launch an agent of issue i, which has none, or of
\* which a failed look finds none.
Begun(i) ==
    /\ \E a, X : Request("processor", i, a, X, "processor")
    /\ IF LiveOf(i) = {} THEN excused' = excused ELSE Fails /\ excused' = excused + 1

\* What a step does to the agents that run: one is spawned, or there are no
\* more than before.
Spawned(l) ==
    /\ \A i \in Issues :
          LiveOf(i)' = IF i = req[l].issue THEN LiveOf(i) \cup {NextPid} ELSE LiveOf(i)
    /\ excused' = IF l = "processor" THEN excused ELSE excused + 1
    /\ req' = [req EXCEPT ![l] = NoReq]

NoneSpawned ==
    /\ \A i \in Issues : LiveOf(i)' \subseteq LiveOf(i)
    /\ \/ /\ excused' = excused
          /\ req'["processor"] = req["processor"] \/ ~Busy("processor")'
       \/ \E i \in Issues : Begun(i)

LEMMA SpawnIsOne ==
    ASSUME HostInv, NEW l \in Launchers, SpawnNext(l)
    PROVE  Spawned(l)
<1> DEFINE r == req[l]
           n == NextPid
<1>1. n \in Pids /\ proc[n].st = "gone"
    BY NextPidIsFree DEF SpawnNext
<1>2. PICK t \in Tools : proc' = [proc EXCEPT ![n] = [st |-> "up", issue |-> r.issue,
                                    agent |-> r.agent, tool |-> t, host |-> r.host]]
    BY DEF SpawnNext, Spawn
<1>3. excused' = (IF l = "processor" THEN excused ELSE excused + 1)
      /\ req' = [req EXCEPT ![l] = NoReq]
    BY DEF SpawnNext, Spawn
<1> HIDE DEF r, n
<1>4. \A p \in Pids : proc'[p] = IF p = n THEN [st |-> "up", issue |-> r.issue,
                                    agent |-> r.agent, tool |-> t, host |-> r.host] ELSE proc[p]
    BY <1>1, <1>2 DEF HostInv, ProcInv
<1>5. \A i \in Issues : LiveOf(i)' = IF i = r.issue THEN LiveOf(i) \cup {n} ELSE LiveOf(i)
    BY <1>1, <1>4 DEF LiveOf, Live
<1> QED BY <1>3, <1>5 DEF Spawned, r, n

\* A scan that chains and a retry that is launched begin a launch, or none.
LEMMA LaunchIsBegun ==
    ASSUME HostInv, ScanChains \/ Relaunching
    PROVE  /\ proc' = proc
           /\ (req' = req /\ excused' = excused) \/ \E i \in Issues : Begun(i)
<1>1. ASSUME NEW i \in Issues, NEW pass, NEW a, NEW X, NEW g, NEW rest, NEW s,
             LaunchBegins(pass, i, a, X, g, rest, s)
      PROVE  (req' = req /\ excused' = excused) \/ Begun(i)
    BY <1>1 DEF LaunchBegins, GuardAllows, AgentFound, Begun
<1>2. CASE ScanChains
    <2>1. cur.issue \in Issues
        BY <1>2, WhereItIs DEF ScanChains, ScanPlaces
    <2>2. /\ proc' = proc
          /\ \/ req' = req /\ excused' = excused
             \/ LaunchBegins("scan", cur.issue, cur.step + 1, Exclusions(cur.issue, {}),
                             guard, todo, snap)
        BY <1>2 DEF ScanChains, agentVars
    <2> QED BY <1>1, <2>1, <2>2
<1>3. CASE Relaunching
    <2>1. PICK named, g, s : RetryLaunches(named, g, s) /\ pc = "alert"
        BY <1>3, RelaunchFacts
    <2>2. cur.issue \in Issues
        BY <2>1, WhereItIs DEF RetryPlaces
    <2>3. /\ proc' = proc
          /\ LaunchBegins(Pass(back), cur.issue, cur.step, Exclusions(cur.issue, named), g, todo, s)
        BY <2>1 DEF RetryLaunches, agentVars
    <2> QED BY <1>1, <2>2, <2>3
<1> QED BY <1>2, <1>3

LEMMA OthersSpawnNone ==
    ASSUME HostInv, Next, \A l \in Launchers : ~SpawnNext(l)
    PROVE  NoneSpawned
<1> DEFINE Fewer == \A p \in Pids : Live(p)' => Live(p) /\ proc[p].issue = proc'[p].issue
<1>1. Fewer
    <2> USE Nothings DEF Live
    <2>1. proc' = proc => Fewer
        OBVIOUS
    <2>2. ASSUME NEW p, proc' = [proc EXCEPT ![p] = NoProc] PROVE Fewer
        BY <2>2 DEF HostInv, ProcInv
    <2>3. ASSUME NEW p \in Pids, NEW q \in ProcType, proc' = [proc EXCEPT ![p] = q],
                 q = NoProc \/ q.issue = proc[p].issue, Live(p)
          PROVE  Fewer
        BY <2>3 DEF HostInv, ProcInv
    <2>4. CASE ProcessorRestarts
        BY <2>4 DEF ProcessorRestarts, HostInv, ProcInv
    <2> HIDE DEF Fewer
    <2>5. ASSUME NEW p \in Pids, AgentEnds(p) \/ QuotaDetected(p)
          PROVE  Fewer
        <3>1. proc[p] \in ProcType /\ proc[p].st = "up"
            BY <2>5 DEF AgentEnds, QuotaDetected, HostInv, ProcInv
        <3>2. \/ proc' = [proc EXCEPT ![p] = NoProc]
              \/ proc' = [proc EXCEPT ![p] = [proc[p] EXCEPT !.st = "unposted"]]
              \/ proc' = [proc EXCEPT ![p] = [proc[p] EXCEPT !.st = "hung"]]
            BY <2>5 DEF AgentEnds, QuotaDetected, HostInv, ProcInv
        <3>3. \A st \in {"unposted", "hung"} :
                 [proc[p] EXCEPT !.st = st] \in ProcType
                 /\ [proc[p] EXCEPT !.st = st].issue = proc[p].issue
            BY <3>1 DEF ProcType
        <3> QED BY <2>2, <2>3, <3>1, <3>2, <3>3
    <2>6. ASSUME NEW p \in Pids, RecoverFromLog(p) PROVE Fewer
        BY <2>2, <2>6 DEF RecoverFromLog
    <2>7. ASSUME NEW i \in Issues, StuckIsKilled(i) \/ Kill(i) \/ Stop(i) PROVE Fewer
        BY <2>1, <2>2, <2>7 DEF StuckIsKilled, Kill, Stop
    <2>8. ASSUME \A p \in Pids : ~AgentEnds(p) /\ ~QuotaDetected(p) /\ ~RecoverFromLog(p),
                 \A i \in Issues : ~StuckIsKilled(i) /\ ~Kill(i) /\ ~Stop(i),
                 ~ProcessorRestarts
          PROVE  proc' = proc
        BY <2>8, StepCases, RetryKeeps, ZenonT(60) DEF ScanStep, LaunchStep,
               StuckStep, DeadStep, OrphanStep, AgentStep, Elsewhere, Agent, Recovery, Outside, PassIsEmpty,
           ScanFinalizes, ScanComments, ScanChains, ScanSkipsOld, ScanDrops, ScanWaits,
           ScanRefused, ScanApplies, ProcessorSpawns, ProcessorRefused, Refuse, StuckSkips,
           StuckIsStale, StuckOrphan, DeadWaits, DeadIsQuiet, DeadIsStale, DeadIsRetried,
           OrphanSkips, OrphanIsClosed, OrphanIsRetried, AgentReports, IssueCloses,
           FuseRests, FuseWindowExpires, Pause, Resume, Continue, AgentComments, AuthorOverrides,
           hostVars, agentVars, Launchers
    <2> QED BY <2>1, <2>4, <2>5, <2>6, <2>7, <2>8
<1>2. CASE ScanChains \/ Relaunching
    <2>1. req' = req /\ excused' = excused => NoneSpawned
        BY <1>1 DEF LiveOf, NoneSpawned
    <2>2. ASSUME NEW i \in Issues, Begun(i) PROVE NoneSpawned
        BY <1>1, <2>2 DEF LiveOf, NoneSpawned
    <2> QED BY <1>2, <2>1, <2>2, LaunchIsBegun
<1>3. ASSUME ~ScanChains, ~Relaunching
      PROVE  excused' = excused
    <2>1. Deciding \/ Ending => excused' = excused
        BY EndFacts DEF Deciding, RetryRefused, RetryIsCounted, RetryUncounted, FuseTrips, RetryEnds,
           Unspent
    <2> QED
        BY <1>3, <2>1, StepCases, ZenonT(60) DEF RetryStep, ScanStep, LaunchStep, StuckStep, DeadStep,
           OrphanStep, AgentStep, Elsewhere, Agent, Recovery, Outside, ProcessorRestarts,
           PassIsEmpty, ScanFinalizes, ScanComments, ScanSkipsOld, ScanDrops, ScanWaits,
           ScanRefused, ScanApplies, ProcessorSpawns, ProcessorRefused, Refuse, StuckSkips,
           StuckIsStale, StuckIsKilled, StuckOrphan, DeadWaits, DeadIsQuiet, DeadIsStale,
           DeadIsRetried, OrphanSkips, OrphanIsClosed, OrphanIsRetried, AgentReports,
           AgentEnds, QuotaDetected, RecoverFromLog, IssueCloses, FuseRests, FuseWindowExpires,
           Pause, Resume, Kill, Stop, Continue, AgentComments, AuthorOverrides, hostVars, Unspent,
           Launchers
<1>4. ASSUME ~ScanChains, ~Relaunching
      PROVE  req'["processor"] = req["processor"] \/ ~Busy("processor")'
    <2> DEFINE Idle == req'["processor"] = req["processor"] \/ ~Busy("processor")'
    <2> SUFFICES Idle
        OBVIOUS
    <2>1. "processor" \in Launchers /\ NoReq.agent = NoAgent /\ req \in [Launchers -> ReqType]
          /\ req["processor"].host = "processor"
        BY Nothings DEF Launchers, HostInv, RequestInv
    <2>2. ASSUME NEW l \in Launchers, Refuse(l) PROVE Idle
        BY <2>1, <2>2 DEF Refuse, Busy
    <2>3. ASSUME NEW l \in Launchers \ {"processor"}, NEW i, NEW a, NEW X, NEW h,
                 Request(l, i, a, X, h)
          PROVE  Idle
        BY <2>1, <2>3 DEF Request
    <2>4. ProcessorRestarts => Idle
        BY <2>1 DEF ProcessorRestarts, Busy
    <2>5. req' = req => Idle
        OBVIOUS
    <2> HIDE DEF Idle
    <2>6. ASSUME NEW p \in Pids, QuotaDetected(p) PROVE Idle
        BY <2>3, <2>6 DEF QuotaDetected, Launchers
    <2>7. ASSUME NEW i \in Issues, Continue(i) PROVE Idle
        BY <2>3, <2>7 DEF Continue, Launchers
    <2>8. ASSUME NEW i, NEW a, WebhookRequests(i, a) \/ WebhookRefuses(i, a)
          PROVE  Idle
        BY <2>3, <2>5, <2>8, SMTT(60) DEF WebhookRequests, WebhookRefuses, Launchers
    <2>9. ASSUME NEW i \in Issues, NEW a \in Agents, AgentComments(<<i, a>>) \/ AuthorOverrides(i, a)
          PROVE  Idle
        BY <2>8, <2>9 DEF AgentComments, AuthorOverrides, WebhookLaunches
    <2>10. Deciding \/ Ending => req' = req
        BY EndFacts DEF Deciding, RetryRefused, RetryIsCounted, RetryUncounted, FuseTrips, RetryEnds,
           launchVars
    <2>11. ASSUME ~ProcessorRestarts, ~Deciding, ~Ending, \A l \in Launchers : ~Refuse(l),
                  \A i \in Issues : ~Continue(i),
                  \A i \in Issues, a \in Agents : ~AgentComments(<<i, a>>) /\ ~AuthorOverrides(i, a),
                  \A p \in Pids : ~QuotaDetected(p)
           PROVE  req' = req
        BY <1>4, <2>11, StepCases, ZenonT(60) DEF RetryStep, ScanStep, LaunchStep, StuckStep, DeadStep,
           OrphanStep, AgentStep, Elsewhere, Agent, Recovery, Outside, PassIsEmpty,
           ScanFinalizes, ScanComments, ScanSkipsOld, ScanDrops, ScanWaits, ScanRefused,
           ScanApplies, ProcessorSpawns, ProcessorRefused, StuckSkips, StuckIsStale,
           StuckIsKilled, StuckOrphan, DeadWaits, DeadIsQuiet, DeadIsStale, DeadIsRetried,
           OrphanSkips, OrphanIsClosed, OrphanIsRetried, AgentReports, AgentEnds, RecoverFromLog,
           IssueCloses, FuseRests, FuseWindowExpires, Pause, Resume, Kill, Stop, hostVars,
           launchVars, Launchers
    <2> QED BY <2>2, <2>4, <2>5, <2>6, <2>7, <2>9, <2>10, <2>11
<1>5. ASSUME ~ScanChains, ~Relaunching PROVE NoneSpawned
    <2>1. \A i \in Issues : LiveOf(i)' \subseteq LiveOf(i)
        BY <1>1 DEF LiveOf
    <2> QED BY <1>3, <1>4, <1>5, <2>1 DEF NoneSpawned
<1> QED BY <1>2, <1>5

LEMMA Counting ==
    ASSUME NEW i
    PROVE  IsFiniteSet(LiveOf(i)) /\ Cardinality(LiveOf(i)) \in Nat
    BY Constants, FS_Subset, FS_CardinalityType DEF LiveOf

LEMMA OneAgentStep ==
    ASSUME HostInv, LaunchInv, OneAgentUnlessAskedFor, [Next]_vars
    PROVE  LaunchInv' /\ OneAgentUnlessAskedFor'
<1>1. excused \in Nat /\ \A i : IsFiniteSet(LiveOf(i)) /\ Cardinality(LiveOf(i)) \in Nat
    BY Counting DEF HostInv, CountInv
<1>2. \A i \in Issues : \A S \in SUBSET LiveOf(i) : Cardinality(S) <= Cardinality(LiveOf(i))
    BY Counting, FS_Subset
<1>3. \A i \in Issues : \A p : /\ Cardinality(LiveOf(i) \cup {p}) \in Nat
                               /\ Cardinality(LiveOf(i) \cup {p}) <= Cardinality(LiveOf(i)) + 1
    <2> TAKE i \in Issues
    <2> TAKE p
    <2>1. Cardinality(LiveOf(i) \cup {p}) =
             IF p \in LiveOf(i) THEN Cardinality(LiveOf(i)) ELSE Cardinality(LiveOf(i)) + 1
        BY Counting, FS_AddElement
    <2> QED BY <1>1, <2>1
<1>4. req["processor"].issue \in Issues /\ req \in [Launchers -> ReqType]
    BY DEF HostInv, RequestInv, ReqType, Launchers
<1>5. CASE UNCHANGED vars
    BY <1>5 DEF vars, hostVars, agentVars, launchVars, LaunchInv, OneAgentUnlessAskedFor, Busy,
       LiveOf, Live
<1>6. ASSUME NEW l \in Launchers, SpawnNext(l)
      PROVE  LaunchInv' /\ OneAgentUnlessAskedFor'
    <2>1. Spawned(l) /\ Busy(l)
        BY <1>6, SpawnIsOne DEF SpawnNext, Spawn
    <2>2. OneAgentUnlessAskedFor'
        <3> SUFFICES ASSUME NEW i \in Issues
                     PROVE  Cardinality(LiveOf(i)') <= 1 + excused'
            BY DEF OneAgentUnlessAskedFor
        <3>1. Cardinality(LiveOf(i)) <= 1 + excused
            BY DEF OneAgentUnlessAskedFor
        <3>2. CASE i # req[l].issue
            <4>1. LiveOf(i)' = LiveOf(i) /\ excused' \in {excused, excused + 1}
                BY <2>1, <3>2 DEF Spawned
            <4>2. Cardinality(LiveOf(i)') = Cardinality(LiveOf(i))
                BY <4>1, Zenon
            <4> QED BY <1>1, <3>1, <4>1, <4>2
        <3>3. CASE i = req[l].issue /\ l # "processor"
            <4>1. excused' = excused + 1 /\ LiveOf(i)' = LiveOf(i) \cup {NextPid}
                BY <2>1, <3>3 DEF Spawned
            <4>2. Cardinality(LiveOf(i)') = Cardinality(LiveOf(i) \cup {NextPid})
                BY <4>1, Zenon
            <4>3. Cardinality(LiveOf(i) \cup {NextPid}) <= Cardinality(LiveOf(i)) + 1
                BY <1>3
            <4>4. Cardinality(LiveOf(i) \cup {NextPid}) \in Nat
                BY <1>3
            <4> QED BY <1>1, <3>1, <4>1, <4>2, <4>3, <4>4
        <3>4. CASE i = req[l].issue /\ l = "processor"
            <4>1. excused' = excused /\ LiveOf(i)' = LiveOf(i) \cup {NextPid}
                BY <2>1, <3>4 DEF Spawned
            <4>2. Cardinality(LiveOf(i)) <= excused
                BY <2>1, <3>4 DEF LaunchInv
            <4>3. Cardinality(LiveOf(i)') = Cardinality(LiveOf(i) \cup {NextPid})
                BY <4>1, Zenon
            <4>4. Cardinality(LiveOf(i) \cup {NextPid}) <= Cardinality(LiveOf(i)) + 1
                BY <1>3
            <4>5. Cardinality(LiveOf(i) \cup {NextPid}) \in Nat
                BY <1>3
            <4> QED BY <1>1, <4>1, <4>2, <4>3, <4>4, <4>5
        <3> QED BY <3>2, <3>3, <3>4
    <2>3. LaunchInv'
        <3>1. CASE l = "processor"
            BY <2>1, <3>1, <1>4, Nothings DEF Spawned, LaunchInv, Busy
        <3>2. CASE l # "processor"
            <4>1. req'["processor"] = req["processor"] /\ excused' = excused + 1
                BY <2>1, <3>2, <1>4 DEF Spawned, Launchers
            <4> DEFINE i == req["processor"].issue
            <4>2. LiveOf(i)' \in {LiveOf(i), LiveOf(i) \cup {NextPid}}
                BY <2>1, <1>4, <4>1 DEF Spawned
            <4>3. /\ Cardinality(LiveOf(i)') <= Cardinality(LiveOf(i)) + 1
                  /\ Cardinality(LiveOf(i)') \in Nat
                BY <1>1, <1>3, <1>4, <4>2, SMTT(60)
            <4> QED BY <1>1, <4>1, <4>3 DEF LaunchInv, Busy
        <3> QED BY <3>1, <3>2
    <2> QED BY <2>2, <2>3
<1>7. ASSUME Next, \A l \in Launchers : ~SpawnNext(l)
      PROVE  LaunchInv' /\ OneAgentUnlessAskedFor'
    <2>1. NoneSpawned
        BY <1>7, OthersSpawnNone
    <2>2. \A i \in Issues : Cardinality(LiveOf(i)') <= Cardinality(LiveOf(i))
        BY <1>2, <2>1 DEF NoneSpawned
    <2>3. \A i \in Issues : Cardinality(LiveOf(i)') \in Nat
        BY <1>1, <2>1, FS_Subset, FS_CardinalityType DEF NoneSpawned
    <2>4. excused' \in {excused, excused + 1}
        BY <2>1 DEF NoneSpawned, Begun
    <2>5. OneAgentUnlessAskedFor'
        <3>1. \A i \in Issues : Cardinality(LiveOf(i)') <= 1 + excused'
            BY <1>1, <2>2, <2>3, <2>4 DEF OneAgentUnlessAskedFor
        <3> QED BY <3>1 DEF OneAgentUnlessAskedFor
    <2>6. LaunchInv'
        <3>1. CASE excused' = excused /\ req'["processor"] = req["processor"]
            <4> DEFINE i == req["processor"].issue
            <4>1. Cardinality(LiveOf(i)) <= excused => Cardinality(LiveOf(i)') <= excused'
                BY <1>1, <1>4, <2>2, <2>3, <3>1
            <4> QED BY <3>1, <4>1 DEF LaunchInv, Busy
        <3>2. CASE ~Busy("processor")'
            BY <3>2 DEF LaunchInv
        <3>3. ASSUME NEW i \in Issues, Begun(i)
              PROVE  LaunchInv'
            <4>1. req'["processor"].issue = i
                BY <1>4, <3>3 DEF Begun, Request, Launchers
            <4>2. Cardinality(LiveOf(i)') <= excused'
                <5>1. CASE LiveOf(i) = {}
                    <6>1. LiveOf(i)' = {}
                        BY <2>1, <5>1 DEF NoneSpawned
                    <6>2. Cardinality(LiveOf(i)') = 0
                        BY <6>1, FS_EmptySet, Zenon
                    <6> QED BY <1>1, <2>4, <6>2
                <5>2. CASE LiveOf(i) # {}
                    <6>1. excused' = excused + 1
                        BY <3>3, <5>2 DEF Begun
                    <6> QED BY <1>1, <2>2, <2>3, <6>1 DEF OneAgentUnlessAskedFor
                <5> QED BY <5>1, <5>2
            <4> QED BY <4>1, <4>2 DEF LaunchInv
        <3> QED BY <2>1, <3>1, <3>2, <3>3 DEF NoneSpawned
    <2> QED BY <2>5, <2>6
<1> QED BY <1>5, <1>6, <1>7

\* Two agents of an issue run at once only as far as the webhook server, the bot
\* or the quota watchdog launched one beside the processor, or the launch guard's
\* look at the processes failed; what the plugin's pgrep recognises and what the
\* tracker lost does not matter.  The inductive part: whatever happens between the
\* processor's checks and its spawn, the agents that run by then are excused.
THEOREM OneAgent == Spec => []OneAgentUnlessAskedFor
<1> DEFINE Inv == HostInv /\ LaunchInv /\ OneAgentUnlessAskedFor
<1>1. Init => Inv
    <2> SUFFICES ASSUME Init PROVE LaunchInv /\ OneAgentUnlessAskedFor
        BY InitTypes
    <2>1. \A i \in Issues : LiveOf(i) = {}
        BY Nothings DEF Init, LaunchInit, LiveOf, Live
    <2>2. \A i \in Issues : Cardinality(LiveOf(i)) = 0 /\ excused = 0
        BY <2>1, FS_EmptySet DEF Init, LaunchInit
    <2>3. ~Busy("processor")
        BY Nothings DEF Init, LaunchInit, Busy, Launchers
    <2> QED BY <2>2, <2>3 DEF LaunchInv, OneAgentUnlessAskedFor
<1>2. Inv /\ [Next]_vars => Inv'
    BY TypesAreKept, OneAgentStep
<1>3. Inv => OneAgentUnlessAskedFor
    OBVIOUS
<1> QED BY <1>1, <1>2, <1>3, PTL DEF Spec


-----------------------------------------------------------------------------
(* The pids do not run out.                                                *)

One(b) == IF b THEN 1 ELSE 0
Requested == One(Busy("webhook")) + One(Busy("bot")) + One(Busy("watchdog"))
Unposted == {p \in Pids : proc[p].st = "unposted"}

\* Each agent that somebody else launched or is launching was asked for or
\* follows a failure, as does a launch past a running agent; each completion that is only in a log is of a failure.
SpendInv ==
    /\ excused + Requested <= faults + triggers
    /\ Cardinality(Unposted) <= faults

\* The others' requests: there are no more than before, or one more for a
\* failure or a request from outside.
LEMMA OthersRequest ==
    ASSUME HostInv, Next
    PROVE  \/ \A l \in Launchers \ {"processor"} : Busy(l)' => Busy(l)
           \/ /\ faults' = faults + 1 \/ triggers' = triggers + 1
              /\ \E l \in Launchers \ {"processor"} :
                    /\ ~Busy(l)
                    /\ \A m \in Launchers \ {"processor", l} : Busy(m)' => Busy(m)
<1> DEFINE Fewer == \A l \in Launchers \ {"processor"} : Busy(l)' => Busy(l)
           OneMore == /\ faults' = faults + 1 \/ triggers' = triggers + 1
                      /\ \E l \in Launchers \ {"processor"} :
                            /\ ~Busy(l)
                            /\ \A m \in Launchers \ {"processor", l} : Busy(m)' => Busy(m)
<1> SUFFICES Fewer \/ OneMore
    OBVIOUS
<1>1. req \in [Launchers -> ReqType] /\ NoReq.agent = NoAgent
    BY Nothings DEF HostInv, RequestInv
<1>2. req' = req => Fewer
    BY DEF Busy
<1>3. ASSUME NEW l, req' = [req EXCEPT ![l] = NoReq] PROVE Fewer
    BY <1>1, <1>3 DEF Busy
<1>4. ASSUME NEW i, NEW a, NEW X, NEW h, Request("processor", i, a, X, h) PROVE Fewer
    BY <1>1, <1>4 DEF Request, Busy
<1>5. ASSUME NEW l \in Launchers \ {"processor"}, ~Busy(l), NEW i, NEW a, NEW X, NEW h,
             Request(l, i, a, X, h), faults' = faults + 1 \/ triggers' = triggers + 1
      PROVE  OneMore
    BY <1>1, <1>5 DEF Request, Busy
<1>6. ProcessorRestarts => Fewer
    BY <1>1 DEF ProcessorRestarts, Busy
<1> HIDE DEF Fewer, OneMore
<1>7. ScanChains \/ Relaunching => Fewer
    BY <1>2, <1>4, LaunchIsBegun DEF Begun
<1>8. ASSUME NEW l \in Launchers, SpawnNext(l) \/ Refuse(l) PROVE Fewer
    BY <1>3, <1>8 DEF SpawnNext, Spawn, Refuse
<1>9. ASSUME NEW p \in Pids, QuotaDetected(p) PROVE OneMore
    BY <1>5, <1>9 DEF QuotaDetected, Fails, Launchers
<1>10. ASSUME NEW i \in Issues, Continue(i) PROVE OneMore
    BY <1>5, <1>10 DEF Continue, Asked, Launchers
<1>11. ASSUME NEW i, NEW a, Asked, ~Busy("webhook"), WebhookRequests(i, a) \/ WebhookRefuses(i, a)
       PROVE  Fewer \/ OneMore
    BY <1>2, <1>5, <1>11, SMTT(60) DEF WebhookRequests, WebhookRefuses, Asked, Launchers
<1>12. ASSUME NEW i \in Issues, NEW a \in Agents, AgentComments(<<i, a>>) \/ AuthorOverrides(i, a)
       PROVE  Fewer \/ OneMore
    BY <1>11, <1>12 DEF AgentComments, AuthorOverrides, WebhookLaunches
<1>13. Deciding \/ Ending => req' = req
    BY EndFacts DEF Deciding, RetryRefused, RetryIsCounted, RetryUncounted, FuseTrips, RetryEnds,
       launchVars
<1>14. ASSUME ~ScanChains, ~Relaunching, ~ProcessorRestarts, ~Deciding, ~Ending,
              \A l \in Launchers : ~SpawnNext(l) /\ ~Refuse(l),
              \A i \in Issues : ~Continue(i),
              \A i \in Issues, a \in Agents : ~AgentComments(<<i, a>>) /\ ~AuthorOverrides(i, a),
              \A p \in Pids : ~QuotaDetected(p)
       PROVE  req' = req
    BY <1>14, StepCases, ZenonT(60) DEF RetryStep, ScanStep, LaunchStep, StuckStep, DeadStep,
       OrphanStep, AgentStep, Elsewhere, Agent, Recovery, Outside, PassIsEmpty,
       ScanFinalizes, ScanComments, ScanSkipsOld, ScanDrops, ScanWaits, ScanRefused,
       ScanApplies, ProcessorSpawns, ProcessorRefused, StuckSkips, StuckIsStale,
       StuckIsKilled, StuckOrphan, DeadWaits, DeadIsQuiet, DeadIsStale, DeadIsRetried,
       OrphanSkips, OrphanIsClosed, OrphanIsRetried, AgentReports, AgentEnds, RecoverFromLog,
       IssueCloses, FuseRests, FuseWindowExpires, Pause, Resume, Kill, Stop, hostVars,
       launchVars, Launchers
<1> QED BY <1>2, <1>6, <1>7, <1>8, <1>9, <1>10, <1>12, <1>13, <1>14

\* The completions that are only in a log: one more for a failure.
LEMMA UnpostedStep ==
    ASSUME HostInv, Next
    PROVE  \/ Unposted' \subseteq Unposted
           \/ faults' = faults + 1 /\ \E p : Unposted' \subseteq Unposted \cup {p}
<1> DEFINE Ok == \/ Unposted' \subseteq Unposted
                 \/ faults' = faults + 1 /\ \E p : Unposted' \subseteq Unposted \cup {p}
<1> SUFFICES Ok
    OBVIOUS
<1> USE Nothings DEF Unposted
<1>1. proc \in [Pids -> ProcType]
    BY DEF HostInv, ProcInv
<1>2. proc' = proc => Ok
    OBVIOUS
<1>3. ASSUME NEW p, NEW q, q.st # "unposted", proc' = [proc EXCEPT ![p] = q] PROVE Ok
    BY <1>1, <1>3
<1>4. ASSUME NEW p, NEW q, faults' = faults + 1, proc' = [proc EXCEPT ![p] = q] PROVE Ok
    BY <1>1, <1>4
<1>5. ProcessorRestarts => Ok
    BY <1>1 DEF ProcessorRestarts
<1> HIDE DEF Ok
<1>6. ASSUME NEW l \in Launchers, SpawnNext(l) PROVE Ok
    BY <1>3, <1>6 DEF SpawnNext, Spawn
<1>7. ASSUME NEW p \in Pids, AgentEnds(p) PROVE Ok
    BY <1>3, <1>4, <1>7 DEF AgentEnds, Fails
<1>8. ASSUME NEW p \in Pids, QuotaDetected(p) PROVE Ok
    BY <1>4, <1>8 DEF QuotaDetected, Fails
<1>9. ASSUME NEW p \in Pids, RecoverFromLog(p) PROVE Ok
    BY <1>3, <1>9 DEF RecoverFromLog
<1>10. ASSUME NEW i \in Issues, StuckIsKilled(i) \/ Kill(i) \/ Stop(i) PROVE Ok
    BY <1>2, <1>3, <1>10, SMTT(60) DEF StuckIsKilled, Kill, Stop
<1>11. ASSUME \A l \in Launchers : ~SpawnNext(l),
              \A p \in Pids : ~AgentEnds(p) /\ ~QuotaDetected(p) /\ ~RecoverFromLog(p),
              \A i \in Issues : ~StuckIsKilled(i) /\ ~Kill(i) /\ ~Stop(i),
              ~ProcessorRestarts
       PROVE  proc' = proc
    BY <1>11, StepCases, RetryKeeps, ZenonT(60) DEF ScanStep, LaunchStep,
               StuckStep, DeadStep, OrphanStep, AgentStep, Elsewhere, Agent, Recovery, Outside, PassIsEmpty,
       ScanFinalizes, ScanComments, ScanChains, ScanSkipsOld, ScanDrops, ScanWaits,
       ScanRefused, ScanApplies, ProcessorSpawns, ProcessorRefused, Refuse, StuckSkips,
       StuckIsStale, StuckOrphan, DeadWaits, DeadIsQuiet, DeadIsStale, DeadIsRetried,
       OrphanSkips, OrphanIsClosed, OrphanIsRetried, AgentReports, IssueCloses,
       FuseRests, FuseWindowExpires, Pause, Resume, Continue, AgentComments, AuthorOverrides, hostVars,
       agentVars, Launchers
<1> QED BY <1>2, <1>5, <1>6, <1>7, <1>8, <1>9, <1>10, <1>11

LEMMA SpendStep == HostInv /\ SpendInv /\ [Next]_vars => SpendInv'
<1> SUFFICES ASSUME HostInv, SpendInv, [Next]_vars PROVE SpendInv'
    OBVIOUS
<1>1. CASE UNCHANGED vars
    BY <1>1 DEF vars, hostVars, agentVars, launchVars, SpendInv, Requested, Busy, Unposted
<1>2. CASE Next
    <2>1. /\ faults \in Nat /\ triggers \in Nat /\ excused \in Nat
          /\ faults' = faults \/ faults' = faults + 1
          /\ triggers' = triggers \/ triggers' = triggers + 1
        BY <1>2, Constants, SpendingMoves DEF HostInv, CountInv, Fails, Works, Asked
    <2>2. excused' + Requested' <= faults' + triggers'
        <3>1. CASE \E l \in Launchers : SpawnNext(l)
            <4>1. PICK l \in Launchers : SpawnNext(l)
                BY <3>1
            <4>2. /\ excused' = IF l = "processor" THEN excused ELSE excused + 1
                  /\ Busy(l) /\ ~Busy(l)'
                  /\ \A m \in Launchers \ {l} : Busy(m)' = Busy(m)
                BY <4>1, Nothings DEF SpawnNext, Spawn, Busy, HostInv, RequestInv
            <4> QED BY <2>1, <4>2 DEF SpendInv, Requested, One, Launchers
        <3>2. CASE \A l \in Launchers : ~SpawnNext(l)
            <4>1. CASE \E i \in Issues : Begun(i)
                <5>1. /\ excused' = excused \/ (excused' = excused + 1 /\ faults' = faults + 1)
                      /\ \A l \in Launchers \ {"processor"} : Busy(l)' = Busy(l)
                    BY <4>1 DEF Begun, Fails, Request, Busy, HostInv, RequestInv
                <5> QED BY <2>1, <5>1 DEF SpendInv, Requested, One, Launchers
            <4>2. CASE /\ excused' = excused
                       /\ \A l \in Launchers \ {"processor"} : Busy(l)' => Busy(l)
                BY <2>1, <4>2 DEF SpendInv, Requested, One, Launchers
            <4>3. CASE /\ excused' = excused
                       /\ faults' = faults + 1 \/ triggers' = triggers + 1
                       /\ \E l \in Launchers \ {"processor"} :
                             /\ ~Busy(l)
                             /\ \A m \in Launchers \ {"processor", l} : Busy(m)' => Busy(m)
                BY <2>1, <4>3 DEF SpendInv, Requested, One, Launchers
            <4>4. excused' = excused \/ \E i \in Issues : Begun(i)
                BY <1>2, <3>2, OthersSpawnNone DEF NoneSpawned
            <4> QED BY <1>2, <4>1, <4>2, <4>3, <4>4, OthersRequest
        <3> QED BY <3>1, <3>2
    <2>3. Cardinality(Unposted') <= faults'
        <3>1. IsFiniteSet(Unposted) /\ Cardinality(Unposted) \in Nat /\ Cardinality(Unposted) <= faults
            BY Constants, FS_Subset, FS_CardinalityType DEF Unposted, SpendInv
        <3>2. \A S : S \subseteq Unposted => Cardinality(S) <= Cardinality(Unposted) /\ Cardinality(S) \in Nat
            BY <3>1, FS_Subset, FS_CardinalityType
        <3>3. ASSUME NEW p, NEW S, S \subseteq Unposted \cup {p}
              PROVE  Cardinality(S) <= Cardinality(Unposted) + 1 /\ Cardinality(S) \in Nat
            <4>1. /\ IsFiniteSet(Unposted \cup {p})
                  /\ Cardinality(Unposted \cup {p}) \in Nat
                  /\ Cardinality(Unposted \cup {p}) <= Cardinality(Unposted) + 1
                BY <3>1, FS_AddElement, FS_CardinalityType
            <4>2. Cardinality(S) <= Cardinality(Unposted \cup {p}) /\ IsFiniteSet(S)
                BY <3>3, <4>1, FS_Subset
            <4> QED BY <3>1, <4>1, <4>2, FS_CardinalityType
        <3>4. CASE Unposted' \subseteq Unposted
            <4>1. /\ Cardinality(Unposted') \in Nat
                  /\ Cardinality(Unposted') <= Cardinality(Unposted)
                BY <3>2, <3>4
            <4> QED BY <2>1, <3>1, <4>1
        <3>5. CASE faults' = faults + 1 /\ \E p : Unposted' \subseteq Unposted \cup {p}
            <4>1. /\ Cardinality(Unposted') \in Nat
                  /\ Cardinality(Unposted') <= Cardinality(Unposted) + 1
                BY <3>3, <3>5
            <4> QED BY <2>1, <3>1, <3>5, <4>1
        <3> QED BY <1>2, <3>4, <3>5, UnpostedStep
    <2> QED BY <2>2, <2>3 DEF SpendInv
<1> QED BY <1>1, <1>2


LEMMA UnionBound ==
    ASSUME NEW S, NEW T, NEW m \in Nat, NEW n \in Nat, IsFiniteSet(S), IsFiniteSet(T),
           Cardinality(S) <= m, Cardinality(T) <= n
    PROVE  IsFiniteSet(S \cup T) /\ Cardinality(S \cup T) <= m + n
<1>1. /\ IsFiniteSet(S \cup T)
      /\ Cardinality(S \cup T) = Cardinality(S) + Cardinality(T) - Cardinality(S \cap T)
    BY FS_Union
<1>2. Cardinality(S) \in Nat /\ Cardinality(T) \in Nat /\ Cardinality(S \cap T) \in Nat
    BY FS_CardinalityType, FS_Intersection
<1> QED BY <1>1, <1>2

\* The issues name no more pids in a place than there are issues.
LEMMA NamedBound ==
    ASSUME NEW f \in [Issues -> Pids \cup {NoPid}]
    PROVE  /\ IsFiniteSet({f[i] : i \in Issues})
           /\ Cardinality({f[i] : i \in Issues}) <= Cardinality(Issues)
<1> DEFINE T == {f[i] : i \in Issues}
<1>1. f \in Surjection(Issues, T)
    BY DEF Surjection
<1> QED BY <1>1, Constants, FS_Surjection

\* With at most M agents an issue, M times the issues run.
LEMMA LiveBound ==
    ASSUME HostInv, NEW M \in Nat, \A i \in Issues : Cardinality(LiveOf(i)) <= M
    PROVE  /\ IsFiniteSet({p \in Pids : Live(p)})
           /\ Cardinality({p \in Pids : Live(p)}) <= Cardinality(Issues) * M
<1> DEFINE L == {p \in Pids : Live(p)}
           U(p) == {q \in LiveOf(proc[p].issue) : q <= p}
           f == [p \in L |-> <<proc[p].issue, Cardinality(U(p))>>]
<1>1. \A p \in L : proc[p].issue \in Issues /\ p \in LiveOf(proc[p].issue) /\ p \in U(p)
    BY DEF HostInv, ProcInv, ProcType, LiveOf, Pids
<1>2. \A p \in L : IsFiniteSet(U(p)) /\ Cardinality(U(p)) \in 1..M
    <2> TAKE p \in L
    <2> DEFINE i == proc[p].issue
    <2>1. i \in Issues /\ IsFiniteSet(LiveOf(i)) /\ Cardinality(LiveOf(i)) <= M /\ U(p) \subseteq LiveOf(i)
          /\ Cardinality(LiveOf(i)) \in Nat
        BY <1>1, Counting
    <2>2. IsFiniteSet(U(p)) /\ Cardinality(U(p)) <= Cardinality(LiveOf(i))
        BY <2>1, FS_Subset
    <2>3. Cardinality(U(p)) \in Nat /\ Cardinality(U(p)) # 0
        BY <1>1, <2>2, FS_CardinalityType, FS_EmptySet
    <2> HIDE DEF U, i
    <2> QED BY <2>1, <2>2, <2>3
<1>3. ASSUME NEW p \in L, NEW q \in L, proc[p].issue = proc[q].issue,
             Cardinality(U(p)) = Cardinality(U(q)), p <= q
      PROVE  p = q
    <2>1. U(p) \subseteq U(q)
        BY <1>3 DEF LiveOf, Pids
    <2>2. U(p) = U(q)
        <3> HIDE DEF U
        <3> QED BY <1>2, <1>3, <2>1, FS_Subset
    <2>3. q <= p
        BY <1>1, <2>2
    <2> QED BY <1>3, <2>3 DEF Pids
<1>4. f \in Injection(L, Issues \X (1..M))
    <2>1. f \in [L -> Issues \X (1..M)]
        BY <1>1, <1>2
    <2>2. ASSUME NEW p \in L, NEW q \in L, f[p] = f[q] PROVE p = q
        <3>1. proc[p].issue = proc[q].issue /\ Cardinality(U(p)) = Cardinality(U(q))
            BY <2>2
        <3>2. p <= q \/ q <= p
            BY DEF Pids
        <3> QED BY <1>3, <3>1, <3>2
    <2> HIDE DEF f
    <2> QED BY <2>1, <2>2 DEF Injection, IsInjective
<1>5. IsFiniteSet(1..M) /\ Cardinality(1..M) = M
    BY FS_Interval
<1>6. /\ IsFiniteSet(Issues \X (1..M))
      /\ Cardinality(Issues \X (1..M)) = Cardinality(Issues) * M
    BY <1>5, Constants, FS_Product
<1> HIDE DEF f, L
<1>7. IsFiniteSet(L) /\ Cardinality(L) <= Cardinality(Issues \X (1..M))
    BY <1>4, <1>6, FS_Injection
<1> QED BY <1>6, <1>7 DEF L

\* As many pids as agents that may run at once, completions that may be left
\* in a log and pids that the issues may name, and one more.
EnoughPids ==
    MaxPids > Cardinality(Issues) * (1 + MaxFaults + MaxTriggers) + MaxFaults
              + 4 * Cardinality(Issues)

LEMMA APidIsFree ==
    ASSUME EnoughPids, HostInv, SpendInv, OneAgentUnlessAskedFor
    PROVE  FreePids # {}
<1> DEFINE M == 1 + MaxFaults + MaxTriggers
           C == Cardinality(Issues)
           L == {p \in Pids : Live(p)}
           tp == [i \in Issues |-> tracker[i].pid]
           sp == [i \in Issues |-> snap[i].pid]
           hp == [i \in Issues |-> held[i].pid]
           T == {tp[i] : i \in Issues}
           S == {sp[i] : i \in Issues}
           H == {hp[i] : i \in Issues}
           N == {newest[i] : i \in Issues}
<1>1. M \in Nat /\ C \in Nat /\ C * M \in Nat /\ MaxFaults \in Nat /\ MaxTriggers \in Nat
    BY Constants, FS_CardinalityType
<1>2. excused <= MaxFaults + MaxTriggers /\ excused \in Nat
    BY <1>1 DEF HostInv, CountInv, SpendInv, Requested, One
<1>3. \A i \in Issues : Cardinality(LiveOf(i)) <= M
    <2> TAKE i \in Issues
    <2>1. Cardinality(LiveOf(i)) \in Nat /\ Cardinality(LiveOf(i)) <= 1 + excused
        BY Counting DEF OneAgentUnlessAskedFor
    <2> QED BY <1>1, <1>2, <2>1
<1>4. IsFiniteSet(L) /\ Cardinality(L) <= C * M
    <2> HIDE DEF M
    <2> QED BY <1>1, <1>3, LiveBound
<1>5. IsFiniteSet(Unposted) /\ Cardinality(Unposted) <= MaxFaults
    <2>1. IsFiniteSet(Unposted)
        BY Constants, FS_Subset DEF Unposted
    <2>2. Cardinality(Unposted) \in Nat /\ Cardinality(Unposted) <= faults /\ faults \in 0..MaxFaults
        BY <2>1, FS_CardinalityType DEF SpendInv, HostInv, CountInv
    <2> QED BY <1>1, <2>1, <2>2
<1>6. /\ tp \in [Issues -> Pids \cup {NoPid}] /\ sp \in [Issues -> Pids \cup {NoPid}]
      /\ hp \in [Issues -> Pids \cup {NoPid}] /\ newest \in [Issues -> Pids \cup {NoPid}]
    BY DEF HostInv, ProcInv, TrackerInv, OkTracker, Entries
<1>7. /\ IsFiniteSet(T) /\ Cardinality(T) <= C /\ IsFiniteSet(S) /\ Cardinality(S) <= C
      /\ IsFiniteSet(N) /\ Cardinality(N) <= C /\ IsFiniteSet(H) /\ Cardinality(H) <= C
    <2> HIDE DEF tp, sp, hp
    <2> QED BY <1>6, NamedBound
<1>8. SUFFICES ASSUME FreePids = {} PROVE FALSE
    OBVIOUS
<1>9. Pids \subseteq ((L \cup Unposted) \cup (T \cup S)) \cup (N \cup H)
    <2> SUFFICES ASSUME NEW p \in Pids, ~Live(p), p \notin Unposted,
                        p \notin T, p \notin S, p \notin N, p \notin H
                 PROVE  FALSE
        OBVIOUS
    <2>1. proc[p].st = "gone"
        BY DEF Live, Unposted, HostInv, ProcInv, ProcType
    <2>2. \A i \in Issues : p \notin {tracker[i].pid, snap[i].pid, held[i].pid, newest[i]}
        <3> TAKE i \in Issues
        <3>1. tp[i] \in T /\ sp[i] \in S /\ hp[i] \in H /\ newest[i] \in N
            OBVIOUS
        <3> QED BY <3>1
    <2> QED BY <1>8, <2>1, <2>2 DEF FreePids
<1> DEFINE A == ((L \cup Unposted) \cup (T \cup S)) \cup (N \cup H)
<1>10. IsFiniteSet(A) /\ Cardinality(A) <= ((C * M + MaxFaults) + (C + C)) + (C + C)
    <2> HIDE DEF M, C, L, T, S, N, H
    <2>1. /\ IsFiniteSet(L \cup Unposted) /\ Cardinality(L \cup Unposted) <= C * M + MaxFaults
          /\ IsFiniteSet(T \cup S) /\ Cardinality(T \cup S) <= C + C
          /\ IsFiniteSet(N \cup H) /\ Cardinality(N \cup H) <= C + C
        BY <1>1, <1>4, <1>5, <1>7, UnionBound
    <2>2. C * M + MaxFaults \in Nat /\ C + C \in Nat
        BY <1>1
    <2>3. /\ IsFiniteSet((L \cup Unposted) \cup (T \cup S))
          /\ Cardinality((L \cup Unposted) \cup (T \cup S)) <= (C * M + MaxFaults) + (C + C)
        BY <2>1, <2>2, UnionBound
    <2>4. (C * M + MaxFaults) + (C + C) \in Nat
        BY <2>2
    <2> QED BY <2>1, <2>2, <2>3, <2>4, UnionBound
<1>11. MaxPids <= Cardinality(A) /\ Cardinality(A) \in Nat
    <2> HIDE DEF A
    <2> QED BY <1>9, <1>10, Constants, FS_Subset, FS_CardinalityType DEF A
<1>12. MaxPids > C * M + MaxFaults + 4 * C /\ MaxPids \in Nat
    BY Constants DEF EnoughPids
<1> HIDE DEF M, C, A
<1>13. C * M \in Nat
    BY <1>1
<1> DEFINE P == C * M
<1> HIDE DEF P
<1>14. P \in Nat /\ MaxPids > P + MaxFaults + 4 * C
      /\ Cardinality(A) <= ((P + MaxFaults) + (C + C)) + (C + C)
    BY <1>10, <1>12, <1>13 DEF P
<1> QED BY <1>1, <1>11, <1>12, <1>14

\* Every variable has its type, and with enough pids for the model's failures
\* and requests a launch always finds one: the bound on pids, which a machine
\* does not have, hides no launch.
THEOREM TypesAreCorrect == EnoughPids => (Spec => []TypeOK)
<1> SUFFICES ASSUME EnoughPids PROVE Spec => []TypeOK
    OBVIOUS
<1>1. Init => SpendInv
    <2> SUFFICES ASSUME Init PROVE SpendInv
        OBVIOUS
    <2>1. Unposted = {} /\ Requested = 0
        BY Nothings DEF Init, LaunchInit, Unposted, Requested, One, Busy, Launchers
    <2> QED BY <2>1, FS_EmptySet DEF Init, LaunchInit, SpendInv
<1>2. SpendInv /\ HostInv /\ [Next]_vars => SpendInv'
    BY SpendStep
<1>3. HostInv /\ SpendInv /\ OneAgentUnlessAskedFor => TypeOK
    <2> SUFFICES ASSUME HostInv, SpendInv, OneAgentUnlessAskedFor PROVE TypeOK
        OBVIOUS
    <2>1. FreePids # {}
        BY APidIsFree
    <2>2. todo \subseteq IF pc \in {"scan"} \cup ScanPlaces \/ back = "scan"
                         THEN Issues \X Agents ELSE Issues
        BY DEF HostInv, LoopInv, ProcInv
    <2>3. Busy("processor") <=> pc = "launch"
        BY DEF HostInv, RequestInv
    <2>4. /\ wf \in [Issues -> WfType] /\ open \in [Issues -> BOOLEAN]
          /\ proc \in [Pids -> ProcType] /\ req \in [Launchers -> ReqType]
          /\ reports \subseteq Issues \X Agents /\ applied \subseteq reports
          /\ seen \subseteq reports /\ saved \subseteq seen
          /\ newest \in [Issues -> Pids \cup {NoPid}] /\ fresh \in [Issues -> BOOLEAN]
          /\ guard \in [Guarded -> SUBSET (Issues \X Agents)]
        BY DEF HostInv, WfInv, ProcInv, RequestInv, MemoryInv
    <2>5. /\ tracker \in [Issues -> Entries] /\ snap \in [Issues -> Entries]
          /\ held \in [Issues -> Entries]
          /\ miss \in [Pids -> 0..MissMax] /\ dead \subseteq Pids
          /\ orphaned \subseteq Issues \X Agents /\ recent \subseteq Issues
          /\ faults \in 0..MaxFaults /\ triggers \in 0..MaxTriggers /\ excused \in Nat
          /\ granted \in [Issues -> Nat] /\ allowed \in [Issues -> Nat]
        BY DEF HostInv, TrackerInv, OkTracker, MemoryInv, CountInv
    <2>6. /\ pc \in Passes \cup ScanPlaces \cup RetryPlaces \cup {"launch"}
          /\ back \in Passes \cup {"lost", "idle"}
          /\ cur \in [issue : Issues, step : Agents \cup {NoAgent}]
        BY DEF HostInv, LoopInv, Passes, ScanPlaces, RetryPlaces, Kinds
    <2> QED BY <2>1, <2>2, <2>3, <2>4, <2>5, <2>6 DEF TypeOK, WfType, ProcType, ReqType
<1>4. Spec => []HostInv /\ []OneAgentUnlessAskedFor
    BY HostTypes, OneAgent
<1> QED BY <1>1, <1>2, <1>3, <1>4, PTL DEF Spec

===============================================================================
