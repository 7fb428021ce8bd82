---------------------------- MODULE AgentRetryProofs ----------------------------
(***************************************************************************)
(* Proofs about retries and finalisation, for any issues, steps, tools,    *)
(* fuse and bounds: how often a workflow is finalised, what the fuse       *)
(* bounds, and which step a retry is for.                                  *)
(***************************************************************************)
EXTENDS AgentControlProofs

-----------------------------------------------------------------------------
(* How the thread of the processor moves.                                  *)

\* The steps of all but the processor's thread.
OthersStep == AgentStep \/ Outside \/ \E l \in Launchers : Elsewhere(l)

LEMMA OthersKeepLoop == OthersStep => UNCHANGED <<pc, back, todo, cur, snap, held, applied, finals>>
<1>1. AgentStep \/ Outside => UNCHANGED <<pc, back, todo, cur, snap, held, applied, finals>>
    BY DEF AgentStep, Agent, Recovery, Outside, FuseRests, Pause, Resume, Kill, Stop,
       Continue, AgentComments, AuthorOverrides, loopVars, passVars
<1>2. (\E l \in Launchers : Elsewhere(l))
         => UNCHANGED <<pc, back, todo, cur, snap, held, applied, finals>>
    BY DEF Elsewhere, SpawnNext, loopVars, passVars
<1> QED BY <1>1, <1>2 DEF OthersStep

\* A pass finds a step to be retried.
Finds(i) ==
    /\ StuckIsKilled(i) \/ StuckOrphan(i) \/ DeadIsRetried(i) \/ OrphanIsRetried(i)
    /\ pc' = "retry"

\* Where the thread is after a step: back in a pass or in a launch, where it was
\* as it is not its own step, or at a place that this step has led to.
LEMMA PlaceMoves ==
    ASSUME HostInv, Next
    PROVE  \/ OthersStep
           \/ pc' \in Passes \cup {"launch", "relay"}
           \/ \E k \in Issues \X Agents : ScanApplies(k)
           \/ \E i \in Issues : Finds(i)
           \/ Deciding
<1> DEFINE Moved == pc' \in Passes \cup {"launch", "relay"}
<1>1. ASSUME NEW pass \in Passes, NEW rest, NEW s, Onward(pass, rest, s)
      PROVE  Moved
    BY <1>1, OnwardMoves
<1>2. pc' \in {"launch", "relay"} => Moved
    OBVIOUS
<1>3. ASSUME NEW pass \in Passes, NEW i, NEW a, NEW X, NEW g, NEW rest, NEW s,
             LaunchBegins(pass, i, a, X, g, rest, s)
      PROVE  Moved
    BY <1>1, <1>3 DEF LaunchBegins
<1> HIDE DEF Moved
<1>4. CASE ScanStep
    <2>1. PassIsEmpty => Moved
        BY DEF PassIsEmpty, Enter, Moved, Passes
    <2>2. ScanFinalizes \/ ScanComments \/ ScanChains => Moved
        BY <1>1, <1>2, <1>3 DEF ScanFinalizes, ScanComments, ScanChains, Passes
    <2>3. ASSUME NEW k \in Issues \X Agents, ScanSkipsOld(k) \/ ScanWaits(k) \/ ScanRefused(k)
          PROVE  Moved
        BY <1>1, <2>3 DEF ScanSkipsOld, ScanDrops, ScanWaits, ScanRefused, ScanGoesOn, Passes
    <2> QED BY <1>4, <2>1, <2>2, <2>3 DEF ScanStep, Moved
<1>5. CASE LaunchStep
    <2>1. ProcessorSpawns \/ ProcessorRefused => Moved
        BY <1>1, WhereItIs DEF ProcessorSpawns, ProcessorRefused
    <2> QED BY <1>5, <2>1 DEF LaunchStep, OthersStep, Moved
<1>6. ASSUME NEW i \in Issues,
             StuckSkips(i) \/ StuckIsStale(i) \/ StuckIsKilled(i) \/ StuckOrphan(i)
      PROVE  Moved \/ Finds(i)
    BY <1>1, <1>6 DEF StuckSkips, StuckIsStale, StuckIsKilled, StuckOrphan, StuckGoesOn,
       RetryBegins, Finds, Passes
<1>7. ASSUME NEW i \in Issues, DeadWaits(i) \/ DeadIsQuiet(i) \/ DeadIsStale(i) \/ DeadIsRetried(i)
      PROVE  Moved \/ Finds(i)
    BY <1>1, <1>7 DEF DeadWaits, DeadIsQuiet, DeadIsStale, DeadIsRetried, RetryBegins, Finds, Passes
<1>8. ASSUME NEW i \in Issues, OrphanSkips(i) \/ OrphanIsClosed(i) \/ OrphanIsRetried(i)
      PROVE  Moved \/ Finds(i)
    BY <1>1, <1>8 DEF OrphanSkips, OrphanIsClosed, OrphanIsRetried, OrphanGoesOn, RetryBegins,
       Finds, Passes
<1>9. CASE Relaunching
    <2>1. PICK named, g, s : RetryLaunches(named, g, s) /\ pc = "alert"
        BY <1>9, RelaunchFacts
    <2>2. Pass(back) \in Passes
        BY <2>1, WhereItIs DEF RetryPlaces
    <2>3. Moved
        BY <1>3, <2>1, <2>2 DEF RetryLaunches
    <2> QED BY <2>3 DEF Moved
<1>10. CASE Ending
    <2>1. PICK s : RetryEnds(s) /\ pc \in {"alert", "giveup"}
        BY <1>10, EndFacts
    <2>2. Pass(back) \in Passes
        BY <2>1, WhereItIs DEF RetryPlaces
    <2>3. Moved
        BY <1>1, <2>1, <2>2 DEF RetryEnds
    <2> QED BY <2>3 DEF Moved
<1>11. ProcessorRestarts => Moved
    BY DEF ProcessorRestarts, Moved, Passes
<1>12. Moved \/ ~Moved
    OBVIOUS
<1> QED BY StepCases, <1>4, <1>5, <1>6, <1>7, <1>8, <1>9, <1>10, <1>11, Zenon
        DEF Moved, StuckStep, DeadStep, OrphanStep, RetryStep, OthersStep

\* A workflow is done once its last completion was applied.
LEMMA DoneMoves ==
    ASSUME HostInv, Next, pc' = "done"
    PROVE  \/ OthersStep
           \/ \E k \in Issues \X Agents : ScanApplies(k)
<1>1. Deciding \/ (\E i \in Issues : Finds(i)) => pc' \in RetryPlaces
    BY Zenon DEF Deciding, RetryRefused, RetryIsCounted, RetryUncounted, FuseTrips, RetryGoesTo,
       Finds, RetryPlaces
<1>2. "done" \notin RetryPlaces /\ "done" \notin Passes \cup {"launch", "relay"}
    BY DEF RetryPlaces, Passes
<1> QED BY <1>1, <1>2, PlaceMoves

-----------------------------------------------------------------------------
(* A workflow is finalised once.                                           *)

\* The finalisations of an issue, with the one that the scan is about to make,
\* are no more than the applications of its last completion.
FinalsInv ==
    \A i \in Issues :
       wf[i].state # "unmapped" =>
          finals[i] + (IF pc = "done" /\ cur.issue = i THEN 1 ELSE 0)
             <= IF <<i, NumSteps>> \in applied THEN 1 ELSE 0

\* A workflow whose mapping is gone is not mapped again.
LEMMA UnmappedStays ==
    ASSUME HostInv, Next, NEW i \in Issues, wf[i].state = "unmapped"
    PROVE  wf'[i].state = "unmapped"
<1> DEFINE Ok == wf'[i].state = "unmapped"
<1> SUFFICES Ok
    OBVIOUS
<1>1. wf \in [Issues -> WfType] /\ Expected(i) = NoAgent
    BY DEF HostInv, WfInv, Expected
<1>2. wf' = wf => Ok
    OBVIOUS
<1>3. ASSUME NEW j \in Issues, NEW w, wf' = [wf EXCEPT ![j] = w], j # i PROVE Ok
    BY <1>1, <1>3
<1>4. ASSUME NEW j \in Issues, NEW s, wf' = [wf EXCEPT ![j].state = s], j # i PROVE Ok
    BY <1>1, <1>4
<1> HIDE DEF Ok
<1>5. ASSUME NEW k \in Issues \X Agents, ScanApplies(k) PROVE Ok
    BY <1>2, <1>3, <1>5 DEF ScanApplies, Unmapped, Applies
<1>6. ASSUME NEW l \in Launchers, Refuse(l) PROVE Ok
    <2>1. req[l].issue \in Issues
        BY DEF HostInv, RequestInv, ReqType
    <2> QED BY <1>2, <1>4, <1>6, <2>1 DEF Refuse, NotResolved, NotProvisioned, NoToolLeft
<1>7. ASSUME FuseTrips PROVE Ok
    <2>1. PICK j \in Issues : j = cur.issue
        BY DEF HostInv, LoopInv
    <2>2. wf' = wf \/ (wf[j].state = "running" /\ wf' = [wf EXCEPT ![j].state = "paused"])
        BY <1>7, <2>1 DEF FuseTrips
    <2>3. wf[j].state = "running" => j # i
        OBVIOUS
    <2> QED BY <1>2, <1>4, <2>2, <2>3
<1>8. ASSUME NEW j \in Issues, OrphanIsClosed(j) PROVE Ok
    <2>1. wf' = wf \/ wf' = [wf EXCEPT ![j].state = "unmapped"]
        BY <1>8 DEF OrphanIsClosed
    <2>2. j = i => Ok
        BY <1>1, <2>1 DEF WfType, Ok
    <2> QED BY <1>2, <1>4, <2>1, <2>2
<1>9. ASSUME NEW j \in Issues, Pause(j) \/ Resume(j) PROVE Ok
    BY <1>4, <1>9 DEF Pause, Resume
<1>10. ASSUME NEW j \in Issues, Stop(j) PROVE Ok
    <2>1. wf'[i].state = wf[i].state \/ wf[i].state = "running"
        BY <1>1, <1>10 DEF Stop, WfType
    <2> QED BY <2>1 DEF Ok
<1>11. ASSUME NEW j \in Issues, Continue(j) PROVE Ok
    BY <1>1, <1>2, <1>3, <1>11 DEF Continue, MovesOn
<1>12. ASSUME NEW j \in Issues, NEW a \in Agents, AuthorOverrides(j, a) PROVE Ok
    <2>1. CASE j = i
        <3>1. wf' = wf \/ wf' = [wf EXCEPT ![i] = wf[i]]
            BY <1>12, <2>1 DEF AuthorOverrides, ResetTo
        <3> QED BY <1>1, <1>2, <3>1
    <2>2. CASE j # i
        BY <1>2, <1>3, <1>12, <2>2 DEF AuthorOverrides, ResetTo
    <2> QED BY <2>1, <2>2
<1>13. ASSUME ProcessorRestarts PROVE Ok
    BY <1>13 DEF ProcessorRestarts, StartupApplies, Signalled, Ok
<1>14. ASSUME ~ProcessorRestarts, ~FuseTrips,
              \A k \in Issues \X Agents : ~ScanApplies(k), \A l \in Launchers : ~Refuse(l),
              \A j \in Issues : /\ ~OrphanIsClosed(j)
                                /\ ~Pause(j) /\ ~Resume(j) /\ ~Stop(j) /\ ~Continue(j),
              \A j \in Issues, a \in Agents : ~AuthorOverrides(j, a)
       PROVE  wf' = wf
    BY <1>14, StepCases, RetryKeepsWf, ZenonT(60) DEF ScanStep, LaunchStep, StuckStep, DeadStep,
       OrphanStep, AgentStep, Elsewhere, Agent, Recovery, Outside, PassIsEmpty,
       ScanFinalizes, ScanComments, ScanChains, ScanSkipsOld, ScanDrops, ScanWaits,
       ScanRefused, ProcessorSpawns, ProcessorRefused, SpawnNext, Spawn, StuckSkips,
       StuckIsStale, StuckIsKilled, StuckOrphan, DeadWaits, DeadIsQuiet, DeadIsStale,
       DeadIsRetried, OrphanSkips, OrphanIsRetried, AgentReports, AgentEnds, QuotaDetected,
       RecoverFromLog, IssueCloses, FuseRests, FuseWindowExpires, Kill, AgentComments, hostVars,
       Launchers
<1> QED BY <1>2, <1>5, <1>6, <1>7, <1>8, <1>9, <1>10, <1>11, <1>12, <1>13, <1>14

\* Only the scan applies and finalises, and what is applied stays so.
LEMMA FinalsMove ==
    ASSUME HostInv, Next, ~ScanFinalizes, \A k \in Issues \X Agents : ~ScanApplies(k)
    PROVE  /\ UNCHANGED <<finals, applied>>
           /\ pc' = "done" => pc = "done" /\ cur' = cur
<1>1. UNCHANGED <<finals, applied>>
    BY StepCases, RetryKeeps, OthersKeepLoop, ZenonT(60) DEF OthersStep, ScanStep, LaunchStep,
       StuckStep, DeadStep, OrphanStep, ProcessorRestarts, PassIsEmpty,
       ScanComments, ScanChains, ScanSkipsOld, ScanDrops, ScanWaits, ScanRefused,
       ProcessorSpawns, ProcessorRefused, SpawnNext, StuckSkips, StuckIsStale, StuckIsKilled,
       StuckOrphan, DeadWaits, DeadIsQuiet, DeadIsStale, DeadIsRetried, OrphanSkips,
       OrphanIsClosed, OrphanIsRetried
<1> QED BY <1>1, DoneMoves, OthersKeepLoop

LEMMA FinalsStep == HostInv /\ FinalsInv /\ Next => FinalsInv'
<1> SUFFICES ASSUME HostInv, FinalsInv, Next, NEW i \in Issues, wf'[i].state # "unmapped"
             PROVE  finals'[i] + (IF pc' = "done" /\ cur'.issue = i THEN 1 ELSE 0)
                       <= IF <<i, NumSteps>> \in applied' THEN 1 ELSE 0
    BY DEF FinalsInv
<1>1. wf[i].state # "unmapped"
    BY UnmappedStays
<1>2. /\ finals \in [Issues -> Nat]
      /\ finals[i] + (IF pc = "done" /\ cur.issue = i THEN 1 ELSE 0)
            <= IF <<i, NumSteps>> \in applied THEN 1 ELSE 0
    BY <1>1 DEF HostInv, CountInv, FinalsInv
<1>3. CASE ScanFinalizes
    <2>1. /\ pc = "done" /\ finals' = [finals EXCEPT ![cur.issue] = @ + 1]
          /\ applied' = applied /\ pc' # "done"
        BY <1>3, OnwardMoves DEF ScanFinalizes, Passes
    <2>2. finals'[i] = finals[i] + (IF pc = "done" /\ cur.issue = i THEN 1 ELSE 0)
        BY <1>2, <2>1
    <2> QED BY <1>2, <2>1, <2>2
<1>4. ASSUME NEW k \in Issues \X Agents, ScanApplies(k)
      PROVE  finals'[i] + (IF pc' = "done" /\ cur'.issue = i THEN 1 ELSE 0)
                <= IF <<i, NumSteps>> \in applied' THEN 1 ELSE 0
    <2>1. pc = "scan" /\ finals' = finals /\ cur'.issue = k[1] /\ applied \subseteq applied'
          /\ (pc' = "done" => k[2] = NumSteps)
        BY <1>4 DEF ScanApplies, ScanTurn
    <2>2. CASE k[1] = i /\ k[2] = NumSteps
        <3>1. k = <<i, NumSteps>>
            BY <2>2
        <3>2. k \notin applied /\ k \in applied'
            BY <1>1, <1>4, <2>2 DEF ScanApplies, Applies, Unmapped
        <3> QED BY <1>2, <2>1, <3>1, <3>2
    <2>3. CASE ~(k[1] = i /\ k[2] = NumSteps)
        BY <1>2, <2>1, <2>3
    <2> QED BY <2>2, <2>3
<1>5. CASE ~ScanFinalizes /\ \A k \in Issues \X Agents : ~ScanApplies(k)
    BY <1>2, <1>5, FinalsMove
<1> QED BY <1>3, <1>4, <1>5

\* The scan finalises a workflow once, also when the processor is killed before
\* it has recorded that the completion is done with and reads it again.
THEOREM FinalizedOnce == Spec => []FinalizedAtMostOnce
<1> DEFINE Inv == HostInv /\ FinalsInv
<1>1. Init => Inv
    BY InitTypes DEF Init, LaunchInit, LoopInit, FinalsInv
<1>2. Inv /\ [Next]_vars => Inv'
    <2>1. FinalsInv /\ UNCHANGED vars => FinalsInv'
        BY DEF FinalsInv, vars, hostVars, loopVars, passVars
    <2> QED BY <2>1, TypesAreKept, FinalsStep
<1>3. Inv => FinalizedAtMostOnce
    <2> SUFFICES ASSUME HostInv, FinalsInv, NEW i \in Issues, wf[i].state # "unmapped"
                 PROVE  finals[i] <= 1
        BY DEF FinalizedAtMostOnce
    <2>1. finals[i] \in Nat
        BY DEF HostInv, CountInv
    <2>2. finals[i] + (IF pc = "done" /\ cur.issue = i THEN 1 ELSE 0)
             <= IF <<i, NumSteps>> \in applied THEN 1 ELSE 0
        BY DEF FinalsInv
    <2> QED BY <2>1, <2>2
<1> QED BY <1>1, <1>2, <1>3, PTL DEF Spec


-----------------------------------------------------------------------------
(* What the fuse bounds.  The retries granted, with those that its window   *)
(* leaves, are no more than it may grant: of the fuse in the tracker, and   *)
(* of each copy of the tracker that is going to be saved over it.           *)

\* The retries that fuse f leaves to a step of workflow w; a fuse of another
\* step, or one that tripped and is dropped with its entry, leaves them all.
Left(f, w) == IF f.agent = w.step /\ ~f.tripped THEN FuseGrants - f.attempts ELSE FuseGrants

Cov(f, w, o, n, m) == (w.state = "running" /\ o) => n + Left(f, w) <= m
Covers(f, i) == Cov(f, wf[i], open[i], granted[i], allowed[i])
CoversNext(f, i) == Cov(f, wf'[i], open'[i], granted'[i], allowed'[i])

Runs(i) == wf[i].state = "running" /\ open[i]
InDead == pc = "dead" \/ back = "dead"
At(place, i) == pc = place /\ cur.issue = i

\* The pass over dead agents holds a copy of the tracker; while a retry is
\* announced, that copy has not counted it yet.
SnapCovers(i) ==
    \/ Covers(snap[i].fuse, i)
    \/ At("alert", i) /\ Cov(snap[i].fuse, wf[i], open[i], granted[i] - 1, allowed[i])

FuseAt(i) ==
    /\ granted[i] <= allowed[i] /\ FuseGrants <= allowed[i]
    /\ At("trip", i) \/ Covers(tracker[i].fuse, i)
    /\ InDead => SnapCovers(i)
    /\ pc = "trip" /\ cur.issue # i => Covers(held[i].fuse, i)
    /\ At("retry", i) /\ Runs(i) => cur.step = Expected(i) \/ granted[i] = 0
    /\ At("giveup", i) /\ Runs(i) => granted[i] + FuseGrants <= allowed[i]
    /\ At("done", i) => granted[i] = 0

FuseInv == \A i \in Issues : FuseAt(i)

LEMMA LeftFacts ==
    ASSUME NEW f, OkFuse(f), NEW w
    PROVE  /\ FuseGrants \in Nat \ {0} /\ Left(f, w) \in 0..FuseGrants
           /\ f.agent # w.step => Left(f, w) = FuseGrants
           /\ f.tripped => Left(f, w) = FuseGrants
           /\ f.agent = w.step /\ ~f.tripped =>
                 /\ Left(f, w) = FuseGrants - f.attempts
                 /\ f.attempts \in Nat
<1>1. f.attempts \in 0..FuseMax /\ FuseMax \in Nat /\ FuseMax >= 2
      /\ FuseGrants = FuseMax - 1
    BY Constants DEF OkFuse, FuseType, FuseGrants
<1>2. CASE f.agent = w.step /\ ~f.tripped
    <2>1. f.attempts < FuseMax
        BY <1>2 DEF OkFuse
    <2>2. Left(f, w) = FuseGrants - f.attempts
        BY <1>2 DEF Left
    <2> HIDE DEF FuseGrants
    <2> QED BY <1>1, <1>2, <2>1, <2>2
<1>3. CASE ~(f.agent = w.step /\ ~f.tripped)
    <2>1. Left(f, w) = FuseGrants
        BY <1>3 DEF Left
    <2> QED BY <1>1, <1>3, <2>1
<1> QED BY <1>2, <1>3

\* No step is known to be retried anew.
Anew(i) == granted'[i] = 0 /\ FuseGrants <= allowed'[i]

\* The workflow is as it was, or no longer runs.
AsItWas(i) == wf'[i].state = "running" /\ open'[i] => Runs(i) /\ wf'[i] = wf[i]

\* Retries that are granted are allowed, too.
Allowed(i) ==
    /\ granted'[i] + allowed[i] <= granted[i] + allowed'[i]
    /\ FuseGrants <= allowed'[i]

Kept(i) == Anew(i) \/ (Allowed(i) /\ AsItWas(i))

\* The step that counts a retry of issue i.
Counts(i) ==
    /\ RetryIsCounted /\ cur.issue = i /\ open[i] /\ cur.step = Expected(i)
    /\ ~Attempted(i, cur.step).tripped

\* What a fuse covers, it covers after such a step.
LEMMA CoverStays ==
    ASSUME HostInv, Next, NEW i \in Issues, FuseAt(i), Kept(i), NEW f, OkFuse(f)
    PROVE  /\ Covers(f, i) => CoversNext(f, i)
           /\ Cov(f, wf[i], open[i], granted[i] - 1, allowed[i])
                 => Cov(f, wf'[i], open'[i], granted'[i] - 1, allowed'[i])
           /\ Anew(i) => CoversNext(f, i)
           /\ granted'[i] <= allowed'[i] /\ FuseGrants <= allowed'[i]
<1>1. /\ granted[i] \in Nat /\ allowed[i] \in Nat /\ granted'[i] \in Nat /\ allowed'[i] \in Nat
    BY CountStep DEF HostInv, CountInv
<1>2. /\ Left(f, wf[i]) \in 0..FuseGrants /\ Left(f, wf'[i]) \in 0..FuseGrants
      /\ FuseGrants \in Nat
    BY LeftFacts
<1>3. granted[i] <= allowed[i]
    BY DEF FuseAt
<1>4. CASE Anew(i)
    BY <1>1, <1>2, <1>4 DEF Anew, Cov, CoversNext
<1>5. CASE Allowed(i) /\ AsItWas(i)
    BY <1>1, <1>2, <1>3, <1>5 DEF Allowed, AsItWas, Runs, Anew, Cov, Covers, CoversNext
<1> QED BY <1>4, <1>5 DEF Kept

\* The counts move with a new count, a retry that is granted or not made, and a
\* failure that the fuse does not survive.
LEMMA CountsMove ==
    ASSUME HostInv, Next, NEW i \in Issues, FuseGrants <= allowed[i], ~Counts(i)
    PROVE  Anew(i) \/ Allowed(i)
<1> DEFINE Ok == Anew(i) \/ Allowed(i)
<1> SUFFICES Ok
    OBVIOUS
<1>1. /\ granted \in [Issues -> Nat] /\ allowed \in [Issues -> Nat]
      /\ cur.issue \in Issues /\ FuseGrants \in Nat \ {0}
    BY Constants DEF HostInv, CountInv, LoopInv, FuseGrants
<1>2. UNCHANGED retries => Ok
    BY <1>1 DEF retries, Allowed
<1>3. ASSUME NEW j \in Issues, Forgets(j) PROVE Ok
    BY <1>1, <1>3 DEF Forgets, Anew, Allowed
<1>4. ASSUME granted' \in [Issues -> Nat], allowed' = allowed,
             \A j \in Issues : granted'[j] <= granted[j]
      PROVE  Ok
    BY <1>1, <1>4 DEF Allowed
<1>5. ASSUME NEW j \in Issues, Slips(j), NEW a, granted' = granted \/ GrantedTo(j, a)
      PROVE  Ok
    <2>1. allowed'[i] = IF i = j THEN allowed[i] + FuseGrants ELSE allowed[i]
        BY <1>1, <1>5 DEF Slips
    <2>2. granted'[i] \in {granted[i], IF i = j THEN granted[i] + 1 ELSE granted[i]}
        BY <1>1, <1>5 DEF GrantedTo
    <2> QED BY <1>1, <2>1, <2>2 DEF Allowed
<1>6. StartupApplies => Ok
    <2> HAVE StartupApplies
    <2>1. \/ granted'[i] = 0 /\ allowed'[i] = FuseGrants
          \/ granted'[i] = granted[i] /\ allowed'[i] \in {allowed[i], allowed[i] + FuseGrants}
        BY DEF StartupApplies
    <2> QED BY <1>1, <2>1 DEF Anew, Allowed
<1> HIDE DEF Ok
<1>7. CASE ScanStep
    BY <1>2, <1>3, <1>7 DEF ScanStep, PassIsEmpty, ScanFinalizes, ScanComments, ScanChains,
       ScanSkipsOld, ScanDrops, ScanWaits, ScanRefused, ScanApplies, hostVars
<1>8. CASE LaunchStep
    BY <1>2, <1>8 DEF LaunchStep, ProcessorSpawns, ProcessorRefused, SpawnNext, Spawn, Refuse,
       Elsewhere, Launchers
<1>9. CASE StuckStep
    BY <1>2, <1>3, <1>9 DEF StuckStep, StuckSkips, StuckIsStale, StuckIsKilled, StuckOrphan,
       hostVars
<1>10. CASE DeadStep
    BY <1>2, <1>3, <1>10 DEF DeadStep, DeadWaits, DeadIsQuiet, DeadIsStale, DeadIsRetried,
       hostVars
<1>11. CASE OrphanStep
    BY <1>2, <1>3, <1>11 DEF OrphanStep, OrphanSkips, OrphanIsClosed, OrphanIsRetried, hostVars
<1>12. CASE RetryIsCounted
    <2> DEFINE j == cur.issue
               a == cur.step
    <2>1. CASE ~open[j]
        <3>1. Slips(j) /\ (granted' = granted \/ GrantedTo(j, a))
            BY <1>12, <2>1 DEF RetryIsCounted
        <3> QED BY <1>1, <1>5, <3>1
    <2>2. CASE open[j] /\ Attempted(j, a).tripped
        <3>1. granted' = granted /\ allowed' = allowed
            BY <1>12, <2>2 DEF RetryIsCounted
        <3> QED BY <1>2, <3>1 DEF retries
    <2>3. CASE open[j] /\ ~Attempted(j, a).tripped
        <3>1. GrantedTo(j, a) /\ allowed' = allowed
            BY <1>12, <2>3 DEF RetryIsCounted
        <3>2. i # j \/ a # Expected(j)
            BY <1>12, <2>3 DEF Counts
        <3>3. granted'[i] = granted[i] /\ allowed'[i] = allowed[i]
            BY <1>1, <3>1, <3>2 DEF GrantedTo
        <3> QED BY <1>1, <3>3 DEF Allowed, Ok
    <2> QED BY <2>1, <2>2, <2>3
<1>13. CASE RetryRefused \/ RetryUncounted \/ FuseTrips
    <2>1. \/ UNCHANGED retries
          \/ Slips(cur.issue) /\ (granted' = granted \/ GrantedTo(cur.issue, cur.step))
        BY <1>13 DEF RetryRefused, RetryUncounted, FuseTrips
    <2> QED BY <1>1, <1>2, <1>5, <2>1
<1>14. CASE Relaunching
    BY <1>2, <1>14, RelaunchFacts DEF RetryLaunches
<1>15. CASE Ending
    <2>1. (granted' = granted \/ NotMade(cur.issue)) /\ allowed' = allowed
        BY <1>15 DEF Ending, RetryUnannounced, GivesUp, GivesUpDead, RetryEnds
    <2>2. granted' \in [Issues -> Nat] /\ \A j \in Issues : granted'[j] <= granted[j]
        <3>1. CASE granted' = granted
            BY <1>1, <3>1
        <3>2. CASE NotMade(cur.issue)
            <4>1. granted' \in [Issues -> Nat]
                BY CountStep DEF HostInv, CountInv
            <4>2. ASSUME NEW j \in Issues PROVE granted'[j] <= granted[j]
                <5>1. granted'[j] = IF j = cur.issue
                                    THEN (IF granted[j] = 0 THEN 0 ELSE granted[j] - 1)
                                    ELSE granted[j]
                    BY <1>1, <3>2 DEF NotMade
                <5>2. granted[j] \in Nat
                    BY <1>1
                <5> QED BY <5>1, <5>2
            <4> QED BY <4>1, <4>2
        <3> QED BY <2>1, <3>1, <3>2
    <2> QED BY <1>4, <2>1, <2>2
<1>16. CASE AgentStep
    BY <1>2, <1>16 DEF AgentStep, Agent, Recovery, AgentReports, AgentEnds, QuotaDetected,
       RecoverFromLog
<1>17. CASE Outside
    <2>1. CASE \E j \in Issues : \/ IssueCloses(j) \/ FuseRests(j) \/ Pause(j)
                                 \/ Resume(j) \/ Kill(j) \/ Stop(j)
        BY <1>2, <1>3, <2>1 DEF IssueCloses, FuseRests, FuseWindowExpires, Pause, Resume,
           Kill, Stop
    <2>2. CASE \E j \in Issues : Continue(j)
        BY <1>2, <1>3, <2>2 DEF Continue, MovesOn
    <2>3. CASE \E j \in Issues, a \in Agents : AgentComments(<<j, a>>) \/ AuthorOverrides(j, a)
        BY <1>2, <1>3, <2>3, Zenon DEF AgentComments, AuthorOverrides, ResetTo, retries
    <2> QED BY <1>17, <2>1, <2>2, <2>3 DEF Outside
<1>18. CASE ProcessorRestarts
    BY <1>6, <1>18 DEF ProcessorRestarts
<1> QED BY StepCases, <1>7, <1>8, <1>9, <1>10, <1>11, <1>12, <1>13, <1>14, <1>15, <1>16, <1>17,
           <1>18 DEF RetryStep, Deciding

\* A workflow that runs is the one that ran, unless retries are counted anew.
LEMMA WorkflowMoves ==
    ASSUME HostInv, Next, NEW i \in Issues, FuseGrants <= allowed[i]
    PROVE  Anew(i) \/ AsItWas(i)
<1> DEFINE Ok == Anew(i) \/ AsItWas(i)
<1> SUFFICES Ok
    OBVIOUS
<1>1. /\ wf \in [Issues -> WfType] /\ open \in [Issues -> BOOLEAN]
      /\ granted \in [Issues -> Nat] /\ allowed \in [Issues -> Nat]
      /\ FuseGrants \in Nat
    BY Constants DEF HostInv, WfInv, CountInv, FuseGrants
<1>2. open'[i] => open[i]
    <2>1. CASE \E j \in Issues : IssueCloses(j)
        BY <1>1, <2>1 DEF IssueCloses
    <2>2. CASE \A j \in Issues : ~IssueCloses(j)
        <3>1. open' = open
            BY <2>2, StepCases, RetryKeeps, ZenonT(60) DEF ScanStep, LaunchStep,
               StuckStep, DeadStep, OrphanStep, AgentStep, Elsewhere, Agent, Recovery, Outside,
               ProcessorRestarts, PassIsEmpty, ScanFinalizes, ScanComments, ScanChains,
               ScanSkipsOld, ScanDrops, ScanWaits, ScanRefused, ScanApplies, ProcessorSpawns,
               ProcessorRefused, SpawnNext, Spawn, Refuse, StuckSkips, StuckIsStale,
               StuckIsKilled, StuckOrphan, DeadWaits, DeadIsQuiet, DeadIsStale,
               DeadIsRetried, OrphanSkips, OrphanIsClosed, OrphanIsRetried, AgentReports,
               AgentEnds, QuotaDetected, RecoverFromLog, FuseRests, FuseWindowExpires, Pause,
               Resume, Kill, Stop, Continue, AgentComments, AuthorOverrides, hostVars
        <3> QED BY <3>1
    <2> QED BY <2>1, <2>2
<1>3. wf'[i] = wf[i] => Ok
    BY <1>2 DEF AsItWas, Runs
<1>4. wf'[i].state # "running" => Ok
    BY DEF AsItWas
<1>5. ASSUME NEW j \in Issues, Forgets(j), \/ wf' = wf
                                           \/ \E w : wf' = [wf EXCEPT ![j] = w]
                                           \/ \E s : wf' = [wf EXCEPT ![j].state = s]
      PROVE  Ok
    <2>1. CASE j = i
        BY <1>1, <1>5, <2>1 DEF Forgets, Anew
    <2>2. CASE j # i
        <3>1. wf'[i] = wf[i]
            BY <1>1, <1>5, <2>2
        <3> QED BY <1>3, <3>1
    <2> QED BY <2>1, <2>2
<1>6. ASSUME NEW j \in Issues, wf' = wf \/ wf' = [wf EXCEPT ![j].state = "paused"]
      PROVE  Ok
    <2>1. wf'[i] = wf[i] \/ wf'[i].state # "running"
        BY <1>1, <1>6 DEF WfType
    <2> QED BY <1>3, <1>4, <2>1
<1>7. wf' = wf => Ok
    BY <1>3
<1> HIDE DEF Ok
<1>8. ASSUME NEW k \in Issues \X Agents, ScanApplies(k) PROVE Ok
    BY <1>5, <1>8 DEF ScanApplies
<1>9. ASSUME NEW l \in Launchers, Refuse(l) PROVE Ok
    <2>1. req[l].issue \in Issues
        BY DEF HostInv, RequestInv, ReqType
    <2> QED BY <1>6, <1>9, <2>1 DEF Refuse, NotResolved, NotProvisioned, NoToolLeft
<1>10. ASSUME FuseTrips PROVE Ok
    <2>1. cur.issue \in Issues
        BY DEF HostInv, LoopInv
    <2>2. wf' = wf \/ wf' = [wf EXCEPT ![cur.issue].state = "paused"]
        BY <1>10 DEF FuseTrips
    <2> QED BY <1>6, <2>1, <2>2
<1>11. ASSUME NEW j \in Issues, OrphanIsClosed(j) PROVE Ok
    BY <1>5, <1>7, <1>11 DEF OrphanIsClosed
<1>12. ASSUME NEW j \in Issues, Pause(j) \/ Resume(j) \/ Stop(j) PROVE Ok
    BY <1>5, <1>6, <1>12 DEF Pause, Resume, Stop
<1>13. ASSUME NEW j \in Issues, Continue(j) PROVE Ok
    BY <1>5, <1>7, <1>13 DEF Continue, MovesOn
<1>14. ASSUME NEW j \in Issues, NEW a \in Agents, AuthorOverrides(j, a) PROVE Ok
    <2>1. CASE ResetTo(j, a)
        <3>1. wf' = wf \/ Forgets(j)
            <4> DEFINE w == IF wf[j].state = "unmapped" THEN wf[j]
                            ELSE [state |-> "running", step |-> a]
            <4>1. wf' = [wf EXCEPT ![j] = w] /\ (w = wf[j] \/ Forgets(j))
                BY <2>1 DEF ResetTo
            <4> HIDE DEF w
            <4>2. w = wf[j] => wf' = wf
                BY <1>1, <4>1
            <4> QED BY <4>1, <4>2
        <3>2. \E w : wf' = [wf EXCEPT ![j] = w]
            BY <2>1 DEF ResetTo
        <3> QED BY <1>5, <1>7, <3>1, <3>2
    <2>2. CASE ~ResetTo(j, a)
        BY <1>7, <1>14, <2>2 DEF AuthorOverrides
    <2> QED BY <2>1, <2>2
<1>15. ASSUME ProcessorRestarts PROVE Ok
    <2>1. (granted'[i] = 0 /\ allowed'[i] = FuseGrants) \/ wf'[i] = wf[i]
        BY <1>15 DEF ProcessorRestarts, StartupApplies
    <2> QED BY <1>1, <1>3, <2>1 DEF Anew, Ok
<1>16. ASSUME ~ProcessorRestarts, ~FuseTrips,
              \A k \in Issues \X Agents : ~ScanApplies(k), \A l \in Launchers : ~Refuse(l),
              \A j \in Issues : /\ ~OrphanIsClosed(j)
                                /\ ~Pause(j) /\ ~Resume(j) /\ ~Stop(j) /\ ~Continue(j),
              \A j \in Issues, a \in Agents : ~AuthorOverrides(j, a)
       PROVE  wf' = wf
    BY <1>16, StepCases, RetryKeepsWf, ZenonT(60) DEF ScanStep, LaunchStep, StuckStep, DeadStep,
       OrphanStep, AgentStep, Elsewhere, Agent, Recovery, Outside, PassIsEmpty,
       ScanFinalizes, ScanComments, ScanChains, ScanSkipsOld, ScanDrops, ScanWaits,
       ScanRefused, ProcessorSpawns, ProcessorRefused, SpawnNext, Spawn, StuckSkips,
       StuckIsStale, StuckIsKilled, StuckOrphan, DeadWaits, DeadIsQuiet, DeadIsStale,
       DeadIsRetried, OrphanSkips, OrphanIsRetried, AgentReports, AgentEnds, QuotaDetected,
       RecoverFromLog, IssueCloses, FuseRests, FuseWindowExpires, Kill, AgentComments, hostVars,
       Launchers
<1> QED BY <1>7, <1>8, <1>9, <1>10, <1>11, <1>12, <1>13, <1>14, <1>15, <1>16

LEMMA KeptStep ==
    ASSUME HostInv, Next, NEW i \in Issues, FuseAt(i), ~Counts(i)
    PROVE  Kept(i)
    BY CountsMove, WorkflowMoves DEF FuseAt, Kept

\* The copy that the pass over dead agents holds is the one that it held, or
\* the tracker as it is.
LEMMA SnapMoves ==
    ASSUME HostInv, Next, InDead'
    PROVE  \/ snap' = tracker' /\ pc' \notin RetryPlaces
           \/ snap' = snap /\ InDead
<1> DEFINE Fresh == snap' = tracker' /\ pc' \notin RetryPlaces
           Held == snap' = snap /\ InDead
           Ok == Fresh \/ Held
<1> SUFFICES Ok
    OBVIOUS
<1>1. pc' \in Passes => pc' = "dead"
    <2>1. pc' \in Passes => back' = "idle"
        BY LoopStep DEF LoopInv
    <2> QED BY <2>1 DEF InDead
<1>2. \A p \in Passes \cup {"launch"} : p \notin RetryPlaces
    BY DEF Passes, RetryPlaces
<1>3. ASSUME NEW pass \in Passes, NEW rest, NEW s, Onward(pass, rest, s),
             pass = "dead" => s \in {snap, tracker'} /\ InDead
      PROVE  Ok
    <2>1. pc' \in Passes /\ pc' = "dead"
        BY <1>1, <1>3, OnwardMoves
    <2>2. snap' = tracker' \/ (snap' = s /\ pass = "dead")
        BY <1>3, <2>1, OnwardMoves
    <2> QED BY <1>2, <1>3, <2>1, <2>2
<1>4. ASSUME NEW pass \in Passes, NEW i, NEW a, NEW X, NEW g, NEW rest, NEW s,
             LaunchBegins(pass, i, a, X, g, rest, s), pass = "dead" => s = tracker' /\ InDead
      PROVE  Ok
    <2>1. CASE pc' = "launch" /\ back' = pass /\ snap' = s
        BY <1>2, <1>4, <2>1 DEF InDead
    <2>2. CASE Onward(pass, rest, s)
        BY <1>3, <1>4, <2>2
    <2> QED BY <1>4, <2>1, <2>2 DEF LaunchBegins
<1>5. ASSUME NEW kind, NEW i, NEW a, NEW s, RetryBegins(kind, i, a, s),
             kind = "dead" => s = snap /\ InDead
      PROVE  Ok
    BY <1>5 DEF RetryBegins, InDead
<1>6. UNCHANGED <<pc, back, snap>> => Ok
    BY DEF InDead
<1>7. PassIsEmpty \/ ProcessorRestarts => Ok
    <2>1. PassIsEmpty => pc' \in Passes \ {"dead"}
        BY DEF PassIsEmpty, Enter, Passes
    <2>2. ProcessorRestarts => pc' \in Passes \ {"dead"}
        BY DEF ProcessorRestarts, Passes
    <2> QED BY <1>1, <2>1, <2>2
<1> HIDE DEF Ok
<1>8. CASE ScanStep
    <2>1. ScanFinalizes \/ ScanComments \/ ScanChains => Ok
        <3>1. ScanComments /\ pc' = "relay" => Ok
            <4>1. pc' = "relay" => back' = "idle"
                BY LoopStep DEF LoopInv, ScanPlaces
            <4> QED BY <4>1 DEF InDead
        <3> QED BY <1>3, <1>4, <3>1 DEF ScanFinalizes, ScanComments, ScanChains, Passes
    <2>2. ASSUME NEW k \in Issues \X Agents, ScanSkipsOld(k) \/ ScanWaits(k) \/ ScanRefused(k)
          PROVE  Ok
        BY <1>3, <2>2 DEF ScanSkipsOld, ScanDrops, ScanWaits, ScanRefused, ScanGoesOn, Passes
    <2>3. ASSUME NEW k \in Issues \X Agents, ScanApplies(k) PROVE Ok
        <3>1. pc' \in {"done", "comment"}
            BY <2>3 DEF ScanApplies
        <3>2. back' = "idle"
            BY <3>1, LoopStep DEF LoopInv, ScanPlaces
        <3> QED BY <3>1, <3>2 DEF InDead
    <2> QED BY <1>7, <1>8, <2>1, <2>2, <2>3 DEF ScanStep
<1>9. CASE LaunchStep
    <2>1. ProcessorSpawns \/ ProcessorRefused => Ok
        BY <1>3, WhereItIs DEF ProcessorSpawns, ProcessorRefused, InDead
    <2> QED BY <1>6, <1>9, <2>1, OthersKeepLoop DEF LaunchStep, OthersStep
<1>10. ASSUME NEW i \in Issues,
              StuckSkips(i) \/ StuckIsStale(i) \/ StuckIsKilled(i) \/ StuckOrphan(i)
       PROVE  Ok
    BY <1>3, <1>5, <1>10 DEF StuckSkips, StuckIsStale, StuckIsKilled, StuckOrphan, StuckGoesOn,
       Passes
<1>11. ASSUME NEW i \in Issues,
              DeadWaits(i) \/ DeadIsQuiet(i) \/ DeadIsStale(i) \/ DeadIsRetried(i)
       PROVE  Ok
    <2>1. InDead
        BY <1>11 DEF DeadWaits, DeadIsQuiet, DeadIsStale, DeadIsRetried, Overdue, DeadTurn, InDead
    <2> QED BY <1>3, <1>5, <1>11, <2>1 DEF DeadWaits, DeadIsQuiet, DeadIsStale, DeadIsRetried,
            Passes
<1>12. ASSUME NEW i \in Issues, OrphanSkips(i) \/ OrphanIsClosed(i) \/ OrphanIsRetried(i)
       PROVE  Ok
    BY <1>3, <1>5, <1>12 DEF OrphanSkips, OrphanIsClosed, OrphanGoesOn, OrphanIsRetried, Passes
<1>13. CASE Deciding
    <2>1. snap' = snap /\ back' = back /\ pc' # "dead"
        BY <1>13 DEF Deciding, RetryRefused, RetryIsCounted, RetryUncounted, FuseTrips, RetryGoesTo
    <2> QED BY <2>1 DEF InDead, Ok
<1>14. CASE Relaunching
    <2>1. ASSUME DeadRelaunches PROVE Ok
        <3>1. /\ RetryLaunches(FailedTool(cur.issue), Forgotten(cur.issue), tracker')
              /\ back = "dead"
            BY <2>1 DEF DeadRelaunches
        <3>2. Pass(back) = "dead" /\ "dead" \in Passes /\ InDead
            BY <3>1 DEF Pass, Passes, InDead
        <3>3. LaunchBegins("dead", cur.issue, cur.step,
                           Exclusions(cur.issue, FailedTool(cur.issue)),
                           Forgotten(cur.issue), todo, tracker')
            BY <3>1, <3>2 DEF RetryLaunches
        <3> QED BY <1>4, <3>2, <3>3
    <2>2. StuckRelaunches \/ LostRelaunches \/ OrphanRelaunches => Ok
        BY <1>4 DEF StuckRelaunches, LostRelaunches, OrphanRelaunches, RetryLaunches, Pass, Passes
    <2> QED BY <1>14, <2>1, <2>2 DEF Relaunching
<1>15. CASE Ending
    <2>1. RetryUnannounced => Ok
        BY <1>3 DEF RetryUnannounced, RetryEnds, Pass, InDead, Passes
    <2>2. GivesUp \/ GivesUpDead => Ok
        BY <1>3 DEF GivesUp, GivesUpDead, RetryEnds, Pass, InDead, Passes
    <2> QED BY <1>15, <2>1, <2>2 DEF Ending
<1>16. CASE AgentStep \/ Outside
    BY <1>6, <1>16, OthersKeepLoop DEF OthersStep
<1> QED BY StepCases, <1>7, <1>8, <1>9, <1>10, <1>11, <1>12, <1>13, <1>14, <1>15, <1>16
        DEF RetryStep, StuckStep, DeadStep, OrphanStep

\* Where the fuse of an issue comes from after a step.
LEMMA FuseMoves ==
    ASSUME HostInv, Next, NEW i \in Issues, FuseAt(i)
    PROVE  \/ Anew(i)
           \/ tracker'[i].fuse = tracker[i].fuse
           \/ InDead /\ ~At("alert", i) /\ tracker'[i].fuse = snap[i].fuse
           \/ RetryIsCounted /\ cur.issue = i
           \/ FuseTrips /\ tracker' = held
           \/ GivesUpDead /\ cur.issue = i
<1> DEFINE Same == tracker'[i].fuse = tracker[i].fuse
           Ok == \/ Anew(i) \/ Same
                 \/ InDead /\ ~At("alert", i) /\ tracker'[i].fuse = snap[i].fuse
                 \/ RetryIsCounted /\ cur.issue = i
                 \/ FuseTrips /\ tracker' = held
                 \/ GivesUpDead /\ cur.issue = i
<1> SUFFICES Ok
    OBVIOUS
<1>1. /\ tracker \in [Issues -> Entries] /\ snap \in [Issues -> Entries]
      /\ granted \in [Issues -> Nat] /\ allowed \in [Issues -> Nat]
      /\ cur.issue \in Issues /\ FuseGrants \in Nat
    BY Constants DEF HostInv, TrackerInv, OkTracker, CountInv, LoopInv, FuseGrants
<1>2. tracker' = tracker => Ok
    OBVIOUS
<1>3. \A j \in Issues \ {i} : \A e : tracker' = [tracker EXCEPT ![j] = e] => Ok
    BY <1>1
<1>4. Forgets(i) => Ok
    BY <1>1 DEF Forgets, Anew
<1>5. ASSUME NEW j \in Issues, NEW X, tracker' = [tracker EXCEPT ![j].excl = X] PROVE Ok
    <2>1. Same
        BY <1>1, <1>5 DEF Entries
    <2> QED BY <2>1
<1>6. ASSUME NEW j \in Issues \ {i}, NEW e, tracker' = [snap EXCEPT ![j] = e],
             InDead, ~At("alert", i)
      PROVE  Ok
    BY <1>1, <1>6
<1> HIDE DEF Ok
<1>7. ASSUME NEW j \in Issues, StuckIsStale(j) \/ OrphanIsClosed(j) \/ Stop(j) PROVE Ok
    <2>1. tracker' = tracker \/ (Forgets(j) /\ tracker' = [tracker EXCEPT ![j] = NoEntry])
        BY <1>7 DEF StuckIsStale, OrphanIsClosed, Stop
    <2> QED BY <1>2, <1>3, <1>4, <2>1
<1>8. ASSUME NEW j \in Issues, DeadIsStale(j) PROVE Ok
    <2>1. /\ Forgets(j) /\ tracker' = [snap EXCEPT ![j] = NoEntry]
          /\ pc = "dead"
        BY <1>8 DEF DeadIsStale, DeadTurn
    <2> QED BY <1>4, <1>6, <2>1 DEF InDead, At
<1>9. ASSUME NEW j \in Issues, FuseRests(j) PROVE Ok
    <2>1. Forgets(j) /\ tracker' = [tracker EXCEPT ![j].fuse = NoFuse]
        BY <1>9 DEF FuseRests, FuseWindowExpires
    <2>2. CASE j # i
        <3>1. Same
            BY <1>1, <2>1, <2>2
        <3> QED BY <3>1 DEF Ok
    <2> QED BY <1>4, <2>1, <2>2
<1>10. ASSUME NEW l \in Launchers, SpawnNext(l) PROVE Ok
    <2>1. req[l].issue \in Issues
        BY DEF HostInv, RequestInv, ReqType
    <2>2. ASSUME NEW t \in Tools, tracker' = Tracked(req[l], NextPid, t) PROVE Same
        BY <1>1, <2>1, <2>2 DEF Tracked
    <2>3. tracker' = tracker \/ \E t \in Tools : tracker' = Tracked(req[l], NextPid, t)
        BY <1>10 DEF SpawnNext, Spawn
    <2> QED BY <1>2, <2>2, <2>3 DEF Ok
<1>11. ASSUME NEW l \in Launchers, Refuse(l) PROVE Ok
    <2>1. req[l].issue \in Issues
        BY DEF HostInv, RequestInv, ReqType
    <2>2. tracker' = tracker \/ \E X : tracker' = [tracker EXCEPT ![req[l].issue].excl = X]
        BY <1>11 DEF Refuse, NotResolved, NotProvisioned, NoToolLeft
    <2> QED BY <1>2, <1>5, <2>1, <2>2
<1>12. ASSUME NEW p \in Pids, QuotaDetected(p) PROVE Ok
    <2>1. proc[p].issue \in Issues
        BY DEF HostInv, ProcInv, ProcType
    <2>2. \E X : tracker' = [tracker EXCEPT ![proc[p].issue].excl = X]
        BY <1>12 DEF QuotaDetected
    <2> QED BY <1>5, <2>1, <2>2
<1>13. ASSUME ScanFinalizes PROVE Ok
    <2>1. /\ pc = "done" /\ UNCHANGED retries
          /\ tracker' = [tracker EXCEPT ![cur.issue] = NoEntry]
        BY <1>13 DEF ScanFinalizes
    <2>2. CASE cur.issue = i
        <3>1. granted[i] = 0 /\ FuseGrants <= allowed[i]
            BY <2>1, <2>2 DEF FuseAt, At
        <3> QED BY <2>1, <3>1 DEF retries, Anew, Ok
    <2>3. CASE cur.issue # i
        BY <1>1, <1>3, <2>1, <2>3
    <2> QED BY <2>2, <2>3
<1>14. ASSUME RetryIsCounted PROVE Ok
    <2>1. tracker' = [tracker EXCEPT ![cur.issue].fuse = Attempted(cur.issue, cur.step)]
        BY <1>14 DEF RetryIsCounted, FuseSaved
    <2>2. CASE cur.issue # i
        <3>1. Same
            BY <1>1, <2>1, <2>2
        <3> QED BY <3>1 DEF Ok
    <2> QED BY <1>14, <2>2 DEF Ok
<1>15. ASSUME FuseTrips PROVE Ok
    BY <1>2, <1>15 DEF FuseTrips, Ok
<1>16. ASSUME DeadRelaunches PROVE Ok
    <2>1. /\ pc = "alert" /\ back = "dead"
          /\ tracker' = [snap EXCEPT ![cur.issue] = KeptMeta(cur.issue)]
        BY <1>16 DEF DeadRelaunches
    <2>2. CASE cur.issue = i
        <3>1. tracker'[i] = KeptMeta(i)
            BY <1>1, <2>1, <2>2
        <3>2. KeptMeta(i).fuse = tracker[i].fuse
            BY DEF KeptMeta, NoEntry
        <3> QED BY <3>1, <3>2 DEF Ok
    <2>3. CASE cur.issue # i
        BY <1>1, <1>6, <2>1, <2>3 DEF InDead, At
    <2> QED BY <2>2, <2>3
<1>17. ASSUME GivesUpDead PROVE Ok
    <2>1. /\ pc = "giveup" /\ back = "dead"
          /\ tracker' = [snap EXCEPT ![cur.issue] = NoEntry]
        BY <1>17 DEF GivesUpDead
    <2>2. CASE cur.issue # i
        BY <1>1, <1>6, <2>1, <2>2 DEF InDead, At
    <2> QED BY <1>17, <2>2 DEF Ok
<1>18. ASSUME ~ScanFinalizes, ~RetryIsCounted, ~FuseTrips, ~DeadRelaunches, ~GivesUpDead,
              \A l \in Launchers : ~Refuse(l) /\ ~SpawnNext(l),
              \A j \in Issues : /\ ~StuckIsStale(j) /\ ~OrphanIsClosed(j) /\ ~DeadIsStale(j)
                                /\ ~Stop(j) /\ ~FuseRests(j),
              \A p \in Pids : ~QuotaDetected(p)
       PROVE  tracker' = tracker
    <2>1. RetryStep => tracker' = tracker
        BY <1>18 DEF RetryStep, Deciding, Relaunching, Ending, RetryRefused, RetryUncounted,
           StuckRelaunches, LostRelaunches, OrphanRelaunches, RetryUnannounced, GivesUp, launchVars
    <2> QED BY <1>18, <2>1, StepCases, ZenonT(60) DEF ScanStep, LaunchStep, StuckStep, DeadStep,
       OrphanStep, AgentStep, Elsewhere, Agent, Recovery, Outside, ProcessorRestarts,
       PassIsEmpty, ScanComments, ScanChains, ScanSkipsOld, ScanDrops, ScanWaits,
       ScanRefused, ScanApplies, ProcessorSpawns, ProcessorRefused, StuckSkips, StuckIsKilled,
       StuckOrphan, DeadWaits, DeadIsQuiet, DeadIsRetried, OrphanSkips, OrphanIsRetried,
       AgentReports, AgentEnds, RecoverFromLog, IssueCloses,
       Pause, Resume, Kill, Continue, AgentComments, AuthorOverrides, hostVars, launchVars,
       Launchers
<1> QED BY <1>2, <1>7, <1>8, <1>9, <1>10, <1>11, <1>12, <1>13, <1>14, <1>15, <1>16, <1>17, <1>18

\* A thread that decides over a retry does nothing else.
LEMMA RetryPlaceMoves ==
    ASSUME Next, pc \in RetryPlaces
    PROVE  OthersStep \/ RetryStep \/ ProcessorRestarts
<1>1. pc \notin {"scan", "stuck", "dead", "orphan", "done", "comment", "relay", "launch"}
    BY DEF RetryPlaces
<1>2. ~ScanStep
    BY <1>1 DEF ScanStep, PassIsEmpty, ScanFinalizes, ScanComments, ScanChains, ScanSkipsOld,
       ScanWaits, ScanRefused, ScanApplies, ScanTurn
<1>3. LaunchStep => OthersStep
    BY <1>1 DEF LaunchStep, ProcessorSpawns, ProcessorRefused, OthersStep
<1>4. ~StuckStep
    BY <1>1 DEF StuckStep, StuckSkips, StuckIsStale, StuckIsKilled, StuckOrphan, StuckTurn
<1>5. ~DeadStep
    BY <1>1 DEF DeadStep, DeadWaits, DeadIsQuiet, DeadIsStale, DeadIsRetried, Overdue, DeadTurn
<1>6. ~OrphanStep
    BY <1>1 DEF OrphanStep, OrphanSkips, OrphanIsClosed, OrphanIsRetried, OrphanTurn
<1> QED BY <1>2, <1>3, <1>4, <1>5, <1>6, StepCases DEF OthersStep

\* Only the processor's own steps grant a retry.
LEMMA OthersGrantNone ==
    ASSUME HostInv, OthersStep, NEW i \in Issues
    PROVE  granted'[i] \in {0, granted[i]}
<1>1. granted \in [Issues -> Nat]
    BY DEF HostInv, CountInv
<1>2. UNCHANGED retries => granted'[i] = granted[i]
    BY DEF retries
<1>3. ASSUME NEW j \in Issues, Forgets(j) PROVE granted'[i] \in {0, granted[i]}
    BY <1>1, <1>3 DEF Forgets
<1>4. CASE \E l \in Launchers : Elsewhere(l)
    BY <1>2, <1>4 DEF Elsewhere, SpawnNext, Spawn, Refuse
<1>5. CASE AgentStep
    BY <1>2, <1>5 DEF AgentStep, Agent, Recovery, AgentReports, AgentEnds, QuotaDetected,
       RecoverFromLog
<1>6. CASE Outside
    <2>1. CASE \E j \in Issues : \/ IssueCloses(j) \/ FuseRests(j) \/ Pause(j)
                                 \/ Resume(j) \/ Kill(j) \/ Stop(j)
        BY <1>2, <1>3, <2>1 DEF IssueCloses, FuseRests, FuseWindowExpires, Pause, Resume,
           Kill, Stop
    <2>2. CASE \E j \in Issues : Continue(j)
        BY <1>2, <1>3, <2>2 DEF Continue, MovesOn
    <2>3. CASE \E j \in Issues, a \in Agents : AgentComments(<<j, a>>) \/ AuthorOverrides(j, a)
        <3>1. UNCHANGED retries \/ \E j \in Issues : Forgets(j)
            BY <2>3, Zenon DEF AgentComments, AuthorOverrides, ResetTo, retries
        <3> QED BY <1>2, <1>3, <3>1
    <2> QED BY <1>6, <2>1, <2>2, <2>3 DEF Outside
<1> QED BY <1>4, <1>5, <1>6 DEF OthersStep

\* A retry that is announced is launched, or it is not made.
LEMMA AlertMoves ==
    ASSUME HostInv, Next, pc = "alert", InDead'
    PROVE  \/ OthersStep
           \/ RetryUnannounced
           \/ snap' = tracker' /\ pc' \notin RetryPlaces
<1> DEFINE Fresh == snap' = tracker' /\ pc' \notin RetryPlaces
<1>1. pc \in RetryPlaces
    BY DEF RetryPlaces
<1>2. pc' \in Passes => pc' = "dead" /\ pc' \notin RetryPlaces
    <2>1. pc' \in Passes => back' = "idle"
        BY LoopStep DEF LoopInv
    <2> QED BY <2>1 DEF InDead, Passes, RetryPlaces
<1>3. ASSUME NEW pass \in Passes, NEW i, NEW a, NEW X, NEW g, NEW rest, NEW s,
             LaunchBegins(pass, i, a, X, g, rest, s), pass = "dead" => s = tracker'
      PROVE  Fresh
    <2>1. CASE pc' = "launch" /\ back' = pass /\ snap' = s
        BY <1>3, <2>1 DEF InDead, RetryPlaces
    <2>2. CASE Onward(pass, rest, s)
        <3>1. pc' \in Passes
            BY <2>2, OnwardMoves
        <3>2. pc' = "dead" /\ (snap' = tracker' \/ (snap' = s /\ pass = "dead"))
            BY <1>2, <2>2, <3>1, OnwardMoves
        <3> QED BY <1>2, <1>3, <3>1, <3>2
    <2> QED BY <1>3, <2>1, <2>2 DEF LaunchBegins
<1> HIDE DEF Fresh
<1>4. ASSUME DeadRelaunches PROVE Fresh
    <2>1. /\ RetryLaunches(FailedTool(cur.issue), Forgotten(cur.issue), tracker')
          /\ back = "dead"
        BY <1>4 DEF DeadRelaunches
    <2>2. Pass(back) = "dead" /\ "dead" \in Passes
        BY <2>1 DEF Pass, Passes
    <2>3. LaunchBegins("dead", cur.issue, cur.step,
                       Exclusions(cur.issue, FailedTool(cur.issue)),
                       Forgotten(cur.issue), todo, tracker')
        BY <2>1, <2>2 DEF RetryLaunches
    <2> QED BY <1>3, <2>2, <2>3
<1>5. StuckRelaunches \/ LostRelaunches \/ OrphanRelaunches => Fresh
    BY <1>3 DEF StuckRelaunches, LostRelaunches, OrphanRelaunches, RetryLaunches, Pass, Passes
<1>6. ~Deciding /\ ~GivesUp /\ ~GivesUpDead
    BY DEF Deciding, RetryRefused, RetryIsCounted, RetryUncounted, FuseTrips, GivesUp, GivesUpDead
<1>7. ~ProcessorRestarts
    BY DEF ProcessorRestarts, InDead
<1> QED BY <1>1, <1>4, <1>5, <1>6, <1>7, RetryPlaceMoves DEF RetryStep, Relaunching, Ending, Fresh

\* The types that the arithmetic of the counts needs.
LEMMA CountTypes ==
    ASSUME HostInv, Next, NEW i \in Issues
    PROVE  /\ granted[i] \in Nat /\ allowed[i] \in Nat
           /\ granted'[i] \in Nat /\ allowed'[i] \in Nat
           /\ FuseGrants \in Nat \ {0}
           /\ OkFuse(tracker[i].fuse) /\ OkFuse(tracker'[i].fuse)
           /\ OkFuse(snap[i].fuse) /\ OkFuse(held[i].fuse)
           /\ wf[i] \in WfType
<1>1. CountInv' /\ TrackerInv'
    BY CountStep, TrackerStep
<1> QED BY <1>1, Constants DEF HostInv, WfInv, CountInv, TrackerInv, OkTracker, FuseGrants

\* The retry that is counted is covered by what the window has left.
LEMMA CountedStep ==
    ASSUME HostInv, Next, NEW i \in Issues, FuseAt(i), Counts(i)
    PROVE  /\ CoversNext(tracker'[i].fuse, i)
           /\ granted'[i] <= allowed'[i] /\ FuseGrants <= allowed'[i]
           /\ pc' = "alert" /\ cur' = cur /\ snap' = snap /\ back' = back
           /\ Cov(snap[i].fuse, wf'[i], open'[i], granted'[i] - 1, allowed'[i])
              \/ ~InDead
<1> DEFINE a == cur.step
           W == Window(i, a)
           A == Attempted(i, a)
<1>1. /\ pc = "retry" /\ cur.issue = i /\ open[i] /\ a = Expected(i)
      /\ MayAttempt(i, a) /\ allowed' = allowed /\ tracker' = FuseSaved(i, a)
      /\ RetryGoesTo("alert") /\ GrantedTo(i, a) /\ wf' = wf /\ open' = open
      /\ ~A.tripped
    BY DEF Counts, RetryIsCounted
<1>2. TrackerInv /\ a \in Agents /\ granted \in [Issues -> Nat]
    BY <1>1, WhereItIs DEF HostInv, CountInv, RetryPlaces
<1>3. wf[i].state = "running" /\ a = wf[i].step
    BY <1>1, <1>2, Nothings DEF Expected, MayAttempt, Quiet
<1>4. granted'[i] = granted[i] + 1
    BY <1>1, <1>2 DEF GrantedTo
<1>5. /\ OkFuse(W) /\ W.agent = a /\ ~W.tripped
      /\ tracker[i].fuse.agent = a => W = tracker[i].fuse
      /\ tracker[i].fuse.agent # a => W.attempts = 0
    BY <1>1, <1>2, WindowFacts DEF MayAttempt
<1>6. OkFuse(A) /\ A.agent = a /\ A.attempts = W.attempts + 1 /\ tracker'[i].fuse = A
    BY <1>1, <1>2, AttemptFacts, FuseSavedFacts
<1> HIDE DEF W, A
<1>7. granted[i] + Left(tracker[i].fuse, wf[i]) <= allowed[i]
    <2>1. Covers(tracker[i].fuse, i)
        BY <1>1 DEF FuseAt, At
    <2> QED BY <1>1, <1>3, <2>1 DEF Covers, Cov
<1>8. Left(tracker[i].fuse, wf[i]) = FuseGrants - W.attempts /\ W.attempts \in Nat
    <2>1. CASE tracker[i].fuse.agent = a
        BY <1>3, <1>5, <2>1, LeftFacts
    <2>2. CASE tracker[i].fuse.agent # a
        <3>1. Left(tracker[i].fuse, wf[i]) = FuseGrants /\ FuseGrants \in Nat
            BY <1>3, <2>2, LeftFacts, CountTypes
        <3> QED BY <1>5, <2>2, <3>1
    <2> QED BY <2>1, <2>2
<1>9. Left(A, wf[i]) = FuseGrants - A.attempts /\ Left(A, wf[i]) \in 0..FuseGrants
    BY <1>1, <1>3, <1>6, LeftFacts DEF A
<1>10. granted'[i] + Left(A, wf[i]) <= allowed'[i] /\ granted'[i] <= allowed'[i]
    BY <1>1, <1>4, <1>6, <1>7, <1>8, <1>9, CountTypes
<1>11. CoversNext(tracker'[i].fuse, i)
    BY <1>1, <1>6, <1>10 DEF CoversNext, Cov
<1>12. pc' = "alert" /\ cur' = cur /\ snap' = snap /\ back' = back
    BY <1>1 DEF RetryGoesTo
<1>13. ASSUME InDead
       PROVE  Cov(snap[i].fuse, wf'[i], open'[i], granted'[i] - 1, allowed'[i])
    <2>1. Covers(snap[i].fuse, i)
        BY <1>1, <1>13 DEF FuseAt, SnapCovers, At
    <2>2. granted'[i] - 1 = granted[i]
        BY <1>4, CountTypes
    <2> QED BY <1>1, <2>1, <2>2 DEF Covers
<1> QED BY <1>1, <1>10, <1>11, <1>12, <1>13 DEF FuseAt

\* An attempt that is counted, but not for the RUNNING step of an open issue.
LEMMA AttemptStep ==
    ASSUME HostInv, Next, NEW i \in Issues, FuseAt(i), ~Counts(i), RetryIsCounted,
           cur.issue = i
    PROVE  At("trip", i)' \/ CoversNext(tracker'[i].fuse, i)
<1> DEFINE a == cur.step
<1>1. /\ pc = "retry" /\ MayAttempt(i, a) /\ wf' = wf /\ open' = open
      /\ tracker' = FuseSaved(i, a)
    BY DEF RetryIsCounted
<1>2. TrackerInv /\ a \in Agents
    BY <1>1, WhereItIs DEF HostInv, RetryPlaces
<1>3. CASE Attempted(i, a).tripped
    BY <1>3 DEF RetryIsCounted, RetryGoesTo, At
<1>4. CASE ~Runs(i)
    BY <1>1, <1>4 DEF Runs, CoversNext, Cov
<1>5. CASE ~Attempted(i, a).tripped /\ Runs(i)
    <2>1. /\ a # Expected(i) /\ GrantedTo(i, a) /\ allowed' = allowed
          /\ wf[i].state = "running" /\ Expected(i) = wf[i].step
        BY <1>5 DEF Counts, RetryIsCounted, Runs, Expected
    <2>2. granted[i] = 0
        BY <1>1, <1>5, <2>1 DEF FuseAt, At
    <2>3. granted'[i] = 0
        BY <2>1, <2>2 DEF GrantedTo, HostInv, CountInv
    <2>4. OkFuse(tracker'[i].fuse) /\ FuseGrants <= allowed'[i]
        BY <2>1, CountTypes DEF FuseAt
    <2>5. Left(tracker'[i].fuse, wf'[i]) \in 0..FuseGrants
        BY <2>4, LeftFacts
    <2> QED BY <2>3, <2>4, <2>5, CountTypes DEF CoversNext, Cov
<1> QED BY <1>3, <1>4, <1>5

\* A failure allows as many retries again, whatever the fuse.
LEMMA SlipCovers ==
    ASSUME HostInv, Next, NEW i \in Issues, FuseAt(i), NEW f, OkFuse(f),
           granted'[i] = granted[i], allowed'[i] = allowed[i] + FuseGrants
    PROVE  CoversNext(f, i) /\ granted'[i] + FuseGrants <= allowed'[i]
<1>1. Left(f, wf'[i]) \in 0..FuseGrants
    BY LeftFacts
<1>2. granted[i] <= allowed[i]
    BY DEF FuseAt
<1> QED BY <1>1, <1>2, CountTypes DEF CoversNext, Cov

\* The fuse trips, and its tracker is saved or not.
LEMMA TripStep ==
    ASSUME HostInv, Next, NEW i \in Issues, FuseAt(i), FuseTrips
    PROVE  /\ CoversNext(tracker'[i].fuse, i)
           /\ At("giveup", i)' /\ Runs(i)' => granted'[i] + FuseGrants <= allowed'[i]
<1>1. /\ pc = "trip" /\ open' = open /\ cur' = cur /\ tracker' \in {tracker, held}
      /\ OkFuse(tracker'[i].fuse)
    BY CountTypes, RetryKeeps DEF FuseTrips, RetryGoesTo
<1>2. CASE cur.issue # i
    <2>1. ~Counts(i)
        BY <1>2 DEF Counts
    <2>2. Kept(i)
        BY <2>1, KeptStep
    <2>3. Covers(tracker[i].fuse, i) /\ Covers(held[i].fuse, i)
        BY <1>1, <1>2 DEF FuseAt, At
    <2>4. OkFuse(tracker[i].fuse) /\ OkFuse(held[i].fuse)
        BY CountTypes
    <2>5. CoversNext(tracker[i].fuse, i) /\ CoversNext(held[i].fuse, i)
        BY <2>2, <2>3, <2>4, CoverStays
    <2> QED BY <1>1, <1>2, <2>5 DEF At
<1>3. CASE cur.issue = i
    <2>1. /\ wf \in [Issues -> WfType]
          /\ granted \in [Issues -> Nat] /\ allowed \in [Issues -> Nat]
        BY DEF HostInv, WfInv, CountInv
    <2>2. \/ wf' = IF wf[i].state = "running" THEN [wf EXCEPT ![i].state = "paused"] ELSE wf
          \/ wf' = wf /\ UNCHANGED granted /\ Slips(i)
        BY <1>3 DEF FuseTrips
    <2>3. CASE wf' = IF wf[i].state = "running" THEN [wf EXCEPT ![i].state = "paused"] ELSE wf
        <3>1. wf'[i].state # "running"
            BY <2>1, <2>3
        <3> QED BY <3>1 DEF CoversNext, Cov, Runs
    <2>4. CASE wf' = wf /\ UNCHANGED granted /\ Slips(i)
        <3>1. granted'[i] = granted[i] /\ allowed'[i] = allowed[i] + FuseGrants
            BY <2>1, <2>4 DEF Slips
        <3> QED BY <1>1, <3>1, SlipCovers
    <2> QED BY <2>2, <2>3, <2>4
<1> QED BY <1>2, <1>3

\* The tracker's fuse is covered after every step.
LEMMA TrackerCovered ==
    ASSUME HostInv, Next, NEW i \in Issues, FuseAt(i)
    PROVE  At("trip", i)' \/ CoversNext(tracker'[i].fuse, i)
<1> DEFINE f == tracker'[i].fuse
           Ok == At("trip", i)' \/ CoversNext(f, i)
<1> SUFFICES Ok
    OBVIOUS
<1>1. OkFuse(f)
    BY CountTypes
<1>2. CASE Counts(i)
    BY <1>2, CountedStep
<1>3. CASE FuseTrips
    BY <1>3, TripStep
<1>4. CASE ~Counts(i) /\ ~FuseTrips
    <2>1. Kept(i)
        BY <1>4, KeptStep
    <2>2. \A g : OkFuse(g) /\ Covers(g, i) => CoversNext(g, i)
        BY <2>1, CoverStays
    <2>3. Anew(i) => CoversNext(f, i)
        BY <1>1, <2>1, CoverStays
    <2>4. OkFuse(tracker[i].fuse) /\ OkFuse(snap[i].fuse)
        BY CountTypes
    <2>5. CASE f = tracker[i].fuse
        <3>1. CASE ~At("trip", i)
            BY <2>2, <2>4, <2>5, <3>1 DEF FuseAt
        <3>2. CASE At("trip", i) /\ OthersStep
            BY <3>2, OthersKeepLoop DEF At
        <3>3. CASE At("trip", i) /\ ProcessorRestarts
            <4>1. Anew(i) \/ (granted'[i] = granted[i] /\ allowed'[i] = allowed[i] + FuseGrants)
                BY <3>3, CountTypes DEF ProcessorRestarts, StartupApplies, Anew, At
            <4> QED BY <1>1, <2>3, <4>1, SlipCovers
        <3>4. At("trip", i) => OthersStep \/ ProcessorRestarts
            <4>1. At("trip", i) => pc \in RetryPlaces
                BY DEF At, RetryPlaces
            <4>2. At("trip", i) => ~RetryStep
                <5>1. pc = "trip" => ~(RetryRefused \/ RetryIsCounted \/ RetryUncounted)
                    BY DEF RetryRefused, RetryIsCounted, RetryUncounted
                <5>2. pc = "trip" => ~Relaunching /\ ~Ending
                    BY RelaunchFacts, EndFacts
                <5> QED BY <1>4, <5>1, <5>2 DEF At, RetryStep, Deciding
            <4> QED BY <4>1, <4>2, RetryPlaceMoves
        <3> QED BY <3>1, <3>2, <3>3, <3>4
    <2>6. CASE InDead /\ ~At("alert", i) /\ f = snap[i].fuse
        BY <2>2, <2>4, <2>6 DEF FuseAt, SnapCovers
    <2>7. CASE RetryIsCounted /\ cur.issue = i
        BY <1>4, <2>7, AttemptStep
    <2>8. CASE GivesUpDead /\ cur.issue = i
        <3>1. Runs(i) => granted[i] + FuseGrants <= allowed[i]
            BY <2>8 DEF GivesUpDead, FuseAt, At
        <3>2. Left(f, wf'[i]) \in 0..FuseGrants
            BY <1>1, LeftFacts
        <3>3. CASE Allowed(i) /\ AsItWas(i)
            BY <3>1, <3>2, <3>3, CountTypes DEF Allowed, AsItWas, CoversNext, Cov
        <3> QED BY <2>1, <2>3, <3>3 DEF Kept
    <2> QED BY <1>4, <2>3, <2>5, <2>6, <2>7, <2>8, FuseMoves
<1> QED BY <1>2, <1>3, <1>4

\* So is the fuse in the copy that the pass over dead agents holds.
LEMMA SnapCovered ==
    ASSUME HostInv, Next, NEW i \in Issues, FuseAt(i), InDead'
    PROVE  SnapCovers(i)'
<1>1. CASE snap' = tracker' /\ pc' \notin RetryPlaces
    <2>1. ~At("trip", i)'
        BY <1>1 DEF At, RetryPlaces
    <2>2. CoversNext(snap'[i].fuse, i)
        BY <1>1, <2>1, TrackerCovered
    <2> QED BY <2>2 DEF SnapCovers, Covers, CoversNext
<1>2. CASE snap' = snap /\ InDead
    <2> DEFINE f == snap[i].fuse
    <2>1. OkFuse(f)
        BY CountTypes
    <2>2. CASE Counts(i)
        BY <1>2, <2>2, CountedStep DEF SnapCovers, At, Counts
    <2>3. CASE ~Counts(i) /\ Covers(f, i)
        <3>1. CoversNext(f, i)
            BY <2>1, <2>3, KeptStep, CoverStays
        <3> QED BY <1>2, <3>1 DEF SnapCovers, Covers, CoversNext
    <2>4. CASE /\ ~Counts(i) /\ At("alert", i)
               /\ Cov(f, wf[i], open[i], granted[i] - 1, allowed[i])
        <3>1. CASE OthersStep
            <4>1. Cov(f, wf'[i], open'[i], granted'[i] - 1, allowed'[i])
                BY <2>1, <2>4, KeptStep, CoverStays
            <4>2. At("alert", i)'
                BY <2>4, <3>1, OthersKeepLoop DEF At
            <4> QED BY <1>2, <4>1, <4>2 DEF SnapCovers
        <3>2. CASE RetryUnannounced
            <4>1. /\ NotMade(i) /\ allowed' = allowed /\ wf' = wf /\ open' = open
                  /\ granted \in [Issues -> Nat]
                BY <2>4, <3>2 DEF RetryUnannounced, RetryEnds, At, HostInv, CountInv
            <4>2. granted'[i] = IF granted[i] = 0 THEN 0 ELSE granted[i] - 1
                BY <4>1 DEF NotMade
            <4>3. Left(f, wf[i]) \in 0..FuseGrants /\ FuseGrants <= allowed[i]
                BY <2>1, LeftFacts DEF FuseAt
            <4>4. CoversNext(f, i)
                BY <2>4, <4>1, <4>2, <4>3, CountTypes DEF CoversNext, Cov
            <4> QED BY <1>2, <4>4 DEF SnapCovers, Covers, CoversNext
        <3>3. CASE snap' = tracker' /\ pc' \notin RetryPlaces
            BY <1>1, <3>3
        <3> QED BY <2>4, <3>1, <3>2, <3>3, AlertMoves DEF At
    <2> QED BY <1>2, <2>2, <2>3, <2>4 DEF FuseAt, SnapCovers
<1> QED BY <1>1, <1>2, SnapMoves

\* What leads to the places where the thread decides over a retry.
LEMMA FoundForTheStep ==
    ASSUME HostInv, NEW j \in Issues, Finds(j)
    PROVE  cur'.issue = j /\ wf' = wf /\ cur'.step = Expected(j) /\ triggers' = triggers
<1>1. ASSUME NEW pass \in Passes, NEW rest, NEW s, Onward(pass, rest, s), pc' = "retry"
      PROVE  FALSE
    BY <1>1, OnwardMoves DEF Passes
<1>2. CASE StuckIsKilled(j)
    BY <1>1, <1>2 DEF Finds, StuckIsKilled, StuckGoesOn, RetryBegins, StillWanted, Unspent, Passes
<1>3. CASE StuckOrphan(j)
    BY <1>1, <1>3 DEF Finds, StuckOrphan, StuckGoesOn, RetryBegins, Unspent, Passes
<1>4. CASE DeadIsRetried(j)
    BY <1>4 DEF DeadIsRetried, RetryBegins, StillWanted, Unspent
<1>5. CASE OrphanIsRetried(j)
    BY <1>5 DEF OrphanIsRetried, RetryBegins, Unspent
<1> QED BY <1>2, <1>3, <1>4, <1>5 DEF Finds

LEMMA DecidingLeads ==
    ASSUME Deciding
    PROVE  /\ pc' \in {"giveup", "trip", "alert"} /\ cur' = cur
           /\ pc' = "giveup" => RetryRefused \/ FuseTrips
           /\ pc' = "trip" => held' = tracker'
    BY DEF Deciding, RetryRefused, RetryIsCounted, RetryUncounted, FuseTrips, RetryGoesTo

\* The fuse of an attempt that is refused is not granted more.
LEMMA RefusedStep ==
    ASSUME HostInv, Next, NEW i \in Issues, FuseAt(i), RetryRefused, cur.issue = i, Runs(i)'
    PROVE  granted'[i] + FuseGrants <= allowed'[i]
<1> DEFINE a == cur.step
<1>1. /\ pc = "retry" /\ UNCHANGED <<wf, open, granted, allowed>>
      /\ ~MayAttempt(i, a) \/ ~open[i]
    BY DEF RetryRefused, TellsClosed, retries
<1>2. Runs(i)
    BY <1>1 DEF Runs
<1>3. Window(i, a).tripped
    BY <1>1, <1>2 DEF Runs, MayAttempt, Quiet
<1>4. TrackerInv /\ a \in Agents
    BY <1>1, WhereItIs DEF HostInv, RetryPlaces
<1>5. tracker[i].fuse.tripped
    BY <1>3, <1>4, WindowFacts
<1>6. Left(tracker[i].fuse, wf[i]) = FuseGrants
    BY <1>5, CountTypes, LeftFacts
<1>7. Covers(tracker[i].fuse, i)
    BY <1>1 DEF FuseAt, At
<1> QED BY <1>1, <1>2, <1>6, <1>7 DEF Covers, Cov, Runs

LEMMA FuseStep ==
    ASSUME HostInv, Next, NEW i \in Issues, FuseAt(i)
    PROVE  FuseAt(i)'
<1>1. granted'[i] <= allowed'[i] /\ FuseGrants <= allowed'[i]
    <2>1. CASE Counts(i)
        BY <2>1, CountedStep
    <2>2. CASE ~Counts(i)
        BY <2>2, CountTypes, KeptStep, CoverStays
    <2> QED BY <2>1, <2>2
<1>2. At("trip", i)' \/ CoversNext(tracker'[i].fuse, i)
    BY TrackerCovered
<1>3. InDead' => SnapCovers(i)'
    BY SnapCovered
<1>4. ASSUME OthersStep
      PROVE  /\ Kept(i) /\ granted'[i] \in {0, granted[i]}
             /\ pc' = pc /\ cur' = cur /\ held' = held
    <2>1. ~Counts(i)
        <3>1. RetryIsCounted => pc' # pc
            BY DEF RetryIsCounted, RetryGoesTo
        <3> QED BY <1>4, <3>1, OthersKeepLoop DEF Counts
    <2> QED BY <1>4, <2>1, OthersKeepLoop, OthersGrantNone, KeptStep
<1>5. pc' \in RetryPlaces \cup {"done"} =>
         \/ OthersStep
         \/ Deciding
         \/ \E j \in Issues : Finds(j)
         \/ \E k \in Issues \X Agents : ScanApplies(k)
    <2>1. pc' \in RetryPlaces \cup {"done"} => pc' \notin Passes \cup {"launch", "relay"}
        BY DEF RetryPlaces, Passes
    <2> QED BY <2>1, PlaceMoves
<1>6. ASSUME pc' = "trip", cur'.issue # i
      PROVE  CoversNext(held'[i].fuse, i)
    <2>1. CASE OthersStep
        <3>1. Covers(held[i].fuse, i) /\ OkFuse(held[i].fuse)
            BY <1>4, <1>6, <2>1, CountTypes DEF FuseAt
        <3> QED BY <1>4, <2>1, <3>1, CoverStays
    <2>2. CASE Deciding
        BY <1>2, <1>6, <2>2, DecidingLeads DEF At
    <2>3. OthersStep \/ Deciding
        BY <1>5, <1>6 DEF RetryPlaces, Finds, ScanApplies
    <2> QED BY <2>1, <2>2, <2>3
<1>7. ASSUME At("retry", i)', Runs(i)'
      PROVE  cur'.step = Expected(i)' \/ granted'[i] = 0
    <2>1. CASE OthersStep
        <3>1. cur.step = Expected(i) \/ granted[i] = 0 \/ ~Runs(i)
            BY <1>4, <1>7, <2>1 DEF FuseAt, At
        <3>2. Anew(i) \/ (Runs(i) /\ wf'[i] = wf[i])
            BY <1>4, <1>7, <2>1 DEF Kept, AsItWas, Runs
        <3> QED BY <1>4, <2>1, <3>1, <3>2 DEF Anew, Expected
    <2>2. CASE \E j \in Issues : Finds(j)
        BY <1>7, <2>2, FoundForTheStep DEF At, Expected
    <2>3. OthersStep \/ \E j \in Issues : Finds(j)
        BY <1>5, <1>7, DecidingLeads DEF At, RetryPlaces, ScanApplies
    <2> QED BY <2>1, <2>2, <2>3
<1>8. ASSUME At("giveup", i)', Runs(i)'
      PROVE  granted'[i] + FuseGrants <= allowed'[i]
    <2>1. CASE OthersStep
        <3>1. granted[i] + FuseGrants <= allowed[i] \/ ~Runs(i)
            BY <1>4, <1>8, <2>1 DEF FuseAt, At
        <3>2. Anew(i) \/ (Runs(i) /\ Allowed(i))
            BY <1>4, <1>8, <2>1 DEF Kept, AsItWas, Runs
        <3> QED BY <3>1, <3>2, CountTypes DEF Anew, Allowed
    <2>2. CASE RetryRefused
        <3>1. cur.issue = i
            BY <1>8, <2>2, DecidingLeads DEF At, Deciding
        <3> QED BY <1>8, <2>2, <3>1, RefusedStep
    <2>3. CASE FuseTrips
        BY <1>8, <2>3, TripStep
    <2>4. OthersStep \/ RetryRefused \/ FuseTrips
        BY <1>5, <1>8, DecidingLeads DEF At, RetryPlaces, ScanApplies, Finds
    <2> QED BY <2>1, <2>2, <2>3, <2>4
<1>9. ASSUME At("done", i)'
      PROVE  granted'[i] = 0
    <2>1. CASE OthersStep
        BY <1>4, <1>9, <2>1 DEF FuseAt, At
    <2>2. ASSUME NEW k \in Issues \X Agents, ScanApplies(k) PROVE granted'[i] = 0
        BY <1>9, <2>2 DEF ScanApplies, Forgets, At, HostInv, CountInv
    <2> QED BY <1>9, <2>1, <2>2, DoneMoves DEF At
<1>10. At("trip", i)' \/ Covers(tracker[i].fuse, i)'
    BY <1>2 DEF Covers, CoversNext
<1>11. (pc = "trip" /\ cur.issue # i => Covers(held[i].fuse, i))'
    BY <1>6 DEF Covers, CoversNext
<1> QED BY <1>1, <1>3, <1>7, <1>8, <1>9, <1>10, <1>11 DEF FuseAt

\* The fuse bounds the retries of a step, whatever the passes, the failures and
\* the saves of others: those granted are never more than those allowed.
THEOREM FuseBounds == Spec => []FuseBoundsRetries
<1> DEFINE Inv == HostInv /\ FuseInv
<1>1. Init => Inv
    <2> SUFFICES ASSUME Init, NEW i \in Issues PROVE FuseAt(i)
        BY InitTypes DEF FuseInv
    <2>1. /\ granted[i] = 0 /\ allowed[i] = FuseGrants /\ tracker[i].fuse = NoFuse
          /\ pc = "scan" /\ back = "idle"
        BY DEF Init, LaunchInit, LoopInit, NoEntry
    <2>2. Left(NoFuse, wf[i]) \in 0..FuseGrants /\ FuseGrants \in Nat
        BY Nothings, LeftFacts
    <2> QED BY <2>1, <2>2 DEF FuseAt, At, Covers, Cov, InDead
<1>2. Inv /\ [Next]_vars => Inv'
    <2>1. FuseInv /\ UNCHANGED vars => FuseInv'
        BY DEF FuseInv, FuseAt, At, Covers, Cov, InDead, SnapCovers, Runs, Expected,
           vars, hostVars, launchVars, retries, loopVars, passVars
    <2>2. HostInv /\ FuseInv /\ Next => FuseInv'
        BY FuseStep DEF FuseInv
    <2> QED BY <2>1, <2>2, TypesAreKept
<1>3. Inv => FuseBoundsRetries
    BY DEF FuseInv, FuseAt, FuseBoundsRetries
<1> QED BY <1>1, <1>2, <1>3, PTL DEF Spec

-----------------------------------------------------------------------------
(* The step that a retry is for.                                           *)

WantedInv == pc \in RetryPlaces => cur.step = Expected(cur.issue)

\* A workflow that is paused still waits for its step.
LEMMA PausedKeepsStep ==
    ASSUME HostInv, NEW i \in Issues, NEW j \in Issues, wf[j].state = "running",
           wf' = [wf EXCEPT ![j].state = "paused"]
    PROVE  Expected(i)' = Expected(i)
<1>1. wf \in [Issues -> WfType]
    BY DEF HostInv, WfInv
<1>2. wf'[i] = IF i = j THEN [wf[j] EXCEPT !.state = "paused"] ELSE wf[i]
    BY <1>1
<1>3. CASE i = j
    <2>1. wf'[i].state = "paused" /\ wf'[i].step = wf[i].step
        BY <1>1, <1>2, <1>3 DEF WfType
    <2> QED BY <1>3, <2>1 DEF Expected
<1>4. CASE i # j
    BY <1>2, <1>4 DEF Expected
<1> QED BY <1>3, <1>4

\* Without commands and comments, nobody moves a workflow while the processor
\* decides over a retry.
LEMMA OthersKeepStep ==
    ASSUME HostInv, MaxTriggers = 0, OthersStep, NEW i \in Issues
    PROVE  Expected(i)' = Expected(i)
<1>1. ~Asked /\ triggers = 0
    BY DEF Asked, HostInv, CountInv
<1>2. wf' = wf => Expected(i)' = Expected(i)
    BY DEF Expected
<1>3. ASSUME NEW l \in Launchers, Elsewhere(l) PROVE Expected(i)' = Expected(i)
    <2>1. CASE Refuse(l)
        <3>1. req[l].issue \in Issues
            BY DEF HostInv, RequestInv, ReqType
        <3>2. \/ wf' = wf
              \/ /\ wf[req[l].issue].state = "running"
                 /\ wf' = [wf EXCEPT ![req[l].issue].state = "paused"]
            BY <2>1 DEF Refuse, NotResolved, NotProvisioned, NoToolLeft
        <3> QED BY <1>2, <3>1, <3>2, PausedKeepsStep
    <2>2. CASE SpawnNext(l)
        BY <1>2, <2>2 DEF SpawnNext, Spawn
    <2> QED BY <1>3, <2>1, <2>2 DEF Elsewhere
<1>4. AgentStep => wf' = wf
    BY DEF AgentStep, Agent, Recovery, AgentReports, AgentEnds, QuotaDetected, RecoverFromLog
<1>5. Outside => wf' = wf
    BY <1>1 DEF Outside, IssueCloses, FuseRests, FuseWindowExpires, Pause, Resume, Kill, Stop,
       Continue, AgentComments, AuthorOverrides
<1> QED BY <1>2, <1>3, <1>4, <1>5 DEF OthersStep

LEMMA DecidingKeepsStep ==
    ASSUME HostInv, Deciding, NEW i \in Issues
    PROVE  Expected(i)' = Expected(i)
<1>1. cur.issue \in Issues
    BY DEF HostInv, LoopInv
<1>2. \/ wf' = wf
      \/ /\ wf[cur.issue].state = "running"
         /\ wf' = [wf EXCEPT ![cur.issue].state = "paused"]
    BY DEF Deciding, RetryRefused, RetryIsCounted, RetryUncounted, FuseTrips
<1>3. wf' = wf => Expected(i)' = Expected(i)
    BY DEF Expected
<1> QED BY <1>1, <1>2, <1>3, PausedKeepsStep

LEMMA WantedStep ==
    ASSUME HostInv, MaxTriggers = 0, WantedInv, Next
    PROVE  WantedInv'
<1> SUFFICES ASSUME pc' \in RetryPlaces PROVE cur'.step = Expected(cur.issue)'
    BY DEF WantedInv
<1>1. cur.issue \in Issues
    BY DEF HostInv, LoopInv
<1>2. CASE OthersStep
    <2>1. cur' = cur /\ cur.step = Expected(cur.issue)
        BY <1>2, OthersKeepLoop DEF WantedInv
    <2>2. PICK i \in Issues : i = cur.issue
        BY <1>1
    <2>3. Expected(i)' = Expected(i)
        BY <1>2, OthersKeepStep
    <2> QED BY <2>1, <2>2, <2>3 DEF Expected
<1>3. CASE Deciding
    <2>1. cur' = cur /\ cur.step = Expected(cur.issue)
        <3>1. pc \in RetryPlaces
            BY <1>3 DEF Deciding, RetryRefused, RetryIsCounted, RetryUncounted, FuseTrips,
               RetryPlaces
        <3> QED BY <1>3, <3>1, DecidingLeads DEF WantedInv
    <2>2. PICK i \in Issues : i = cur.issue
        BY <1>1
    <2>3. Expected(i)' = Expected(i)
        BY <1>3, DecidingKeepsStep
    <2> QED BY <2>1, <2>2, <2>3 DEF Expected
<1>4. CASE \E j \in Issues : Finds(j)
    BY <1>4, FoundForTheStep DEF Expected
<1>5. pc' \notin Passes \cup {"launch", "relay"}
    BY DEF RetryPlaces, Passes
<1>6. \A k \in Issues \X Agents : ~ScanApplies(k)
    BY DEF ScanApplies, RetryPlaces
<1> QED BY <1>2, <1>3, <1>4, <1>5, <1>6, PlaceMoves

\* A retry is launched for the RUNNING step: between the look at the workflow and
\* the launch, with the fuse and the alert in between, the step cannot move on by
\* what the host itself does; only a command or a comment could move it.
THEOREM RetriesRun == MaxTriggers = 0 => (Spec => RetriesAreForTheRunningStep)
<1> SUFFICES ASSUME MaxTriggers = 0 PROVE Spec => RetriesAreForTheRunningStep
    OBVIOUS
<1> DEFINE Inv == HostInv /\ WantedInv
           Act == pc = "alert" /\ Busy("processor")'
                     => req'["processor"].agent = Expected(cur.issue)
<1>1. Init => Inv
    BY InitTypes DEF Init, LoopInit, WantedInv, RetryPlaces
<1>2. Inv /\ [Next]_vars => Inv'
    <2>1. WantedInv /\ UNCHANGED vars => WantedInv'
        BY DEF WantedInv, Expected, vars, hostVars, loopVars, passVars
    <2> QED BY <2>1, TypesAreKept, WantedStep
<1>3. Inv /\ [Next]_vars => [Act]_vars
    <2> SUFFICES ASSUME HostInv, WantedInv, Next, pc = "alert", Busy("processor")'
                 PROVE  req'["processor"].agent = Expected(cur.issue)
        OBVIOUS
    <2>1. pc' = "launch" /\ pc \in RetryPlaces
        BY LoopStep DEF RetryPlaces
    <2>2. ~OthersStep
        BY <2>1, OthersKeepLoop
    <2>3. ~ProcessorRestarts
        BY <2>1 DEF ProcessorRestarts
    <2>4. ~Deciding
        BY <2>1, DecidingLeads
    <2>5. ~Ending
        <3>1. ASSUME Ending PROVE pc' \in Passes
            <4>1. PICK s : RetryEnds(s)
                BY <3>1, EndFacts
            <4>2. Pass(back) \in Passes
                BY <2>1, WhereItIs
            <4> QED BY <4>1, <4>2, OnwardMoves DEF RetryEnds
        <3> QED BY <2>1, <3>1 DEF Passes
    <2>6. Relaunching
        BY <2>1, <2>2, <2>3, <2>4, <2>5, RetryPlaceMoves DEF RetryStep
    <2>7. PICK named, g, s : RetryLaunches(named, g, s)
        BY <2>6, RelaunchFacts
    <2>8. Pass(back) \in Passes
        BY <2>1, WhereItIs
    <2>9. Request("processor", cur.issue, cur.step, Exclusions(cur.issue, named), "processor")
        <3>1. LaunchBegins(Pass(back), cur.issue, cur.step, Exclusions(cur.issue, named), g,
                           todo, s)
            BY <2>7 DEF RetryLaunches
        <3>2. ~Onward(Pass(back), todo, s)
            BY <2>1, <2>8, OnwardMoves DEF Passes
        <3> QED BY <3>1, <3>2 DEF LaunchBegins
    <2>10. req'["processor"].agent = cur.step
        BY <2>9 DEF Request, Launchers, HostInv, RequestInv
    <2> QED BY <2>1, <2>10 DEF WantedInv
<1> QED BY <1>1, <1>2, <1>3, PTL DEF Spec, RetriesAreForTheRunningStep

===============================================================================
