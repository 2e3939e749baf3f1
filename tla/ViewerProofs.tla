------------------------------ MODULE ViewerProofs ------------------------------
(***************************************************************************)
(* Proofs about Viewer: the bounds of its timers and requests, and that    *)
(* there is never more than one player, for a video of any length and any  *)
(* number of errors and probes.                                            *)
(***************************************************************************)
EXTENDS Viewer, TLAPS

JobType ==
  phase \in Phases /\ segs \in 0 .. NumSegs /\ wiped \in BOOLEAN
PollType ==
  /\ poll \in {"due", "asked", "told", "stopped"} /\ answer \in Phases /\ lostLast \in BOOLEAN
PlayType ==
  /\ streamShown \in BOOLEAN /\ playStarted \in BOOLEAN /\ starting \in BOOLEAN
  /\ current \in {"none", "live", "destroyed"} /\ live \in {0, 1}
  /\ loaded \in 0 .. NumSegs /\ pos \in 0 .. loaded
  /\ playing \in BOOLEAN /\ allowed \in BOOLEAN

\* A poll is only sent while there is room for the probe that may follow its answer.
Probes ==
  /\ asked \in Nat /\ found \in Nat /\ asked + found <= MaxProbes
  /\ poll \in {"asked", "told"} => asked + found < MaxProbes

\* There is room for the watchdog that the next attachment arms.
\* An old watchdog may turn into a re-attachment, which counts with those under way.
Timing ==
  /\ young \in Nat /\ old \in Nat /\ retries \in Nat /\ faults \in Nat /\ faults <= MaxFaults
  /\ young + old <= faults + 1
  /\ ~streamShown => young + old <= faults
  /\ retries + old <= MaxFaults + 1 + faults

\* Shown, attached and known to the page are the same; without a player nothing is loaded
\* or playing.
Shown ==
  /\ streamShown <=> live = 1
  /\ current = "live" <=> live = 1
  /\ loaded > 0 \/ starting \/ playStarted \/ playing => live = 1

Inv == JobType /\ PollType /\ PlayType /\ Probes /\ Timing /\ Shown

\* The steps of the next-state relation by what they may touch.
JobSteps == JobAdvances \/ SegmentWritten \/ JobFails \/ Wiped
PollSteps == PollAsks \/ StatusAnswers \/ StatusLost \/ PollHandles
ProbeSteps == ProbeAnswered \/ ProbeLost
PlaySteps == TryStartPlayback \/ ClickRescue \/ PlaySucceeds \/ PlayRejected \/ RecoversInPlace
             \/ SegmentLoaded \/ Autoplays \/ Plays
WatchSteps == WatchdogAges \/ WatchdogEnds
LossSteps == FatalError \/ WatchdogReattaches
AttachSteps == RetryAttaches \/ ProbeAttaches

LEMMA Steps ==
  Next => \/ JobSteps \/ PollSteps \/ ProbeSteps \/ PlaySteps \/ WatchSteps \/ LossSteps \/ AttachSteps
  BY DEF Next, Server, Timers, Player, Requests, JobSteps, PollSteps, ProbeSteps, PlaySteps,
     WatchSteps, LossSteps, AttachSteps

LEMMA JobTypeStep == Inv /\ Next => JobType'
<1> SUFFICES ASSUME Inv, Next PROVE JobType'
  OBVIOUS
<1>t. JobType
  BY DEF Inv
<1>1. CASE JobSteps
  <2>1. CASE JobAdvances \/ JobFails
    BY <2>1, <1>t DEF JobAdvances, JobFails, JobType, Phases, Terminal
  <2>2. CASE SegmentWritten
    BY <2>2, <1>t, ViewerAssumption DEF SegmentWritten, JobType
  <2>3. CASE Wiped
    BY <2>3, <1>t DEF Wiped, JobType
  <2> QED
    BY <1>1, <2>1, <2>2, <2>3 DEF JobSteps
<1>2. CASE ~JobSteps
  <2>1. UNCHANGED jobVars
    BY <1>2, Steps DEF JobSteps, PollSteps, ProbeSteps, PlaySteps, WatchSteps, LossSteps, AttachSteps,
       PollAsks, StatusAnswers, StatusLost, PollHandles, ProbeAnswered, ProbeLost, TryStartPlayback,
       ClickRescue, PlaySucceeds, PlayRejected, RecoversInPlace, SegmentLoaded, Autoplays, Plays, WatchdogAges,
       WatchdogEnds, FatalError, WatchdogReattaches, RetryAttaches, ProbeAttaches
  <2> QED
    BY <2>1, <1>t DEF jobVars, JobType
<1> QED
  BY <1>1, <1>2

\* The poll and the probes.
LEMMA PollStep == Inv /\ Next => PollType' /\ Probes'
<1> SUFFICES ASSUME Inv, Next PROVE PollType' /\ Probes'
  OBVIOUS
<1>t. JobType /\ PollType /\ Probes
  BY DEF Inv
<1>n. MaxProbes \in Nat
  BY ViewerAssumption
<1> USE DEF pollVars, probeVars
<1>1. CASE PollAsks \/ StatusAnswers \/ StatusLost
  <2>1. UNCHANGED <<asked, found, lostLast>> /\ poll' \in {"asked", "told", "due"} /\ answer' \in Phases
    BY <1>1, <1>t DEF PollAsks, StatusAnswers, StatusLost, Status, PollType, JobType, Phases,
       Terminal
  <2>2. poll' \in {"asked", "told"} => asked + found < MaxProbes
    BY <1>1, <1>t DEF PollAsks, StatusAnswers, StatusLost, Probes
  <2> QED
    BY <2>1, <2>2, <1>t DEF PollType, Probes
<1>2. CASE PollHandles
  <2>1. /\ poll' \in {"stopped", "due"} /\ (asked' = asked \/ asked' = asked + 1)
        /\ UNCHANGED <<answer, found, lostLast>> /\ poll = "told"
    BY <1>2 DEF PollHandles
  <2>2. PollType'
    BY <2>1, <1>t DEF PollType
  <2>3. asked' \in Nat /\ found' \in Nat /\ asked' + found' <= MaxProbes
    BY <2>1, <1>t, <1>n DEF Probes
  <2>4. Probes'
    BY <2>1, <2>3 DEF Probes
  <2> QED
    BY <2>2, <2>4
<1>3. CASE ProbeSteps
  <2>1. /\ asked > 0 /\ asked' = asked - 1 /\ (found' = found \/ found' = found + 1) /\ UNCHANGED <<poll, answer>>
    BY <1>3 DEF ProbeSteps, ProbeAnswered, ProbeLost
  <2>2. PollType'
    <3>1. lostLast' \in BOOLEAN
      BY <1>3, <1>t DEF ProbeSteps, ProbeAnswered, ProbeLost, PollType
    <3> QED
      BY <2>1, <3>1, <1>t DEF PollType
  <2>3. Probes'
    <3>1. CASE found' = found
      BY <2>1, <3>1, <1>t, <1>n DEF Probes
    <3>2. CASE found' = found + 1
      BY <2>1, <3>2, <1>t, <1>n DEF Probes
    <3> QED
      BY <2>1, <3>1, <3>2
  <2> QED
    BY <2>2, <2>3
<1>4. CASE ProbeAttaches
  <2>1. found > 0 /\ found' = found - 1 /\ UNCHANGED <<asked, poll, answer, lostLast>>
    BY <1>4 DEF ProbeAttaches
  <2>2. PollType'
    BY <2>1, <1>t DEF PollType
  <2>3. Probes'
    BY <2>1, <1>t, <1>n DEF Probes
  <2> QED
    BY <2>2, <2>3
<1>5. CASE JobSteps \/ PlaySteps \/ WatchSteps \/ LossSteps \/ RetryAttaches
  <2>1. UNCHANGED <<pollVars, probeVars>>
    BY <1>5 DEF JobSteps, PlaySteps, WatchSteps, LossSteps,
       JobAdvances, SegmentWritten, JobFails, Wiped, TryStartPlayback,
       ClickRescue, PlaySucceeds, PlayRejected, RecoversInPlace, SegmentLoaded, Autoplays, Plays, WatchdogAges,
       WatchdogEnds, FatalError, WatchdogReattaches, RetryAttaches
  <2> QED
    BY <2>1, <1>t DEF PollType, Probes
<1> QED
  BY <1>1, <1>2, <1>3, <1>4, <1>5, Steps DEF PollSteps, AttachSteps

\* The player and its timers.
LEMMA PlayerStep == Inv /\ Next => PlayType' /\ Timing' /\ Shown'
<1> SUFFICES ASSUME Inv, Next PROVE PlayType' /\ Timing' /\ Shown'
  OBVIOUS
<1>t. JobType /\ PlayType /\ Timing /\ Shown
  BY DEF Inv
<1>n. MaxFaults \in Nat /\ NumSegs \in Nat /\ Prebuffer \in Nat \ {0}
  BY ViewerAssumption
<1> USE DEF mediaVars, playVars, attachVars, timerVars
<1>1. CASE JobSteps \/ PollSteps \/ ProbeSteps
  <2>1. UNCHANGED <<mediaVars, playVars, attachVars, timerVars>>
    BY <1>1 DEF JobSteps, PollSteps, ProbeSteps, JobAdvances, SegmentWritten, JobFails, Wiped,
       PollAsks, StatusAnswers, StatusLost, PollHandles, ProbeAnswered, ProbeLost
  <2> QED
    BY <2>1, <1>t DEF PlayType, Timing, Shown
<1>2. CASE PlaySteps
  <2>1. /\ UNCHANGED attachVars /\ UNCHANGED <<old, retries>>
        /\ (faults' = faults \/ faults' = faults + 1) /\ faults' <= MaxFaults
    BY <1>2, <1>t, <1>n DEF PlaySteps, TryStartPlayback, ClickRescue, PlaySucceeds, PlayRejected,
       RecoversInPlace, SegmentLoaded, Autoplays, Plays, Timing
  <2>2. playStarted' \in BOOLEAN /\ starting' \in BOOLEAN /\ playing' \in BOOLEAN /\ allowed' \in BOOLEAN
    BY <1>2, <1>t DEF PlaySteps, TryStartPlayback, ClickRescue, PlaySucceeds, PlayRejected,
       RecoversInPlace, SegmentLoaded, Autoplays, Plays, PlayType
  <2>3. playStarted' \/ starting' \/ playing' => playStarted \/ starting \/ playing \/ loaded > 0
    BY <1>2, <1>t, <1>n DEF PlaySteps, TryStartPlayback, ClickRescue, PlaySucceeds, PlayRejected,
       RecoversInPlace, SegmentLoaded, Autoplays, Plays, BufferedAhead, PlayType
  <2>l. /\ loaded' \in 0 .. NumSegs /\ pos' \in 0 .. loaded'
        /\ loaded' > 0 => loaded > 0 \/ current = "live"
    <3>1. CASE SegmentLoaded
      <4>1. current = "live" /\ loaded < segs
        BY <3>1 DEF SegmentLoaded
      <4>2. CASE loaded = 0
        <5>1. PICK at \in Entries : pos' = at /\ loaded' = at + 1
          BY <3>1, <4>2 DEF SegmentLoaded
        <5>2. at \in Nat /\ at < segs
          BY <5>1, <4>1, <4>2, <1>t, <1>n DEF Entries, LiveEdge, JobType
        <5> QED
          BY <5>1, <5>2, <4>1, <1>t, <1>n DEF JobType
      <4>3. CASE loaded # 0
        <5>1. loaded' = loaded + 1 /\ pos' = pos
          BY <3>1, <4>3 DEF SegmentLoaded
        <5> QED
          BY <5>1, <4>1, <1>t, <1>n DEF JobType, PlayType
      <4> QED
        BY <4>2, <4>3
    <3>2. CASE Plays
      BY <3>2, <1>t, <1>n DEF Plays, PlayType
    <3>3. CASE RecoversInPlace
      BY <3>3, <1>t, <1>n DEF RecoversInPlace, PlayType
    <3>4. CASE TryStartPlayback \/ ClickRescue \/ PlaySucceeds \/ PlayRejected \/ Autoplays
      <4>1. UNCHANGED <<loaded, pos>>
        BY <3>4 DEF TryStartPlayback, ClickRescue, PlaySucceeds, PlayRejected, Autoplays
      <4> QED
        BY <4>1, <1>t DEF PlayType
    <3> QED
      BY <1>2, <3>1, <3>2, <3>3, <3>4 DEF PlaySteps
  <2>4. PlayType'
    BY <2>1, <2>2, <2>l, <1>t DEF PlayType
  <2>5. Timing'
    <3>1. UNCHANGED <<young, old, retries, streamShown>>
      BY <2>1
    <3>2. CASE faults' = faults
      BY <3>1, <3>2, <1>t, <1>n DEF Timing
    <3>3. CASE faults' = faults + 1
      BY <2>1, <3>1, <3>3, <1>t, <1>n DEF Timing
    <3> QED
      BY <2>1, <3>2, <3>3
  <2>6. Shown'
    BY <2>1, <2>3, <2>l, <1>t DEF Shown
  <2> QED
    BY <2>4, <2>5, <2>6
<1>3. CASE WatchSteps
  <2>1. /\ UNCHANGED <<mediaVars, playVars, streamShown, current, live, retries, faults>>
        /\ \/ young > 0 /\ retries <= MaxFaults /\ young' = young - 1 /\ old' = old + 1
           \/ young > 0 /\ young' = young - 1 /\ UNCHANGED old
           \/ old > 0 /\ old' = old - 1 /\ UNCHANGED young
    BY <1>3, <1>t DEF WatchSteps, WatchdogAges, WatchdogEnds, Timing
  <2>2. PlayType' /\ Shown'
    BY <2>1, <1>t DEF PlayType, Shown
  <2>3. Timing'
    BY <2>1, <1>t, <1>n DEF Timing
  <2> QED
    BY <2>2, <2>3
<1>4. CASE LossSteps
  <2>1. /\ ~streamShown' /\ current' = "destroyed" /\ loaded' = 0 /\ pos' = 0 /\ playing' = FALSE
        /\ ~starting' /\ ~playStarted' /\ allowed' = allowed
        /\ live' = (IF current = "live" THEN live - 1 ELSE live) /\ retries' = retries + 1
    BY <1>4 DEF LossSteps, FatalError, WatchdogReattaches, Destroy, Emptied, Reattach
  <2>2. /\ streamShown' \in BOOLEAN /\ starting' \in BOOLEAN /\ playStarted' \in BOOLEAN
        /\ playing' \in BOOLEAN /\ allowed' \in BOOLEAN
    <3>1. streamShown' = FALSE /\ starting' = FALSE /\ playing' = FALSE
      BY <1>4 DEF LossSteps, FatalError, WatchdogReattaches, Destroy, Emptied, Reattach
    <3>2. playStarted' = FALSE \/ playStarted' = playStarted
      BY <1>4 DEF LossSteps, FatalError, WatchdogReattaches
    <3>3. allowed' \in BOOLEAN
      BY <2>1, <1>t DEF PlayType
    <3> QED
      BY <3>1, <3>2, <3>3, <1>t DEF PlayType
  <2>3. /\ UNCHANGED young
        /\ \/ current = "live" /\ faults < MaxFaults /\ faults' = faults + 1 /\ UNCHANGED old
           \/ old > 0 /\ old' = old - 1 /\ UNCHANGED faults
    BY <1>4 DEF LossSteps, FatalError, WatchdogReattaches
  <2>4. live' = 0
    BY <2>1, <1>t DEF Shown, PlayType
  <2>5. PlayType' /\ Shown'
    <3>1. loaded' \in 0 .. NumSegs /\ pos' \in 0 .. loaded' /\ ~(loaded' > 0)
      BY <2>1, <1>n
    <3>2. ~playing'
      BY <2>1
    <3> QED
      BY <2>1, <2>2, <2>4, <3>1, <3>2 DEF PlayType, Shown
  <2>6. Timing'
    <3>1. current = "live" => streamShown
      BY <1>t DEF Shown
    <3> QED
      BY <2>1, <2>3, <3>1, <1>t, <1>n DEF Timing
  <2> QED
    BY <2>5, <2>6
<1>5. CASE AttachSteps
  <2>1. /\ AttachStream /\ UNCHANGED <<playStarted, starting, allowed, old, faults>>
        /\ retries' = retries \/ (retries > 0 /\ retries' = retries - 1)
    BY <1>5 DEF AttachSteps, RetryAttaches, ProbeAttaches
  <2>2. CASE streamShown
    <3>1. UNCHANGED <<attachVars, mediaVars>>
      BY <2>1, <2>2 DEF AttachStream
    <3> QED
      BY <2>1, <3>1, <1>t, <1>n DEF PlayType, Timing, Shown
  <2>3. CASE ~streamShown
    <3>1. /\ streamShown' /\ current' = "live" /\ live' = live + 1 /\ young' = young + 1
          /\ loaded' = 0 /\ pos' = 0 /\ playing' = FALSE
      BY <2>1, <2>3 DEF AttachStream, AttachAgain, Emptied
    <3>2. streamShown' \in BOOLEAN /\ playing' \in BOOLEAN /\ ~playing'
      BY <2>1, <2>3 DEF AttachStream, AttachAgain, Emptied
    <3>3. live = 0
      BY <2>3, <1>t DEF Shown, PlayType
    <3>4. PlayType' /\ Shown'
      <4>1. loaded' \in 0 .. NumSegs /\ pos' \in 0 .. loaded' /\ ~(loaded' > 0)
        BY <3>1, <1>n
      <4>2. playStarted' \in BOOLEAN /\ starting' \in BOOLEAN /\ allowed' \in BOOLEAN
        BY <2>1, <1>t DEF PlayType
      <4>3. PlayType'
        BY <3>1, <3>2, <3>3, <4>1, <4>2 DEF PlayType
      <4> QED
        BY <3>1, <3>3, <4>3 DEF Shown
    <3>5. Timing'
      BY <2>1, <2>3, <3>1, <1>t, <1>n DEF Timing
    <3> QED
      BY <3>4, <3>5
  <2> QED
    BY <2>2, <2>3
<1> QED
  BY <1>1, <1>2, <1>3, <1>4, <1>5, Steps

LEMMA InitInv == Init => Inv
<1> SUFFICES ASSUME Init PROVE Inv
  OBVIOUS
<1>n. NumSegs \in Nat
  BY ViewerAssumption
<1>1. JobType /\ PollType
  <2>1. /\ wiped \in BOOLEAN /\ lostLast \in BOOLEAN
    BY DEF Init
  <2>2. phase \in Phases /\ answer \in Phases /\ segs \in 0 .. NumSegs
    BY <1>n DEF Init, Phases
  <2>3. poll = "due"
    BY DEF Init
  <2> QED
    BY <2>1, <2>2, <2>3 DEF JobType, PollType
<1>2. PlayType /\ Shown
  <2>1. /\ streamShown \in BOOLEAN /\ playStarted \in BOOLEAN /\ starting \in BOOLEAN
        /\ playing \in BOOLEAN
    BY DEF Init
  <2>3. allowed \in BOOLEAN
    BY DEF Init
  <2>2. /\ current = "none" /\ live = 0 /\ loaded = 0 /\ pos = 0 /\ loaded \in 0 .. NumSegs /\ ~playing
        /\ ~streamShown /\ ~playStarted /\ ~starting
    BY <1>n DEF Init
  <2> QED
    BY <2>1, <2>2, <2>3 DEF PlayType, Shown
<1>3. Probes /\ Timing
  BY ViewerAssumption DEF Init, Probes, Timing
<1> QED
  BY <1>1, <1>2, <1>3 DEF Inv

LEMMA InvStep == Inv /\ [Next]_vars => Inv'
<1>1. Inv /\ UNCHANGED vars => Inv'
  BY DEF vars, jobVars, pollVars, probeVars, mediaVars, playVars, attachVars, timerVars, Inv, JobType, PollType,
     PlayType, Probes, Timing, Shown
<1> QED
  BY <1>1, JobTypeStep, PollStep, PlayerStep DEF Inv

\* The page never has more requests under way than it allows itself, and errors and watchdogs
\* together never start more than a bounded number of timers.
THEOREM TypeCorrect == Spec => []TypeOK
<1>1. Inv => TypeOK
  BY ViewerAssumption DEF Inv, JobType, PollType, PlayType, Probes, Timing, TypeOK
<1> QED
  BY <1>1, InitInv, InvStep, PTL DEF Spec

\* Whichever of the probes, the retries and the watchdogs attaches the stream, and however
\* often: one player, which the page knows and can destroy.
THEOREM OnePlayer == Spec => []OneStream
<1>1. Inv => OneStream
  BY DEF Inv, PlayType, Shown, OneStream
<1> QED
  BY <1>1, InitInv, InvStep, PTL DEF Spec
================================================================================
