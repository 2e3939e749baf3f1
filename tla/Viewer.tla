--------------------------------- MODULE Viewer ---------------------------------
(***************************************************************************)
(* The page on which a job of webapp_mp.py is watched, and the routes it   *)
(* talks to. The page polls the job's status, probes for the playlist with *)
(* HEAD requests, attaches a player (an Hls instance) once it is there,    *)
(* and destroys and re-attaches it after fatal errors and when a watchdog  *)
(* finds that nothing arrives. The browser runs one callback at a time;    *)
(* between two of them the answers of the server, the errors of the player *)
(* and the timers come in any order.                                       *)
(*                                                                         *)
(* Video is counted in segments (-hls_time 2). The element is muted and    *)
(* has autoplay: where the browser allows it, it plays as soon as there is *)
(* something to play, and what is buffered ahead of it shrinks, while the  *)
(* page still waits for its first buffer to fill.                          *)
(*                                                                         *)
(* Left out: the re-buffering, which only calls play() on an element that  *)
(* the browser plays anyhow; the controls of the element, with which the   *)
(* viewer may pause it; the jump of Hls.js to the live edge when it is a   *)
(* minute behind.                                                          *)
(***************************************************************************)
EXTENDS Naturals, FiniteSets

CONSTANTS
  NumSegs,        \* segments of the whole video
  Prebuffer,      \* PREBUFFER_TARGET, in segments
  MaxFaults,      \* bound: errors of the player
  MaxProbes,      \* bound: HEAD requests under way
  Events          \* what may happen in this instance, see AllEvents

AllEvents == {"lose",      \* a request fails
              "fail",      \* the job fails
              "wipe",      \* another upload cleans up behind the finished job
              "click",     \* somebody clicks on the page
              "policy",    \* the browser may refuse to play without a click
              "slow"}      \* the video may play faster than it is loaded

ASSUME ViewerAssumption ==
  /\ NumSegs \in Nat /\ Prebuffer \in Nat \ {0}
  /\ MaxFaults \in Nat /\ MaxProbes \in Nat \ {0}
  /\ Events \subseteq AllEvents

VARIABLES
  phase, segs, wiped,      \* the job: its phase, its segments on disk
  poll, answer,            \* the status poll, and the phase it was told
  asked, found,            \* HEAD requests under way, and answers that found the playlist
  streamShown, playStarted,
  current, live,           \* the Hls instance the page knows, and how many exist
  loaded, pos, playing,    \* the element: end of its buffer, its position, does it play
  allowed,                 \* the browser lets it play
  starting,                \* a play() that has not been answered
  young, old,              \* watchdogs armed, and those older than ten seconds
  retries,                 \* setTimeout(attachStream) under way
  faults, lostLast         \* auxiliary: errors so far; a HEAD was lost after the last poll

jobVars    == <<phase, segs, wiped>>
pollVars   == <<poll, answer>>
probeVars  == <<asked, found, lostLast>>
mediaVars  == <<loaded, pos, playing>>
playVars   == <<playStarted, starting, allowed>>
attachVars == <<streamShown, current, live, young>>
timerVars  == <<old, retries, faults>>
vars == <<jobVars, pollVars, probeVars, mediaVars, playVars, attachVars, timerVars>>

Terminal == {"done", "error"}
Phases == {"queued", "streaming", "finalising"} \cup Terminal

Init ==
  /\ phase = "queued" /\ segs = 0 /\ wiped = FALSE
  /\ poll = "due" /\ answer = "queued"
  /\ asked = 0 /\ found = 0 /\ lostLast = FALSE
  /\ streamShown = FALSE /\ playStarted = FALSE
  /\ current = "none" /\ live = 0 /\ starting = FALSE
  /\ loaded = 0 /\ pos = 0 /\ playing = FALSE
  /\ allowed \in IF "policy" \in Events THEN BOOLEAN ELSE {TRUE}
  /\ young = 0 /\ old = 0 /\ retries = 0 /\ faults = 0

-------------------------------------------------------------------------------
(* The job and its routes, as the page sees them *)

Status == IF wiped THEN "error" ELSE phase
PlaylistFound == segs > 0 /\ ~wiped

\* A stream that is stopped or cut ends with fewer segments; one that is paused writes the
\* next one later.
JobAdvances ==
  /\ \/ phase = "queued" /\ phase' = "streaming"
     \/ phase = "streaming" /\ phase' = "finalising"
     \/ phase = "finalising" /\ phase' = "done"
  /\ UNCHANGED <<segs, wiped, pollVars, probeVars, mediaVars, playVars, attachVars, timerVars>>

SegmentWritten ==
  /\ phase = "streaming" /\ segs < NumSegs
  /\ segs' = segs + 1
  /\ UNCHANGED <<phase, wiped, pollVars, probeVars, mediaVars, playVars, attachVars, timerVars>>

\* Also a job that stays paused until its deadline.
JobFails ==
  /\ "fail" \in Events /\ phase \notin Terminal
  /\ phase' = "error"
  /\ UNCHANGED <<segs, wiped, pollVars, probeVars, mediaVars, playVars, attachVars, timerVars>>

\* The cleanup of another /start forgets a finished job and deletes its directory.
Wiped ==
  /\ "wipe" \in Events /\ phase \in Terminal /\ ~wiped
  /\ wiped' = TRUE
  /\ UNCHANGED <<phase, segs, pollVars, probeVars, mediaVars, playVars, attachVars, timerVars>>

-------------------------------------------------------------------------------
(* The player *)

BufferedAhead == loaded - pos

\* A new source, or none: nothing is buffered, and the element is paused until the browser
\* or the page plays it.
Emptied == loaded' = 0 /\ pos' = 0 /\ playing' = FALSE

\* attachStream. Instances the page has not destroyed go on living.
AttachAgain ==
  /\ streamShown' = TRUE /\ current' = "live" /\ live' = live + 1
  /\ young' = young + 1
  /\ Emptied
AttachStream ==
  IF streamShown THEN UNCHANGED <<attachVars, mediaVars>>
  ELSE AttachAgain

\* hls.destroy takes the video element away from a play() that is under way.
Destroy ==
  /\ live' = IF current = "live" THEN live - 1 ELSE live
  /\ current' = "destroyed"
  /\ Emptied /\ starting' = FALSE

\* What follows a destroy: the stream counts as not shown, and is attached again later.
ReattachShown == UNCHANGED streamShown /\ retries' = retries + 1
Reattach == streamShown' = FALSE /\ retries' = retries + 1

\* A playlist that is still growing is entered a prebuffer before its end (liveSyncDuration);
\* one that may have its end mark, also at its start.
LiveEdge == IF segs > Prebuffer THEN segs - Prebuffer ELSE 0
Entries == IF phase = "streaming" THEN {LiveEdge} ELSE {0, LiveEdge}

SegmentLoaded ==
  /\ current = "live" /\ PlaylistFound /\ loaded < segs
  /\ IF loaded = 0 THEN \E at \in Entries : pos' = at /\ loaded' = at + 1
                   ELSE loaded' = loaded + 1 /\ UNCHANGED pos
  /\ UNCHANGED <<playing, jobVars, pollVars, probeVars, playVars, attachVars, timerVars>>

\* muted autoplay
Autoplays ==
  /\ allowed /\ ~playing /\ pos < loaded
  /\ playing' = TRUE
  /\ UNCHANGED <<loaded, pos, jobVars, pollVars, probeVars, playVars, attachVars, timerVars>>

\* Unless loading is slow, the next segment is there before the last one has been played.
Plays ==
  /\ playing /\ pos < loaded
  /\ "slow" \in Events \/ pos + 1 < loaded \/ loaded = segs \/ ~PlaylistFound
  /\ pos' = pos + 1
  /\ UNCHANGED <<loaded, playing, jobVars, pollVars, probeVars, playVars, attachVars, timerVars>>

\* An event of the player, the safety timer or the retry of a refused play().
TryStartPlayback ==
  /\ ~playStarted /\ ~starting
  /\ BufferedAhead >= Prebuffer
  /\ starting' = TRUE
  /\ UNCHANGED <<playStarted, allowed, jobVars, pollVars, probeVars, mediaVars, attachVars, timerVars>>

\* A click anywhere on the page: from then on the browser lets the element play, and one
\* second of video is enough.
ClickRescue ==
  /\ "click" \in Events
  /\ allowed' = TRUE
  /\ starting' = (starting \/ (~playStarted /\ pos < loaded))
  /\ UNCHANGED <<playStarted, jobVars, pollVars, probeVars, mediaVars, attachVars, timerVars>>

PlaySucceeds ==
  /\ starting /\ allowed /\ pos < loaded
  /\ starting' = FALSE /\ playStarted' = TRUE /\ playing' = TRUE
  /\ UNCHANGED <<allowed, loaded, pos, jobVars, pollVars, probeVars, attachVars, timerVars>>

\* Refused, or overtaken by the end of the video.
PlayRejected ==
  /\ starting /\ (~allowed \/ pos = loaded)
  /\ starting' = FALSE
  /\ UNCHANGED <<playStarted, allowed, jobVars, pollVars, probeVars, mediaVars, attachVars, timerVars>>

\* A fatal error of the network (the load starts again) or of the media (the element gets a
\* new source and goes on where it was): the instance stays.
RecoversInPlace ==
  /\ current = "live" /\ faults < MaxFaults
  /\ faults' = faults + 1
  /\ \/ UNCHANGED <<mediaVars, starting>>
     \/ loaded' = pos /\ playing' = FALSE /\ starting' = FALSE /\ UNCHANGED pos
  /\ UNCHANGED <<playStarted, allowed, jobVars, pollVars, probeVars, attachVars, old, retries>>

\* Any other fatal error. The watchdog of the lost instance stays armed.
FatalError ==
  /\ current = "live" /\ faults < MaxFaults
  /\ faults' = faults + 1
  /\ Destroy /\ Reattach
  /\ playStarted' = FALSE
  /\ UNCHANGED <<allowed, jobVars, pollVars, probeVars, young, old>>

RetryAttaches ==
  /\ retries > 0
  /\ retries' = retries - 1
  /\ AttachStream
  /\ UNCHANGED <<jobVars, pollVars, probeVars, playVars, old, faults>>

\* A re-attachment waits for at most one second, so few of them see a watchdog grow old.
WatchdogAges ==
  /\ young > 0 /\ retries <= MaxFaults
  /\ young' = young - 1 /\ old' = old + 1
  /\ UNCHANGED <<jobVars, pollVars, probeVars, mediaVars, playVars, streamShown, current, live, retries, faults>>

\* A watchdog acts once, on whatever instance is there by then, when nothing is ahead of the
\* position.
WatchdogReattaches ==
  /\ old > 0 /\ ~playStarted /\ BufferedAhead = 0
  /\ old' = old - 1
  /\ Destroy /\ Reattach
  /\ UNCHANGED <<jobVars, pollVars, probeVars, playStarted, allowed, young, faults>>

WatchdogEnds ==
  /\ playStarted /\ young + old > 0
  /\ \/ young > 0 /\ young' = young - 1 /\ UNCHANGED old
     \/ old > 0 /\ old' = old - 1 /\ UNCHANGED young
  /\ UNCHANGED <<jobVars, pollVars, probeVars, mediaVars, playVars, streamShown, current, live, retries, faults>>

-------------------------------------------------------------------------------
(* The poll *)

PollAsks ==
  /\ poll = "due" /\ asked + found < MaxProbes
  /\ poll' = "asked"
  /\ UNCHANGED <<answer, jobVars, probeVars, mediaVars, playVars, attachVars, timerVars>>

StatusAnswers ==
  /\ poll = "asked"
  /\ poll' = "told" /\ answer' = Status
  /\ UNCHANGED <<jobVars, probeVars, mediaVars, playVars, attachVars, timerVars>>

LossTakenForTheEnd ==
  /\ "lose" \in Events
  /\ poll = "asked"
  /\ poll' = "told" /\ answer' = "error"
  /\ UNCHANGED <<jobVars, probeVars, mediaVars, playVars, attachVars, timerVars>>

\* A poll that failed is repeated after a second.
StatusLost ==
  /\ "lose" \in Events
  /\ poll = "asked"
  /\ poll' = "due"
  /\ UNCHANGED <<answer, jobVars, probeVars, mediaVars, playVars, attachVars, timerVars>>

\* The end of the job is the end of the poll; before that the playlist is probed for.
PollHandles ==
  /\ poll = "told"
  /\ asked' = IF answer \in {"streaming", "finalising", "done"} /\ ~streamShown
              THEN asked + 1 ELSE asked
  /\ poll' = IF answer \in Terminal THEN "stopped" ELSE "due"
  /\ UNCHANGED <<answer, found, lostLast, jobVars, mediaVars, playVars, attachVars, timerVars>>

\* The HEAD request at the route of the stream: 404 until the playlist is on disk.
ProbeAnswered ==
  /\ asked > 0
  /\ asked' = asked - 1
  /\ found' = IF PlaylistFound THEN found + 1 ELSE found
  /\ UNCHANGED <<lostLast, jobVars, pollVars, mediaVars, playVars, attachVars, timerVars>>

ProbeLost ==
  /\ "lose" \in Events
  /\ asked > 0
  /\ asked' = asked - 1
  /\ lostLast' = (lostLast \/ poll = "stopped")
  /\ UNCHANGED <<found, jobVars, pollVars, mediaVars, playVars, attachVars, timerVars>>

ProbeAttaches ==
  /\ found > 0
  /\ found' = found - 1
  /\ AttachStream
  /\ UNCHANGED <<asked, lostLast, jobVars, pollVars, playVars, timerVars>>

-------------------------------------------------------------------------------
Server == JobAdvances \/ SegmentWritten \/ JobFails \/ Wiped
Timers == RetryAttaches \/ WatchdogAges \/ WatchdogReattaches \/ WatchdogEnds
Player == TryStartPlayback \/ PlayRejected \/ RecoversInPlace \/ FatalError \/ Plays
Requests == StatusAnswers \/ StatusLost \/ ProbeAnswered \/ ProbeLost

Next == \/ Server \/ Timers \/ Player \/ Requests \/ ClickRescue
        \/ SegmentLoaded \/ Autoplays \/ PlaySucceeds \/ PollAsks \/ PollHandles \/ ProbeAttaches

Spec == Init /\ [][Next]_vars

\* The browser runs the callbacks and the timers that are due, and plays what it may. Of the
\* requests for the status and for segments, which are made again and again, one succeeds.
FairSpec ==
  /\ Spec
  /\ WF_vars(PollAsks) /\ WF_vars(PollHandles) /\ WF_vars(ProbeAttaches)
  /\ WF_vars(ProbeAnswered \/ ProbeLost)
  /\ WF_vars(RetryAttaches) /\ WF_vars(WatchdogAges) /\ WF_vars(WatchdogReattaches)
  /\ WF_vars(Autoplays) /\ WF_vars(Plays) /\ WF_vars(TryStartPlayback) /\ WF_vars(PlaySucceeds)
  /\ SF_vars(StatusAnswers) /\ SF_vars(SegmentLoaded)

-------------------------------------------------------------------------------
(* Properties *)

\* Every variable has its type; the element is never beyond what it has loaded, and there is at
\* most one watchdog more than there were errors.
TypeOK ==
  /\ phase \in Phases /\ segs \in 0 .. NumSegs
  /\ wiped \in BOOLEAN
  /\ poll \in {"due", "asked", "told", "stopped"} /\ answer \in Phases
  /\ asked \in 0 .. MaxProbes /\ found \in 0 .. MaxProbes /\ lostLast \in BOOLEAN
  /\ streamShown \in BOOLEAN /\ playStarted \in BOOLEAN /\ starting \in BOOLEAN
  /\ current \in {"none", "live", "destroyed"} /\ live \in Nat
  /\ loaded \in 0 .. NumSegs /\ pos \in 0 .. loaded
  /\ playing \in BOOLEAN /\ allowed \in BOOLEAN
  /\ young \in Nat /\ old \in Nat /\ young + old <= faults + 1
  /\ retries \in 0 .. 2 * MaxFaults + 2
  /\ faults \in 0 .. MaxFaults

\* The answer to a probe, the timer after an error and the timer of a watchdog all attach
\* the stream (webapp_mp.py:1710, 1752, 1842), in any order and more than once. There is
\* never more than one Hls instance on the video element, it is the one the page knows
\* and can destroy, and it is there exactly while the stream counts as shown.
OneStream ==
  /\ live <= 1
  /\ streamShown <=> live = 1
  /\ current = "live" <=> live = 1
  /\ playStarted \/ starting \/ playing => live = 1

\* Whoever watches learns how the job ended, however many requests fail
\* (webapp_mp.py:1793-1794): done or failed, as it did. Only of a job that was cleaned up
\* before the page asked it is told an error, "no such job" (webapp_mp.py:1957).
SeesTheEnd ==
  phase \in Terminal ~> poll = "stopped" /\ (answer = phase \/ (wiped /\ answer = "error"))

\* A job that ends as done, and stays on disk, is played to its end, whatever happened to the
\* player before, where the browser lets it play and loading is not slow. (A watchdog may then
\* begin it anew, and so on.) There is one way to see nothing: the one probe that
\* follows the last poll was lost, and no player was there: nobody repeats it
\* (webapp_mp.py:1841).
PlayedToTheEnd == current = "live" /\ pos = segs
PlaysWhatIsDone ==
  <>[](phase = "done" /\ ~wiped /\ allowed /\ segs > 0)
    => []<>PlayedToTheEnd \/ <>[](lostLast /\ ~streamShown)
================================================================================
