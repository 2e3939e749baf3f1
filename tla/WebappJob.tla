------------------------------- MODULE WebappJob -------------------------------
(***************************************************************************)
(* webapp.py, the single-process server: POST /start wipes what earlier    *)
(* jobs left on disk, saves the uploads, registers a job and starts its    *)
(* thread; the thread loads the models, looks at the pictures and at the   *)
(* video, and streams through the four threads of ThreadPipeline, which    *)
(* this module extends with what webapp.py does differently around them.   *)
(* The /start of webapp_mp.py and its cleanup are the same, line by line.  *)
(*                                                                         *)
(* One job, Mine, is followed in detail; of the others only the requests   *)
(* and the phases, which is all that Mine shares with them.                *)
(***************************************************************************)
EXTENDS ThreadPipeline

CONSTANTS
  Uploads, Mine,     \* the uploads somebody sends, one of them
  WebEvents          \* what may go wrong around the pipeline, see AllWebEvents

AllWebEvents == {"load",      \* a model cannot be loaded
                 "cpu",       \* the swapper loads, but without CUDA
                 "picture",   \* no face in a picture or in the video
                 "form"}      \* an upload without a picture or without a video

ASSUME WebappAssumption ==
  /\ IsFiniteSet(Uploads) /\ Mine \in Uploads
  /\ WebEvents \subseteq AllWebEvents

VARIABLES
  request,       \* how far /start has come with an upload
  kept,          \* the active_ids its cleanup has collected
  jobs,          \* JOBS, the uploads that are registered
  dirs,          \* the uploads whose files are below webapp_jobs
  phase,         \* job.phase
  models,        \* what _swapper holds
  reaped,        \* Mine's ffmpeg has been waited for, or killed
  raced          \* auxiliary: the uploads another cleanup ran into

startVars == <<request, kept, jobs, dirs, raced>>
webVars   == <<startVars, phase, models, reaped>>
allVars   == <<vars, webVars>>

Terminal == {"done", "error"}
Active(u) == phase[u] \notin Terminal

WebInit ==
  /\ Init
  /\ request = [u \in Uploads |-> "idle"] /\ kept = [u \in Uploads |-> {}]
  /\ jobs = {} /\ dirs = {} /\ raced = {}
  /\ phase = [u \in Uploads |-> "queued"]
  /\ models = "none"
  /\ reaped = FALSE

-------------------------------------------------------------------------------
(* POST /start *)

\* Between makedirs and the registration an upload is on disk and in no list.
Unlisted(u) == request[u] \in {"made", "saved"}

InFlightStreaming == {u \in jobs : phase[u] = "streaming"}
InFlightPhases == {phase[u] : u \in {v \in jobs : Active(v)}}
InFlight == {u \in jobs : Active(u)}

\* Under JOBS_LOCK: what is in flight is kept, the rest of JOBS is forgotten.
CleanupCollects(u) ==
  /\ request[u] = "idle"
  /\ request' = [request EXCEPT ![u] = "collected"]
  /\ kept' = [kept EXCEPT ![u] = InFlight]
  /\ jobs' = InFlight
  /\ raced' = raced \cup {v \in Uploads \ {u} : Unlisted(v)}
  /\ UNCHANGED <<vars, dirs, phase, models, reaped>>

\* Without the lock: every entry of webapp_jobs that was not collected goes.
CleanupWipes(u) ==
  /\ request[u] = "collected"
  /\ request' = [request EXCEPT ![u] = "clean"]
  /\ dirs' = dirs \cap kept[u]
  /\ UNCHANGED <<vars, kept, jobs, raced, phase, models, reaped>>

StartRefuses(u) ==
  /\ "form" \in WebEvents
  /\ request[u] = "clean"
  /\ request' = [request EXCEPT ![u] = "refused"]
  /\ UNCHANGED <<vars, kept, jobs, dirs, raced, phase, models, reaped>>

StartMakesDir(u) ==
  /\ request[u] = "clean"
  /\ request' = [request EXCEPT ![u] = "made"]
  /\ dirs' = dirs \cup {u}
  /\ raced' = IF \E v \in Uploads : request[v] = "collected" THEN raced \cup {u} ELSE raced
  /\ UNCHANGED <<vars, kept, jobs, phase, models, reaped>>

\* The pictures and the video; save raises when the directory has gone.
StartSaves(u) ==
  /\ request[u] = "made"
  /\ request' = [request EXCEPT ![u] = IF u \in dirs THEN "saved" ELSE "refused"]
  /\ UNCHANGED <<vars, kept, jobs, dirs, raced, phase, models, reaped>>

StartRegisters(u) ==
  /\ request[u] = "saved"
  /\ request' = [request EXCEPT ![u] = "accepted"]
  /\ jobs' = jobs \cup {u}
  /\ UNCHANGED <<vars, kept, dirs, raced, phase, models, reaped>>

Start(u) == \/ CleanupCollects(u) \/ CleanupWipes(u) \/ StartRefuses(u)
            \/ StartMakesDir(u) \/ StartSaves(u) \/ StartRegisters(u)

\* GET /job/<id>/status, and whether the routes of the stream find the job's files.
StatusOf(u) == IF u \in jobs THEN phase[u] ELSE "error"
Served(u) == u \in jobs /\ u \in dirs

-------------------------------------------------------------------------------
(* _run_job before the stream *)

SetPhase(p) == phase' = [phase EXCEPT ![Mine] = p]

\* The except clause; there is no encoder yet.
RaisesEarly == main' = "error" /\ SetPhase("error")

\* Under _models_lock. The CPU swapper is kept although the load raises.
EnsureModels(Then, Raises) ==
  \/ /\ models # "none" /\ Then /\ UNCHANGED models
  \/ /\ models = "none" /\ models' = "cuda" /\ Then
  \/ /\ models = "none" /\ "cpu" \in WebEvents /\ models' = "cpu" /\ Raises
  \/ /\ models = "none" /\ "load" \in WebEvents /\ UNCHANGED models /\ Raises

\* The thread that loads the models when the server starts.
Prewarms ==
  /\ models = "none"
  /\ EnsureModels(TRUE, TRUE)
  /\ UNCHANGED <<vars, startVars, phase, reaped>>

JobLoadsModels ==
  /\ request[Mine] = "accepted" /\ phase[Mine] = "queued"
  /\ EnsureModels(SetPhase("detecting_source") /\ UNCHANGED main, RaisesEarly)
  /\ UNCHANGED <<failing, reader, detect, writer, hand, queueVars, pos, flagVars, encVars,
                 cuts, startVars, reaped>>

\* The pictures and the video are read from the job's directory.
JobReadsUploads ==
  /\ phase[Mine] = "detecting_source"
  /\ \/ Mine \in dirs /\ SetPhase("finding_reference") /\ UNCHANGED main
     \/ (Mine \notin dirs \/ "picture" \in WebEvents) /\ RaisesEarly
  /\ UNCHANGED <<failing, reader, detect, writer, hand, queueVars, pos, flagVars, encVars,
                 cuts, startVars, models, reaped>>

\* No face in the sampled frames.
JobFindsNobody ==
  /\ "picture" \in WebEvents
  /\ phase[Mine] = "finding_reference" /\ main = "open"
  /\ RaisesEarly
  /\ UNCHANGED <<failing, reader, detect, writer, hand, queueVars, pos, flagVars, encVars,
                 cuts, startVars, models, reaped>>

\* The clusters are found and assigned; ffmpeg starts in the job's directory, which is made
\* anew if it has gone, but without the video that ffmpeg reads the sound from.
JobSpawnsFfmpeg ==
  /\ phase[Mine] = "finding_reference" /\ main = "open"
  /\ MainOpens
  /\ SetPhase("streaming")
  /\ UNCHANGED <<startVars, models, reaped>>

JobCannotSpawn ==
  /\ phase[Mine] = "finding_reference" /\ main = "open"
  /\ "open" \in Events
  /\ RaisesEarly
  /\ UNCHANGED <<failing, reader, detect, writer, hand, queueVars, pos, flagVars, encVars,
                 cuts, startVars, models, reaped>>

-------------------------------------------------------------------------------
(* The stream: the threads of ThreadPipeline *)

\* Every variable of this module rests while the pipeline moves.
Streams(A) == A /\ UNCHANGED webVars

ReaderLoop == Streams(ReaderStep)
DetectLoop == Streams(DetectStep)
WriterLoop == Streams(WriterGets \/ WriterWrites \/ WriterBreaks \/ WriterDropsItem)

\* A writer the job's thread has given up on: a closed pipe is a ValueError, which ends
\* it; the pipe of an ffmpeg that was killed is broken, and it goes on to the end marker.
WriterComesLate ==
  /\ writer = "write" /\ Released
  /\ hand' = [hand EXCEPT !["writer"] = None]
  /\ IF failing THEN broken' = TRUE /\ WriterDiscards
                ELSE WriterQuits /\ UNCHANGED broken
  /\ UNCHANGED <<main, failing, reader, detect, queueVars, pos, stopFlag, encVars, cuts, webVars>>

SwapLoop == Streams(MainChecks \/ MainGets \/ MainSwaps \/ SwapRaises \/ MainPuts)

LeavesLoopUnjoined ==
  \/ Streams(MainClearsRead \/ MainClearsDetect)
  \/ /\ main = "putEnd" /\ main' = "release"
     /\ UNCHANGED <<failing, reader, detect, writer, hand, queueVars, pos, flagVars, encVars,
                    cuts, webVars>>

LeavesLoop == Streams(\/ MainClearsRead \/ MainClearsDetect \/ MainPutsEnd
                      \/ MainJoinsWriter \/ MainJoinsDetect \/ MainJoinsReader)

\* The encoder also fails when the job's files are deleted.
FfmpegGoes ==
  /\ ffmpeg = "run" /\ ~reaped
  /\ \/ "pipe" \in Events /\ ffmpeg' \in {"failed", "content"}
     \/ Mine \notin dirs /\ ffmpeg' = "failed"
  /\ UNCHANGED <<main, failing, reader, detect, writer, hand, queueVars, pos, flagVars, output,
                 cuts, webVars>>

-------------------------------------------------------------------------------
(* _run_job after the stream *)

KillsNot == UNCHANGED reaped
Kills == reaped' = TRUE

\* cap.release; with an exception on its way the except clause comes next, which kills
\* ffmpeg, otherwise its input is closed.
JobCloses ==
  /\ main = "release"
  /\ IF failing THEN main' = "error" /\ SetPhase("error") /\ Kills
                ELSE main' = "wait" /\ SetPhase("finalising") /\ UNCHANGED reaped
  /\ UNCHANGED <<failing, reader, detect, writer, hand, queueVars, pos, flagVars, encVars, cuts,
                 startVars, models>>

\* ffmpeg has exited. Its failure is the job's, unless the writer has met it before.
JobReapsFfmpeg ==
  /\ main = "wait" /\ ~reaped
  /\ reaped' = TRUE
  /\ IF ffmpeg = "failed" /\ ~broken THEN main' = "error" /\ SetPhase("error")
                                    ELSE UNCHANGED <<main, phase>>
  /\ UNCHANGED <<failing, reader, detect, writer, hand, queueVars, pos, flagVars, encVars, cuts,
                 startVars, models>>

\* The wait of 60 seconds runs out.
JobGivesUpOnFfmpeg ==
  /\ "slow" \in Events
  /\ main = "wait" /\ ~reaped
  /\ main' = "error" /\ SetPhase("error") /\ Kills
  /\ UNCHANGED <<failing, reader, detect, writer, hand, queueVars, pos, flagVars, encVars, cuts,
                 startVars, models>>

\* The segments become an MP4, or not: that only costs the download.
JobRemuxes ==
  /\ main = "wait" /\ reaped
  /\ main' = "done" /\ SetPhase("done")
  /\ UNCHANGED <<failing, reader, detect, writer, hand, queueVars, pos, flagVars, encVars, cuts,
                 startVars, models, reaped>>

\* Another registered job, from the outside.
OtherRuns(u) ==
  /\ u # Mine /\ request[u] = "accepted" /\ Active(u)
  /\ \E p \in {"streaming"} \cup Terminal : p # phase[u] /\ phase' = [phase EXCEPT ![u] = p]
  /\ UNCHANGED <<vars, startVars, models, reaped>>

-------------------------------------------------------------------------------
RunJob ==
  \/ JobLoadsModels \/ JobReadsUploads \/ JobFindsNobody \/ JobSpawnsFfmpeg \/ JobCannotSpawn
  \/ SwapLoop \/ LeavesLoop
  \/ JobCloses \/ JobReapsFfmpeg \/ JobGivesUpOnFfmpeg \/ JobRemuxes

WebNext ==
  \/ \E u \in Uploads : Start(u) \/ OtherRuns(u)
  \/ Prewarms \/ RunJob
  \/ ReaderLoop \/ DetectLoop \/ WriterLoop \/ WriterComesLate \/ FfmpegGoes

WebSpec == WebInit /\ [][WebNext]_allVars

-------------------------------------------------------------------------------
(* Properties *)

\* The requests, the registry and the phases have their types.
StartTypeOK ==
  /\ request \in [Uploads -> {"idle", "collected", "clean", "made", "saved", "accepted", "refused"}]
  /\ kept \in [Uploads -> SUBSET Uploads]
  /\ jobs \subseteq Uploads /\ dirs \subseteq Uploads /\ raced \subseteq Uploads
  /\ phase \in [Uploads -> {"queued", "detecting_source", "finding_reference", "streaming",
                            "finalising"} \cup Terminal]
  /\ models \in {"none", "cuda", "cpu"}
  /\ reaped \in BOOLEAN

\* Type invariant: of the threads, their queues of at most FACESWAP_Q_DEPTH items included,
\* and of what webapp.py adds to them.
WebTypeOK == TypeOK /\ StartTypeOK

\* A cleanup wipes "EVERYTHING under webapp_jobs/ EXCEPT jobs currently in flight"
\* (webapp.py:952): a job whose thread has been started and has not ended is in JOBS and has
\* its directory, whatever the others upload meanwhile, unless another /start cleaned up
\* while its own was saving the files (webapp.py:1756-1780). The two steps of a cleanup, the
\* list under the lock and the removal without it, let nothing else slip through.
FilesOfJobsInFlight ==
  \A u \in Uploads \ raced :
    request[u] = "accepted" /\ Active(u) => StatusOf(u) = phase[u] /\ Served(u)

\* A job that has ended leaves no encoder behind: it has exited, or one of the three ways
\* out (webapp.py:882, 884, 911) has taken it down.
NoEncoderLeft == main \in Terminal => ffmpeg # "run" \/ reaped

\* webapp.py keeps the promise of StreamJob as well, although its threads may outlive
\* their bounded joins (webapp.py:870-874) and its directory may be deleted: a job that is
\* reported as done has sent every frame, in order, unless something cut the stream.
WebStatus == IF phase[Mine] = "finalising" THEN "sealed"
             ELSE IF phase[Mine] \in Terminal THEN phase[Mine] ELSE "open"
WebStream == INSTANCE StreamJob
  WITH out <- [i \in 1 .. Len(output) |-> [frame |-> output[i], swapped |-> TRUE]],
       status <- WebStatus, cut <- broken \/ cuts # {}
WebImplementsStreamJob == WebStream!Spec
================================================================================
