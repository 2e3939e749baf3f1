# Verification of face_swap_streamer

The repository swaps faces in a video while the video is being watched: a target video
is decoded, every frame goes through a face swapper, and the result is encoded to HLS
and MP4 by ffmpeg. There are three servers and tools that do it (a multiprocess Flask
application, a thread-based FastAPI server, a C++ command line tool) and an offline
engine with checkpoints. This directory holds TLA+ models of the parts whose
correctness depends on the order in which threads, processes and callers act, TLC
configurations that check them, and TLAPS proofs.

`PROJECT.json` is the machine-readable index: which definition models which lines, which
run checks which property, the mutants that show every property can fail, the
hazards of the code and the properties aimed at them.

## 1. The system

| Part | State | Operations | Interacts by | What makes it hard |
|---|---|---|---|---|
| **A. Multiprocess streaming job**: `webapp_mp.py` `_run_job`, `server/swap_worker.py` | frame pool of shared-memory slots, `in_q`, `out_q`, reorder buffer `done`, `dispatch_ts`, `broken`, `worker_error`, stop and pause flags, job phase | demux, drainer, writer and job threads; N worker processes; `/pause`, `/resume`, `/stop` | shared memory, two queues, shared variables without a lock, process exit codes | answers out of order, worker crash, broken pipe, stop and pause at any step, four threads that must all find out that it is over |
| **B. Thread pipeline**: `server/worker.py` `run_streaming`; `webapp.py` `_run_job` | `read_q`, `detect_q`, `write_q`, `stop_flag`, `broken`; in `webapp.py` also the models, the uploads and ffmpeg | reader, detector, main, writer; loading, scan, remux | bounded queues with an end marker | draining queues in teardown may eat the end marker; bounded joins; three ways out of a job that has an encoder |
| **C. Uploads, registry and batches**: `server/main.py`, `run_single_job`, `run_batch`; `/start` of `webapp.py` and `webapp_mp.py` | `JOBS`, `_jobs`, `_batches`, workspace directories | create job, create batch, cleanup, run batch | locks, background threads, directories | cleanup in two steps against live jobs, against batches and against uploads in progress; batches that fail early |
| **D. WebSocket fan-out and job page**: `server/main.py`, client `web/lib/api.ts`, `web/app/job` | subscriber queues of 64, page state, player | push, subscribe, snapshot, disconnect, reconnect, HTTP snapshot | event loop callbacks from worker threads | newest message dropped, an old HTTP answer after newer messages, final state lost |
| **E. C++ pipeline**: `cli/src/pipeline.cpp` | three `BoundedQueue`s per video, one `cancel` flag, `next_idx` | reader, detector, swapper, writer; batch workers; SIGINT | mutex and condition variables, one atomic flag | closing the right queue; a cancel flag shared by all jobs |
| **F. Offline engine**: `src/face_swap/runner.py`, `pipeline.py`, `checkpoint.py` | frame cursor, KPIs, tracker, pending reports, checkpoint files | frame loop, retries, checkpoint, resume | files | crash between two file replacements, rows lost or written twice |
| **G. References, matching, retries**: the scans of `webapp.py`, `webapp_mp.py`, `runner.py` and `server/worker.py`; `SourceTracker`; the matching in `swap_worker.py` and `runner.py`; `pipeline` retries | clusters, locked references, last box and misses of a source, attempts of a frame | cluster, assign, match, carry, retry | called per frame | ties, greedy choices, faces that vanish for a while |
| **H. Viewer page**: `VIEWER_HTML` of `webapp_mp.py` and the status and HLS routes it asks | status poll, HEAD probes, an Hls instance, watchdogs, retries | poll, probe, attach, destroy, play | timers, promises, events of the player | who attaches and who destroys, when any request may be lost |
| I. Image processing, inference, ffmpeg wrappers, upload forms, configuration, reports, telemetry, scripts | | | | not concurrency or control; see section 8 |

What makes each part correct, in a sentence:

* **A**: ffmpeg gets the frames of the video in order, each swapped; a slot has one user
  at a time and none is lost; a job ends and leaves no thread; after the end nobody
  touches the shared memory; a job is "done" only if it was complete or cut short by
  something the user can see.
* **B**: same output order; all threads end before the capture is released; a failure
  becomes phase "error".
* **C**: a job that is worked on is listed and on disk, whatever others upload; what is listed
  can be fetched; a batch's verdict is that of its videos.
* **D**: the page ends up showing the end of the job and playing its video.
* **E**: `run_streaming` returns once the video is processed or `cancel` is signalled.
* **F**: a resumed run reports every frame exactly once, and a crash at any point leaves a
  checkpoint that can be loaded and is consistent.
* **G**: every source is bound to a person of its own and of its gender where there is one;
  from frame to frame a source stays on its face; the best of the attempts is written.
* **H**: never two players; the viewer learns how the job ended; what is done plays.

## 2. Plan

In this order; a module is written so that it can be proved about (no RECURSIVE operator,
named assumptions on the constants, one action per operation).

1. `StreamJob`, `SwapPipeline` (A): **done**, with the proofs of every safety property its runs check and of
   the refinement.
2. `CppPipeline` (E): **done**, with the proofs of every safety property its run checks; each of its
   videos implements the same `StreamJob`.
3. `ThreadPipeline` (B): **done**, with the proofs of typing and of the refinement: queues with an end
   marker, the sweep in teardown, bounded joins. It implements the same `StreamJob`.
4. `ResumeRun` (F): **done**, with the proofs of all its properties: frame loop with a crash at every
   step, checkpoint of two files, resume.
5. `WebappJob` (B and C), which EXTENDS `ThreadPipeline`: **done**, with the proofs of its safety
   properties: `/start`, cleanup, and the life of a job around the stream; it implements `StreamJob` again.
6. `JobServer` (C): **done**, with the proofs of its safety properties: the registry of `server/main.py`
   and its threads.
7. `JobPage` (D) and `Viewer` (H): **done**: what the two pages learn of a job. What matters of them is
   liveness; of `Viewer`, typing and `OneStream` are proved.
8. `FaceMatching` (G): **done**, with the proofs of its properties: references, matching and retries of
   four programs.
9. What is left. Of the properties that are checked and not proved, all are liveness. What could still be
   modelled is where a component of the plan is modelled in part (`components` in PROJECT.json).

Runs are kept to a dozen, one per question. `WebappJob` composes an upload with the stream it
starts; the composition of the registry, the socket and the page goes through one value, the phase of a
job, so that `JobServer` and `JobPage` stay apart.

## 3. The modules

### StreamJob

What any streaming job promises: frames reach the encoder in order, each once, each
swapped (`Emit`); the stream is sealed only when complete or cut short (`Seal`); a sealed
stream ends as done or error. Which events count as cutting a stream short is decided by
the implementing module (the `cut` of the refinement).

### SwapPipeline

One action per step of a thread between two points where another thread can act.

| Actions | Code |
|---|---|
| `PauseJob`, `ResumeJob`, `StopJob` | the three routes; each is refused once the phase is done or error |
| `WorkerReady`, `WorkerTake`, `WorkerSwap`, `WorkerFrameError`, `WorkerFatal`, `WorkerCrash` | `worker_main`: startup ack, `in_q.get`, the per-frame try and its except clause, the outer except clause, sudden death |
| `DemuxCheck` ... `DemuxSend` | `_demux_loop`: loop test, pause loop, `cap.read`, acquire loop, copy and `dispatch_ts`, `in_q.put` |
| `DrainReceive`, `DrainTimeout` | `_drainer_loop`: one answer; the path through `except` |
| `WriterStops`, `WriterTake`, `WriterFinishes`, `WriterWrite`, `WriterBreaks` | `_writer_loop` |
| `MainStartup` ... `MainFinalise` | the job thread: startup acks, thread start, the watch loop, joins, the `finally` teardown, finalising, the `except` clause |
| `FfmpegDies` | external |

State follows the code: `free` is the pool's queue, `mem` the contents of the slots,
`inQ` the single request queue, `done` the reorder buffer, `dispatched` is
`len(dispatch_ts)`, `workerError` says whether `worker_error` is empty, and `main`,
`demux`, `drain`, `writer`, `wstate` say where each thread or process is.

Decisions worth knowing:

* A frame's pixels are its number and whether it has been swapped. A worker that raises
  in the middle of a frame leaves either.
* `out_q` is one FIFO per worker: a `multiprocessing.Queue` with many writers gives no order
  between them. A crash loses any suffix of what the worker had put (its feeder thread
  had not written it yet).
* `out_q.get(timeout=1)` may time out although an answer is on its way, so `DrainTimeout`
  is not guarded by empty queues.
* Timeouts that only make a thread look again (polling sleeps, the one-second acquire
  timeout) are stutters. Timeouts that change the course are events: `deadline` for the 30 minute
  cap and `slow` for bounded joins that run out.
* `pool.close`, closing the queues and `cap.release` are one step, `MainClose`. A thread
  that comes later finds `cap.read()` failing, the pool's views gone, and queues that raise.
* `Events` says which failures and routes an instance allows, so that a run can ask about
  a system without, say, the pause route.
* `swap_count`, progress counters, timers and log lines are left out.

### CppPipeline

| Actions | Code |
|---|---|
| `ReaderReads` | the loop test of the reader: `cancel`, then `cap.read` |
| `Takes`, `FindsEnd`, `ChecksCancel` | `pop` with a frame, `pop` at the end of a closed queue, the look at `cancel` after the pop, for detector, swapper and writer |
| `Puts` | `push` |
| `WriterWrites`, `WriterFails` | `write_frame` and its failure, which sets `cancel` |
| `WorkerTakesJob`, `JobFailsToOpen`, `JobStarts`, `JobReturns` | the worker loop of `run_batch`; the early returns, the start and the joins of `run_streaming` |
| `Interrupt`, `FfmpegEnds` | `on_sigint`; external |

Thread `k` empties queue `k` and fills queue `k + 1`, which only it closes. The pop and the
look at `cancel` are two steps, since the producer may fill the queue in between. A frame is
its number: detection and swapping catch their exceptions per frame and always pass a frame
on. A frame that is dropped by a thread leaving on `cancel` stays in that thread's hand. The
model is that of the Windows build, the one the tool's README scripts; a POSIX build does not
ignore SIGPIPE, so that there a dead ffmpeg ends the whole process. A single
video is run without the batch's test of `cancel` (`main.cpp:229`).

`Job(j)` is `StreamJob` for the video `j`: what it receives is `output[j]` (a frame comes to the writer only
from the swapper, so it counts as swapped, whether the swap of that frame worked or not), its
stream is sealed when the writer has left, and it is cut by `cancel` or by the end of its ffmpeg.

### ThreadPipeline

| Actions | Code |
|---|---|
| `ReaderReads`, `ReadFails`, `ReaderPuts` | `_reader_loop`: the test of `stop_flag` with `cap.read`; the ways out; `read_q.put` of a frame or the end marker |
| `DetectGets`, `DetectRaises`, `DetectPuts` | `_detect_loop`, likewise |
| `WriterGets`, `WriterWrites`, `WriterBreaks`, `WriterDropsItem`, `WriterTooLate` | `_writer_loop`: a frame written, the broken pipe, the inner loop that discards, a write after ffmpeg's input was closed |
| `MainOpens`, `MainFailsToOpen` | opening the video and ffmpeg, starting the threads |
| `MainChecks`, `MainGets`, `MainSwaps`, `SwapRaises`, `MainPuts` | the loop of the job's thread, with its two looks at `broken` |
| `MainClearsRead`, `MainClearsDetect`, `MainPutsEnd`, `MainJoins...`, `MainReleases` | the `finally` clause, one queue operation or join at a time |
| `MainFinishes`, `MainGivesUpWaiting` | `ffmpeg.wait` and its return code; the phase `run_single_job` gives the job |

Decisions worth knowing:

* A frame is its number. The only assignment of `stop_flag` is in the `finally` clause, so
  that the test of it in the job's own loop never succeeds and is left out.
* `cuts` is an auxiliary variable: which of the decoder, the detector and a writer that was given up
  on has made the stream incomplete. A broken pipe is in `broken`.
* A bounded join ends when the thread has ended, when the thread waits for something nobody
  will do (`DetectStuck`, `ReaderStuck`), or, where the instance allows `slow`, at any time. The
  join of the writer has no stuck case: `JobEnds` fails when a change of the
  code makes one possible.
* A detector may be left behind, and `ThreadsEnd` says when: after a broken pipe the job's thread
  sweeps `read_q`, and with it the end marker, if the reader has put it by then.
  `t_detect.join(timeout=10)` runs out, the capture is released, and the thread waits in
  `read_q.get` for the life of the server. docs/ARCHITECTURE.md:158 has all three threads joined first.
* `cap.release` and the closing of ffmpeg's input are one step. A reader that comes later gets
  no frame, a writer that comes later raises.

### ResumeRun

| Actions | Code |
|---|---|
| `Run`, `Resume`, `ResumeRefused` | `pipeline.run` up to the runner; `pipeline.resume` with `load_checkpoint` and `verify_resumable` |
| `Extract`, `OpenLog`, `CloseLog`, `Render` | `StageRunner.execute`: the frame store, `quality.jsonl` in mode `w` or `a`, the end of its `with` block, the video |
| `ProcessFrame`, `SavePicture` | `_frame_loop`: everything up to the row of a frame; its picture and whether a checkpoint is due |
| `ReplaceJson`, `ReplaceNpz`, `ClearJson`, `ClearNpz` | `write_checkpoint`, `clear_checkpoint`, one file at a time |
| `Finish`, `WriteManifest` | `_exit_code_from_kpis`; the `finally` clause of `pipeline.run`, which `pipeline.resume` does not have |
| `Stops`, `Killed`, `ChangeInput` | Ctrl+C and exceptions; external: a kill, the operator |

State is what is on disk (`store`, `rows`, `made`, `json`, `npz`, `final`, `manifest`) and in the process (`pc`,
`cursor`, `review`, `buf`).

Decisions worth knowing:

* `buf` is what Python's file object holds. It writes out whole rows whenever it pleases;
  `qfh_flush` opens a second descriptor and does not empty it. A kill loses `buf`, Ctrl+C does not,
  since the `with` block closes the file.
* A file has one of its contents or is absent: temporary files are replaced atomically and each
  `os.replace` and `unlink` is a step. The loss of power, which could undo a replacement that was not
  synced, is not modelled.
* `made` says of every swapped picture which inputs it was made from. A kill during `imwrite` leaves
  none. The inputs are the source video, the configuration, the reference pictures, three models and the
  thresholds that are read from the environment (`FACESWAP_REF_THRESH`, `FACESWAP_DET_THRESH`), each in two
  versions; they change only while no process runs.
* `Prints` is what a checkpoint stores of them, `Verified` what `verify_resumable` compares. Of the models only the
  swapper has a fingerprint: the other two are handed to `model_versions` as `None` and come out as "absent"
  (`pipeline.py:71-75`). The hashes of the reference pictures are stored and not compared, and the thresholds of the
  environment are not stored.
* Scores and retries of a frame are one choice: does it need a manual review? `kpi` is a possible
  exit code whenever none does.
* `lost` and `done` are auxiliary. Of the manifest there is its exit code; the reports are left
  out: nothing in the modelled part reads what they say.

### WebappJob

Extends `ThreadPipeline`, whose steps it takes over (`ReaderLoop`, `DetectLoop`, `WriterLoop`, `SwapLoop`,
`LeavesLoop`) with the variables of this module at rest.

| Actions | Code |
|---|---|
| `CleanupCollects`, `CleanupWipes` | `_cleanup_old_jobs`: what is in flight, under the lock; the removal, without it |
| `StartRefuses`, `StartMakesDir`, `StartSaves`, `StartRegisters` | the rest of `/start`, step by step up to the thread it starts |
| `Prewarms`, `JobLoadsModels` | `_ensure_models`, at start-up and in the job |
| `JobReadsUploads`, `JobFindsNobody`, `JobSpawnsFfmpeg`, `JobCannotSpawn` | `_run_job` up to the threads; any exception is the `except` clause |
| `WriterComesLate` | a writer that outlived its bounded join; replaces `WriterTooLate` |
| `JobCloses`, `JobReapsFfmpeg`, `JobGivesUpOnFfmpeg`, `JobRemuxes` | `finally` and `except`, the wait of 60 seconds, the return code, the MP4 |
| `FfmpegGoes`, `OtherRuns` | external: ffmpeg ends or fails; another job, of which only the phase is seen |

* One job is followed in detail. Of the others it shares `JOBS`, the directories and the models, and
  they are seen as requests and phases.
* `raced` is auxiliary: the uploads that were between `makedirs` and their registration while another
  `/start` was between its two cleanup steps, or began them. It is the only window in which
  `FilesOfJobsInFlight` does not hold.
* `/start` and the cleanup of `webapp_mp.py` are the same line by line.

### JobServer

| Actions | Code |
|---|---|
| `Serve`, `CleanupCollects`, `CleanupForgets`, `CleanupWipes`, `SavesUploads`, `Detects`, `DetectCrashes`, `RegistersJob`, `RegistersBatch` | `create_job`, `create_batch` and `_cleanup_finished_workspace` |
| `JobStarts`, `JobDone`, `JobFails` | `run_single_job` around `run_streaming` |
| `BatchStarts`, `BatchPrepares`, `BatchEnds` | `run_batch` before and after its loop |
| `Prewarm` | the models at start-up |
| `Status`, `FileServed`, `BatchStatus`, `Zip` | what the GET routes answer |

* The two handlers are coroutines that await nothing: the event loop serves one at a time, hence
  `serving`. Threads run on meanwhile, and a cleanup reads their phases more than once.
* A stream is one step (`working` to its end); its inside is `ThreadPipeline`.
* A job whose models cannot be loaded again in `run_single_job` fails in `JobStarts`.

### JobPage

| Actions | Code |
|---|---|
| `SetState`, `PushToWs`, `JobForgotten` | `_set` and `_push_to_ws`, from the job's thread; the cleanup of another upload |
| `QueuePuts` | the `put_nowait` on the event loop, with its `QueueFull` |
| `Subscribes`, `Greets`, `GreetFails`, `Sends`, `NoticesDisconnect` | `job_ws`: accept and registration, the first state, the loop of sends, the way out |
| `Opens`, `Receives`, `ConnectionLost` | the subscription of `api.ts`, which opens another connection a second after every close |
| `StatusAnswers`, `StatusArrives`, `StatusFails`, `PlayerEffect` | the job page: its one GET of the status, and the effect that chooses the player |

* A state of a job is the number of the `_set` that made it: the page's rule is that what comes last is
  shown, and the property is about which number that is.
* `full`, `overtaken` and `missed` are auxiliary: they name the three ways in which the page may miss
  the end, so that `PageShowsTheEnd` shows that there is no fourth.

### Viewer

| Actions | Code |
|---|---|
| `JobAdvances`, `SegmentWritten`, `JobFails`, `Wiped` | the job, as its routes show it |
| `PollAsks`, `StatusAnswers`, `StatusLost`, `PollHandles` | the status poll |
| `ProbeAnswered`, `ProbeLost`, `ProbeAttaches` | the HEAD request at the playlist |
| `Autoplays`, `Plays` | the `<video muted autoplay>`: it plays what is loaded, if the browser lets it |
| `AttachStream`, `SegmentLoaded`, `RecoversInPlace`, `FatalError`, `RetryAttaches` | `attachStream` and the events of Hls.js |
| `TryStartPlayback`, `ClickRescue`, `PlaySucceeds`, `PlayRejected` | `tryStartPlayback` and the promise of `play()` |
| `WatchdogAges`, `WatchdogReattaches`, `WatchdogEnds` | the watchdog of an attachment |

* Video is counted in segments: `loaded` is the end of the buffer, `pos` the position (`currentTime`).
  `BufferedAhead` is their difference, as in the code, and shrinks while the element plays.
* `playing` is the element, `playStarted` the page's flag. They differ: autoplay starts the element as soon as
  something is loaded, the flag is set when a `play()` of the page succeeds, for which a prebuffer (a second, after a
  click) must be ahead. Until then the watchdog is on guard.
* A browser may refuse autoplay (`allowed`, event `policy`); after a click it plays.
* What the page does while it plays (re-buffering) decides nothing: it never pauses the player. Pause and stop of
  the job only decide when and how many segments are written, which `SegmentWritten` and `JobAdvances` leave open.
* The page's flags and its Hls instances are kept apart: `streamShown` is what it believes, `live` what
  exists.
* `MaxProbes` and `MaxFaults` bound requests under way and errors of the player.

### FaceMatching

One state machine for the four programs that find, bind, match and retry (`prog`).

| Actions | Code |
|---|---|
| `ScanFails`, `ClaimCluster`, `AssignsClusters` | the scans of the engine, `webapp.py` and `webapp_mp.py`: greedy clusters, the best assignment by gender, the padding |
| `PicksByGender` | `extract_reference_embeddings` of the server |
| `Detects`, `Matches` | a frame: `SourceTracker.assign` (engine) and its twin in `webapp.py`, the one-to-one matching of `swap_worker.py`, the argmax of `server/worker.py` |
| `Renders`, `Retry`, `SettlesFor`, `NextFrame` | the attempts of a frame of the engine |

* Of an embedding only comparisons are used: in the scan which faces are like the one that is chosen
  (`Alike`), in a frame a level per face and source (below the sticky threshold, at least it, at least
  the threshold). Which faces are alike is settled as it is read: any of the others may be like a face that is
  chosen, and a pair is not read again while it matters, because one of the two is used up by then.
* `clusters` is a set: the order in which identities are found is lost in the sort by size and score
  (`Orders` is every order that the sort may give), and no two have a face in common.
* Only the largest identities are candidates (`Pool`): `max(2 * K, 8)` of them in the web
  applications, `max(2 * K, K + pool_extra)` in the engine.
* A box is a place; places overlap when they are neighbours (`Iou`).
* Sorting by score leaves ties to the order in which faces come: `Greedy` is every outcome of taking pairs by
  descending similarity.
* `Fit` is `frac * frac * size` over a common denominator (`Scale`), so that equal values are equal.
* `Begins` forgets the scan: of the references it only matters which sources share one.

### MCSwapPipeline

Model values for workers and slots and the symmetry set; no other definition.

## 4. The runs

| Run | Instance | What it shows |
|---|---|---|
| `swap_safety` | 1 worker, 2 slots, 4 frames, all events | `TypeOK`; `SlotsAccounted`: while nothing has failed, no slot is lost; `Backpressure`: demux never waits in `in_q.put` during streaming and never runs more than the pool ahead; `SomebodyGoesOn`: while the job streams some thread or worker can go on, unless a pause keeps all of them waiting; `QuietAfterClose`: the memory is quiet once the pool is closed; `ImplementsStreamJob`: the refinement |
| `swap_workers` | 2 workers, 4 slots, 5 frames, per-frame errors | `SlotsExclusive`, `OutputInOrder`, `DrainerLeavesNothing`; no deadlock |
| `swap_live` | 1 worker, 2 slots, 3 frames, `FairSpec` | `JobEnds`, `ThreadsEnd` under worker, frame, decode and encoder failures and the three routes |
| `swap_worker_error` | 1 worker, 2 slots, 3 frames | **violated**: `WorkerErrorIsFatal` |
| `thread_pipeline` | 5 frames, depth 3, all events, `FairSpec` | `ImplementsStreamJob`: the refinement; `JobEnds`: the job ends whatever fails; `ThreadsEnd`: no reader or writer is left behind, and a detector only when its end marker was swept away |
| `engine_resume` | 4 frames, a checkpoint every 2, two faults of any kind, another swapper or detector, `FairSpec` | `TypeOK`; `OutputComplete`: no frame of the video is missing or half written; `OutputOfOneInput`: nor of another version of the source video, configuration or swapper; `RowsKept`: only rows in the buffer of a killed process are lost; `VerdictOfOneProcess`: what the exit code and the manifest say of the frames that need a review, and of whom; `Recovers`: a run with a checkpoint can be brought to its end |
| `cpp_batch` | 2 videos of 4 frames, 1 worker, depth 2, all events, `FairSpec` | `TypeOK`; `OkIsComplete`: an uncancelled job without error has written its video; `SomebodyGoesOn`: while the joins wait, some thread can go on, or cancel left a producer stuck; `JobsEnd`: a job that never returns has such a producer; `ImplementsStreamJob`: the refinement, one for each video |
| `webapp_job` | 2 uploads, 2 frames, depth 1, all events | `WebTypeOK`, which includes the `TypeOK` of the threads; `FilesOfJobsInFlight`: no cleanup takes the files or the entry of a job in flight, outside the one window of `/start`; `NoEncoderLeft`: no encoder outlives its job; `WebImplementsStreamJob`: the refinement |
| `job_server` | 1 job and 2 batches of 2 videos, all events | `TypeOK`; `RegistryMatchesDisk`: what is worked on is listed and on disk, what is listed can be fetched; `BatchVerdict`: a batch says of its videos what they say of themselves |
| `job_page` | 3 states, queue of 1, 2 connections, `FairSpec` | `PageShowsTheEnd`: the page shows the end and plays the MP4, with three named exceptions |
| `viewer` | up to 3 segments, prebuffer of 2, 1 error of the player, 2 probes, all events but `slow`, `FairSpec` | `TypeOK`; `OneStream`: never two Hls instances, and the page knows the one there is; `SeesTheEnd`: the page learns how the job ended, and is told an error of a job that was done only if that was cleaned up before it asked; `PlaysWhatIsDone`: what is done is played to its end, with one named exception |
| `face_matching` | 2 sources, 5 faces in the scan, a pool of 4, 3 places, carry 1, 2 retries, 4 programs | `EverySourceHasItsPerson`; `SwapStaysStable`: no source blinks or leaves its face; `KeepsTheBest`: the attempt that is written is the best, and flagged exactly when the budget is used up |

Bounds. Two slots are the least for which demux and writer hold different slots, and
four frames make every slot be used twice. The code has at least two slots per worker
(`max(2, ...)`), so two workers go with four slots; five frames then need a recycled
slot, and the workers can answer in any order. With two workers the event set is cut to the
per-frame error to keep the run small; crashes of workers among several are covered by
the proofs, which hold for all of them. The liveness run has all three routes; `JobEnds` says what ends if
nobody leaves the job paused for good. It leaves out `deadline` and `slow`, which would end the job
whatever the threads do, and so hide a stuck thread. CHECK_DEADLOCK is FALSE where a
thread can be left behind for good (see section 5).

For `CppPipeline` four frames and queues of two are the least for which a producer can wait at
a full queue while its consumer holds a frame, with more than one frame in a queue. All that
one video can do to another is to set `cancel`, and `Interrupt` does that at any step, so one worker
thread is enough for `cpp_batch`. The command line accepts depths from
8; the depth is a parameter of the proofs.

For `ThreadPipeline` the depth of three is the least that the code works with: after the sweep the
detector may still put the frame it holds, the frame the reader had in hand, and an end
marker, while nobody takes from `detect_q`; with a depth of two it waits there for ever (TLC then
finds `ThreadsEnd` violated). The default is 128. Five frames are more than a queue and a hand
hold, so that the reader does wait at a full queue.

For `ResumeRun` four frames with a checkpoint after two have one checkpoint in the middle and one at
the very end, and two faults let a resumed process fail in its turn, at any step, the replacement
of a checkpoint by a later one included. `gen` is bounded by the faults. The two inputs that change are one that
a resume compares and one that it does not; the proofs have them all.

For `WebappJob` two uploads overlap in every way a cleanup can tell apart: a cleanup keeps or removes
each of the others by itself. Two frames and queues of one let the reader and the detector wait at a full
queue; the pipeline's own bounds are those of `thread_pipeline`, which looks at it alone.

For `JobServer` a single job and two batches have every pair of kinds, and a cleanup during one batch
of a registry that holds another, ended one. Two videos are the least for a batch with one good
and one bad.

For `JobPage` queues of one overflow with the second message, and three states are an early one, one
with a stream and the end; two connections are one that is lost and one that holds. The code's queue
has 64 entries; a queue with room for every state cannot make `full` true, so that the run has the harder case.

For `Viewer` one error of the player, beside the watchdogs, which are not counted, has a re-attachment
race with a probe and with a watchdog of the instance that was lost; two probes are one that attaches
and one that comes late. Three segments are one more than the prebuffer, so that a playlist can be entered behind
its start; a job may end with any number of them, so that the video may also be shorter than the prebuffer or as
long.

For `FaceMatching` five faces make identities of sizes 1 to 5 and the ties between them, and, when none are
alike, one identity more than a pool of four holds (`PoolMin` and `PoolExtra` are small, so that the pool is cut
at `2 * K`); three places are
a box, its neighbour and one that is neither; three faces are one more than the sources. A source
is warm for one frame and cold after two. Larger numbers are more of the same comparisons.

Fairness. Each thread and each process is scheduled by the operating system: weak
fairness of the demux, drainer, writer and job thread as a whole, and of a worker's own steps.
In `ThreadPipeline` it is weak fairness of the reader, the detector, the writer and the job's thread;
for the writer it says that ffmpeg goes on taking input or dies. In `CppPipeline` it is weak fairness of each thread of a video and of each worker of the batch.
In `ResumeRun` a process gets on with its work, and the operator resumes a run that can be resumed
(strong fairness, since he may exchange an input and put it back); the number of faults is
bounded. Nothing is assumed of the routes, the failures, or of a `put` that was already waiting
when its queue was closed (`DemuxSendRefused`).
In `JobPage` the job's thread, the event loop and the browser run what is due; a send may be to a
connection that is gone; the last connection of the instance holds, since a network that
never holds shows nothing to anybody. In `Viewer` callbacks and timers run (weak fairness). Requests that
the page repeats for as long as they fail (the poll, the segments Hls.js loads) have strong fairness: one of them
succeeds. A HEAD probe is not repeated after the last
poll and has none: it is answered or lost. The element plays what is loaded if it may (weak fairness), and, without
the event `slow`, what is on disk is loaded before the element has played what came before. Nothing is assumed of
the job.

Every property has a mutant in `PROJECT.json`: a named variant of one definition, a
plausible slip in that piece of code, under which TLC finds the property violated.

## 5. What came out

A claim of the repository that the code does not keep, shown by a run:

* **A worker's error can be forgotten** (`swap_worker_error`). The writer leaves when
  `worker_error` is set (`webapp_mp.py:801`). The job thread spends its time in
  `t_writer.join(timeout=2.0)`; it wakes up because the writer has ended, finds
  `t_writer.is_alive()` false and leaves the loop before the `if worker_error` test. The job ends
  as "Done - audio + video saved" with a truncated video, against `swap_worker.py:95`.

What else the models say of the streaming jobs. None of it is a run of its own; the properties name
these cases as exceptions or count them as cut:

* A job that is stopped in the middle ends as done (`webapp_mp.py:2022`, `:944`): nobody looks at
  `stop_flag` after the threads have left.
* `run_streaming` of the C++ tool may never return (`pipeline.hpp:25`). When ffmpeg dies the writer leaves
  without closing `enc_q`; a swapper that waits in `push` at the full queue is never woken, and
  the join never ends. With the interrupt the same can happen to any producer, in the short
  window between a consumer's pop and its look at `cancel`. `JobsEnd` shows that there is no other
  way to hang.
* A broken pipe of one video cancels the whole batch (`pipeline.cpp:12`, `:213`); the others are printed
  as `[ok]`: they have no error of their own.
* An exception in the demux thread ends the stream as if the video had ended there, and a
  broken pipe does not fail the job. `StreamJob` counts both as cut; the README of the project
  promises nothing else.
* Threads can be left behind. After a worker crash the end markers may fill `in_q` while demux waits in
  `in_q.put`; `ThreadsEnd` names this state and shows that it is the only one, unless the job is ended by
  the 30 minute deadline. That one tells nobody (`webapp_mp.py:865`): a demux thread that is
  paused sleeps for ever, since `/resume` and `/stop` now answer 409; a drainer goes on asking a
  closed `out_q` for frames no worker is left to answer, without a pause between two attempts (`:707`); and
  demux may wait for a slot that the writer took with it. TLC shows such
  a state within seconds when `"deadline"` is added to the events of `SwapLive.cfg`.

Of the offline engine:

* A resumed run logs frames twice: a run that was interrupted has logged the frames since the last
  checkpoint, and the resumed one appends them again (`runner.py:163`, types.py:107). `n_frames`, the medians
  and the list of failed frames count them twice. `RowsKept` shows that the other direction is limited
  to kills.
* A resume mixes inputs. `verify_resumable` says "Refuse to resume on any mismatch" (`checkpoint.py:163`), and
  does not compare the hashes of the reference pictures, which the checkpoint stores; so a
  resumed run may show two faces. A detector or restoration model is "absent" on both sides, whatever was loaded
  (`pipeline.py:73` says it is "recorded after load", which nothing does), and the thresholds of the
  environment are not in the checkpoint. `OutputOfOneInput` is what remains: with any other input added to
  `Guarded` and to `Changes` TLC finds a video made of two versions of it after one interruption.
* The exit code of a resumed run tells only of the frames of its last process:
  `had_manual_review` is not part of a checkpoint. The manifest tells only of the first process
  (`pipeline.py:184`), and says 0 after Ctrl+C or an exception that is no `FaceSwapError`. `VerdictOfOneProcess`
  states what is left.

Of uploads, registry and batches:

* Between `makedirs` and the registration an upload is on disk and in no list; another `/start` in that
  window deletes it (`webapp.py:1756`, `webapp_mp.py:1919`). The job then fails, or streams without the files. `raced`
  is that window, and `FilesOfJobsInFlight` shows that it is the only one.
* A swapper that loads without CUDA is kept although the load raises. When that happens in the thread that
  prewarms the models, which swallows the exception, every later job runs on the CPU without a word
  (`EnsureModels`).
* The children of a batch that fails before its first video stay queued for ever, while the next upload
  deletes their directory (`Stranded`). The ended children of a batch that runs on are forgotten by the next
  upload: their own links fail, the batch's archive holds them.
* Every POST starts a thread of its own; the files say that the GPU has a single tenant, nothing in the
  registry sees to it.

Of the pages:

* The job page reconnects for ever, not once as the comment in `api.ts` says. An answer of
  the one GET may overwrite newer messages; a full queue drops the newest message, be it the last; a job
  that was forgotten greets nobody. `PageShowsTheEnd` names these three, and shows that there is no
  fourth. A subscriber whose greeting fails stays in the slot (`main.py:383`).
* After a remux that failed there is nothing to play once the job is done: the page has destroyed the
  stream and asks for the MP4.
* The viewer sends one HEAD probe with the poll that finds the job done, and never another
  (`webapp_mp.py:1841`); when it is lost, and no player is there, nothing plays (`PlaysWhatIsDone`). A page that asks
  for the first time after a cleanup shows "Job failed: no such job", even of a job that was done
  (`webapp_mp.py:1957`; `SeesTheEnd`). Watchdogs of instances that were destroyed stay armed and act on the next one.
* The watchdog takes down players that play. Its comment wants a connection that is wedged,
  with "zero buffered" (`webapp_mp.py:1736`). The code asks whether anything is ahead of the position and whether
  `playStarted` is set (`:1746`). Autoplay plays from the first segment on, so that the buffer may never reach the
  four seconds that set `playStarted`; when the element has then played all there is, ten seconds after the
  attachment, the page destroys the player and starts over. A clip shorter than four seconds does so again and
  again, until somebody clicks; a stream that is swapped more slowly than it plays may.
  `PlaysWhatIsDone` shows that a finished video is still played to its end each time. With the event `slow` (the
  video is also loaded more slowly than it plays) TLC finds it violated: the page may start over for ever.
* `/download` and `/file` serve `swapped.mp4` while ffmpeg is still writing it.

Of matching:

* Misses are counted in frames that have faces: over a long stretch without any a source stays warm, and
  the carry-over gives it whoever appears at its last place, without any similarity.
* The server marks faces as used per gender and starts over when they are used up, so that two sources of one
  gender may get the same face (`EverySourceHasItsPerson` says when).
* With fewer people than sources several sources have the same reference.
* Only a pool of the largest identities is searched. A person who is seen seldom, behind as many others as the
  pool holds, is bound to nobody, even if the source of their gender then gets a face of the other one:
  the last conjunct of `EverySourceHasItsPerson` has this exception, and fails in the run without it.

## 6. The proofs

Every strengthening below was checked with TLC, as an invariant of a run of its module, before it was
proved.

### SwapPipelineProofs, SwapJobProofs

They hold for any number of frames, slots and workers and any set of events.
The only assumption is `ConstantsAssumption`: a natural number of frames, finite and non-empty sets of slots
and workers, and a value that is not a slot.

* `TypeCorrect`: `Spec => []TypeOK`. `TypeOK` is not inductive: that `frameIdx + 1` stays
  within the video needs that demux is past `cap.read` only with a frame left, that a request
  is well formed needs that demux has a slot in hand. `Places` says what each thread and
  worker holds at each place of its loop; `TypeInv == TypeOK /\ Places` is inductive.
* `SlotExclusion`: `Spec => []SlotsExclusive`. `SlotsExclusive` is inductive relative to
  `TypeInv`. Each action moves a slot from one place to the next, loses it, or returns
  it; lemmas say how appending to a queue, taking its head, cutting its tail, and updating the work
  or the reorder buffer change the set of slots of a place, and what is left is algebra of sets.
* `OutputOrder`: `Spec => []OutputInOrder`. The strengthening is `Contents`: the slot behind
  a request or in a worker's hand holds the frame the request names, and behind an answer
  without error, in the reorder buffer and with the writer it holds that frame
  swapped. Workers and demux write to slots; that nobody else refers to the slot they write
  to is `SlotsExclusive`.
* `Implementation`: `Spec => ImplementsStreamJob`. On top of `OrderInv`
  it needs three facts: `DemuxProgress` (demux has dispatched all frames before the one it is
  at, and dispatches none once `all_dispatched` is set), `WriterReason` (a writer that has left has written everything or something cut the
  stream short) and `MainOrder` (the job thread seals the stream after the writer has
  left). Steps of the threads that do not write a frame or change the phase stutter.
* `PoolQuiet`: `Spec => []QuietAfterClose`. `CloseInv`: the job thread closes the pool only at
  one place of its `finally` clause, and by then it has seen every worker stopped or terminated it.
* `BoundedLead`: `Spec => []Backpressure`. The frames dispatched and not yet written have a slot each, and
  these are distinct by `SlotsExclusive`; so demux is ahead of the writer by at most the cardinality of
  `Slots`, and the requests fit in `in_q`. A frame whose worker died counts too: nobody
  gives its slot back (`Held`). That demux does not wait in `in_q.put` is from `NoEnds`, no end
  markers before the teardown: each request in the queue has a slot of its own, and demux a further one.
* `DrainComplete`: `Spec => []DrainerLeavesNothing`. `Outstanding`: what is queued, held by a worker or
  answered and not yet drained is never more than what demux has sent and the drainer has not counted.
  When the drainer's count meets demux's after `all_dispatched`, that set is empty.
* `NoSlotLost`: `Spec => []SlotsAccounted`. A slot is missing from every place only if one of the excuses the
  property names holds. It needs that a frame is in one place only (`FrameOnce`), that workers are
  quiet during the startup, and which answer says what (`KindInv`).
* `StreamMoves`: `Spec => []SomebodyGoesOn`, that the streaming phase never deadlocks, for all pool sizes; the
  safety core of `JobEnds`. `DemuxCanGoOn` and its like spell out when a thread can take a step
  that is more than another look, since ENABLED cannot be reasoned about here. Suppose that no worker, nor the
  drainer, nor main can go on: then nothing has failed and every frame under way is in the
  reorder buffer (`AllFiled`; for a drainer that has left this is `DrainInv`). A frame that was sent is under way until it is
  written (`OnTheWay`) and none under way is behind the writer (`Ahead`), so a writer that has nothing to take has
  written all there is (`NothingMoving`). Then every slot is free by the invariant of `NoSlotLost`, and demux can
  take one; or it waits in `in_q.put`, where `BoundedLead` gives it room; or it has left, and the
  writer sees `AllWritten`. All these invariants together are `MovesInv`.

### CppPipelineProofs

It assumes `PipelineAssumption`: positive numbers of videos, workers and
queue slots, a natural number of frames.

* `TypeCorrect`: `Spec => []TypeOK`. The strengthening says who has a frame in hand (`Hands`) and
  that the threads of a job are started once (`Fresh`).
* `LineOrder`: `Spec => []LineInOrder`, that the frames from output to reader are consecutive; the proofs below
  rest on it. The line of a video is four links, each a queue and the
  hand that fills it; `LinkPush`, `LinkPop` and `LinkGet` say what the three moves of a frame do
  to a link, and every action is one or two of them.
* `Completeness`: `Spec => []OkIsComplete`. `Leavers`: a queue is closed exactly when its producer
  has left; unless cancelled, whoever has left has an empty hand and an exhausted queue behind
  it; a job that returned without an error has no thread left. Then all links but the
  first are empty, and the first holds every frame.
* `Progress`: `Spec => []SomebodyGoesOn`, that the four threads never deadlock. It is the safety core of
  `JobsEnd`: `CanGoOn` spells out when the step of a thread is enabled, since ENABLED cannot be
  reasoned about here. Follow a producer that cannot push to its consumer (`WaitsForConsumer`): the queue between
  them is full, so the consumer is at a full queue itself or has left, and by `Leavers` only a cancelled
  one leaves a full queue. A consumer with nothing to take has a producer that is still there
  (`WaitsForProducer`), since a producer closes its queue when it leaves. With neither, all have left.
* `Implementation`: `Spec => ImplementsStreamJob`, a step of `StreamJob` or a stutter for each video and every
  step of the batch. `LineInOrder` makes the writer's frame the next one (`WriterHasNext`);
  `Leavers` makes an uncancelled writer that finds its queue at the end the last of four that have
  done all their work (`EndMeansAll`); `Started` (a running job has its encoder and its threads, and a job that
  has returned no thread at work) says that a write that fails is one to an ffmpeg that is gone, and that
  a stream is written to before its job has returned.

### WebappJobProofs

One module for `ThreadPipeline` and for `WebappJob`, which EXTENDS it: the steps of the threads are proved
once, for `StreamStep`, what the next-state relations of `run_streaming` and of `webapp.py` have in common. It assumes
`PipelineAssumption` (a natural number of frames, queues with room for at least one item) and
`WebappAssumption` (a finite set of uploads).

* `TypeCorrect`, `Implementation`: `Spec => []TypeOK`, `Spec => ImplementsStreamJob`. The invariant `StreamInv` is
  `TypeInv` (types, who has a frame in hand, what has begun), `Line`, `Whole` and `Delivered`. `Line` says
  how the frames in the queues and hands follow each other, one conjunct per link, so that
  the next frame written is the next of the video. `Whole`: an end marker that travels without a
  cut, a broken pipe or an error follows the last frame, whatever is swept out of the queues at the end.
  `Delivered`: what the job's thread knows when it seals the stream.
* `WebTypeCorrect`, `FilesKept`, `EncoderReaped`, `WebImplementation`: `WebTypeOK`, `FilesOfJobsInFlight`,
  `NoEncoderLeft` and `WebImplementsStreamJob` for any uploads. `WebInv` adds `PhaseOfMain` (which phase the registry
  shows at each place of the job's thread), `Encoder` (when ffmpeg runs) and `Files` (what a request that is
  saving, a cleanup under way and a job in flight have of registry and disk).

### ResumeRunProofs

It holds for any number of frames, any positive interval between checkpoints and any set of faults.

* `TypeCorrect`: with `Places`, what the process holds at each place of its run.
* `CompleteVideo`, `OneInput`: `OutputComplete` and `OutputOfOneInput`. A checkpoint vouches for the frames before
  it: they have whole pictures, made from the inputs whose fingerprints it holds, and so do the frames the
  process has passed (`Pictures`). A process writes a picture only where no checkpoint vouches for one
  (`Ahead`), which is what a change of the inputs between two processes could break. Whatever has
  equal fingerprints has the video, the configuration and the swapper in common (`Agree`, `PrintsOfInputs`), and the
  theorem claims no more.
* `NoRowForgotten`: `RowsKept`. `Log`: the log on disk, the buffer and what kills have taken hold together a row for
  every frame before the checkpoint and before the cursor.
* `Verdicts`: `VerdictOfOneProcess`. `Flag`: what the process remembers of reviews is what its own rows
  say. `Ended`: nothing but a process that rendered and cleared its checkpoint gets an exit code.
* `NothingAfterTheEnd`: the action property `FinishedIsFinal`, that nothing is written after the end, from `Ended`.

### JobServerProofs

It assumes `JobServerAssumption`: finite sets of single jobs and batches without a common id, none of them a
pair of a batch and an index (such a pair stands for the id of a video of the batch), and at least
one video in a batch.

* `TypeCorrect`, `RegistryAndDisk`, `Verdict`: `TypeOK`, `RegistryMatchesDisk`, `BatchVerdict`. One invariant, in
  named parts: who serves a request (`Serving`), what the thread of a single job and of a batch is at and which
  phases its videos have (`SingleWork`, `BatchWork`), what is listed (`Listed`), what a
  cleanup has seen and will keep (`Keeps`), and which videos lost their MP4 (`Muxed`). `Keeps` is the heart of it: the cleanup collects
  what to keep, then forgets entries, then wipes directories, and threads end and change phases
  between these steps.

### ViewerProofs

* `TypeCorrect`, `OnePlayer`: `TypeOK` and `OneStream`. `Shown`: an instance is attached exactly while the page
  counts the stream as shown and knows the instance, so whoever attaches next destroys it first or does
  nothing. `PlayType` keeps the position within what is loaded, wherever a playlist is entered. `Probes` and `Timing` bound requests and timers under way: each poll leaves room for
  the probe that may follow its answer, each error for the watchdog of the next attachment.

### FaceMatchingProofs

It assumes `FaceMatchingAssumption`, which gives the constants their kinds and makes `Scale` a common multiple of
the sizes an identity can have, so that `Fit` loses nothing.

* `MatchingIsStable`: the action property `SwapStaysStable` for any number of sources, places and
  carried frames. The greedy choice by similarity comes first; what is carried over only adds to
  it and stays one to one (`CarriedOver`). With as many faces as sources the choice is complete
  (`DuetComplete`, a pigeonhole argument).
* `BestIsKept`: `KeepsTheBest` for any budget of attempts, from `Attempts` (the best so far is the best of
  what was tried, and no attempt was good but the last) and `Settled`.
* `PersonsBound`: `EverySourceHasItsPerson` for any number of sources and of faces. `ScanInv` says that the
  identities found so far are disjoint and cover what is used up (`Identities`), what the server's picks have in
  common (`GenderPicks`), and what the sources are bound to (`OwnPerson`, `FittingPerson`). The binding
  is the first best of finitely many assignments, and that there is one has to be shown (`BestFitIsBest`):
  the assignments are finitely many (`SomePerm`), the order by total and then by position is strict and compares
  any two (`BeforeOrders`), and in such an order a finite set has a first element (`FiniteFirst`). The
  total is defined by recursion; that it exists, is a number and grows with a term (`SumExists`,
  `SumDefined`, `LargerSum`) is induction on the number of terms, for which `NatLeast` (a set of numbers has a
  least one) takes the smallest counterexample. Then an assignment that gave a source an identity
  without its gender, with another left in the pool, would not be best (`BestFitsAll`); and whoever is outside
  the pool has `PoolLimit` others before them (`OutsidePool`).

### Only model-checked

* Liveness, out of the prover's reach: `JobEnds`, `ThreadsEnd`, `JobsEnd`, `Recovers`, `SeesTheEnd`,
  `PlaysWhatIsDone`, `PageShowsTheEnd`. With it all of `JobPage`, whose one property this is.

* `SwapWorkerError.cfg`, a counterexample by intention.

## 7. How to run

`tlc -config SwapSafety.cfg MCSwapPipeline.tla` (and so on for the other `Swap*.cfg`, which go with
`MCSwapPipeline`; `CppBatch.cfg` and `EngineResume.cfg` go with `CppPipeline` and `ResumeRun`; every other
configuration has the name of its module),
`tlapm SwapPipelineProofs.tla` (and so on for the other `*Proofs` modules). `SwapWorkerError.cfg` ends with
a counterexample.

## 8. Not modelled

* Of A: shutdown of the server process; a killed worker that dies while it holds the lock inside a
  `multiprocessing.Queue` (it would block the other workers until they are terminated).
* Of C: the routes that stream a file while it is being written; `healthz`, which changes nothing.
* Of E: `reference.cpp` and the numeric code; the handles an ffmpeg process inherits (see the hazards); a
  frame of the wrong size, which ends the program.
* Of F: the reports; the rest of the manifest, which is measurement; the loss of power.
* Of G: the numbers behind a comparison (embeddings, overlaps, flicker); the second look for faces in the
  region of a lost one, which may return a face twice; the strength of restoration, which is
  limited in its rate per attempt; `_match_faces_to_sources` of `webapp.py`, which nothing calls;
  `tracker.Tracker`, which the runner constructs and restores but never updates.
* Of H: re-buffering while playing, the viewer's own pause of the element, the upload forms and drop zones, layout.
* Neural inference, blending, restoration, quality scores, flicker metrics, stabilizers:
  floating-point data, no control.
* ffmpeg itself (external: it takes bytes, or dies), configuration and report files, telemetry, command line
  tools, scripts and installers.
