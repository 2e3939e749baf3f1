------------------------------ MODULE SwapPipeline ------------------------------
(***************************************************************************)
(* The streaming phase of a job in webapp_mp.py (_run_job) with its swap   *)
(* worker processes (server/swap_worker.py): a demux thread decodes frames *)
(* into shared-memory slots and queues them on in_q, worker processes swap *)
(* in place and answer on out_q, a drainer thread files the answers under  *)
(* their frame number, a writer thread sends them to ffmpeg in order, and  *)
(* the job thread (main) starts the workers, watches, tears down and ends  *)
(* the job.  The /pause, /resume and /stop routes act at any time.         *)
(*                                                                         *)
(* A frame's pixels are its number and whether a worker has swapped it.    *)
(* Timeouts that only make a thread look again are not steps.              *)
(***************************************************************************)
EXTENDS Integers, Sequences, FiniteSets

CONSTANTS
  NumFrames,   \* frames in the target video
  Slots,       \* the slots of the FramePool
  Workers,     \* the swap worker processes
  Events,      \* what may happen to the job in this instance, see AllEvents
  NoSlot       \* not a slot

AllEvents == {"pause", "stop",    \* the routes of the viewer page
              "frameError",       \* an exception while a worker swaps a frame
              "fatal",            \* an exception outside a worker's per-frame try
              "crash",            \* a worker process dies
              "pipe",             \* ffmpeg dies
              "decode",           \* copying a decoded frame into its slot raises
              "deadline",         \* the 30-minute cap of the streaming phase expires
              "slow"}             \* a bounded join or wait of main times out

ASSUME ConstantsAssumption ==
  /\ NumFrames \in Nat
  /\ IsFiniteSet(Slots) /\ Slots # {} /\ NoSlot \notin Slots
  /\ IsFiniteSet(Workers) /\ Workers # {}
  /\ Events \subseteq AllEvents

Frames == 0 .. NumFrames - 1

NumSlots == Cardinality(Slots)   \* also the capacity of in_q

VARIABLES
  free, mem,                            \* FramePool: free slots, contents of the slots
  inQ, outQ,                            \* requests; answers, one FIFO per worker
  wstate, work,                         \* each worker's state and request in hand
  demux, dslot, frameIdx, dispatched, allDispatched,    \* demux thread, len(dispatch_ts)
  drain, collected, done,               \* drainer thread, reorder buffer
  writer, wslot, nextToWrite, broken,   \* writer thread
  workerError,                          \* worker_error is not empty
  main, ready, failing, endsLeft, closed,    \* job thread: acks, exception in flight, teardown
  stopFlag, pauseFlag,                  \* set by the routes
  ffmpeg, output                        \* the encoder and what it has received

poolVars   == <<free, mem>>
queueVars  == <<inQ, outQ>>
workerVars == <<wstate, work>>
demuxVars  == <<demux, dslot, frameIdx, dispatched, allDispatched>>
drainVars  == <<drain, collected, done>>
writerVars == <<writer, wslot, nextToWrite, broken>>
mainVars   == <<main, ready, failing, endsLeft, closed>>
flagVars   == <<stopFlag, pauseFlag>>
encVars    == <<ffmpeg, output>>
vars == <<poolVars, queueVars, workerVars, demuxVars, drainVars, writerVars, workerError,
          mainVars, flagVars, encVars>>

-------------------------------------------------------------------------------
(* Messages and derived state *)

Pixels == [frame : Frames \cup {-1}, swapped : BOOLEAN]

\* SwapRequest; frame -1 without a slot is the end marker.
Request == [frame : Frames, slot : Slots] \cup {[frame |-> -1, slot |-> NoSlot]}
End == [frame |-> -1, slot |-> NoSlot]
NoWork == End

\* SwapResponse; frame -2 is the startup ack, -1 the end ack or a fatal error.
Answer(f, s, e) == [frame |-> f, slot |-> s, error |-> e]
Response == [frame : Frames \cup {-1, -2}, slot : Slots \cup {NoSlot}, error : BOOLEAN]

\* job.phase
Phase == CASE main \in {"startup", "watch", "joining", "ending", "aborting"} -> "streaming"
           [] main = "finalising" -> "finalising"
           [] OTHER -> main
Terminal == main \in {"done", "error"}

\* not p.is_alive() and p.exitcode not in (0, None)
SomeWorkerDied == \E w \in Workers : wstate[w] = "dead"
WorkerGone(w) == wstate[w] \in {"exited", "dead"}
ThreadsGone == /\ demux \in {"off", "exit"}
               /\ drain \in {"off", "exit"}
               /\ writer \in {"off", "exit"}

Init ==
  /\ free = Slots
  /\ mem = [s \in Slots |-> [frame |-> -1, swapped |-> FALSE]]
  /\ inQ = <<>>
  /\ outQ = [w \in Workers |-> <<>>]
  /\ wstate = [w \in Workers |-> "loading"]
  /\ work = [w \in Workers |-> NoWork]
  /\ demux = "off" /\ dslot = NoSlot /\ frameIdx = 0 /\ dispatched = 0
  /\ allDispatched = FALSE
  /\ drain = "off" /\ collected = 0 /\ done = [f \in Frames |-> NoSlot]
  /\ writer = "off" /\ wslot = NoSlot /\ nextToWrite = 0 /\ broken = FALSE
  /\ workerError = FALSE
  /\ main = "startup" /\ ready = {} /\ failing = FALSE
  /\ endsLeft = Cardinality(Workers) /\ closed = FALSE
  /\ stopFlag = FALSE /\ pauseFlag = FALSE
  /\ ffmpeg = "run" /\ output = <<>>

-------------------------------------------------------------------------------
(* The routes; all three refuse a job whose phase is done or error *)

PauseJob ==
  /\ "pause" \in Events /\ ~Terminal
  /\ pauseFlag' = TRUE
  /\ UNCHANGED <<poolVars, queueVars, workerVars, demuxVars, drainVars, writerVars,
                 workerError, mainVars, stopFlag, encVars>>

ResumeJob ==
  /\ pauseFlag /\ ~Terminal
  /\ pauseFlag' = FALSE
  /\ UNCHANGED <<poolVars, queueVars, workerVars, demuxVars, drainVars, writerVars,
                 workerError, mainVars, stopFlag, encVars>>

StopJob ==
  /\ "stop" \in Events /\ ~Terminal
  /\ pauseFlag' = FALSE
  /\ stopFlag' = TRUE
  /\ UNCHANGED <<poolVars, queueVars, workerVars, demuxVars, drainVars, writerVars,
                 workerError, mainVars, encVars>>

-------------------------------------------------------------------------------
(* The swap worker processes *)

\* Models loaded: the startup ack.
WorkerReady(w) ==
  /\ wstate[w] = "loading"
  /\ wstate' = [wstate EXCEPT ![w] = "idle"]
  /\ outQ' = [outQ EXCEPT ![w] = Append(@, Answer(-2, NoSlot, FALSE))]
  /\ UNCHANGED <<poolVars, inQ, work, demuxVars, drainVars, writerVars, workerError,
                 mainVars, flagVars, encVars>>

\* An exception outside the per-frame try is reported and ends the process with code 1.
WorkerFatal(w) ==
  /\ "fatal" \in Events
  /\ wstate[w] \in {"loading", "idle"}
  /\ wstate' = [wstate EXCEPT ![w] = "dead"]
  /\ outQ' = [outQ EXCEPT ![w] = Append(@, Answer(-1, NoSlot, TRUE))]
  /\ UNCHANGED <<poolVars, inQ, work, demuxVars, drainVars, writerVars, workerError,
                 mainVars, flagVars, encVars>>

\* The process dies: a frame in hand is lost, and so are the answers its queue
\* feeder thread had not flushed yet.
WorkerCrash(w) ==
  /\ "crash" \in Events
  /\ ~WorkerGone(w)
  /\ wstate' = [wstate EXCEPT ![w] = "dead"]
  /\ work' = [work EXCEPT ![w] = NoWork]
  /\ \E k \in 0 .. Len(outQ[w]) : outQ' = [outQ EXCEPT ![w] = SubSeq(@, 1, k)]
  /\ UNCHANGED <<poolVars, inQ, demuxVars, drainVars, writerVars, workerError,
                 mainVars, flagVars, encVars>>

\* in_q.get(): a frame to swap, or the end marker, acknowledged before exiting.
WorkerTake(w) ==
  /\ wstate[w] = "idle"
  /\ inQ # <<>>
  /\ inQ' = Tail(inQ)
  /\ IF Head(inQ) = End
     THEN /\ wstate' = [wstate EXCEPT ![w] = "exited"]
          /\ outQ' = [outQ EXCEPT ![w] = Append(@, Answer(-1, NoSlot, FALSE))]
          /\ UNCHANGED work
     ELSE /\ wstate' = [wstate EXCEPT ![w] = "busy"]
          /\ work' = [work EXCEPT ![w] = Head(inQ)]
          /\ UNCHANGED outQ
  /\ UNCHANGED <<poolVars, demuxVars, drainVars, writerVars, workerError, mainVars,
                 flagVars, encVars>>

\* The frame is swapped in place and answered.
WorkerSwap(w) ==
  /\ wstate[w] = "busy"
  /\ mem' = [mem EXCEPT ![work[w].slot].swapped = TRUE]
  /\ outQ' = [outQ EXCEPT ![w] = Append(@, Answer(work[w].frame, work[w].slot, FALSE))]
  /\ wstate' = [wstate EXCEPT ![w] = "idle"]
  /\ work' = [work EXCEPT ![w] = NoWork]
  /\ UNCHANGED <<free, inQ, demuxVars, drainVars, writerVars, workerError, mainVars,
                 flagVars, encVars>>

\* A per-frame exception is reported and the worker goes on; the slot may hold a
\* frame swapped in part.
WorkerFrameError(w) ==
  /\ "frameError" \in Events
  /\ wstate[w] = "busy"
  /\ \E b \in BOOLEAN : mem' = [mem EXCEPT ![work[w].slot].swapped = b]
  /\ outQ' = [outQ EXCEPT ![w] = Append(@, Answer(work[w].frame, work[w].slot, TRUE))]
  /\ wstate' = [wstate EXCEPT ![w] = "idle"]
  /\ work' = [work EXCEPT ![w] = NoWork]
  /\ UNCHANGED <<free, inQ, demuxVars, drainVars, writerVars, workerError, mainVars,
                 flagVars, encVars>>

-------------------------------------------------------------------------------
(* The demux thread *)

\* Every way out of the loop runs the finally clause.
DemuxLeaves == demux' = "exit" /\ allDispatched' = TRUE

\* The loop condition.
DemuxCheck ==
  /\ demux = "check"
  /\ IF stopFlag \/ broken \/ workerError
     THEN DemuxLeaves
     ELSE demux' = "pause" /\ UNCHANGED allDispatched
  /\ UNCHANGED <<poolVars, queueVars, workerVars, dslot, frameIdx, dispatched, drainVars,
                 writerVars, workerError, mainVars, flagVars, encVars>>

\* While paused the loop only looks for a reason to give up.
DemuxQuitsPaused ==
  /\ demux = "pause"
  /\ pauseFlag
  /\ stopFlag \/ broken \/ workerError
  /\ DemuxLeaves
  /\ UNCHANGED <<poolVars, queueVars, workerVars, dslot, frameIdx, dispatched, drainVars,
                 writerVars, workerError, mainVars, flagVars, encVars>>

\* cap.read() finds no frame: the video is over or cap has been released.
EndOfVideoOffByOne == closed \/ frameIdx > NumFrames
EndOfVideo == closed \/ frameIdx = NumFrames

\* cap.read(): the next frame, or the end of the video.
DemuxRead ==
  /\ demux = "pause"
  /\ ~pauseFlag
  /\ IF EndOfVideo
     THEN DemuxLeaves
     ELSE demux' = "acquire" /\ UNCHANGED allDispatched
  /\ UNCHANGED <<poolVars, queueVars, workerVars, dslot, frameIdx, dispatched, drainVars,
                 writerVars, workerError, mainVars, flagVars, encVars>>

DemuxIgnoresErrors ==
  /\ demux = "acquire" /\ stopFlag
  /\ DemuxLeaves
  /\ UNCHANGED <<poolVars, queueVars, workerVars, dslot, frameIdx, dispatched, drainVars,
                 writerVars, workerError, mainVars, flagVars, encVars>>

\* The acquire loop gives up for a stop or an error, not for a broken pipe.
DemuxGivesUp ==
  /\ demux = "acquire"
  /\ stopFlag \/ workerError
  /\ DemuxLeaves
  /\ UNCHANGED <<poolVars, queueVars, workerVars, dslot, frameIdx, dispatched, drainVars,
                 writerVars, workerError, mainVars, flagVars, encVars>>

\* The pool's free queue after s has been taken from it.
FreePeeked(s) == free
FreeWithout(s) == free \ {s}

\* pool.acquire(); the check before it may be up to a second old.
DemuxAcquire ==
  /\ demux = "acquire"
  /\ \E s \in free : dslot' = s /\ free' = FreeWithout(s)
  /\ demux' = "fill"
  /\ UNCHANGED <<mem, queueVars, workerVars, frameIdx, dispatched, allDispatched, drainVars,
                 writerVars, workerError, mainVars, flagVars, encVars>>

\* The frame is copied into the slot and entered in dispatch_ts.
DemuxFill ==
  /\ demux = "fill"
  /\ ~closed
  /\ mem' = [mem EXCEPT ![dslot] = [frame |-> frameIdx, swapped |-> FALSE]]
  /\ dispatched' = frameIdx + 1
  /\ demux' = "send"
  /\ UNCHANGED <<free, queueVars, workerVars, dslot, frameIdx, allDispatched, drainVars,
                 writerVars, workerError, mainVars, flagVars, encVars>>

\* The copy raises, or the pool's views are gone; the slot is never returned.
DemuxFillRaises ==
  /\ demux = "fill"
  /\ closed \/ "decode" \in Events
  /\ DemuxLeaves
  /\ dslot' = NoSlot
  /\ UNCHANGED <<poolVars, queueVars, workerVars, frameIdx, dispatched, drainVars,
                 writerVars, workerError, mainVars, flagVars, encVars>>

\* in_q.put(), which blocks while in_q is full and raises once it is closed.
DemuxSend ==
  /\ demux = "send"
  /\ Len(inQ) < NumSlots
  /\ dslot' = NoSlot
  /\ IF closed
     THEN DemuxLeaves /\ UNCHANGED <<inQ, frameIdx>>
     ELSE /\ inQ' = Append(inQ, [frame |-> frameIdx, slot |-> dslot])
          /\ frameIdx' = frameIdx + 1
          /\ demux' = "check"
          /\ UNCHANGED allDispatched
  /\ UNCHANGED <<poolVars, outQ, workerVars, dispatched, drainVars, writerVars,
                 workerError, mainVars, flagVars, encVars>>

\* A put that begins after the close raises whatever the queue holds; one that was
\* already waiting for room does not, so no fairness is assumed of this step.
DemuxSendRefused ==
  /\ demux = "send"
  /\ closed /\ Len(inQ) >= NumSlots
  /\ DemuxLeaves
  /\ dslot' = NoSlot
  /\ UNCHANGED <<poolVars, queueVars, workerVars, frameIdx, dispatched, drainVars,
                 writerVars, workerError, mainVars, flagVars, encVars>>

-------------------------------------------------------------------------------
(* The drainer thread *)

\* The key of the reorder buffer an answer is filed under.
ArrivalOrder(r) == collected
DoneKey(r) == r.frame

\* One answer: an error stops the drainer, a frame goes to the reorder buffer.
DrainReceive(w) ==
  /\ drain = "run"
  /\ ~closed
  /\ outQ[w] # <<>>
  /\ outQ' = [outQ EXCEPT ![w] = Tail(@)]
  /\ LET r == Head(outQ[w]) IN
       IF r.error
       THEN /\ workerError' = TRUE
            /\ drain' = "exit"
            /\ UNCHANGED <<collected, done>>
       ELSE IF r.frame < 0
       THEN UNCHANGED <<drain, collected, done, workerError>>
       ELSE /\ done' = [done EXCEPT ![DoneKey(r)] = r.slot]
            /\ collected' = collected + 1
            /\ UNCHANGED <<drain, workerError>>
  /\ UNCHANGED <<poolVars, inQ, workerVars, demuxVars, writerVars, mainVars, flagVars,
                 encVars>>

\* As many answers as dispatched frames, once no more will be dispatched.
CaughtUpSoFar == dispatched - collected <= 0
NothingOutstanding == allDispatched /\ dispatched - collected <= 0

\* Nothing came within a second (answers may still be in the feeder pipes), or the
\* queue is closed: look for a dead worker, then for the end of the stream.
DrainTimeout ==
  /\ drain = "run"
  /\ SomeWorkerDied \/ NothingOutstanding
  /\ drain' = "exit"
  /\ workerError' = (workerError \/ SomeWorkerDied)
  /\ UNCHANGED <<poolVars, queueVars, workerVars, demuxVars, collected, done, writerVars,
                 mainVars, flagVars, encVars>>

-------------------------------------------------------------------------------
(* The writer thread *)

WriterStops ==
  /\ writer = "poll"
  /\ workerError \/ stopFlag
  /\ writer' = "exit"
  /\ UNCHANGED <<poolVars, queueVars, workerVars, demuxVars, drainVars, wslot, nextToWrite,
                 broken, workerError, mainVars, flagVars, encVars>>

\* The reorder buffer without the frame the writer takes.
PeekDone == done
PopDone == [done EXCEPT ![nextToWrite] = NoSlot]

\* done.pop(next_to_write) finds the frame; once the pool is closed its view does not
\* exist and the thread dies with the slot in hand.
WriterTake ==
  /\ writer = "poll"
  /\ ~workerError /\ ~stopFlag
  /\ nextToWrite \in Frames /\ done[nextToWrite] # NoSlot
  /\ done' = PopDone
  /\ IF closed
     THEN writer' = "exit" /\ UNCHANGED wslot
     ELSE writer' = "write" /\ wslot' = done[nextToWrite]
  /\ UNCHANGED <<poolVars, queueVars, workerVars, demuxVars, drain, collected, nextToWrite,
                 broken, workerError, mainVars, flagVars, encVars>>

\* Every frame has been dispatched and every dispatched frame written.
CaughtUp == nextToWrite >= dispatched
AllWritten == allDispatched /\ nextToWrite >= dispatched

WriterFinishes ==
  /\ writer = "poll"
  /\ ~workerError /\ ~stopFlag
  /\ AllWritten
  /\ writer' = "exit"
  /\ UNCHANGED <<poolVars, queueVars, workerVars, demuxVars, drainVars, wslot, nextToWrite,
                 broken, workerError, mainVars, flagVars, encVars>>

\* The frame goes down ffmpeg's pipe and the slot back to the pool.
WriterWrite ==
  /\ writer = "write" /\ ffmpeg = "run"
  /\ output' = Append(output, mem[wslot])
  /\ free' = free \cup {wslot}
  /\ nextToWrite' = nextToWrite + 1
  /\ wslot' = NoSlot
  /\ writer' = "poll"
  /\ UNCHANGED <<mem, queueVars, workerVars, demuxVars, drainVars, broken, workerError,
                 mainVars, flagVars, ffmpeg>>

WriterBreaksKeepingSlot ==
  /\ writer = "write" /\ ffmpeg = "dead"
  /\ broken' = TRUE
  /\ wslot' = NoSlot
  /\ writer' = "exit"
  /\ UNCHANGED <<poolVars, queueVars, workerVars, demuxVars, drainVars, nextToWrite,
                 workerError, mainVars, flagVars, encVars>>

\* BrokenPipeError: the slot still goes back, and the thread ends.
WriterBreaks ==
  /\ writer = "write" /\ ffmpeg = "dead"
  /\ broken' = TRUE
  /\ free' = free \cup {wslot}
  /\ wslot' = NoSlot
  /\ writer' = "exit"
  /\ UNCHANGED <<mem, queueVars, workerVars, demuxVars, drainVars, nextToWrite, workerError,
                 mainVars, flagVars, encVars>>

-------------------------------------------------------------------------------
(* The job thread *)

Raises == failing' = TRUE /\ main' = "ending"

\* A startup message: an ack, or a fatal error that fails the job.
MainStartup(w) ==
  /\ main = "startup" /\ ready # Workers
  /\ outQ[w] # <<>>
  /\ outQ' = [outQ EXCEPT ![w] = Tail(@)]
  /\ IF Head(outQ[w]).frame = -2
     THEN ready' = ready \cup {w} /\ UNCHANGED <<main, failing>>
     ELSE Raises /\ UNCHANGED ready
  /\ UNCHANGED <<poolVars, inQ, workerVars, demuxVars, drainVars, writerVars, workerError,
                 endsLeft, closed, flagVars, encVars>>

\* No message for 10 s: a worker died, or the startup deadline has passed.
MainStartupFails ==
  /\ main = "startup" /\ ready # Workers
  /\ SomeWorkerDied \/ "slow" \in Events
  /\ Raises
  /\ UNCHANGED <<poolVars, queueVars, workerVars, demuxVars, drainVars, writerVars,
                 workerError, ready, endsLeft, closed, flagVars, encVars>>

\* All workers are warm: the three threads start.
MainStart ==
  /\ main = "startup" /\ ready = Workers
  /\ main' = "watch"
  /\ demux' = "check" /\ drain' = "run" /\ writer' = "poll"
  /\ UNCHANGED <<poolVars, queueVars, workerVars, dslot, frameIdx, dispatched, allDispatched,
                 collected, done, wslot, nextToWrite, broken, workerError, ready, failing,
                 endsLeft, closed, flagVars, encVars>>

\* While the writer lives main looks every two seconds for a reason to fail the job.
MainRaise ==
  /\ main = "watch" /\ writer # "exit"
  /\ workerError \/ SomeWorkerDied \/ "deadline" \in Events
  /\ Raises
  /\ UNCHANGED <<poolVars, queueVars, workerVars, demuxVars, drainVars, writerVars,
                 workerError, ready, endsLeft, closed, flagVars, encVars>>

\* The writer has ended, for whatever reason: the loop is left without another look.
MainStreamed ==
  /\ main = "watch" /\ writer = "exit"
  /\ main' = "joining"
  /\ UNCHANGED <<poolVars, queueVars, workerVars, demuxVars, drainVars, writerVars,
                 workerError, ready, failing, endsLeft, closed, flagVars, encVars>>

\* The bounded joins of demux and drainer.
MainJoin ==
  /\ main = "joining"
  /\ (demux = "exit" /\ drain = "exit") \/ "slow" \in Events
  /\ main' = "ending"
  /\ UNCHANGED <<poolVars, queueVars, workerVars, demuxVars, drainVars, writerVars,
                 workerError, ready, failing, endsLeft, closed, flagVars, encVars>>

\* One end marker per worker; a put that finds no room for 5 s is dropped.
MainPutEnd ==
  /\ main = "ending" /\ endsLeft > 0
  /\ endsLeft' = endsLeft - 1
  /\ IF Len(inQ) < NumSlots THEN inQ' = Append(inQ, End) ELSE UNCHANGED inQ
  /\ UNCHANGED <<poolVars, outQ, workerVars, demuxVars, drainVars, writerVars, workerError,
                 main, ready, failing, closed, flagVars, encVars>>

\* A worker that has not left 30 s later is terminated.
MainTerminate(w) ==
  /\ main = "ending" /\ endsLeft = 0
  /\ ~WorkerGone(w)
  /\ (wstate[w] = "idle" /\ inQ = <<>>) \/ "slow" \in Events
  /\ wstate' = [wstate EXCEPT ![w] = "dead"]
  /\ work' = [work EXCEPT ![w] = NoWork]
  /\ UNCHANGED <<poolVars, queueVars, demuxVars, drainVars, writerVars, workerError,
                 mainVars, flagVars, encVars>>

\* Every worker process has been joined or terminated.
WorkersNotAwaited == endsLeft = 0
WorkersJoined == \A w \in Workers : WorkerGone(w)

\* Queues and pool are closed, cap is released; an exception in flight goes on.
MainClose ==
  /\ main = "ending" /\ endsLeft = 0
  /\ WorkersJoined
  /\ closed' = TRUE
  /\ main' = IF failing THEN "aborting" ELSE "finalising"
  /\ UNCHANGED <<poolVars, queueVars, workerVars, demuxVars, drainVars, writerVars,
                 workerError, ready, failing, endsLeft, flagVars, encVars>>

\* The except clause kills ffmpeg and records the error.
MainAbort ==
  /\ main = "aborting"
  /\ ffmpeg' = "dead"
  /\ main' = "error"
  /\ UNCHANGED <<poolVars, queueVars, workerVars, demuxVars, drainVars, writerVars,
                 workerError, ready, failing, endsLeft, closed, flagVars, output>>

\* stdin is closed and ffmpeg waited for: a timeout or a bad exit code fails the job,
\* except after a broken pipe; remuxing never does.
MainFinalise ==
  /\ main = "finalising"
  /\ \/ /\ (ffmpeg = "dead" /\ ~broken) \/ "slow" \in Events
        /\ failing' = TRUE /\ main' = "error" /\ ffmpeg' = "dead"
     \/ /\ ffmpeg = "run" \/ broken
        /\ main' = "done" /\ UNCHANGED <<failing, ffmpeg>>
  /\ UNCHANGED <<poolVars, queueVars, workerVars, demuxVars, drainVars, writerVars,
                 workerError, ready, endsLeft, closed, flagVars, output>>

\* External: the encoder process dies.
FfmpegDies ==
  /\ "pipe" \in Events /\ ffmpeg = "run" /\ ~Terminal
  /\ ffmpeg' = "dead"
  /\ UNCHANGED <<poolVars, queueVars, workerVars, demuxVars, drainVars, writerVars,
                 workerError, mainVars, flagVars, output>>

\* The job has ended and left no thread behind.
AllOver ==
  /\ Terminal /\ ThreadsGone
  /\ UNCHANGED vars

-------------------------------------------------------------------------------
Routes == PauseJob \/ ResumeJob \/ StopJob
Worker(w) == \/ WorkerReady(w) \/ WorkerFatal(w) \/ WorkerCrash(w) \/ WorkerTake(w)
             \/ WorkerSwap(w) \/ WorkerFrameError(w)
Demux == \/ DemuxCheck \/ DemuxQuitsPaused \/ DemuxRead \/ DemuxGivesUp \/ DemuxAcquire
         \/ DemuxFill \/ DemuxFillRaises \/ DemuxSend
Drain == (\E w \in Workers : DrainReceive(w)) \/ DrainTimeout
Writer == WriterStops \/ WriterTake \/ WriterFinishes \/ WriterWrite \/ WriterBreaks
Main == \/ \E w \in Workers : MainStartup(w) \/ MainTerminate(w)
        \/ MainStartupFails \/ MainStart \/ MainRaise \/ MainStreamed \/ MainJoin
        \/ MainPutEnd \/ MainClose \/ MainAbort \/ MainFinalise

Next == \/ Routes
        \/ \E w \in Workers : Worker(w)
        \/ Demux \/ DemuxSendRefused
        \/ Drain \/ Writer \/ Main
        \/ FfmpegDies
        \/ AllOver

Spec == Init /\ [][Next]_vars

\* Threads and processes are scheduled; the routes, the failures and the put that
\* waits on a closed queue are not bound to happen.
Fairness ==
  /\ WF_vars(Demux) /\ WF_vars(Drain)
  /\ WF_vars(Writer) /\ WF_vars(Main)
  /\ \A w \in Workers :
       WF_vars(WorkerReady(w) \/ WorkerTake(w) \/ WorkerSwap(w) \/ WorkerFrameError(w))

FairSpec == Spec /\ Fairness

-------------------------------------------------------------------------------
(* Where the slots are *)

\* The slots a queue of requests or answers carries, and none of them twice.
SlotsIn(q) == {q[i].slot : i \in DOMAIN q} \ {NoSlot}
Once(q) == \A i, j \in DOMAIN q : q[i].slot = q[j].slot /\ q[i].slot # NoSlot => i = j

DemuxSlots    == {dslot} \ {NoSlot}
QueuedSlots   == SlotsIn(inQ)
BusySlots     == {work[w].slot : w \in Workers} \ {NoSlot}
AnsweredSlots == UNION {SlotsIn(outQ[w]) : w \in Workers}
DoneSlots     == {done[f] : f \in Frames} \ {NoSlot}
WriterSlots   == {wslot} \ {NoSlot}

\* No slot is in two places.
PlacesDisjoint ==
  /\ free \cap (DemuxSlots \cup QueuedSlots \cup BusySlots \cup AnsweredSlots \cup DoneSlots
               \cup WriterSlots) = {}
  /\ DemuxSlots \cap (QueuedSlots \cup BusySlots \cup AnsweredSlots \cup DoneSlots
                     \cup WriterSlots) = {}
  /\ QueuedSlots \cap (BusySlots \cup AnsweredSlots \cup DoneSlots \cup WriterSlots) = {}
  /\ BusySlots \cap (AnsweredSlots \cup DoneSlots \cup WriterSlots) = {}
  /\ AnsweredSlots \cap (DoneSlots \cup WriterSlots) = {}
  /\ DoneSlots \cap WriterSlots = {}

\* No place holds a slot twice.
QueuedOnce == Once(inQ)
BusyOnce == \A v, w \in Workers :
              work[v].slot = work[w].slot /\ work[v].slot # NoSlot => v = w
AnsweredOnce == /\ \A w \in Workers : Once(outQ[w])
                /\ \A v, w \in Workers :
                     v # w => SlotsIn(outQ[v]) \cap SlotsIn(outQ[w]) = {}
DoneOnce == \A f, g \in Frames : done[f] = done[g] /\ done[f] # NoSlot => f = g

-------------------------------------------------------------------------------
(* Properties *)

PoolType == free \subseteq Slots /\ mem \in [Slots -> Pixels]
QueueType == /\ inQ \in Seq(Request)
             /\ outQ \in [Workers -> Seq(Response)]
             /\ work \in [Workers -> Request]
             /\ done \in [Frames -> Slots \cup {NoSlot}]
ThreadType ==
  /\ wstate \in [Workers -> {"loading", "idle", "busy", "exited", "dead"}]
  /\ demux \in {"off", "check", "pause", "acquire", "fill", "send", "exit"}
  /\ drain \in {"off", "run", "exit"}
  /\ writer \in {"off", "poll", "write", "exit"}
  /\ main \in {"startup", "watch", "joining", "ending", "aborting", "finalising", "done",
               "error"}
  /\ ffmpeg \in {"run", "dead"}
  /\ dslot \in Slots \cup {NoSlot} /\ wslot \in Slots \cup {NoSlot}
  /\ ready \subseteq Workers
CountType == /\ frameIdx \in 0 .. NumFrames /\ dispatched \in 0 .. NumFrames
             /\ nextToWrite \in 0 .. NumFrames /\ collected \in Nat
             /\ endsLeft \in 0 .. Cardinality(Workers)
FlagType == /\ allDispatched \in BOOLEAN /\ broken \in BOOLEAN /\ workerError \in BOOLEAN
            /\ failing \in BOOLEAN /\ closed \in BOOLEAN
            /\ stopFlag \in BOOLEAN /\ pauseFlag \in BOOLEAN

\* Type invariant: frame numbers stay within the video wherever they are carried,
\* queues hold requests and answers, and every thread is at a place of its loop.
TypeOK == /\ PoolType /\ QueueType /\ ThreadType /\ CountType /\ FlagType
          /\ output \in Seq(Pixels)

\* The shared memory has one user per slot at any time: free, with demux, queued, with a
\* worker, answered, in the reorder buffer and with the writer exclude each other.
SlotsExclusive == PlacesDisjoint /\ QueuedOnce /\ BusyOnce /\ AnsweredOnce /\ DoneOnce

\* As long as nothing has failed no slot is lost, so demux cannot run out of slots.
\* (A frame whose worker died or reported an error never comes back.)
SlotsAccounted ==
  \/ workerError \/ SomeWorkerDied \/ closed
  \/ \E w \in Workers : \E i \in DOMAIN outQ[w] : outQ[w][i].error
  \/ demux = "exit" /\ frameIdx < NumFrames    \* the copy of a frame may have raised
  \/ free \cup DemuxSlots \cup QueuedSlots \cup BusySlots \cup AnsweredSlots \cup DoneSlots
       \cup WriterSlots = Slots

\* ffmpeg receives the frames of the video in order, each swapped, none twice, whatever
\* order the workers answer in.
OutputInOrder ==
  /\ Len(output) = nextToWrite
  /\ \A i \in DOMAIN output : output[i] = [frame |-> i - 1, swapped |-> TRUE]

\* in_q's capacity equals the pool's, so demux never waits in in_q.put during streaming
\* (there it could not see a stop), and it never runs more than the pool ahead of the writer.
Backpressure ==
  main \in {"watch", "joining"} =>
    /\ demux = "send" => Len(inQ) < NumSlots
    /\ ~broken => frameIdx - nextToWrite <= NumSlots

\* The drainer ends without an error only when no frame is with a worker or on its way:
\* otherwise the writer would wait for a frame nobody will file.
DrainerLeavesNothing ==
  drain = "exit" /\ ~workerError => QueuedSlots \cup BusySlots \cup AnsweredSlots = {}

\* Once the pool is closed no worker is left to touch it, and nobody writes to it.
QuietAfterClose ==
  [][closed => mem' = mem /\ \A w \in Workers : WorkerGone(w)']_vars

\* The streaming phase does what StreamJob promises. It counts as cut short by a stop, a
\* broken pipe, a worker failure, or a demux thread that ended before the last frame.
JobStatus == IF Phase = "streaming" THEN "open"
             ELSE IF Phase = "finalising" THEN "sealed" ELSE Phase
CutShort == \/ stopFlag \/ broken \/ workerError
            \/ demux = "exit" /\ frameIdx < NumFrames
Job == INSTANCE StreamJob WITH out <- output, status <- JobStatus, cut <- CutShort
ImplementsStreamJob == Job!Spec

\* When a thread can take a step other than a look that changes nothing.
DemuxCanGoOn ==
  \/ demux \in {"check", "fill"}
  \/ demux = "pause" /\ (~pauseFlag \/ stopFlag \/ broken \/ workerError)
  \/ demux = "acquire" /\ (free # {} \/ stopFlag \/ workerError)
  \/ demux = "send" /\ Len(inQ) < NumSlots
WorkerCanGoOn(w) == wstate[w] \in {"loading", "busy"} \/ (wstate[w] = "idle" /\ inQ # <<>>)
DrainCanGoOn ==
  drain = "run" /\ (SomeWorkerDied \/ NothingOutstanding \/ \E w \in Workers : outQ[w] # <<>>)
WriterCanGoOn ==
  \/ writer = "write"
  \/ writer = "poll" /\ (workerError \/ stopFlag \/ AllWritten
                          \/ (nextToWrite \in Frames /\ done[nextToWrite] # NoSlot))
MainCanGoOn == writer = "exit" \/ workerError \/ SomeWorkerDied

\* The streaming phase never deadlocks (webapp_mp.py:635-841), whatever fails: demux never waits
\* for a slot while every slot waits in the reorder buffer for a frame nobody works on, and no
\* thread waits for one that has left. Only a pause makes all of them wait, for the viewer.
SomebodyGoesOn ==
  main = "watch" =>
    \/ DemuxCanGoOn \/ DrainCanGoOn \/ WriterCanGoOn \/ MainCanGoOn
    \/ \E w \in Workers : WorkerCanGoOn(w)
    \/ demux = "pause" /\ pauseFlag

\* Every job ends, however its workers, its encoder and its viewer behave, unless somebody
\* pauses it for good or presses pause and resume for ever.
JobEnds == <>[]~pauseFlag => <>Terminal

\* A job that has ended leaves no thread behind. One exception is in the code: after a
\* crash the end markers can fill in_q while demux waits in in_q.put, which no one will wake.
DemuxLeftInPut == demux = "send" /\ closed /\ Len(inQ) >= NumSlots
ThreadsEnd == Terminal ~> (ThreadsGone \/ DemuxLeftInPut)

\* swap_worker.py:95: "`error` is non-empty if the worker hit an exception while processing
\* this frame - master should treat that as a fatal job error."
WorkerErrorIsFatal == workerError /\ ~stopFlag => main # "done"
================================================================================
