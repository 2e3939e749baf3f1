------------------------------ MODULE SwapJobProofs ------------------------------
(***************************************************************************)
(* Proofs about SwapPipeline, for any number of frames, slots and workers: *)
(* the job keeps the promise of StreamJob; nobody touches the pool once it *)
(* is closed; the pool bounds how far demux runs ahead; no slot is lost    *)
(* without a failure; the drainer leaves nothing behind; and the threads   *)
(* never all wait for each other.                                          *)
(***************************************************************************)
EXTENDS SwapPipelineProofs

\* How far demux has come.
DemuxProgress ==
  /\ dispatched >= frameIdx
  /\ demux = "send" => dispatched = frameIdx + 1
  /\ allDispatched => demux = "exit"

\* Why the writer has ended, unless the job was torn down under it.
WriterReason ==
  writer = "exit" /\ ~closed => stopFlag \/ broken \/ workerError \/ AllWritten

\* What the job thread's place says about the writer, the encoder and the pool.
MainOrder ==
  /\ closed => main \in {"aborting", "finalising", "done", "error"}
  /\ main \in {"startup", "watch", "joining"} => ~failing
  /\ main \in {"joining", "finalising", "done"} => writer = "exit"
  /\ main = "ending" /\ ~failing => writer = "exit"
  /\ main = "error" => ffmpeg = "dead" \/ writer = "exit"

JobInv == DemuxProgress /\ WriterReason /\ MainOrder

LEMMA InitJobInv == Init => JobInv
  BY DEF Init, JobInv, DemuxProgress, WriterReason, MainOrder

\* What the workers and the drainer leave alone.
LEMMA WorkerKeeps ==
  ASSUME NEW w \in Workers, Worker(w)
  PROVE  UNCHANGED <<demuxVars, writerVars, workerError, mainVars, flagVars, encVars>>
<1>1. CASE WorkerReady(w) \/ WorkerFatal(w) \/ WorkerTake(w)
  BY <1>1 DEF WorkerReady, WorkerFatal, WorkerTake
<1>2. CASE WorkerCrash(w)
  BY <1>2 DEF WorkerCrash
<1>3. CASE WorkerSwap(w) \/ WorkerFrameError(w)
  BY <1>3 DEF WorkerSwap, WorkerFrameError
<1> QED
  BY <1>1, <1>2, <1>3 DEF Worker

LEMMA DrainKeeps ==
  ASSUME Drain
  PROVE  /\ UNCHANGED <<demuxVars, writerVars, mainVars, flagVars, encVars>>
         /\ workerError => workerError'
<1>1. ASSUME NEW w \in Workers, DrainReceive(w)
      PROVE  /\ UNCHANGED <<demuxVars, writerVars, mainVars, flagVars, encVars>>
             /\ workerError => workerError'
  BY <1>1 DEF DrainReceive
<1>2. CASE DrainTimeout
  BY <1>2 DEF DrainTimeout
<1> QED
  BY <1>1, <1>2 DEF Drain

\* The threads' progress and the order of the job thread's steps.
LEMMA JobInvStep == TypeInv /\ JobInv /\ [Next]_vars => JobInv'
<1> SUFFICES ASSUME TypeInv, JobInv, [Next]_vars PROVE JobInv'
  OBVIOUS
<1> USE DEF poolVars, queueVars, workerVars, demuxVars, drainVars, writerVars, mainVars,
            flagVars, encVars, JobInv, DemuxProgress, WriterReason, MainOrder, AllWritten
<1>types. /\ frameIdx \in Nat /\ dispatched \in Nat /\ nextToWrite \in Nat
          /\ closed \in BOOLEAN /\ failing \in BOOLEAN /\ allDispatched \in BOOLEAN
          /\ main = "startup" => demux = "off" /\ drain = "off" /\ writer = "off"
  BY DEF TypeInv, TypeOK, CountType, FlagType, Places
<1>1. CASE PauseJob \/ ResumeJob \/ StopJob \/ FfmpegDies \/ AllOver \/ UNCHANGED vars
  BY <1>1, <1>types DEF PauseJob, ResumeJob, StopJob, FfmpegDies, AllOver, vars
<1>2. ASSUME NEW w \in Workers, Worker(w) PROVE JobInv'
  <2>1. UNCHANGED <<demuxVars, writerVars, workerError, mainVars, flagVars, encVars>>
    BY <1>2, WorkerKeeps
  <2> QED
    BY <2>1, <1>types
<1>3. CASE DemuxCheck \/ DemuxQuitsPaused \/ DemuxRead \/ DemuxGivesUp \/ DemuxFillRaises
           \/ DemuxSendRefused
  BY <1>3, <1>types DEF DemuxCheck, DemuxQuitsPaused, DemuxRead, DemuxGivesUp, DemuxFillRaises,
     DemuxSendRefused, DemuxLeaves
<1>4. CASE DemuxAcquire \/ DemuxFill
  BY <1>4, <1>types DEF DemuxAcquire, DemuxFill
<1>5. CASE DemuxSend
  BY <1>5, <1>types DEF DemuxSend, DemuxLeaves
<1>6. CASE Drain
  <2>1. /\ UNCHANGED <<demuxVars, writerVars, mainVars, flagVars, encVars>>
        /\ workerError => workerError'
    BY <1>6, DrainKeeps
  <2> QED
    BY <2>1, <1>types
<1>7. CASE Writer
  BY <1>7, <1>types DEF Writer, WriterStops, WriterTake, WriterFinishes, WriterWrite, WriterBreaks
<1>8. CASE Main
  <2>1. ASSUME NEW w \in Workers, MainStartup(w) \/ MainTerminate(w) PROVE JobInv'
    BY <2>1, <1>types DEF MainStartup, MainTerminate, Raises
  <2>2. CASE MainStartupFails \/ MainStart \/ MainRaise \/ MainStreamed \/ MainJoin
    BY <2>2, <1>types DEF MainStartupFails, MainStart, MainRaise, MainStreamed, MainJoin, Raises
  <2>3. CASE MainPutEnd \/ MainClose \/ MainAbort \/ MainFinalise
    BY <2>3, <1>types DEF MainPutEnd, MainClose, MainAbort, MainFinalise
  <2> QED
    BY <1>8, <2>1, <2>2, <2>3 DEF Main
<1> QED
  BY <1>1, <1>2, <1>3, <1>4, <1>5, <1>6, <1>7, <1>8 DEF Next, Routes, Demux

\* The job's status in terms of the job thread's place.
LEMMA StatusOf ==
  ASSUME ThreadType
  PROVE  /\ main \in {"startup", "watch", "joining", "ending", "aborting"} => JobStatus = "open"
         /\ main = "finalising" => JobStatus = "sealed"
         /\ main \in {"done", "error"} => JobStatus = main
  BY DEF ThreadType, JobStatus, Phase

\* Steps that write nothing to the encoder and do not move the job to another phase.
LEMMA Stutter ==
  ASSUME TypeInv, UNCHANGED <<output, main>>, CutShort => CutShort'
  PROVE  [Job!Next]_(Job!vars)
<1>1. UNCHANGED JobStatus
  BY DEF JobStatus, Phase
<1>2. CutShort \in BOOLEAN /\ CutShort' \in BOOLEAN
  BY DEF CutShort
<1> QED
  BY <1>1, <1>2 DEF Job!Next, Job!vars, Job!Cut

LEMMA JobStep == OrderInv /\ JobInv /\ [Next]_vars => [Job!Next]_(Job!vars)
<1> SUFFICES ASSUME OrderInv, JobInv, [Next]_vars PROVE [Job!Next]_(Job!vars)
  OBVIOUS
<1> USE DEF poolVars, queueVars, workerVars, demuxVars, drainVars, writerVars, mainVars,
            flagVars, encVars
<1>inv. /\ TypeInv /\ ThreadType /\ OutputInOrder /\ WriteContent
        /\ DemuxProgress /\ WriterReason /\ MainOrder
        /\ output \in Seq(Pixels) /\ NumFrames \in Nat
        /\ frameIdx \in Nat /\ dispatched \in Nat /\ nextToWrite \in 0 .. NumFrames
  BY ConstantsAssumption DEF OrderInv, Contents, JobInv, TypeInv, TypeOK, CountType
<1>1. CASE PauseJob \/ ResumeJob \/ StopJob \/ FfmpegDies \/ AllOver \/ UNCHANGED vars
  <2>1. UNCHANGED <<output, main>> /\ (CutShort => CutShort')
    BY <1>1 DEF PauseJob, ResumeJob, StopJob, FfmpegDies, AllOver, vars, CutShort
  <2> QED
    BY <2>1, <1>inv, Stutter
<1>2. ASSUME NEW w \in Workers, Worker(w) PROVE [Job!Next]_(Job!vars)
  <2>1. UNCHANGED <<output, main>> /\ (CutShort => CutShort')
    BY <1>2, WorkerKeeps DEF CutShort
  <2> QED
    BY <2>1, <1>inv, Stutter
<1>3. CASE Demux \/ DemuxSendRefused
  <2>1. UNCHANGED <<output, main>> /\ demux # "exit"
        /\ UNCHANGED <<stopFlag, broken, workerError>>
    BY <1>3 DEF Demux, DemuxCheck, DemuxQuitsPaused, DemuxRead, DemuxGivesUp, DemuxAcquire,
       DemuxFill, DemuxFillRaises, DemuxSend, DemuxSendRefused
  <2>2. CutShort => CutShort'
    BY <2>1 DEF CutShort
  <2> QED
    BY <2>1, <2>2, <1>inv, Stutter
<1>4. CASE Drain
  <2>1. UNCHANGED <<output, main>> /\ (CutShort => CutShort')
    BY <1>4, DrainKeeps DEF CutShort
  <2> QED
    BY <2>1, <1>inv, Stutter
<1>5. CASE WriterStops \/ WriterTake \/ WriterFinishes \/ WriterBreaks
  <2>1. UNCHANGED <<output, main>> /\ (CutShort => CutShort')
    BY <1>5 DEF WriterStops, WriterTake, WriterFinishes, WriterBreaks, CutShort
  <2> QED
    BY <2>1, <1>inv, Stutter
<1>6. CASE WriterWrite
  <2>1. JobStatus = "open"
    <3>1. main \notin {"finalising", "done", "error"}
      BY <1>6, <1>inv DEF WriterWrite, MainOrder
    <3>2. main \in {"startup", "watch", "joining", "ending", "aborting"}
      BY <3>1, <1>inv DEF ThreadType
    <3> QED
      BY <3>2, <1>inv, StatusOf
  <2>2. Len(output) < NumFrames
    BY <1>6, <1>inv DEF WriterWrite, OutputInOrder, TypeInv, Places
  <2>3. output' = Append(output, Job!Swapped(Len(output)))
    BY <1>6, <1>inv DEF WriterWrite, WriteContent, SwappedFrame, OutputInOrder, Job!Swapped
  <2>4. UNCHANGED <<JobStatus, CutShort>>
    BY <1>6 DEF WriterWrite, JobStatus, Phase, CutShort
  <2> QED
    BY <2>1, <2>2, <2>3, <2>4 DEF Job!Next, Job!Emit
<1>7. CASE MainStart
  <2>1. UNCHANGED <<output, stopFlag, broken, workerError>> /\ demux = "off"
    BY <1>7, <1>inv DEF MainStart, TypeInv, Places
  <2>2. UNCHANGED JobStatus
    BY <1>7 DEF MainStart, JobStatus, Phase
  <2>3. CutShort => CutShort'
    BY <2>1 DEF CutShort
  <2> QED
    BY <2>1, <2>2, <2>3 DEF CutShort, Job!Next, Job!Cut, Job!vars
<1>8. ASSUME NEW w \in Workers, MainStartup(w) \/ MainTerminate(w) PROVE [Job!Next]_(Job!vars)
  <2>1. UNCHANGED <<output, CutShort, JobStatus>>
    BY <1>8 DEF MainStartup, MainTerminate, Raises, CutShort, JobStatus, Phase
  <2> QED
    BY <2>1 DEF Job!vars
<1>9. CASE MainStartupFails \/ MainRaise \/ MainStreamed \/ MainJoin \/ MainPutEnd
  <2>1. UNCHANGED <<output, CutShort, JobStatus>>
    BY <1>9 DEF MainStartupFails, MainRaise, MainStreamed, MainJoin, MainPutEnd, Raises,
       CutShort, JobStatus, Phase
  <2> QED
    BY <2>1 DEF Job!vars
<1>10. CASE MainClose
  <2>1. UNCHANGED <<output, CutShort>> /\ JobStatus = "open"
    BY <1>10, <1>inv, StatusOf DEF MainClose, CutShort
  <2>2. CASE failing
    <3>1. JobStatus' = "open"
      BY <1>10, <2>2 DEF MainClose, JobStatus, Phase
    <3> QED
      BY <2>1, <3>1 DEF Job!vars
  <2>3. CASE ~failing
    <3>1. JobStatus' = "sealed"
      BY <1>10, <2>3 DEF MainClose, JobStatus, Phase
    <3>2. writer = "exit" /\ ~closed
      BY <1>10, <2>3, <1>inv DEF MainClose, MainOrder
    <3>3. CutShort \/ Len(output) = NumFrames
      BY <3>2, <1>inv DEF WriterReason, AllWritten, CutShort, DemuxProgress, OutputInOrder
    <3> QED
      BY <2>1, <3>1, <3>3 DEF Job!Next, Job!Seal
  <2> QED
    BY <2>2, <2>3
<1>11. CASE MainAbort
  <2>1. JobStatus = "open" /\ JobStatus' = "error" /\ UNCHANGED <<output, CutShort>>
    BY <1>11 DEF MainAbort, JobStatus, Phase, CutShort
  <2> QED
    BY <2>1 DEF Job!Next, Job!Fail
<1>12. CASE MainFinalise
  <2>1. JobStatus = "sealed" /\ JobStatus' \in {"done", "error"} /\ UNCHANGED <<output, CutShort>>
    BY <1>12 DEF MainFinalise, JobStatus, Phase, CutShort
  <2> QED
    BY <2>1 DEF Job!Next, Job!Finish, Job!Fail
<1> QED
  BY <1>1, <1>2, <1>3, <1>4, <1>5, <1>6, <1>7, <1>8, <1>9, <1>10, <1>11, <1>12
  DEF Next, Routes, Writer, Main

\* The streaming phase keeps the promise of StreamJob: whatever fails and however the
\* threads and workers overtake each other, a job that was not cut short is finalised only
\* after its last frame, and nothing is written after that.
THEOREM Implementation == Spec => ImplementsStreamJob
<1>1. Init => Job!Init
  BY ConstantsAssumption DEF Init, Job!Init, JobStatus, Phase, CutShort
<1>2. Init => OrderInv /\ JobInv
  BY InitTypeInv, InitSlots, InitContents, InitJobInv DEF OrderInv
<1>3. OrderInv /\ JobInv /\ [Next]_vars => (OrderInv /\ JobInv)'
  BY TypeInvStep, SlotsStep, ContentsStep, JobInvStep DEF OrderInv
<1> QED
  BY <1>1, <1>2, <1>3, JobStep, PTL DEF Spec, ImplementsStreamJob, Job!Spec

-------------------------------------------------------------------------------
(* Who changes what *)

LEMMA WorkerMoves ==
  ASSUME [Next]_vars
  PROVE  UNCHANGED workerVars \/ \E w \in Workers : Worker(w) \/ MainTerminate(w)
<1> USE DEF workerVars
<1>1. CASE Routes \/ FfmpegDies \/ AllOver \/ UNCHANGED vars
  BY <1>1 DEF Routes, PauseJob, ResumeJob, StopJob, FfmpegDies, AllOver, vars
<1>2. CASE Demux \/ DemuxSendRefused
  BY <1>2 DEF Demux, DemuxCheck, DemuxQuitsPaused, DemuxRead, DemuxGivesUp, DemuxAcquire,
     DemuxFill, DemuxFillRaises, DemuxSend, DemuxSendRefused
<1>3. CASE Drain \/ Writer
  BY <1>3 DEF Drain, DrainReceive, DrainTimeout, Writer, WriterStops, WriterTake,
     WriterFinishes, WriterWrite, WriterBreaks
<1>4. ASSUME NEW w \in Workers, MainStartup(w) PROVE UNCHANGED workerVars
  BY <1>4 DEF MainStartup
<1>5. CASE MainStartupFails \/ MainStart \/ MainRaise \/ MainStreamed \/ MainJoin
  BY <1>5 DEF MainStartupFails, MainStart, MainRaise, MainStreamed, MainJoin
<1>6. CASE MainPutEnd \/ MainClose \/ MainAbort \/ MainFinalise
  BY <1>6 DEF MainPutEnd, MainClose, MainAbort, MainFinalise
<1> QED
  BY <1>1, <1>2, <1>3, <1>4, <1>5, <1>6 DEF Next, Main

LEMMA MemMoves ==
  ASSUME [Next]_vars
  PROVE  \/ UNCHANGED mem \/ DemuxFill
         \/ \E w \in Workers : WorkerSwap(w) \/ WorkerFrameError(w)
<1> USE DEF poolVars
<1>1. CASE Routes \/ FfmpegDies \/ AllOver \/ UNCHANGED vars
  BY <1>1 DEF Routes, PauseJob, ResumeJob, StopJob, FfmpegDies, AllOver, vars
<1>2. ASSUME NEW w \in Workers, Worker(w), ~(WorkerSwap(w) \/ WorkerFrameError(w))
      PROVE  UNCHANGED mem
  BY <1>2 DEF Worker, WorkerReady, WorkerFatal, WorkerCrash, WorkerTake
<1>3. CASE (Demux \/ DemuxSendRefused) /\ ~DemuxFill
  BY <1>3 DEF Demux, DemuxCheck, DemuxQuitsPaused, DemuxRead, DemuxGivesUp, DemuxAcquire,
     DemuxFillRaises, DemuxSend, DemuxSendRefused
<1>4. CASE Drain \/ Writer
  BY <1>4 DEF Drain, DrainReceive, DrainTimeout, Writer, WriterStops, WriterTake,
     WriterFinishes, WriterWrite, WriterBreaks
<1>5. ASSUME NEW w \in Workers, MainStartup(w) \/ MainTerminate(w) PROVE UNCHANGED mem
  BY <1>5 DEF MainStartup, MainTerminate
<1>6. CASE MainStartupFails \/ MainStart \/ MainRaise \/ MainStreamed \/ MainJoin
  BY <1>6 DEF MainStartupFails, MainStart, MainRaise, MainStreamed, MainJoin
<1>7. CASE MainPutEnd \/ MainClose \/ MainAbort \/ MainFinalise
  BY <1>7 DEF MainPutEnd, MainClose, MainAbort, MainFinalise
<1> QED
  BY <1>1, <1>2, <1>3, <1>4, <1>5, <1>6, <1>7 DEF Next, Main

\* Only main closes the pool, and nobody opens it again.
LEMMA CloseMoves ==
  ASSUME [Next]_vars
  PROVE  UNCHANGED closed \/ (MainClose /\ closed')
<1> USE DEF mainVars
<1>1. CASE Routes \/ FfmpegDies \/ AllOver \/ UNCHANGED vars
  BY <1>1 DEF Routes, PauseJob, ResumeJob, StopJob, FfmpegDies, AllOver, vars
<1>2. CASE Demux \/ DemuxSendRefused
  BY <1>2 DEF Demux, DemuxCheck, DemuxQuitsPaused, DemuxRead, DemuxGivesUp, DemuxAcquire,
     DemuxFill, DemuxFillRaises, DemuxSend, DemuxSendRefused
<1>3. CASE Drain \/ Writer
  BY <1>3, DrainKeeps DEF Writer, WriterStops, WriterTake, WriterFinishes, WriterWrite,
     WriterBreaks
<1>4. ASSUME NEW w \in Workers, MainStartup(w) \/ MainTerminate(w) \/ Worker(w)
      PROVE UNCHANGED closed
  BY <1>4, WorkerKeeps DEF MainStartup, MainTerminate
<1>5. CASE MainStartupFails \/ MainStart \/ MainRaise \/ MainStreamed \/ MainJoin
  BY <1>5 DEF MainStartupFails, MainStart, MainRaise, MainStreamed, MainJoin
<1>6. CASE MainPutEnd \/ MainAbort \/ MainFinalise
  BY <1>6 DEF MainPutEnd, MainAbort, MainFinalise
<1>7. CASE MainClose
  BY <1>7 DEF MainClose
<1> QED
  BY <1>1, <1>2, <1>3, <1>4, <1>5, <1>6, <1>7 DEF Next, Main

-------------------------------------------------------------------------------
(* The pool after it is closed *)

\* main closes the pool only when every worker has left.
CloseInv == closed => \A w \in Workers : WorkerGone(w)

\* A worker that has exited or died stays as it is.
LEMMA GoneForGood ==
  ASSUME TypeInv, [Next]_vars, NEW w \in Workers, WorkerGone(w)
  PROVE  wstate'[w] = wstate[w]
<1>1. wstate[w] \in {"exited", "dead"} /\ DOMAIN wstate = Workers
  BY DEF WorkerGone, TypeInv, TypeOK, ThreadType
<1>2. ASSUME NEW v \in Workers, Worker(v)
      PROVE  v # w /\ \E p : wstate' = [wstate EXCEPT ![v] = p]
  <2>1. CASE WorkerReady(v) \/ WorkerFatal(v)
    BY <1>1, <2>1 DEF WorkerReady, WorkerFatal
  <2>2. CASE WorkerCrash(v)
    BY <1>1, <2>2 DEF WorkerCrash, WorkerGone
  <2>3. CASE WorkerTake(v)
    BY <1>1, <2>3 DEF WorkerTake
  <2>4. CASE WorkerSwap(v) \/ WorkerFrameError(v)
    BY <1>1, <2>4 DEF WorkerSwap, WorkerFrameError
  <2> QED
    BY <1>2, <2>1, <2>2, <2>3, <2>4 DEF Worker
<1>3. ASSUME NEW v \in Workers, MainTerminate(v)
      PROVE  v # w /\ \E p : wstate' = [wstate EXCEPT ![v] = p]
  BY <1>1, <1>3 DEF MainTerminate, WorkerGone
<1>4. CASE UNCHANGED workerVars
  BY <1>4 DEF workerVars
<1>5. ASSUME NEW v \in Workers, v # w, NEW p, wstate' = [wstate EXCEPT ![v] = p]
      PROVE  wstate'[w] = wstate[w]
  BY <1>1, <1>5
<1> QED
  BY <1>2, <1>3, <1>4, <1>5, WorkerMoves

LEMMA CloseStep == TypeInv /\ CloseInv /\ [Next]_vars => CloseInv'
<1> SUFFICES ASSUME TypeInv, CloseInv, [Next]_vars, closed', NEW w \in Workers PROVE WorkerGone(w)'
  BY DEF CloseInv
<1>1. WorkerGone(w)
  BY CloseMoves DEF CloseInv, MainClose, WorkersJoined
<1> QED
  BY <1>1, GoneForGood DEF WorkerGone

\* From the moment main closes the shared memory no worker process is left to run, and
\* no thread writes a frame into it, whichever of them outlived its bounded join.
THEOREM PoolQuiet == Spec => QuietAfterClose
<1>1. Init => TypeInv /\ CloseInv
  BY InitTypeInv DEF Init, CloseInv
<1>2. (TypeInv /\ CloseInv) /\ [Next]_vars => (TypeInv /\ CloseInv)'
  BY TypeInvStep, CloseStep
<1>3. TypeInv /\ CloseInv /\ [Next]_vars
       => [closed => mem' = mem /\ \A w \in Workers : WorkerGone(w)']_vars
  <2> SUFFICES ASSUME TypeInv, CloseInv, [Next]_vars, closed
               PROVE  mem' = mem /\ \A w \in Workers : WorkerGone(w)'
    OBVIOUS
  <2>1. \A w \in Workers : WorkerGone(w) /\ WorkerGone(w)'
    BY GoneForGood DEF CloseInv, WorkerGone
  <2>2. ~DemuxFill
    BY DEF DemuxFill
  <2>3. \A w \in Workers : ~(WorkerSwap(w) \/ WorkerFrameError(w))
    BY <2>1 DEF WorkerSwap, WorkerFrameError, WorkerGone
  <2> QED
    BY <2>1, <2>2, <2>3, MemMoves
<1> QED
  BY <1>1, <1>2, <1>3, PTL DEF Spec, QuietAfterClose

-------------------------------------------------------------------------------
(* How far demux runs ahead *)

LEMMA QueueMoves ==
  ASSUME [Next]_vars
  PROVE  \/ UNCHANGED inQ \/ DemuxSend \/ MainPutEnd
         \/ \E w \in Workers : WorkerTake(w)
<1> USE DEF queueVars
<1>1. CASE Routes \/ FfmpegDies \/ AllOver \/ UNCHANGED vars
  BY <1>1 DEF Routes, PauseJob, ResumeJob, StopJob, FfmpegDies, AllOver, vars
<1>2. ASSUME NEW w \in Workers, Worker(w), ~WorkerTake(w) PROVE UNCHANGED inQ
  BY <1>2 DEF Worker, WorkerReady, WorkerFatal, WorkerCrash, WorkerSwap, WorkerFrameError
<1>3. CASE (Demux \/ DemuxSendRefused) /\ ~DemuxSend
  BY <1>3 DEF Demux, DemuxCheck, DemuxQuitsPaused, DemuxRead, DemuxGivesUp, DemuxAcquire,
     DemuxFill, DemuxFillRaises, DemuxSendRefused
<1>4. CASE Drain \/ Writer
  BY <1>4 DEF Drain, DrainReceive, DrainTimeout, Writer, WriterStops, WriterTake,
     WriterFinishes, WriterWrite, WriterBreaks
<1>5. ASSUME NEW w \in Workers, MainStartup(w) \/ MainTerminate(w) PROVE UNCHANGED inQ
  BY <1>5 DEF MainStartup, MainTerminate
<1>6. CASE MainStartupFails \/ MainStart \/ MainRaise \/ MainStreamed \/ MainJoin
  BY <1>6 DEF MainStartupFails, MainStart, MainRaise, MainStreamed, MainJoin
<1>7. CASE MainClose \/ MainAbort \/ MainFinalise
  BY <1>7 DEF MainClose, MainAbort, MainFinalise
<1> QED
  BY <1>1, <1>2, <1>3, <1>4, <1>5, <1>6, <1>7 DEF Next, Main

\* Before its teardown main has not come from a later phase.
Before == {"startup", "watch", "joining"}

LEMMA MainMoves ==
  ASSUME [Next]_vars
  PROVE  /\ main' \in Before => main \in Before
         /\ main' = "startup" => main = "startup"
<1> USE DEF mainVars, Before
<1>1. CASE Routes \/ FfmpegDies \/ AllOver \/ UNCHANGED vars
  BY <1>1 DEF Routes, PauseJob, ResumeJob, StopJob, FfmpegDies, AllOver, vars
<1>2. CASE Demux \/ DemuxSendRefused
  BY <1>2 DEF Demux, DemuxCheck, DemuxQuitsPaused, DemuxRead, DemuxGivesUp, DemuxAcquire,
     DemuxFill, DemuxFillRaises, DemuxSend, DemuxSendRefused
<1>3. CASE Drain \/ Writer
  BY <1>3, DrainKeeps DEF Writer, WriterStops, WriterTake, WriterFinishes, WriterWrite,
     WriterBreaks
<1>4. ASSUME NEW w \in Workers, Worker(w) PROVE UNCHANGED main
  BY <1>4, WorkerKeeps
<1>5. ASSUME NEW w \in Workers, MainStartup(w) \/ MainTerminate(w)
      PROVE  (main = "startup" /\ main' = "ending") \/ UNCHANGED main
  BY <1>5 DEF MainStartup, MainTerminate, Raises
<1>6. CASE MainStartupFails \/ MainStart \/ MainRaise \/ MainStreamed \/ MainJoin
  BY <1>6 DEF MainStartupFails, MainStart, MainRaise, MainStreamed, MainJoin, Raises
<1>7. CASE MainPutEnd \/ MainClose \/ MainAbort \/ MainFinalise
  BY <1>7 DEF MainPutEnd, MainClose, MainAbort, MainFinalise
<1> QED
  BY <1>1, <1>2, <1>3, <1>4, <1>5, <1>6, <1>7 DEF Next, Main

\* There is no end marker in in_q before the teardown.
NoEnds == main \in Before => \A i \in DOMAIN inQ : inQ[i] # End

LEMMA NoEndsStep == TypeInv /\ NoEnds /\ [Next]_vars => NoEnds'
<1> SUFFICES ASSUME TypeInv, NoEnds, [Next]_vars, main' \in Before
             PROVE  \A i \in DOMAIN inQ' : inQ'[i] # End
  BY DEF NoEnds
<1>1. (\A i \in DOMAIN inQ : inQ[i] # End) /\ ~MainPutEnd
  BY MainMoves DEF NoEnds, MainPutEnd, Before
<1>2. inQ \in Seq(Request)
  BY DEF TypeInv, TypeOK, QueueType
<1>3. ASSUME NEW w \in Workers, WorkerTake(w) PROVE \A i \in DOMAIN inQ' : inQ'[i] # End
  <2>1. inQ # <<>> /\ inQ' = Tail(inQ)
    BY <1>3 DEF WorkerTake
  <2>2. \A i \in DOMAIN Tail(inQ) : i + 1 \in DOMAIN inQ /\ Tail(inQ)[i] = inQ[i + 1]
    BY <1>2, <2>1
  <2> QED
    BY <1>1, <2>1, <2>2
<1>4. ASSUME DemuxSend PROVE \A i \in DOMAIN inQ' : inQ'[i] # End
  <2> DEFINE r == [frame |-> frameIdx, slot |-> dslot]
  <2>1. r # End /\ r \in Request
    <3>1. dslot \in Slots /\ dslot # NoSlot /\ frameIdx \in Frames
      BY <1>4, ConstantsAssumption DEF DemuxSend, TypeInv, TypeOK, CountType, Places, Frames
    <3>2. r.slot = dslot /\ End.slot = NoSlot
      BY DEF End
    <3> QED
      BY <3>1, <3>2, MessageTypes
  <2> HIDE DEF r
  <2>2. UNCHANGED inQ \/ inQ' = Append(inQ, r)
    BY <1>4 DEF DemuxSend, r
  <2>3. ASSUME inQ' = Append(inQ, r)
        PROVE  \A i \in DOMAIN inQ' : inQ'[i] = r \/ (i \in DOMAIN inQ /\ inQ'[i] = inQ[i])
    BY <1>2, <2>1, <2>3
  <2> QED
    BY <1>1, <2>1, <2>2, <2>3
<1> QED
  BY <1>1, <1>3, <1>4, QueueMoves

\* Room for demux: its own slot is in the pool but not in the queue.
LEMMA QueueRoom ==
  ASSUME TypeInv, SlotsExclusive, NoEnds, main \in Before, demux = "send"
  PROVE  Len(inQ) < NumSlots
<1> DEFINE S == 1 .. Len(inQ)
           T == Slots \ {dslot}
           f == [i \in S |-> inQ[i].slot]
<1>1. inQ \in Seq(Request) /\ Len(inQ) \in Nat /\ DOMAIN inQ = S /\ dslot \in Slots
  BY DEF TypeInv, TypeOK, QueueType, Places
<1>2. IsFiniteSet(S) /\ Cardinality(S) = Len(inQ)
  BY <1>1, FS_Interval
<1>3. IsFiniteSet(T) /\ Cardinality(T) = NumSlots - 1 /\ NumSlots \in Nat
  BY <1>1, ConstantsAssumption, FS_RemoveElement, FS_CardinalityType DEF NumSlots
<1>4. f \in [S -> T]
  <2>1. ASSUME NEW i \in S PROVE inQ[i].slot \in T
    <3>1. inQ[i] \in [frame : Frames, slot : Slots]
      BY <1>1, MessageTypes DEF NoEnds
    <3>2. inQ[i].slot \in QueuedSlots
      BY <1>1, <3>1, ConstantsAssumption DEF QueuedSlots, SlotsIn
    <3>3. inQ[i].slot # dslot
      BY <1>1, <3>2, ConstantsAssumption DEF SlotsExclusive, PlacesDisjoint, DemuxSlots
    <3> QED
      BY <3>1, <3>3
  <2> QED
    BY <2>1
<1>5. \A x, y \in S : f[x] = f[y] => x = y
  <2>1. \A x \in S : f[x] = inQ[x].slot /\ f[x] # NoSlot
    BY <1>4, ConstantsAssumption
  <2> QED
    BY <1>1, <2>1 DEF SlotsExclusive, QueuedOnce, Once
<1> HIDE DEF S, T, f
<1>6. ~(Cardinality(T) < Cardinality(S))
  BY <1>2, <1>3, <1>4, <1>5, FS_PigeonHole
<1> QED
  BY <1>1, <1>2, <1>3, <1>6

\* As long as ffmpeg takes frames, every frame dispatched and not yet written still has
\* its slot: one that is not free, and not with demux either. That stays true of a frame
\* whose worker died: nobody gives its slot back.
StillHeld(f) == \E s \in Slots \ (free \cup DemuxSlots) : mem[s].frame = f
Held == ~broken => \A f \in nextToWrite .. frameIdx - 1 : StillHeld(f)

LEMMA HeldStep == OrderInv /\ Held /\ [Next]_vars => Held'
<1> SUFFICES ASSUME TypeInv, SlotsExclusive, Contents, Held, [Next]_vars PROVE Held'
  BY DEF OrderInv
<1> USE DEF poolVars, demuxVars, writerVars
<1>types. /\ mem \in [Slots -> Pixels] /\ free \subseteq Slots /\ work \in [Workers -> Request]
          /\ frameIdx \in Nat /\ nextToWrite \in Nat /\ NoSlot \notin Slots
  BY ConstantsAssumption DEF TypeInv, TypeOK, PoolType, QueueType, CountType
<1>same. ASSUME UNCHANGED <<frameIdx, nextToWrite, broken>>,
                Slots \ (free \cup DemuxSlots) \subseteq Slots \ (free \cup DemuxSlots)',
                \A s \in Slots \ (free \cup DemuxSlots) : mem'[s].frame = mem[s].frame
         PROVE  Held'
  BY <1>same DEF Held, StillHeld
<1>1. ASSUME UNCHANGED <<free, mem, dslot, frameIdx, nextToWrite, broken>> PROVE Held'
  BY <1>1, <1>same DEF DemuxSlots
<1>2. CASE Routes \/ FfmpegDies \/ AllOver \/ Drain \/ UNCHANGED vars
  <2>1. CASE Drain
    BY <1>1, <2>1 DEF Drain, DrainReceive, DrainTimeout
  <2>2. CASE Routes \/ FfmpegDies \/ AllOver \/ UNCHANGED vars
    BY <1>1, <2>2 DEF Routes, PauseJob, ResumeJob, StopJob, FfmpegDies, AllOver, vars
  <2> QED
    BY <1>2, <2>1, <2>2
<1>3. ASSUME NEW w \in Workers, Worker(w) PROVE Held'
  <2>1. CASE WorkerSwap(w) \/ WorkerFrameError(w)
    <3>1. PICK b \in BOOLEAN : mem' = [mem EXCEPT ![work[w].slot].swapped = b]
      BY <2>1 DEF WorkerSwap, WorkerFrameError
    <3>2. \A s \in Slots : mem'[s].frame = mem[s].frame
      BY <3>1, <1>types DEF Pixels
    <3>3. UNCHANGED <<free, dslot, frameIdx, nextToWrite, broken>>
      BY <2>1 DEF WorkerSwap, WorkerFrameError
    <3> QED
      BY <3>2, <3>3, <1>same DEF DemuxSlots
  <2>2. CASE WorkerReady(w) \/ WorkerFatal(w) \/ WorkerCrash(w) \/ WorkerTake(w)
    BY <1>1, <2>2 DEF WorkerReady, WorkerFatal, WorkerCrash, WorkerTake
  <2> QED
    BY <1>3, <2>1, <2>2 DEF Worker
<1>4. CASE DemuxCheck \/ DemuxQuitsPaused \/ DemuxRead \/ DemuxGivesUp
  BY <1>1, <1>4 DEF DemuxCheck, DemuxQuitsPaused, DemuxRead, DemuxGivesUp
<1>5. CASE DemuxAcquire
  <2>1. PICK s \in free : dslot' = s /\ free' = free \ {s}
    BY <1>5 DEF DemuxAcquire, FreeWithout
  <2>2. UNCHANGED <<mem, frameIdx, nextToWrite, broken>>
    BY <1>5 DEF DemuxAcquire
  <2> QED
    BY <2>1, <2>2, <1>same DEF DemuxSlots
<1>6. CASE DemuxFill
  <2>1. dslot \in DemuxSlots /\ UNCHANGED <<free, dslot, frameIdx, nextToWrite, broken>>
    BY <1>6, <1>types DEF DemuxFill, DemuxSlots, TypeInv, Places
  <2>2. \A s \in Slots : s # dslot => mem'[s] = mem[s]
    BY <1>6, <1>types DEF DemuxFill
  <2> QED
    BY <2>1, <2>2, <1>same DEF DemuxSlots
<1>7. CASE DemuxFillRaises \/ DemuxSendRefused \/ (DemuxSend /\ closed)
  <2>1. DemuxSlots' = {} /\ UNCHANGED <<free, mem, frameIdx, nextToWrite, broken>>
    BY <1>7 DEF DemuxFillRaises, DemuxSendRefused, DemuxSend, DemuxSlots
  <2> QED
    BY <2>1, <1>same
<1>8. CASE DemuxSend /\ ~closed
  <2>1. DemuxSlots' = {} /\ frameIdx' = frameIdx + 1 /\ UNCHANGED <<free, mem, nextToWrite, broken>>
    BY <1>8 DEF DemuxSend, DemuxSlots
  <2>2. dslot \in Slots \ free /\ mem[dslot].frame = frameIdx
    <3>1. dslot \in Slots /\ dslot \in DemuxSlots /\ mem[dslot].frame = frameIdx
      BY <1>8, <1>types DEF DemuxSend, DemuxSlots, TypeInv, Places, Contents, SendContent
    <3> QED
      BY <3>1 DEF SlotsExclusive, PlacesDisjoint
  <2>3. \E s \in Slots \ (free \cup DemuxSlots)' : mem'[s].frame = frameIdx
    BY <2>1, <2>2
  <2>4. \A f : StillHeld(f) => StillHeld(f)'
    BY <2>1 DEF StillHeld
  <2>5. \A f \in nextToWrite' .. frameIdx' - 1 : f = frameIdx \/ f \in nextToWrite .. frameIdx - 1
    BY <2>1, <1>types
  <2>6. ASSUME ~broken, NEW f \in nextToWrite' .. frameIdx' - 1
        PROVE  \E s \in Slots \ (free \cup DemuxSlots)' : mem'[s].frame = f
    BY <2>3, <2>4, <2>5, <2>6 DEF Held, StillHeld
  <2> QED
    BY <2>1, <2>6 DEF Held, StillHeld
<1>9. CASE WriterWrite
  <2>1. /\ free' = free \cup {wslot} /\ nextToWrite' = nextToWrite + 1
        /\ UNCHANGED <<mem, dslot, frameIdx, broken>> /\ mem[wslot].frame = nextToWrite
    BY <1>9 DEF WriterWrite, Contents, WriteContent, SwappedFrame
  <2>2. \A f \in nextToWrite' .. frameIdx - 1 : f # nextToWrite /\ f \in nextToWrite .. frameIdx - 1
    BY <2>1, <1>types
  <2>3. \A f : StillHeld(f) /\ f # nextToWrite => StillHeld(f)'
    BY <2>1 DEF StillHeld, DemuxSlots
  <2> QED
    BY <2>1, <2>2, <2>3 DEF Held, StillHeld
<1>10. CASE WriterBreaks
  BY <1>10 DEF WriterBreaks, Held
<1>11. CASE WriterStops \/ WriterTake \/ WriterFinishes
  BY <1>1, <1>11 DEF WriterStops, WriterTake, WriterFinishes
<1>12. ASSUME NEW w \in Workers, MainStartup(w) \/ MainTerminate(w) PROVE Held'
  BY <1>1, <1>12 DEF MainStartup, MainTerminate
<1>13. CASE MainStartupFails \/ MainStart \/ MainRaise \/ MainStreamed \/ MainJoin
  BY <1>1, <1>13 DEF MainStartupFails, MainStart, MainRaise, MainStreamed, MainJoin
<1>14. CASE MainPutEnd \/ MainClose \/ MainAbort \/ MainFinalise
  BY <1>1, <1>14 DEF MainPutEnd, MainClose, MainAbort, MainFinalise
<1> QED
  BY <1>2, <1>3, <1>4, <1>5, <1>6, <1>7, <1>8, <1>9, <1>10, <1>11, <1>12, <1>13, <1>14
  DEF Next, Demux, Writer, Main

\* A slot holds one frame at a time, so there are not more such frames than slots.
LEMMA HeldBound ==
  ASSUME TypeInv, Held, ~broken
  PROVE  frameIdx - nextToWrite <= NumSlots
<1>1. frameIdx \in Nat /\ nextToWrite \in Nat /\ NumSlots \in Nat
  BY ConstantsAssumption, FS_CardinalityType DEF TypeInv, TypeOK, CountType, NumSlots
<1>2. CASE frameIdx <= nextToWrite
  BY <1>1, <1>2
<1>3. CASE frameIdx > nextToWrite
  <2> DEFINE S == nextToWrite .. frameIdx - 1
             h == [f \in S |-> CHOOSE s \in Slots : mem[s].frame = f]
  <2>1. \A f \in S : h[f] \in Slots /\ mem[h[f]].frame = f
    BY DEF Held, StillHeld
  <2>2. h \in [S -> Slots]
    BY <2>1
  <2>3. \A f, g \in S : h[f] = h[g] => f = g
    BY <2>1
  <2>4. IsFiniteSet(S) /\ Cardinality(S) = frameIdx - nextToWrite
    BY <1>1, <1>3, FS_Interval
  <2> HIDE DEF S, h
  <2>5. ~(Cardinality(Slots) < Cardinality(S))
    BY <2>2, <2>3, <2>4, ConstantsAssumption, FS_PigeonHole
  <2> QED
    BY <1>1, <2>4, <2>5 DEF NumSlots
<1> QED
  BY <1>1, <1>2, <1>3

\* in_q never makes demux wait while the job streams, so a stop reaches it; and it never
\* gets further ahead of the writer than the pool has slots, whoever crashes.
THEOREM BoundedLead == Spec => []Backpressure
<1>1. Init => OrderInv /\ NoEnds /\ Held
  <2>1. Init => NoEnds /\ Held
    BY DEF Init, NoEnds, Held
  <2> QED
    BY <2>1, InitTypeInv, InitSlots, InitContents DEF OrderInv
<1>2. (OrderInv /\ NoEnds /\ Held) /\ [Next]_vars => (OrderInv /\ NoEnds /\ Held)'
  BY TypeInvStep, SlotsStep, ContentsStep, NoEndsStep, HeldStep DEF OrderInv
<1>3. OrderInv /\ NoEnds /\ Held => Backpressure
  BY QueueRoom, HeldBound DEF OrderInv, Backpressure, Before
<1> QED
  BY <1>1, <1>2, <1>3, PTL DEF Spec

-------------------------------------------------------------------------------
(* Frames on their way *)

\* The slots of the frames that are queued, with a worker or answered, and of all that
\* demux has sent and the writer has not passed on.
InFlight == QueuedSlots \cup BusySlots \cup AnsweredSlots
Moving == InFlight \cup DoneSlots \cup WriterSlots

LEMMA MovingTypes ==
  ASSUME TypeInv
  PROVE  /\ Moving \subseteq Slots /\ InFlight \subseteq Slots
         /\ IsFiniteSet(InFlight) /\ Cardinality(InFlight) \in Nat
<1>1. /\ inQ \in Seq(Request) /\ outQ \in [Workers -> Seq(Response)] /\ work \in [Workers -> Request]
      /\ done \in [Frames -> Slots \cup {NoSlot}] /\ wslot \in Slots \cup {NoSlot}
  BY DEF TypeInv, TypeOK, QueueType, ThreadType
<1>2. QueuedSlots \subseteq Slots
  BY <1>1 DEF QueuedSlots, SlotsIn, Request
<1>3. BusySlots \subseteq Slots
  BY <1>1 DEF BusySlots, Request
<1>4. AnsweredSlots \subseteq Slots
  <2>1. ASSUME NEW w \in Workers PROVE SlotsIn(outQ[w]) \subseteq Slots
    <3>1. outQ[w] \in Seq(Response)
      BY <1>1
    <3>2. \A i \in DOMAIN outQ[w] : outQ[w][i] \in Response
      BY <3>1
    <3> QED
      BY <3>2 DEF SlotsIn, Response
  <2> QED
    BY <2>1 DEF AnsweredSlots
<1>5. DoneSlots \subseteq Slots /\ WriterSlots \subseteq Slots
  BY <1>1 DEF DoneSlots, WriterSlots
<1>6. Moving \subseteq Slots /\ InFlight \subseteq Slots
  BY <1>2, <1>3, <1>4, <1>5 DEF Moving, InFlight
<1> QED
  BY <1>6, ConstantsAssumption, FS_Subset, FS_CardinalityType

\* A step sends one more frame, or has the drainer take one, or else adds nothing.
LEMMA FlightStep ==
  ASSUME TypeInv, SlotsExclusive, [Next]_vars
  PROVE  \/ /\ InFlight' \subseteq InFlight /\ Moving' \subseteq Moving
            /\ UNCHANGED <<frameIdx, collected>>
         \/ /\ DemuxSend /\ ~closed
            /\ InFlight' \subseteq InFlight \cup {dslot} /\ Moving' \subseteq Moving \cup {dslot}
         \/ /\ Moving' \subseteq Moving
            /\ \E w \in Workers :
                 DrainReceive(w) /\ InFlight' \subseteq InFlight \ {Head(outQ[w]).slot}
<1> DEFINE Kept == /\ InFlight' \subseteq InFlight /\ Moving' \subseteq Moving
                   /\ UNCHANGED <<frameIdx, collected>>
<1> USE DEF queueVars, workerVars, demuxVars, drainVars, writerVars, InFlight, Moving
<1>0. PlacesDisjoint /\ QueuedOnce /\ BusyOnce /\ AnsweredOnce /\ DoneOnce
  BY DEF SlotsExclusive
<1>types. /\ inQ \in Seq(Request) /\ outQ \in [Workers -> Seq(Response)]
          /\ work \in [Workers -> Request] /\ done \in [Frames -> Slots \cup {NoSlot}]
  BY DEF TypeInv, TypeOK, QueueType
<1>no. NoSlot \notin AnsweredSlots /\ NoSlot \notin QueuedSlots /\ NoSlot \notin BusySlots
       /\ NoSlot \notin DoneSlots
  BY DEF AnsweredSlots, QueuedSlots, BusySlots, DoneSlots, SlotsIn
<1>same. UNCHANGED <<inQ, work, outQ, done, wslot, frameIdx, collected>> => Kept
  BY SameSlots
<1>1. ASSUME NEW w \in Workers, WorkerReady(w) \/ WorkerFatal(w) PROVE Kept
  <2>1. PICK m \in Response : m.slot = NoSlot /\ outQ' = [outQ EXCEPT ![w] = Append(@, m)]
    BY <1>1, MessageTypes DEF WorkerReady, WorkerFatal, Answer
  <2>2. UNCHANGED AnsweredSlots
    BY <2>1, <1>0, <1>no, AnswerSlots
  <2>3. UNCHANGED <<inQ, work, done, wslot, frameIdx, collected>>
    BY <1>1 DEF WorkerReady, WorkerFatal
  <2> QED
    BY <2>2, <2>3, SameSlots
<1>2. ASSUME NEW w \in Workers, WorkerCrash(w) PROVE Kept
  <2>1. PICK k \in 0 .. Len(outQ[w]) : outQ' = [outQ EXCEPT ![w] = SubSeq(@, 1, k)]
    BY <1>2 DEF WorkerCrash
  <2>2. SlotsIn(SubSeq(outQ[w], 1, k)) \subseteq SlotsIn(outQ[w]) /\ Once(SubSeq(outQ[w], 1, k))
    BY <1>0, <1>types, SlotsSubSeq DEF AnsweredOnce
  <2>3. AnsweredSlots' \subseteq AnsweredSlots
    BY <2>1, <2>2, <1>0, AnswersShrink
  <2>4. BusySlots' \subseteq BusySlots
    BY <1>2, <1>0, WorkerPutsDown DEF WorkerCrash
  <2>5. UNCHANGED <<inQ, done, wslot, frameIdx, collected>>
    BY <1>2 DEF WorkerCrash
  <2> QED
    BY <2>3, <2>4, <2>5, SameSlots
<1>3. ASSUME NEW w \in Workers, WorkerTake(w) PROVE Kept
  <2>1. /\ QueuedSlots' = QueuedSlots \ {Head(inQ).slot}
        /\ Head(inQ).slot \in QueuedSlots \cup {NoSlot}
    BY <1>3, <1>0, QueueSlots DEF WorkerTake
  <2>2. UNCHANGED <<done, wslot, frameIdx, collected>>
    BY <1>3 DEF WorkerTake
  <2>3. CASE Head(inQ) = End
    <3>1. outQ' = [outQ EXCEPT ![w] = Append(@, Answer(-1, NoSlot, FALSE))] /\ UNCHANGED work
      BY <1>3, <2>3 DEF WorkerTake
    <3>2. Answer(-1, NoSlot, FALSE) \in Response /\ Answer(-1, NoSlot, FALSE).slot = NoSlot
      BY MessageTypes DEF Answer
    <3>3. UNCHANGED AnsweredSlots
      BY <3>1, <3>2, <1>0, <1>no, AnswerSlots
    <3> QED
      BY <2>1, <2>2, <3>1, <3>3, SameSlots
  <2>4. CASE Head(inQ) # End
    <3>1. work' = [work EXCEPT ![w] = Head(inQ)] /\ UNCHANGED outQ
      BY <1>3, <2>4 DEF WorkerTake
    <3>2. Head(inQ) \in Request
      BY <1>3, <1>types DEF WorkerTake
    <3>3. Head(inQ).slot \notin BusySlots
      BY <2>1, <1>0, <1>no DEF PlacesDisjoint
    <3>4. BusySlots' \subseteq BusySlots \cup ({Head(inQ).slot} \ {NoSlot})
      BY <3>1, <3>2, <3>3, <1>0, WorkerPicksUp
    <3> QED
      BY <2>1, <2>2, <3>1, <3>4, SameSlots
  <2> QED
    BY <2>3, <2>4
<1>4. ASSUME NEW w \in Workers, WorkerSwap(w) \/ WorkerFrameError(w) PROVE Kept
  <2>1. work[w] \in [frame : Frames, slot : Slots]
    BY <1>4 DEF WorkerSwap, WorkerFrameError, TypeInv, Places
  <2>2. PICK m \in Response : /\ m.slot = work[w].slot
                              /\ outQ' = [outQ EXCEPT ![w] = Append(@, m)]
    <3>1. PICK e \in BOOLEAN :
            outQ' = [outQ EXCEPT ![w] = Append(@, Answer(work[w].frame, work[w].slot, e))]
      BY <1>4 DEF WorkerSwap, WorkerFrameError
    <3>2. Answer(work[w].frame, work[w].slot, e) \in Response
      BY <2>1, MessageTypes
    <3> QED
      BY <3>1, <3>2 DEF Answer
  <2>3. work[w].slot \in BusySlots
    BY <2>1, ConstantsAssumption DEF BusySlots
  <2>4. AnsweredSlots' = AnsweredSlots \cup {work[w].slot}
    <3>1. m.slot \notin AnsweredSlots
      BY <2>2, <2>3, <1>0 DEF PlacesDisjoint
    <3> QED
      BY <2>2, <2>3, <3>1, <1>0, <1>no, AnswerSlots
  <2>5. BusySlots' \subseteq BusySlots
    BY <1>4, <1>0, WorkerPutsDown DEF WorkerSwap, WorkerFrameError
  <2>6. UNCHANGED <<inQ, done, wslot, frameIdx, collected>>
    BY <1>4 DEF WorkerSwap, WorkerFrameError
  <2> QED
    BY <2>3, <2>4, <2>5, <2>6, SameSlots
<1>5. ASSUME NEW w \in Workers, MainTerminate(w) PROVE Kept
  <2>1. BusySlots' \subseteq BusySlots
    BY <1>5, <1>0, WorkerPutsDown DEF MainTerminate
  <2>2. UNCHANGED <<inQ, outQ, done, wslot, frameIdx, collected>>
    BY <1>5 DEF MainTerminate
  <2> QED
    BY <2>1, <2>2, SameSlots
<1>6. CASE DemuxSend
  <2>1. UNCHANGED <<work, outQ, done, wslot>>
    BY <1>6 DEF DemuxSend
  <2>2. CASE closed
    BY <1>6, <2>2, <1>same DEF DemuxSend
  <2>3. CASE ~closed
    <3> DEFINE r == [frame |-> frameIdx, slot |-> dslot]
    <3>1. frameIdx \in Frames /\ dslot \in Slots
      BY <1>6, ConstantsAssumption DEF DemuxSend, TypeInv, TypeOK, Places, CountType, Frames
    <3>2. r \in Request /\ r.slot = dslot /\ dslot \in DemuxSlots
      BY <3>1, MessageTypes, ConstantsAssumption DEF DemuxSlots
    <3>3. inQ' = Append(inQ, r) /\ r.slot \notin QueuedSlots
      BY <1>6, <2>3, <3>2, <1>0 DEF DemuxSend, PlacesDisjoint
    <3>4. QueuedSlots' \subseteq QueuedSlots \cup {dslot}
      BY <3>2, <3>3, <1>0, QueueSlots
    <3> QED
      BY <1>6, <2>1, <2>3, <3>4, SameSlots
  <2> QED
    BY <2>2, <2>3
<1>7. ASSUME NEW w \in Workers, outQ[w] # <<>>, outQ' = [outQ EXCEPT ![w] = Tail(@)]
      PROVE  /\ AnsweredSlots' \subseteq AnsweredSlots \ {Head(outQ[w]).slot}
             /\ Head(outQ[w]).slot \in AnsweredSlots \cup {NoSlot}
  <2>1. /\ SlotsIn(Tail(outQ[w])) = SlotsIn(outQ[w]) \ {Head(outQ[w]).slot}
        /\ Once(Tail(outQ[w]))
        /\ Head(outQ[w]).slot \in SlotsIn(outQ[w]) \cup {NoSlot}
    BY <1>7, <1>0, <1>types, SlotsTail DEF AnsweredOnce
  <2>2. /\ AnsweredSlots' \subseteq AnsweredSlots
        /\ AnsweredSlots' \cap SlotsIn(outQ[w]) \subseteq SlotsIn(Tail(outQ[w]))
    BY <2>1, <1>7, <1>0, AnswersShrink
  <2> QED
    BY <2>1, <2>2, <1>no DEF AnsweredSlots
<1>8. ASSUME NEW w \in Workers, DrainReceive(w)
      PROVE  /\ Moving' \subseteq Moving
             /\ InFlight' \subseteq InFlight \ {Head(outQ[w]).slot}
  <2> DEFINE r == Head(outQ[w])
  <2>1. AnsweredSlots' \subseteq AnsweredSlots \ {r.slot} /\ r.slot \in AnsweredSlots \cup {NoSlot}
    BY <1>8, <1>7 DEF DrainReceive
  <2>2. UNCHANGED <<inQ, work, wslot>> /\ r \in Response
    BY <1>8, <1>types DEF DrainReceive
  <2>3. DoneSlots' \subseteq DoneSlots \cup ({r.slot} \ {NoSlot})
    <3>1. CASE UNCHANGED done
      BY <3>1, <1>0, SameSlots
    <3>2. CASE done' = [done EXCEPT ![DoneKey(r)] = r.slot]
      <4>1. r.slot \in Slots \cup {NoSlot} /\ r.slot \notin DoneSlots
        BY <2>1, <2>2, <1>0, <1>no DEF PlacesDisjoint, Response
      <4> QED
        BY <3>2, <4>1, <1>0, FileSlot
    <3> QED
      BY <1>8, <3>1, <3>2 DEF DrainReceive
  <2>4. r.slot \notin QueuedSlots /\ r.slot \notin BusySlots
    BY <2>1, <1>0, <1>no DEF PlacesDisjoint
  <2> HIDE DEF r
  <2>5. Moving' \subseteq Moving
    BY <2>1, <2>2, <2>3, SameSlots
  <2>6. InFlight' \subseteq InFlight \ {r.slot}
    BY <2>1, <2>2, <2>4, SameSlots
  <2> QED
    BY <2>5, <2>6 DEF r
<1>9. ASSUME NEW w \in Workers, MainStartup(w) PROVE Kept
  <2>1. AnsweredSlots' \subseteq AnsweredSlots
    BY <1>9, <1>7 DEF MainStartup
  <2>2. UNCHANGED <<inQ, work, done, wslot, frameIdx, collected>>
    BY <1>9 DEF MainStartup
  <2> QED
    BY <2>1, <2>2, SameSlots
<1>10. CASE WriterTake
  <2>1. DoneSlots' \subseteq DoneSlots
    BY <1>10, <1>0, TakeSlot DEF WriterTake, PopDone
  <2>2. WriterSlots' \subseteq WriterSlots \cup DoneSlots
    BY <1>10 DEF WriterTake, WriterSlots, DoneSlots
  <2>3. UNCHANGED <<inQ, work, outQ, frameIdx, collected>>
    BY <1>10 DEF WriterTake
  <2> QED
    BY <2>1, <2>2, <2>3, SameSlots
<1>11. CASE WriterWrite \/ WriterBreaks
  <2>1. WriterSlots' = {}
    BY <1>11 DEF WriterWrite, WriterBreaks, WriterSlots
  <2>2. UNCHANGED <<inQ, work, outQ, done, frameIdx, collected>>
    BY <1>11 DEF WriterWrite, WriterBreaks
  <2> QED
    BY <2>1, <2>2, SameSlots
<1>12. CASE MainPutEnd
  <2>1. QueuedSlots' = QueuedSlots
    <3>1. CASE inQ' = Append(inQ, End)
      BY <3>1, <1>0, <1>no, MessageTypes, QueueSlots DEF End
    <3>2. CASE UNCHANGED inQ
      BY <3>2, SameSlots
    <3> QED
      BY <1>12, <3>1, <3>2 DEF MainPutEnd
  <2>2. UNCHANGED <<work, outQ, done, wslot, frameIdx, collected>>
    BY <1>12 DEF MainPutEnd
  <2> QED
    BY <2>1, <2>2, SameSlots
<1>13. CASE Routes \/ FfmpegDies \/ AllOver
  BY <1>13, <1>same DEF Routes, PauseJob, ResumeJob, StopJob, FfmpegDies, AllOver, vars
<1>14. CASE DemuxCheck \/ DemuxQuitsPaused \/ DemuxRead \/ DemuxGivesUp \/ DemuxFill
  BY <1>14, <1>same DEF DemuxCheck, DemuxQuitsPaused, DemuxRead, DemuxGivesUp, DemuxFill
<1>15. CASE DemuxAcquire \/ DemuxFillRaises \/ DemuxSendRefused
  BY <1>15, <1>same DEF DemuxAcquire, DemuxFillRaises, DemuxSendRefused
<1>16. CASE DrainTimeout \/ WriterStops \/ WriterFinishes
  BY <1>16, <1>same DEF DrainTimeout, WriterStops, WriterFinishes
<1>17. CASE \/ MainStartupFails \/ MainStart \/ MainRaise \/ MainStreamed \/ MainJoin
            \/ MainClose \/ MainAbort \/ MainFinalise
  BY <1>17, <1>same DEF MainStartupFails, MainStart, MainRaise, MainStreamed, MainJoin,
     MainClose, MainAbort, MainFinalise
<1>18. CASE UNCHANGED vars
  BY <1>18, <1>same DEF vars
<1> HIDE DEF Kept, InFlight, Moving
<1>19. ASSUME Kept \/ \E w \in Workers : DrainReceive(w)
       PROVE  \/ /\ InFlight' \subseteq InFlight /\ Moving' \subseteq Moving
                 /\ UNCHANGED <<frameIdx, collected>>
              \/ /\ Moving' \subseteq Moving
                 /\ \E w \in Workers :
                      DrainReceive(w) /\ InFlight' \subseteq InFlight \ {Head(outQ[w]).slot}
  BY <1>8, <1>19 DEF Kept
<1>20. ASSUME NEW w \in Workers, Worker(w) \/ MainStartup(w) \/ MainTerminate(w) PROVE Kept
  BY <1>20, <1>1, <1>2, <1>3, <1>4, <1>5, <1>9 DEF Worker
<1>21. CASE Demux \/ DemuxSendRefused
  BY <1>21, <1>6, <1>14, <1>15 DEF Demux
<1>22. CASE Drain \/ Writer
  BY <1>22, <1>19, <1>10, <1>11, <1>16 DEF Drain, Writer
<1>23. CASE Main
  BY <1>23, <1>19, <1>20, <1>12, <1>17 DEF Main
<1>24. CASE \E w \in Workers : Worker(w)
  BY <1>24, <1>19, <1>20
<1> QED
  BY <1>21, <1>22, <1>23, <1>24, <1>13, <1>18 DEF Next

\* The answer the drainer takes: a frame's answer carries its slot.
LEMMA TakenAnswer ==
  ASSUME OrderInv, NEW w \in Workers, DrainReceive(w)
  PROVE  /\ Head(outQ[w]) \in Response /\ Head(outQ[w]) = outQ[w][1] /\ 1 \in DOMAIN outQ[w]
         /\ ~Head(outQ[w]).error /\ Head(outQ[w]).frame >= 0 =>
              /\ Head(outQ[w]).slot \in AnsweredSlots
              /\ mem[Head(outQ[w]).slot] = SwappedFrame(Head(outQ[w]).frame)
<1>1. outQ[w] \in Seq(Response) /\ outQ[w] # <<>>
  BY DEF DrainReceive, OrderInv, TypeInv, TypeOK, QueueType
<1>2. 1 \in DOMAIN outQ[w] /\ Head(outQ[w]) = outQ[w][1] /\ Head(outQ[w]) \in Response
  BY <1>1
<1>3. Delivered(outQ[w][1])
  BY <1>2 DEF OrderInv, Contents, AnswerContent
<1>4. ASSUME outQ[w][1].slot \in Slots PROVE outQ[w][1].slot \in AnsweredSlots
  BY <1>2, <1>4, ConstantsAssumption DEF AnsweredSlots, SlotsIn
<1> QED
  BY <1>2, <1>3, <1>4 DEF Delivered

\* The drainer counts the answers it takes, so what is on its way is never more than demux
\* has sent and the drainer has not counted.
Outstanding == Cardinality(InFlight) <= frameIdx - collected

LEMMA OutstandingStep == OrderInv /\ Outstanding /\ [Next]_vars => Outstanding'
<1> SUFFICES ASSUME OrderInv, Outstanding, [Next]_vars PROVE Outstanding'
  OBVIOUS
<1> USE DEF demuxVars
<1>1. TypeInv /\ SlotsExclusive /\ IsFiniteSet(InFlight) /\ InFlight \subseteq Slots
      /\ Cardinality(InFlight) \in Nat /\ frameIdx \in Nat /\ collected \in Nat
  BY MovingTypes DEF OrderInv, TypeInv, TypeOK, CountType
<1>shrink. ASSUME NEW S \in SUBSET InFlight
           PROVE  IsFiniteSet(S) /\ Cardinality(S) \in Nat /\ Cardinality(S) <= Cardinality(InFlight)
  BY <1>1, FS_Subset, FS_CardinalityType
<1>2. CASE InFlight' \subseteq InFlight /\ UNCHANGED <<frameIdx, collected>>
  BY <1>1, <1>2, <1>shrink DEF Outstanding
<1>3. CASE DemuxSend /\ ~closed /\ InFlight' \subseteq InFlight \cup {dslot}
  <2>1. frameIdx' = frameIdx + 1 /\ UNCHANGED collected
    BY <1>3 DEF DemuxSend, drainVars
  <2>2. InFlight' \ {dslot} \in SUBSET InFlight
    BY <1>3
  <2>3. InFlight' \subseteq (InFlight' \ {dslot}) \cup {dslot}
    OBVIOUS
  <2> DEFINE S == InFlight' \ {dslot}
  <2>4. IsFiniteSet(S) /\ Cardinality(S) \in Nat /\ Cardinality(S) <= Cardinality(InFlight)
    BY <2>2, <1>shrink
  <2> HIDE DEF S
  <2>5. /\ IsFiniteSet(S \cup {dslot}) /\ Cardinality(S \cup {dslot}) <= Cardinality(S) + 1
        /\ Cardinality(S \cup {dslot}) \in Nat
    BY <2>4, FS_AddElement, FS_CardinalityType
  <2>6. Cardinality(InFlight') <= Cardinality(S \cup {dslot}) /\ Cardinality(InFlight') \in Nat
    BY <2>3, <2>5, FS_Subset, FS_CardinalityType DEF S
  <2> QED
    BY <1>1, <2>1, <2>4, <2>5, <2>6 DEF Outstanding
<1>4. ASSUME NEW w \in Workers, DrainReceive(w),
             InFlight' \subseteq InFlight \ {Head(outQ[w]).slot}
      PROVE  Outstanding'
  <2> DEFINE r == Head(outQ[w])
  <2>1. UNCHANGED frameIdx
    BY <1>4 DEF DrainReceive
  <2>2. CASE UNCHANGED collected
    <3>1. InFlight' \in SUBSET InFlight
      BY <1>4
    <3>2. Cardinality(InFlight') <= Cardinality(InFlight) /\ Cardinality(InFlight') \in Nat
      BY <3>1, <1>shrink
    <3> QED
      BY <1>1, <2>1, <2>2, <3>2 DEF Outstanding
  <2>3. CASE ~UNCHANGED collected
    <3>1. collected' = collected + 1 /\ ~r.error /\ r.frame >= 0
      <4>1. r.frame \in Int
        BY <1>4, TakenAnswer, ConstantsAssumption DEF Response, Frames
      <4> QED
        BY <1>4, <2>3, <4>1 DEF DrainReceive
    <3>2. r.slot \in InFlight
      BY <1>4, <3>1, TakenAnswer DEF InFlight
    <3>3. IsFiniteSet(InFlight \ {r.slot})
          /\ Cardinality(InFlight \ {r.slot}) = Cardinality(InFlight) - 1
      BY <1>1, <3>2, FS_RemoveElement
    <3>4. Cardinality(InFlight') <= Cardinality(InFlight \ {r.slot}) /\ Cardinality(InFlight') \in Nat
      BY <1>4, <3>3, FS_Subset, FS_CardinalityType
    <3> QED
      BY <1>1, <2>1, <3>1, <3>3, <3>4 DEF Outstanding
  <2> QED
    BY <2>2, <2>3
<1> QED
  BY <1>1, <1>2, <1>3, <1>4, FlightStep

\* Only the drainer ends itself or records an error, and demux does not come back.
LEMMA DrainMoves ==
  ASSUME TypeInv, [Next]_vars
  PROVE  /\ workerError => workerError'
         /\ Drain \/ UNCHANGED <<drain, workerError>> \/ drain' = "run"
         /\ demux = "exit" => demux' = "exit"
<1> USE DEF demuxVars, drainVars
<1>types. main = "startup" => demux = "off"
  BY DEF TypeInv, Places
<1>1. CASE Routes \/ FfmpegDies \/ AllOver \/ UNCHANGED vars
  BY <1>1 DEF Routes, PauseJob, ResumeJob, StopJob, FfmpegDies, AllOver, vars
<1>2. CASE Demux \/ DemuxSendRefused
  BY <1>2 DEF Demux, DemuxCheck, DemuxQuitsPaused, DemuxRead, DemuxGivesUp, DemuxAcquire,
     DemuxFill, DemuxFillRaises, DemuxSend, DemuxSendRefused, DemuxLeaves
<1>3. CASE Drain
  BY <1>3, DrainKeeps
<1>4. CASE Writer
  BY <1>4 DEF Writer, WriterStops, WriterTake, WriterFinishes, WriterWrite, WriterBreaks
<1>5. ASSUME NEW w \in Workers, Worker(w) PROVE UNCHANGED <<demux, drain, workerError>>
  BY <1>5 DEF Worker, WorkerReady, WorkerFatal, WorkerCrash, WorkerTake, WorkerSwap,
     WorkerFrameError
<1>6. ASSUME NEW w \in Workers, MainStartup(w) \/ MainTerminate(w)
      PROVE  UNCHANGED <<demux, drain, workerError>>
  BY <1>6 DEF MainStartup, MainTerminate
<1>7. CASE MainStartupFails \/ MainStart \/ MainRaise \/ MainStreamed \/ MainJoin
  BY <1>7, <1>types DEF MainStartupFails, MainStart, MainRaise, MainStreamed, MainJoin
<1>8. CASE MainPutEnd \/ MainClose \/ MainAbort \/ MainFinalise
  BY <1>8 DEF MainPutEnd, MainClose, MainAbort, MainFinalise
<1> QED
  BY <1>1, <1>2, <1>3, <1>4, <1>5, <1>6, <1>7, <1>8 DEF Next, Main

\* A drainer that ended without an error had seen the end of demux.
DrainInv == drain = "exit" /\ ~workerError => InFlight = {} /\ demux = "exit"

LEMMA DrainStep == OrderInv /\ JobInv /\ Outstanding /\ DrainInv /\ [Next]_vars => DrainInv'
<1> SUFFICES ASSUME OrderInv, JobInv, Outstanding, DrainInv, [Next]_vars,
                    drain' = "exit", ~workerError'
             PROVE  InFlight' = {} /\ demux' = "exit"
  BY DEF DrainInv
<1>1. TypeInv /\ SlotsExclusive /\ ~workerError
  BY DrainMoves DEF OrderInv
<1>2. CASE drain = "exit"
  <2>1. InFlight = {} /\ demux = "exit" /\ demux' = "exit"
    BY <1>1, <1>2, DrainMoves DEF DrainInv
  <2>2. ~DemuxSend /\ \A w \in Workers : ~DrainReceive(w)
    BY <1>2, <2>1 DEF DemuxSend, DrainReceive
  <2>3. InFlight' \subseteq InFlight
    BY <1>1, <2>2, FlightStep
  <2> QED
    BY <2>1, <2>3
<1>3. CASE drain # "exit"
  <2>1. Drain
    BY <1>1, <1>3, DrainMoves
  <2>2. ASSUME NEW w \in Workers, DrainReceive(w) PROVE FALSE
    BY <1>1, <1>3, <2>2 DEF DrainReceive
  <2>3. DrainTimeout /\ NothingOutstanding
    BY <1>1, <2>1, <2>2 DEF Drain, DrainTimeout
  <2>4. demux = "exit" /\ frameIdx - collected <= 0
    <3>1. frameIdx \in Nat /\ dispatched \in Nat /\ collected \in Nat
      BY <1>1 DEF TypeInv, TypeOK, CountType
    <3> QED
      BY <2>3, <3>1 DEF NothingOutstanding, JobInv, DemuxProgress
  <2>5. InFlight = {}
    <3>1. Cardinality(InFlight) \in Nat /\ IsFiniteSet(InFlight)
      BY <1>1, MovingTypes
    <3>2. frameIdx \in Nat /\ collected \in Nat
      BY <1>1 DEF TypeInv, TypeOK, CountType
    <3>3. Cardinality(InFlight) = 0
      BY <3>1, <3>2, <2>4 DEF Outstanding
    <3> QED
      BY <3>1, <3>3, FS_EmptySet
  <2>6. UNCHANGED <<inQ, outQ, work, demux>>
    BY <2>3 DEF DrainTimeout, queueVars, workerVars, demuxVars
  <2> QED
    BY <2>4, <2>5, <2>6, SameSlots DEF InFlight
<1> QED
  BY <1>2, <1>3

\* When the drainer has ended without an error no frame is queued, with a worker or
\* answered, so the writer does not wait for a frame that nobody will file.
THEOREM DrainComplete == Spec => []DrainerLeavesNothing
<1> DEFINE IInv == OrderInv /\ JobInv /\ Outstanding /\ DrainInv
<1>1. Init => IInv
  <2> SUFFICES ASSUME Init PROVE IInv
    OBVIOUS
  <2>1. OrderInv /\ JobInv
    BY InitTypeInv, InitSlots, InitContents, InitJobInv DEF OrderInv
  <2>2. InFlight = {} /\ frameIdx = 0 /\ collected = 0 /\ drain = "off"
    BY DEF Init, InFlight, QueuedSlots, BusySlots, AnsweredSlots, SlotsIn, NoWork, End
  <2> QED
    BY <2>1, <2>2, FS_EmptySet DEF Outstanding, DrainInv
<1>2. IInv /\ [Next]_vars => IInv'
  BY TypeInvStep, SlotsStep, ContentsStep, JobInvStep, OutstandingStep, DrainStep DEF OrderInv
<1>3. IInv => DrainerLeavesNothing
  BY DEF DrainInv, DrainerLeavesNothing, InFlight
<1> QED
  BY <1>1, <1>2, <1>3, PTL DEF Spec

-------------------------------------------------------------------------------
(* No slot is lost *)

\* The frames between demux and the writer are different frames, all of them sent.
FrameOnce ==
  /\ \A s \in Moving : mem[s].frame < frameIdx
  /\ \A s, t \in Moving : mem[s].frame = mem[t].frame => s = t

\* The frame in a slot that is on its way stays the frame it is.
LEMMA MovingFrames ==
  ASSUME TypeInv, SlotsExclusive, [Next]_vars, NEW s \in Moving
  PROVE  mem'[s].frame = mem[s].frame
<1>types. /\ Moving \subseteq Slots /\ mem \in [Slots -> Pixels] /\ work \in [Workers -> Request]
  BY MovingTypes DEF TypeInv, TypeOK, PoolType, QueueType
<1>1. CASE DemuxFill
  <2>1. dslot \in DemuxSlots
    BY <1>1, <1>types, ConstantsAssumption DEF DemuxFill, DemuxSlots, TypeInv, Places
  <2>2. s # dslot
    BY <2>1 DEF SlotsExclusive, PlacesDisjoint, Moving, InFlight
  <2> QED
    BY <1>1, <2>2, <1>types DEF DemuxFill
<1>2. ASSUME NEW w \in Workers, WorkerSwap(w) \/ WorkerFrameError(w)
      PROVE  mem'[s].frame = mem[s].frame
  <2>1. PICK b \in BOOLEAN : mem' = [mem EXCEPT ![work[w].slot].swapped = b]
    BY <1>2 DEF WorkerSwap, WorkerFrameError
  <2> QED
    BY <2>1, <1>types DEF Pixels
<1> QED
  BY <1>1, <1>2, MemMoves

LEMMA FrameOnceStep == OrderInv /\ FrameOnce /\ [Next]_vars => FrameOnce'
<1> SUFFICES ASSUME OrderInv, FrameOnce, [Next]_vars PROVE FrameOnce'
  OBVIOUS
<1>1. /\ TypeInv /\ SlotsExclusive /\ Moving \subseteq Slots /\ mem \in [Slots -> Pixels]
      /\ frameIdx \in Nat /\ work \in [Workers -> Request]
      /\ \A s \in Slots : mem[s].frame \in Int
  BY MovingTypes, ConstantsAssumption
  DEF OrderInv, TypeInv, TypeOK, CountType, PoolType, QueueType, Pixels, Frames
<1>2. \A s \in Moving : mem'[s].frame = mem[s].frame
  BY <1>1, MovingFrames
<1>3. CASE Moving' \subseteq Moving /\ UNCHANGED frameIdx
  BY <1>2, <1>3 DEF FrameOnce
<1>4. CASE DemuxSend /\ ~closed /\ Moving' \subseteq Moving \cup {dslot}
  <2>1. frameIdx' = frameIdx + 1 /\ UNCHANGED mem /\ mem[dslot].frame = frameIdx
    BY <1>4 DEF DemuxSend, poolVars, OrderInv, Contents, SendContent
  <2>2. \A s \in Moving' : s = dslot \/ (s \in Moving /\ mem[s].frame < frameIdx)
    BY <1>4 DEF FrameOnce
  <2>3. \A s \in Moving' : mem[s].frame < frameIdx + 1
    BY <2>1, <2>2, <1>1
  <2>4. \A s, t \in Moving' : mem[s].frame = mem[t].frame => s = t
    BY <2>1, <2>2, <1>1 DEF FrameOnce
  <2> QED
    BY <2>1, <2>3, <2>4 DEF FrameOnce
<1>5. ASSUME NEW w \in Workers, DrainReceive(w), Moving' \subseteq Moving PROVE FrameOnce'
  BY <1>3, <1>5 DEF DrainReceive, demuxVars
<1> QED
  BY <1>1, <1>3, <1>4, <1>5, FlightStep

\* A frame is filed in the reorder buffer only once.
LEMMA FiledOnce ==
  ASSUME OrderInv, FrameOnce, NEW w \in Workers, DrainReceive(w),
         ~Head(outQ[w]).error, Head(outQ[w]).frame >= 0
  PROVE  Head(outQ[w]).frame \in Frames /\ done[Head(outQ[w]).frame] = NoSlot
<1> DEFINE r == Head(outQ[w])
<1>1. r \in Response /\ r.slot \in AnsweredSlots /\ mem[r.slot] = SwappedFrame(r.frame)
  BY TakenAnswer
<1>2. r.frame \in Frames
  BY <1>1, ConstantsAssumption DEF Response
<1> HIDE DEF r
<1>3. ASSUME done[r.frame] # NoSlot PROVE FALSE
  <2>1. done[r.frame] \in DoneSlots
    BY <1>2, <1>3 DEF DoneSlots
  <2>2. mem[done[r.frame]] = SwappedFrame(r.frame)
    BY <1>2, <1>3 DEF OrderInv, Contents, DoneContent
  <2>3. r.slot = done[r.frame]
    BY <1>1, <2>1, <2>2 DEF FrameOnce, Moving, InFlight
  <2> QED
    BY <1>1, <2>1, <2>3 DEF OrderInv, SlotsExclusive, PlacesDisjoint
<1> QED
  BY <1>2, <1>3 DEF r

\* Who changes the queues of answers.
LEMMA OutMoves ==
  ASSUME [Next]_vars
  PROVE  \/ UNCHANGED outQ
         \/ \E w \in Workers : Worker(w) \/ DrainReceive(w) \/ MainStartup(w)
<1> USE DEF queueVars
<1>1. CASE Routes \/ FfmpegDies \/ AllOver \/ UNCHANGED vars
  BY <1>1 DEF Routes, PauseJob, ResumeJob, StopJob, FfmpegDies, AllOver, vars
<1>2. CASE Demux \/ DemuxSendRefused
  BY <1>2 DEF Demux, DemuxCheck, DemuxQuitsPaused, DemuxRead, DemuxGivesUp, DemuxAcquire,
     DemuxFill, DemuxFillRaises, DemuxSend, DemuxSendRefused
<1>3. CASE DrainTimeout \/ Writer
  BY <1>3 DEF DrainTimeout, Writer, WriterStops, WriterTake, WriterFinishes, WriterWrite,
     WriterBreaks
<1>4. ASSUME NEW w \in Workers, MainTerminate(w) PROVE UNCHANGED outQ
  BY <1>4 DEF MainTerminate
<1>5. CASE MainStartupFails \/ MainStart \/ MainRaise \/ MainStreamed \/ MainJoin
  BY <1>5 DEF MainStartupFails, MainStart, MainRaise, MainStreamed, MainJoin
<1>6. CASE MainPutEnd \/ MainClose \/ MainAbort \/ MainFinalise
  BY <1>6 DEF MainPutEnd, MainClose, MainAbort, MainFinalise
<1> QED
  BY <1>1, <1>2, <1>3, <1>4, <1>5, <1>6 DEF Next, Drain, Main

\* An answer with a frame has its slot, one without has none; an error without a frame is
\* the last word of a worker; and until the threads start there are no frames about.
Kind(w, r) ==
  /\ r.frame < 0 <=> r.slot = NoSlot
  /\ r.error /\ r.frame < 0 => wstate[w] = "dead"
  /\ main = "startup" => r.frame < 0
StartupQuiet == main = "startup" => inQ = <<>> /\ \A w \in Workers : wstate[w] # "busy"
AnswerKinds == \A w \in Workers : \A i \in DOMAIN outQ[w] : Kind(w, outQ[w][i])
KindInv == StartupQuiet /\ AnswerKinds

LEMMA StartupQuietStep == TypeInv /\ StartupQuiet /\ [Next]_vars => StartupQuiet'
<1> SUFFICES ASSUME TypeInv, StartupQuiet, [Next]_vars, main' = "startup"
             PROVE  inQ' = <<>> /\ \A w \in Workers : wstate'[w] # "busy"
  BY DEF StartupQuiet
<1>1. /\ inQ = <<>> /\ \A w \in Workers : wstate[w] # "busy"
      /\ main = "startup" /\ demux = "off" /\ DOMAIN wstate = Workers
  BY MainMoves DEF StartupQuiet, TypeInv, Places, TypeOK, ThreadType
<1>2. ~DemuxSend /\ ~MainPutEnd /\ \A w \in Workers : ~WorkerTake(w)
  BY <1>1 DEF DemuxSend, MainPutEnd, WorkerTake
<1>3. ASSUME NEW w \in Workers, Worker(w) \/ MainTerminate(w)
      PROVE  \E p : p # "busy" /\ wstate' = [wstate EXCEPT ![w] = p]
  BY <1>2, <1>3 DEF Worker, WorkerReady, WorkerFatal, WorkerCrash, WorkerSwap, WorkerFrameError,
     MainTerminate
<1> QED
  BY <1>1, <1>2, <1>3, QueueMoves, WorkerMoves DEF workerVars

LEMMA AnswerKindsStep == TypeInv /\ KindInv /\ [Next]_vars => AnswerKinds'
<1> SUFFICES ASSUME TypeInv, KindInv, [Next]_vars PROVE AnswerKinds'
  OBVIOUS
<1>types. /\ outQ \in [Workers -> Seq(Response)] /\ DOMAIN wstate = Workers
          /\ NoSlot \notin Slots
  BY ConstantsAssumption DEF TypeInv, TypeOK, QueueType, ThreadType

<1> DEFINE Good(w, r) == /\ r.frame < 0 <=> r.slot = NoSlot
                         /\ r.error /\ r.frame < 0 => wstate'[w] = "dead"
                         /\ main' = "startup" => r.frame < 0
<1>old. ASSUME NEW v \in Workers, NEW r, Kind(v, r) PROVE Good(v, r)
  BY <1>old, GoneForGood, MainMoves DEF Kind, WorkerGone
<1>part. ASSUME NEW w \in Workers, NEW q, PartOf(q, outQ[w]), outQ' = [outQ EXCEPT ![w] = q]
         PROVE  AnswerKinds'
  <2> SUFFICES ASSUME NEW v \in Workers, NEW i \in DOMAIN outQ'[v]
               PROVE  Kind(v, outQ[v][i])'
    BY DEF AnswerKinds
  <2>1. PICK j \in DOMAIN outQ[v] : outQ'[v][i] = outQ[v][j]
    BY <1>part, <1>types DEF PartOf
  <2>2. Kind(v, outQ[v][j])
    BY DEF KindInv, AnswerKinds
  <2> QED
    BY <2>1, <2>2, <1>old DEF Kind
<1>added. ASSUME NEW w \in Workers, NEW m \in Response, Good(w, m),
                 outQ' = [outQ EXCEPT ![w] = Append(@, m)]
          PROVE  AnswerKinds'
  <2> SUFFICES ASSUME NEW v \in Workers, NEW i \in DOMAIN outQ'[v]
               PROVE  Kind(v, outQ[v][i])'
    BY DEF AnswerKinds
  <2>1. (v = w /\ outQ'[v][i] = m) \/ \E j \in DOMAIN outQ[v] : outQ'[v][i] = outQ[v][j]
    BY <1>added, <1>types
  <2>2. CASE v = w /\ outQ'[v][i] = m
    BY <2>2, <1>added DEF Kind
  <2>3. ASSUME NEW j \in DOMAIN outQ[v], outQ'[v][i] = outQ[v][j] PROVE Kind(v, outQ[v][i])'
    <3>1. Kind(v, outQ[v][j])
      BY DEF KindInv, AnswerKinds
    <3> QED
      BY <2>3, <3>1, <1>old DEF Kind
  <2> QED
    BY <2>1, <2>2, <2>3
<1>1. CASE UNCHANGED outQ
  <2> SUFFICES ASSUME NEW v \in Workers, NEW i \in DOMAIN outQ'[v] PROVE Kind(v, outQ[v][i])'
    BY DEF AnswerKinds
  <2>1. Kind(v, outQ[v][i]) /\ outQ'[v][i] = outQ[v][i]
    BY <1>1 DEF KindInv, AnswerKinds
  <2> QED
    BY <2>1, <1>old DEF Kind
<1>none. ASSUME NEW w \in Workers, NEW n \in {-1, -2}, NEW e \in BOOLEAN,
                outQ' = [outQ EXCEPT ![w] = Append(@, Answer(n, NoSlot, e))],
                Answer(n, NoSlot, e) \in Response, e => wstate'[w] = "dead"
         PROVE  AnswerKinds'
  <2>1. Good(w, Answer(n, NoSlot, e))
    BY <1>none DEF Answer
  <2> QED
    BY ONLY <1>none, <1>added, <2>1
<1> HIDE DEF Good
<1>2. ASSUME NEW w \in Workers, WorkerReady(w) \/ WorkerFatal(w) PROVE AnswerKinds'
  <2>1. CASE WorkerReady(w)
    BY <2>1, <1>none, MessageTypes DEF WorkerReady
  <2>2. CASE WorkerFatal(w)
    BY <2>2, <1>none, <1>types, MessageTypes DEF WorkerFatal
  <2> QED
    BY <1>2, <2>1, <2>2
<1>3. ASSUME NEW w \in Workers, WorkerCrash(w) PROVE AnswerKinds'
  <2>1. PICK k \in 0 .. Len(outQ[w]) : outQ' = [outQ EXCEPT ![w] = SubSeq(@, 1, k)]
    BY <1>3 DEF WorkerCrash
  <2>2. outQ[w] \in Seq(Response)
    BY <1>types
  <2>3. PartOf(SubSeq(outQ[w], 1, k), outQ[w])
    BY <2>2 DEF PartOf
  <2> QED
    BY <2>1, <2>3, <1>part
<1>4. ASSUME NEW w \in Workers, WorkerTake(w) PROVE AnswerKinds'
  <2>1. CASE Head(inQ) = End
    BY <1>4, <2>1, <1>none, MessageTypes DEF WorkerTake
  <2>2. CASE Head(inQ) # End
    BY <1>4, <2>2, <1>1 DEF WorkerTake
  <2> QED
    BY <2>1, <2>2
<1>5. ASSUME NEW w \in Workers, WorkerSwap(w) \/ WorkerFrameError(w) PROVE AnswerKinds'
  <2>1. wstate[w] = "busy" /\ work[w] \in [frame : Frames, slot : Slots] /\ main # "startup"
    BY <1>5 DEF WorkerSwap, WorkerFrameError, TypeInv, Places, KindInv, StartupQuiet
  <2>2. PICK e \in BOOLEAN :
          outQ' = [outQ EXCEPT ![w] = Append(@, Answer(work[w].frame, work[w].slot, e))]
    BY <1>5 DEF WorkerSwap, WorkerFrameError
  <2>3. Answer(work[w].frame, work[w].slot, e) \in Response
    BY <2>1, MessageTypes
  <2>4. Good(w, Answer(work[w].frame, work[w].slot, e))
    BY <2>1, <1>types, MainMoves, ConstantsAssumption DEF Good, Answer, Frames
  <2> QED
    BY ONLY w \in Workers, <2>2, <2>3, <2>4, <1>added
<1>6. ASSUME NEW w \in Workers, DrainReceive(w) \/ MainStartup(w) PROVE AnswerKinds'
  <2>1. outQ[w] # <<>> /\ outQ' = [outQ EXCEPT ![w] = Tail(@)] /\ outQ[w] \in Seq(Response)
    BY <1>6, <1>types DEF DrainReceive, MainStartup
  <2>2. PartOf(Tail(outQ[w]), outQ[w])
    BY <2>1 DEF PartOf
  <2> QED
    BY <2>1, <2>2, <1>part
<1> QED
  BY <1>1, <1>2, <1>3, <1>4, <1>5, <1>6, OutMoves DEF Worker

\* The frame counter moves only when demux sends.
LEMMA FrameIdxMoves ==
  ASSUME [Next]_vars
  PROVE  UNCHANGED frameIdx \/ DemuxSend
<1> USE DEF demuxVars
<1>1. CASE Routes \/ FfmpegDies \/ AllOver \/ UNCHANGED vars
  BY <1>1 DEF Routes, PauseJob, ResumeJob, StopJob, FfmpegDies, AllOver, vars
<1>2. CASE Demux \/ DemuxSendRefused
  BY <1>2 DEF Demux, DemuxCheck, DemuxQuitsPaused, DemuxRead, DemuxGivesUp, DemuxAcquire,
     DemuxFill, DemuxFillRaises, DemuxSendRefused
<1>3. CASE Drain \/ Writer
  BY <1>3, DrainKeeps DEF Writer, WriterStops, WriterTake, WriterFinishes, WriterWrite,
     WriterBreaks
<1>4. ASSUME NEW w \in Workers, Worker(w) \/ MainStartup(w) \/ MainTerminate(w)
      PROVE  UNCHANGED frameIdx
  BY <1>4, WorkerKeeps DEF MainStartup, MainTerminate
<1>5. CASE MainStartupFails \/ MainStart \/ MainRaise \/ MainStreamed \/ MainJoin
  BY <1>5 DEF MainStartupFails, MainStart, MainRaise, MainStreamed, MainJoin
<1>6. CASE MainPutEnd \/ MainClose \/ MainAbort \/ MainFinalise
  BY <1>6 DEF MainPutEnd, MainClose, MainAbort, MainFinalise
<1> QED
  BY <1>1, <1>2, <1>3, <1>4, <1>5, <1>6 DEF Next, Main

\* The slots somebody has, and what excuses a slot nobody has.
Accounted == free \cup DemuxSlots \cup QueuedSlots \cup BusySlots \cup AnsweredSlots
               \cup DoneSlots \cup WriterSlots
ErrorAnswered == \E w \in Workers : \E i \in DOMAIN outQ[w] : outQ[w][i].error
DemuxCut == demux = "exit" /\ frameIdx < NumFrames
Failed == workerError \/ SomeWorkerDied \/ closed \/ ErrorAnswered
Excused == Failed \/ DemuxCut

\* A failure stays one.
LEMMA FailedStep ==
  ASSUME TypeInv, KindInv, [Next]_vars, Failed
  PROVE  Failed'
<1>types. outQ \in [Workers -> Seq(Response)] /\ DOMAIN wstate = Workers
  BY DEF TypeInv, TypeOK, QueueType, ThreadType
<1>dead. ASSUME NEW w \in Workers, wstate'[w] = "dead" PROVE Failed'
  BY <1>dead DEF Failed, SomeWorkerDied
<1>1. CASE workerError
  BY <1>1, DrainMoves DEF Failed
<1>2. CASE SomeWorkerDied
  BY <1>2, <1>dead, GoneForGood DEF SomeWorkerDied, WorkerGone
<1>3. CASE closed
  BY <1>3, CloseMoves DEF Failed
<1>4. CASE ErrorAnswered
  <2>0. PICK v \in Workers : \E i \in DOMAIN outQ[v] : outQ[v][i].error
    BY <1>4 DEF ErrorAnswered
  <2>1. PICK i \in DOMAIN outQ[v] : outQ[v][i].error
    BY <2>0
  <2>still. ASSUME i \in DOMAIN outQ'[v], outQ'[v][i] = outQ[v][i] PROVE Failed'
    BY <2>1, <2>still DEF Failed, ErrorAnswered
  <2>2. CASE UNCHANGED outQ
    BY <2>1, <2>2, <2>still
  <2>3. ASSUME NEW w \in Workers, NEW m, outQ' = [outQ EXCEPT ![w] = Append(@, m)]
        PROVE  Failed'
    <3>1. i \in DOMAIN outQ'[v] /\ outQ'[v][i] = outQ[v][i]
      BY <2>1, <2>3, <1>types
    <3> QED
      BY <3>1, <2>still
  <2>4. ASSUME NEW w \in Workers, Worker(w) PROVE Failed'
    <3>1. CASE WorkerCrash(w)
      BY <3>1, <1>types, <1>dead DEF WorkerCrash
    <3>2. CASE WorkerReady(w) \/ WorkerFatal(w) \/ WorkerTake(w)
      BY <3>2, <2>2, <2>3 DEF WorkerReady, WorkerFatal, WorkerTake
    <3>3. CASE WorkerSwap(w) \/ WorkerFrameError(w)
      BY <3>3, <2>3 DEF WorkerSwap, WorkerFrameError
    <3> QED
      BY <2>4, <3>1, <3>2, <3>3 DEF Worker
  <2>5. ASSUME NEW w \in Workers, outQ[w] # <<>>, outQ' = [outQ EXCEPT ![w] = Tail(@)]
        PROVE  Failed' \/ (v = w /\ i = 1 /\ Head(outQ[w]).error)
    <3>1. CASE v # w
      BY <2>5, <3>1, <2>1, <1>types, <2>still
    <3>2. CASE v = w /\ i = 1
      BY <2>5, <3>2, <2>1, <1>types
    <3>3. CASE v = w /\ i # 1
      <4>1. outQ[w] \in Seq(Response) /\ outQ'[w] = Tail(outQ[w]) /\ i \in 2 .. Len(outQ[w])
        BY <1>types, <2>1, <2>5, <3>3
      <4>2. i - 1 \in DOMAIN outQ'[w] /\ outQ'[w][i - 1] = outQ[w][i]
        BY <4>1
      <4> QED
        BY <4>2, <3>3, <2>1 DEF Failed, ErrorAnswered
    <3> QED
      BY <3>1, <3>2, <3>3
  <2>6. ASSUME NEW w \in Workers, DrainReceive(w) PROVE Failed'
    <3>1. Head(outQ[w]).error => workerError'
      BY <2>6 DEF DrainReceive
    <3> QED
      BY <2>5, <2>6, <3>1 DEF DrainReceive, Failed
  <2>7. ASSUME NEW w \in Workers, MainStartup(w) PROVE Failed'
    <3>1. CASE v = w /\ i = 1 /\ Head(outQ[w]).error
      <4>1. main = "startup" /\ UNCHANGED wstate
        BY <2>7 DEF MainStartup, workerVars
      <4>2. wstate[v] = "dead"
        BY <4>1, <2>1 DEF KindInv, AnswerKinds, Kind
      <4> QED
        BY <4>1, <4>2, <1>dead
    <3> QED
      BY <2>5, <2>7, <3>1 DEF MainStartup
  <2> QED
    BY <2>2, <2>4, <2>6, <2>7, OutMoves
<1> QED
  BY <1>1, <1>2, <1>3, <1>4 DEF Failed

\* An excuse stays one.
LEMMA ExcusedStep ==
  ASSUME TypeInv, KindInv, [Next]_vars, Excused
  PROVE  Excused'
<1>1. CASE DemuxCut
  <2>1. demux = "exit" /\ frameIdx < NumFrames /\ demux' = "exit" /\ ~DemuxSend
    BY <1>1, DrainMoves DEF DemuxCut, DemuxSend
  <2>2. UNCHANGED frameIdx
    BY <2>1, FrameIdxMoves
  <2> QED
    BY <2>1, <2>2 DEF Excused, DemuxCut
<1> QED
  BY <1>1, FailedStep DEF Excused

\* What changes the free slots and the slot in demux's hand.
LEMMA FreeMoves ==
  ASSUME [Next]_vars
  PROVE  \/ UNCHANGED <<free, dslot>>
         \/ DemuxAcquire \/ DemuxFillRaises \/ DemuxSend \/ DemuxSendRefused
         \/ WriterWrite \/ WriterBreaks
<1> USE DEF poolVars, demuxVars
<1>1. CASE Routes \/ FfmpegDies \/ AllOver \/ UNCHANGED vars
  BY <1>1 DEF Routes, PauseJob, ResumeJob, StopJob, FfmpegDies, AllOver, vars
<1>2. CASE DemuxCheck \/ DemuxQuitsPaused \/ DemuxRead \/ DemuxGivesUp \/ DemuxFill
  BY <1>2 DEF DemuxCheck, DemuxQuitsPaused, DemuxRead, DemuxGivesUp, DemuxFill
<1>3. CASE Drain \/ WriterStops \/ WriterTake \/ WriterFinishes
  BY <1>3 DEF Drain, DrainReceive, DrainTimeout, WriterStops, WriterTake, WriterFinishes
<1>4. ASSUME NEW w \in Workers, Worker(w) \/ MainStartup(w) \/ MainTerminate(w)
      PROVE  UNCHANGED <<free, dslot>>
  BY <1>4 DEF Worker, WorkerReady, WorkerFatal, WorkerCrash, WorkerTake, WorkerSwap,
     WorkerFrameError, MainStartup, MainTerminate
<1>5. CASE MainStartupFails \/ MainStart \/ MainRaise \/ MainStreamed \/ MainJoin
  BY <1>5 DEF MainStartupFails, MainStart, MainRaise, MainStreamed, MainJoin
<1>6. CASE MainPutEnd \/ MainClose \/ MainAbort \/ MainFinalise
  BY <1>6 DEF MainPutEnd, MainClose, MainAbort, MainFinalise
<1> QED
  BY <1>1, <1>2, <1>3, <1>4, <1>5, <1>6 DEF Next, Demux, Writer, Main

\* Between demux and the pool no slot gets lost: what is taken out of one place is put
\* into another, until the writer gives its own back.
WriterGivesBack == WriterWrite \/ WriterBreaks
Kept == \/ Moving \subseteq Moving'
        \/ WriterGivesBack /\ Moving \subseteq Moving' \cup {wslot}

LEMMA MovingKept ==
  ASSUME OrderInv, FrameOnce, KindInv, [Next]_vars, ~Failed
  PROVE  Failed' \/ Kept
<1> USE DEF poolVars, queueVars, workerVars, demuxVars, drainVars, writerVars, Moving, InFlight
<1>0. /\ TypeInv /\ SlotsExclusive /\ ~closed
      /\ PlacesDisjoint /\ QueuedOnce /\ BusyOnce /\ AnsweredOnce /\ DoneOnce
  BY DEF OrderInv, SlotsExclusive, Failed
<1>types. /\ inQ \in Seq(Request) /\ outQ \in [Workers -> Seq(Response)]
          /\ work \in [Workers -> Request] /\ done \in [Frames -> Slots \cup {NoSlot}]
          /\ NoSlot \notin Slots /\ DOMAIN wstate = Workers /\ frameIdx \in Nat
  BY <1>0, ConstantsAssumption DEF TypeInv, TypeOK, QueueType, ThreadType, CountType
<1>no. NoSlot \notin AnsweredSlots /\ NoSlot \notin QueuedSlots /\ NoSlot \notin BusySlots
       /\ NoSlot \notin DoneSlots
  BY DEF AnsweredSlots, QueuedSlots, BusySlots, DoneSlots, SlotsIn
<1>all. Moving \subseteq Moving' => Kept
  BY DEF Kept
<1>same. ASSUME UNCHANGED <<inQ, work, outQ, done, wslot>>
         PROVE  Kept
  BY <1>same, <1>all, SameSlots
<1>dead. ASSUME NEW w \in Workers, wstate'[w] = "dead" PROVE Failed'
  BY <1>dead DEF Failed, SomeWorkerDied
<1>1. ASSUME NEW w \in Workers, WorkerReady(w) PROVE Kept
  <2>1. outQ' = [outQ EXCEPT ![w] = Append(@, Answer(-2, NoSlot, FALSE))]
        /\ UNCHANGED <<inQ, work, done, wslot>>
    BY <1>1 DEF WorkerReady
  <2>2. Answer(-2, NoSlot, FALSE) \in Response /\ Answer(-2, NoSlot, FALSE).slot = NoSlot
    BY MessageTypes DEF Answer
  <2>3. UNCHANGED AnsweredSlots
    BY <2>1, <2>2, <1>0, <1>no, AnswerSlots
  <2> QED
    BY <2>1, <2>3, <1>all, SameSlots
<1>2. ASSUME NEW w \in Workers, WorkerFatal(w) \/ WorkerCrash(w) \/ MainTerminate(w)
      PROVE  Failed'
  BY <1>2, <1>types, <1>dead DEF WorkerFatal, WorkerCrash, MainTerminate
<1>3. ASSUME NEW w \in Workers, WorkerTake(w) PROVE Kept
  <2>1. QueuedSlots' = QueuedSlots \ {Head(inQ).slot} /\ Head(inQ) \in Request
    BY <1>3, <1>0, <1>types, QueueSlots DEF WorkerTake
  <2>2. UNCHANGED <<done, wslot>> /\ work[w] = NoWork
    BY <1>3, <1>0 DEF WorkerTake, TypeInv, Places
  <2>3. CASE Head(inQ) = End
    <3>1. outQ' = [outQ EXCEPT ![w] = Append(@, Answer(-1, NoSlot, FALSE))] /\ UNCHANGED work
      BY <1>3, <2>3 DEF WorkerTake
    <3>2. Answer(-1, NoSlot, FALSE) \in Response /\ Answer(-1, NoSlot, FALSE).slot = NoSlot
      BY MessageTypes DEF Answer
    <3>3. UNCHANGED AnsweredSlots
      BY <3>1, <3>2, <1>0, <1>no, AnswerSlots
    <3>4. UNCHANGED QueuedSlots
      BY <2>1, <2>3, <1>no DEF End
    <3> QED
      BY <2>2, <3>1, <3>3, <3>4, <1>all, SameSlots
  <2>4. CASE Head(inQ) # End
    <3>1. work' = [work EXCEPT ![w] = Head(inQ)] /\ UNCHANGED outQ
      BY <1>3, <2>4 DEF WorkerTake
    <3>2. work'[w].slot = Head(inQ).slot /\ \A v \in Workers : v # w => work'[v] = work[v]
      BY <3>1, <1>types
    <3>3. BusySlots \cup ({Head(inQ).slot} \ {NoSlot}) \subseteq BusySlots'
      BY <2>2, <3>2 DEF BusySlots, NoWork, End
    <3>4. QueuedSlots \cup BusySlots \subseteq QueuedSlots' \cup BusySlots'
      BY <2>1, <3>3, <1>no
    <3> QED
      BY <2>2, <3>1, <3>4, <1>all, SameSlots
  <2> QED
    BY <2>3, <2>4
<1>4. ASSUME NEW w \in Workers, WorkerSwap(w) \/ WorkerFrameError(w)
      PROVE  Kept
  <2>1. work[w] \in [frame : Frames, slot : Slots]
    BY <1>0, <1>4 DEF WorkerSwap, WorkerFrameError, TypeInv, Places
  <2>2. PICK m \in Response : /\ m.slot = work[w].slot
                              /\ outQ' = [outQ EXCEPT ![w] = Append(@, m)]
    <3>1. PICK e \in BOOLEAN :
            outQ' = [outQ EXCEPT ![w] = Append(@, Answer(work[w].frame, work[w].slot, e))]
      BY <1>4 DEF WorkerSwap, WorkerFrameError
    <3>2. Answer(work[w].frame, work[w].slot, e) \in Response
      BY <2>1, MessageTypes
    <3> QED
      BY <3>1, <3>2 DEF Answer
  <2>3. work[w].slot \in BusySlots
    BY <2>1, <1>types DEF BusySlots
  <2>4. AnsweredSlots' = AnsweredSlots \cup {work[w].slot}
    <3>1. m.slot \notin AnsweredSlots
      BY <2>2, <2>3, <1>0 DEF PlacesDisjoint
    <3> QED
      BY <2>2, <2>3, <3>1, <1>0, <1>no, AnswerSlots
  <2>5. BusySlots \subseteq BusySlots' \cup {work[w].slot}
    <3>1. \A v \in Workers : v # w => work'[v] = work[v]
      BY <1>4, <1>types DEF WorkerSwap, WorkerFrameError
    <3> QED
      BY <3>1 DEF BusySlots
  <2>6. UNCHANGED <<inQ, done, wslot>>
    BY <1>4 DEF WorkerSwap, WorkerFrameError
  <2> QED
    BY <2>4, <2>5, <2>6, <1>all, SameSlots
<1>5. CASE DemuxAcquire \/ DemuxFillRaises
  BY <1>5, <1>same DEF DemuxAcquire, DemuxFillRaises
<1>7. CASE DemuxSend
  <2> DEFINE r == [frame |-> frameIdx, slot |-> dslot]
  <2>1. UNCHANGED <<work, outQ, done, wslot>>
    BY <1>7 DEF DemuxSend
  <2>2. frameIdx \in Frames /\ dslot \in Slots
    BY <1>0, <1>7, <1>types, ConstantsAssumption DEF DemuxSend, TypeInv, Places, Frames
  <2>3. r \in Request /\ r.slot = dslot /\ DemuxSlots = {dslot}
    BY <2>2, <1>types, MessageTypes DEF DemuxSlots
  <2>4. inQ' = Append(inQ, r) /\ r.slot \notin QueuedSlots
    BY <1>0, <1>7, <2>3 DEF DemuxSend, PlacesDisjoint
  <2>5. QueuedSlots' = QueuedSlots \cup {dslot}
    BY <2>2, <2>3, <2>4, <1>0, <1>types, QueueSlots
  <2> QED
    BY <2>1, <2>3, <2>5, <1>all, SameSlots
<1>8. ASSUME NEW w \in Workers, outQ[w] # <<>>, outQ' = [outQ EXCEPT ![w] = Tail(@)]
      PROVE  AnsweredSlots \ {Head(outQ[w]).slot} \subseteq AnsweredSlots'
  <2>1. SlotsIn(Tail(outQ[w])) = SlotsIn(outQ[w]) \ {Head(outQ[w]).slot}
    BY <1>8, <1>0, <1>types, SlotsTail DEF AnsweredOnce
  <2>2. outQ'[w] = Tail(outQ[w]) /\ \A v \in Workers : v # w => outQ'[v] = outQ[v]
    BY <1>8, <1>types
  <2> QED
    BY <2>1, <2>2 DEF AnsweredSlots
<1>9. ASSUME NEW w \in Workers, outQ[w] # <<>>
      PROVE  Kind(w, Head(outQ[w]))
  <2>1. 1 \in DOMAIN outQ[w] /\ Head(outQ[w]) = outQ[w][1]
    BY <1>9, <1>types
  <2> QED
    BY <2>1 DEF KindInv, AnswerKinds
<1>10. ASSUME NEW w \in Workers, DrainReceive(w) PROVE Failed' \/ Kept
  <2> DEFINE r == Head(outQ[w])
  <2>1. AnsweredSlots \ {r.slot} \subseteq AnsweredSlots' /\ Kind(w, r)
    BY <1>8, <1>9, <1>10 DEF DrainReceive
  <2>2. UNCHANGED <<inQ, work, wslot>>
    BY <1>10 DEF DrainReceive
  <2>3. CASE r.error
    BY <1>10, <2>3 DEF DrainReceive, Failed
  <2>4. CASE ~r.error /\ r.frame < 0
    <3>1. UNCHANGED done
      BY <1>10, <2>4 DEF DrainReceive
    <3>2. AnsweredSlots \subseteq AnsweredSlots'
      BY <2>1, <2>4, <1>no DEF Kind
    <3> QED
      BY <2>2, <3>1, <3>2, <1>all, SameSlots
  <2>5. CASE ~r.error /\ r.frame >= 0
    <3>1. r.frame \in Frames /\ done[r.frame] = NoSlot /\ r.slot \in AnsweredSlots
      BY <1>10, <2>5, FiledOnce, TakenAnswer
    <3>2. done' = [done EXCEPT ![r.frame] = r.slot]
      BY <1>10, <2>5, <3>1 DEF DrainReceive, DoneKey, Frames
    <3> HIDE DEF r
    <3>3. done'[r.frame] = r.slot /\ \A f \in Frames : f # r.frame => done'[f] = done[f]
      BY <3>1, <3>2, <1>types
    <3>4. DoneSlots \cup {r.slot} \subseteq DoneSlots'
      BY <3>1, <3>3, <1>no DEF DoneSlots
    <3> QED
      BY <2>1, <2>2, <3>4, <1>all, SameSlots
  <2>6. r.frame \in Int
    BY <1>10, TakenAnswer, ConstantsAssumption DEF Response, Frames
  <2> QED
    BY <2>3, <2>4, <2>5, <2>6
<1>11. CASE WriterTake
  <2>1. writer' = "write" /\ wslot' = done[nextToWrite] /\ nextToWrite \in Frames
        /\ done' = [done EXCEPT ![nextToWrite] = NoSlot] /\ wslot = NoSlot
    BY <1>0, <1>11 DEF WriterTake, PopDone, TypeInv, Places
  <2>2. \A f \in Frames : f # nextToWrite => done'[f] = done[f]
    BY <2>1, <1>types
  <2>3. DoneSlots \subseteq DoneSlots' \cup WriterSlots' /\ WriterSlots = {}
    BY <2>1, <2>2 DEF DoneSlots, WriterSlots
  <2>4. UNCHANGED <<inQ, work, outQ>>
    BY <1>11 DEF WriterTake
  <2> QED
    BY <2>3, <2>4, <1>all, SameSlots
<1>12. CASE WriterWrite \/ WriterBreaks
  <2>1. UNCHANGED <<inQ, work, outQ, done>> /\ WriterGivesBack
    BY <1>12 DEF WriterWrite, WriterBreaks, WriterGivesBack
  <2>2. WriterSlots \subseteq {wslot}
    BY DEF WriterSlots
  <2>3. Moving \subseteq Moving' \cup {wslot}
    BY <2>1, <2>2, SameSlots
  <2> QED
    BY <2>1, <2>3 DEF Kept
<1>13. ASSUME NEW w \in Workers, MainStartup(w) PROVE Kept
  <2>1. Head(outQ[w]).slot = NoSlot
    BY <1>9, <1>13 DEF MainStartup, Kind
  <2>2. AnsweredSlots \subseteq AnsweredSlots'
    BY <2>1, <1>8, <1>13, <1>no DEF MainStartup
  <2>3. UNCHANGED <<inQ, work, done, wslot>>
    BY <1>13 DEF MainStartup
  <2> QED
    BY <2>2, <2>3, <1>all, SameSlots
<1>14. CASE MainPutEnd
  <2>1. UNCHANGED QueuedSlots
    <3>1. CASE inQ' = Append(inQ, End)
      BY <3>1, <1>0, <1>no, MessageTypes, QueueSlots DEF End
    <3>2. CASE UNCHANGED inQ
      BY <3>2, SameSlots
    <3> QED
      BY <1>14, <3>1, <3>2 DEF MainPutEnd
  <2>2. UNCHANGED <<work, outQ, done, wslot>>
    BY <1>14 DEF MainPutEnd
  <2> QED
    BY <2>1, <2>2, <1>all, SameSlots
<1>15. CASE Routes \/ FfmpegDies \/ AllOver \/ UNCHANGED vars
  BY <1>15, <1>same DEF Routes, PauseJob, ResumeJob, StopJob, FfmpegDies, AllOver, vars
<1>16. CASE DemuxCheck \/ DemuxQuitsPaused \/ DemuxRead \/ DemuxGivesUp \/ DemuxFill
  BY <1>16, <1>same DEF DemuxCheck, DemuxQuitsPaused, DemuxRead, DemuxGivesUp, DemuxFill
<1>17. ~DemuxSendRefused
  BY <1>0 DEF DemuxSendRefused
<1>18. CASE DrainTimeout \/ WriterStops \/ WriterFinishes
  BY <1>18, <1>same DEF DrainTimeout, WriterStops, WriterFinishes
<1>19. CASE MainStartupFails \/ MainStart \/ MainRaise \/ MainStreamed \/ MainJoin
  BY <1>19, <1>same DEF MainStartupFails, MainStart, MainRaise, MainStreamed, MainJoin
<1>20. CASE MainClose \/ MainAbort \/ MainFinalise
  BY <1>20, <1>same DEF MainClose, MainAbort, MainFinalise
<1>21. CASE Demux \/ Drain \/ Writer
  BY <1>21, <1>5, <1>7, <1>10, <1>11, <1>12, <1>16, <1>18 DEF Demux, Drain, Writer
<1>22. CASE Main
  BY <1>22, <1>2, <1>13, <1>14, <1>19, <1>20 DEF Main
<1>23. ASSUME NEW w \in Workers, Worker(w) PROVE Failed' \/ Kept
  BY <1>23, <1>1, <1>2, <1>3, <1>4 DEF Worker
<1> QED
  BY <1>15, <1>17, <1>21, <1>22, <1>23 DEF Next

\* What demux sends is on its way.
LEMMA SentMoves ==
  ASSUME TypeInv, SlotsExclusive, DemuxSend, ~closed
  PROVE  dslot \in Moving'
<1> DEFINE r == [frame |-> frameIdx, slot |-> dslot]
<1>types. inQ \in Seq(Request) /\ frameIdx \in Nat /\ NoSlot \notin Slots /\ QueuedOnce
  BY ConstantsAssumption DEF TypeInv, TypeOK, QueueType, CountType, SlotsExclusive
<1>1. frameIdx \in Frames /\ dslot \in Slots
  BY <1>types, ConstantsAssumption DEF DemuxSend, TypeInv, Places, Frames
<1>2. r \in Request /\ r.slot = dslot /\ dslot \in DemuxSlots
  BY <1>1, <1>types, MessageTypes DEF DemuxSlots
<1>3. inQ' = Append(inQ, r) /\ r.slot \notin QueuedSlots
  BY <1>2 DEF DemuxSend, SlotsExclusive, PlacesDisjoint
<1>4. QueuedSlots' = QueuedSlots \cup {dslot}
  BY <1>1, <1>2, <1>3, <1>types, QueueSlots
<1> QED
  BY <1>4 DEF Moving, InFlight

\* Without a failure every slot stays somewhere, unless demux gives up with one in hand.
LEMMA AccountedStep ==
  ASSUME OrderInv, FrameOnce, KindInv, [Next]_vars, ~Excused, Slots \subseteq Accounted
  PROVE  Excused' \/ Slots \subseteq Accounted'
<1> SUFFICES ASSUME ~Excused' PROVE Slots \subseteq Accounted'
  OBVIOUS
<1>0. TypeInv /\ SlotsExclusive /\ ~closed /\ Kept /\ NoSlot \notin Slots
      /\ Accounted = free \cup DemuxSlots \cup Moving
      /\ Accounted' = free' \cup DemuxSlots' \cup Moving'
  BY MovingKept, ConstantsAssumption DEF OrderInv, Excused, Failed, Accounted, Moving, InFlight
<1> HIDE DEF Accounted, Moving
<1>1. CASE UNCHANGED <<free, dslot>>
  <2>1. WriterGivesBack => wslot \in free'
    BY DEF WriterGivesBack, WriterWrite, WriterBreaks
  <2> QED
    BY <1>0, <1>1, <2>1 DEF DemuxSlots, Kept
<1>2. CASE DemuxAcquire
  <2>1. PICK s \in free : dslot' = s /\ free' = free \ {s}
    BY <1>2 DEF DemuxAcquire, FreeWithout
  <2>2. DemuxSlots = {} /\ (s \in Slots => s \in DemuxSlots')
    BY <2>1, <1>0, <1>2 DEF DemuxAcquire, DemuxSlots, TypeInv, Places
  <2>3. ~WriterGivesBack
    BY <1>2 DEF DemuxAcquire, WriterGivesBack, WriterWrite, WriterBreaks, writerVars
  <2> QED
    BY <1>0, <2>1, <2>2, <2>3 DEF Kept
<1>3. ~DemuxFillRaises
  BY <1>0 DEF DemuxFillRaises, DemuxLeaves, TypeInv, Places, Excused, DemuxCut, demuxVars
<1>4. CASE DemuxSend
  <2>1. dslot \in Moving'
    BY <1>0, <1>4, SentMoves
  <2>2. dslot' = NoSlot /\ UNCHANGED <<free, writer>>
    BY <1>4 DEF DemuxSend, poolVars, writerVars
  <2>3. ~WriterGivesBack
    BY <2>2 DEF WriterGivesBack, WriterWrite, WriterBreaks
  <2> QED
    BY <1>0, <2>1, <2>2, <2>3 DEF Kept, DemuxSlots
<1>5. ~DemuxSendRefused
  BY <1>0 DEF DemuxSendRefused
<1>6. CASE WriterWrite \/ WriterBreaks
  <2>1. free' = free \cup {wslot} /\ UNCHANGED dslot
    BY <1>6 DEF WriterWrite, WriterBreaks, demuxVars
  <2> QED
    BY <1>0, <2>1 DEF Kept, DemuxSlots
<1> QED
  BY <1>1, <1>2, <1>3, <1>4, <1>5, <1>6, FreeMoves

\* As long as no worker, answer, copy or teardown has failed every slot of the pool is
\* somewhere, so demux never waits for a slot that has been lost.
THEOREM NoSlotLost == Spec => []SlotsAccounted
<1> DEFINE IInv == OrderInv /\ FrameOnce /\ KindInv /\ (Excused \/ Slots \subseteq Accounted)
<1>1. Init => IInv
  <2> SUFFICES ASSUME Init PROVE IInv
    OBVIOUS
  <2>1. OrderInv
    BY InitTypeInv, InitSlots, InitContents DEF OrderInv
  <2>2. Moving = {} /\ Slots \subseteq Accounted
    BY DEF Init, Moving, InFlight, QueuedSlots, BusySlots, AnsweredSlots, DoneSlots, WriterSlots,
       SlotsIn, NoWork, End, Accounted, DemuxSlots
  <2>3. KindInv
    BY DEF Init, KindInv, StartupQuiet, AnswerKinds
  <2> QED
    BY <2>1, <2>2, <2>3 DEF FrameOnce
<1>2. IInv /\ [Next]_vars => IInv'
  <2> SUFFICES ASSUME IInv, [Next]_vars PROVE IInv'
    OBVIOUS
  <2>1. OrderInv' /\ FrameOnce'
    BY TypeInvStep, SlotsStep, ContentsStep, FrameOnceStep DEF OrderInv
  <2>2. KindInv'
    BY StartupQuietStep, AnswerKindsStep DEF OrderInv, KindInv
  <2>3. Excused' \/ Slots \subseteq Accounted'
    BY ExcusedStep, AccountedStep DEF OrderInv
  <2> QED
    BY <2>1, <2>2, <2>3
<1>3. IInv => SlotsAccounted
  <2>1. TypeInv => Accounted \subseteq Slots
    BY MovingTypes
    DEF Accounted, Moving, InFlight, TypeInv, TypeOK, PoolType, ThreadType, DemuxSlots
  <2> QED
    BY <2>1 DEF OrderInv, SlotsAccounted, Excused, Failed, ErrorAnswered, DemuxCut, Accounted
<1> QED
  BY <1>1, <1>2, <1>3, PTL DEF Spec
-------------------------------------------------------------------------------
(* No deadlock while the job streams *)

\* Every frame demux has sent is on its way until the writer passes it on, and those that
\* are on their way are ahead of the writer: it never waits for a frame that is gone, nor
\* is a slot kept by a frame that it will not ask for.
OnTheWay ==
  Failed \/ broken \/ \A f \in nextToWrite .. frameIdx - 1 : \E s \in Moving : mem[s].frame = f
Ahead == nextToWrite <= frameIdx /\ \A s \in Moving : mem[s].frame >= nextToWrite

\* What the threads' places say about each other.
Phases ==
  /\ main = "watch" => demux # "off" /\ drain # "off" /\ writer # "off"
  /\ broken => writer = "exit"
  /\ main \in Before => \A w \in Workers : wstate[w] # "exited"
  /\ demux = "exit" => allDispatched
  /\ ~closed /\ demux # "send" => dispatched = frameIdx

\* The writer's counter moves only when it writes, and nobody else finds the pipe broken.
LEMMA NextMoves ==
  ASSUME [Next]_vars
  PROVE  UNCHANGED <<nextToWrite, broken>> \/ WriterWrite \/ WriterBreaks
<1> USE DEF writerVars
<1>1. CASE Routes \/ FfmpegDies \/ AllOver \/ UNCHANGED vars
  BY <1>1 DEF Routes, PauseJob, ResumeJob, StopJob, FfmpegDies, AllOver, vars
<1>2. CASE Demux \/ DemuxSendRefused
  BY <1>2 DEF Demux, DemuxCheck, DemuxQuitsPaused, DemuxRead, DemuxGivesUp, DemuxAcquire,
     DemuxFill, DemuxFillRaises, DemuxSend, DemuxSendRefused
<1>3. CASE Drain \/ WriterStops \/ WriterTake \/ WriterFinishes
  BY <1>3, DrainKeeps DEF WriterStops, WriterTake, WriterFinishes
<1>4. ASSUME NEW w \in Workers, Worker(w) \/ MainStartup(w) \/ MainTerminate(w)
      PROVE  UNCHANGED <<nextToWrite, broken>>
  BY <1>4, WorkerKeeps DEF MainStartup, MainTerminate
<1>5. CASE MainStartupFails \/ MainStart \/ MainRaise \/ MainStreamed \/ MainJoin
  BY <1>5 DEF MainStartupFails, MainStart, MainRaise, MainStreamed, MainJoin
<1>6. CASE MainPutEnd \/ MainClose \/ MainAbort \/ MainFinalise
  BY <1>6 DEF MainPutEnd, MainClose, MainAbort, MainFinalise
<1> QED
  BY <1>1, <1>2, <1>3, <1>4, <1>5, <1>6 DEF Next, Writer, Main

LEMMA OnTheWayStep == OrderInv /\ FrameOnce /\ KindInv /\ OnTheWay /\ [Next]_vars => OnTheWay'
<1> SUFFICES ASSUME OrderInv, FrameOnce, KindInv, OnTheWay, [Next]_vars, ~Failed', ~broken',
                    NEW f \in nextToWrite' .. frameIdx' - 1
             PROVE  \E s \in Moving' : mem'[s].frame = f
  BY DEF OnTheWay
<1>0. /\ TypeInv /\ SlotsExclusive /\ ~Failed /\ Kept /\ ~closed
      /\ frameIdx \in Nat /\ nextToWrite \in Nat
  BY FailedStep, MovingKept DEF OrderInv, TypeInv, TypeOK, CountType, Failed
<1>1. ~WriterBreaks /\ ~broken
  <2>1. WriterBreaks => broken'
    BY DEF WriterBreaks
  <2>2. WriterWrite => UNCHANGED broken
    BY DEF WriterWrite
  <2> QED
    BY <2>1, <2>2, NextMoves
<1>2. CASE f \in nextToWrite .. frameIdx - 1
  <2>1. PICK s \in Moving : mem[s].frame = f
    BY <1>0, <1>1, <1>2 DEF OnTheWay
  <2>2. mem'[s].frame = f
    BY <2>1, <1>0, MovingFrames
  <2>3. CASE WriterWrite
    <3>1. mem[wslot].frame = nextToWrite /\ nextToWrite' = nextToWrite + 1
      BY <2>3 DEF WriterWrite, OrderInv, Contents, WriteContent, SwappedFrame
    <3>2. s # wslot
      BY <2>1, <3>1, <1>0
    <3> QED
      BY <2>2, <3>2, <1>0 DEF Kept
  <2>4. CASE ~WriterWrite
    BY <2>2, <2>4, <1>0, <1>1 DEF Kept, WriterGivesBack
  <2> QED
    BY <2>3, <2>4
<1>3. CASE f \notin nextToWrite .. frameIdx - 1
  <2>1. DemuxSend /\ f = frameIdx
    <3>1. nextToWrite' = nextToWrite \/ nextToWrite' = nextToWrite + 1
      BY NextMoves, <1>1 DEF WriterWrite
    <3>2. UNCHANGED frameIdx \/ (DemuxSend /\ frameIdx' = frameIdx + 1)
      BY FrameIdxMoves, <1>0 DEF DemuxSend
    <3> QED
      BY <3>1, <3>2, <1>0, <1>3
  <2>2. dslot \in Moving'
    BY <2>1, <1>0, SentMoves
  <2>3. mem'[dslot].frame = frameIdx
    BY <2>1 DEF DemuxSend, poolVars, OrderInv, Contents, SendContent
  <2> QED
    BY <2>1, <2>2, <2>3
<1> QED
  BY <1>2, <1>3

LEMMA AheadStep == OrderInv /\ FrameOnce /\ Ahead /\ [Next]_vars => Ahead'
<1> SUFFICES ASSUME OrderInv, FrameOnce, Ahead, [Next]_vars PROVE Ahead'
  OBVIOUS
<1>0. /\ TypeInv /\ SlotsExclusive /\ frameIdx \in Nat /\ nextToWrite \in Nat
      /\ Moving \subseteq Slots /\ \A s \in Slots : mem[s].frame \in Int
  BY MovingTypes, ConstantsAssumption
  DEF OrderInv, TypeInv, TypeOK, CountType, PoolType, Pixels, Frames
<1>1. \A s \in Moving : mem'[s].frame = mem[s].frame
  BY <1>0, MovingFrames
<1>2. CASE WriterWrite
  <2>1. /\ mem[wslot].frame = nextToWrite /\ nextToWrite' = nextToWrite + 1
        /\ UNCHANGED <<frameIdx, inQ, outQ, work, done>> /\ wslot' = NoSlot
        /\ wslot \in WriterSlots
    BY <1>2, <1>0, ConstantsAssumption
    DEF WriterWrite, OrderInv, Contents, WriteContent, SwappedFrame, TypeInv, Places,
        WriterSlots, demuxVars, queueVars, workerVars, drainVars
  <2>2. Moving' \subseteq Moving /\ wslot \in Moving /\ wslot \notin Moving'
    <3>1. WriterSlots' = {}
      BY <2>1 DEF WriterSlots
    <3>2. UNCHANGED <<QueuedSlots, BusySlots, AnsweredSlots, DoneSlots>>
      BY <2>1, SameSlots
    <3> QED
      BY <2>1, <3>1, <3>2, <1>0 DEF Moving, InFlight, SlotsExclusive, PlacesDisjoint
  <2>3. nextToWrite < frameIdx
    BY <2>1, <2>2 DEF FrameOnce
  <2>4. ASSUME NEW s \in Moving' PROVE mem'[s].frame >= nextToWrite + 1
    <3>1. s \in Moving /\ mem[s].frame >= nextToWrite /\ mem[s].frame # nextToWrite
      BY <2>1, <2>2 DEF Ahead, FrameOnce
    <3> QED
      BY <3>1, <1>0, <1>1
  <2> QED
    BY <2>1, <2>3, <2>4, <1>0 DEF Ahead
<1>3. CASE UNCHANGED nextToWrite
  <2>1. CASE Moving' \subseteq Moving /\ UNCHANGED frameIdx
    BY <1>1, <1>3, <2>1 DEF Ahead
  <2>2. CASE DemuxSend /\ ~closed /\ Moving' \subseteq Moving \cup {dslot}
    <3>1. frameIdx' = frameIdx + 1 /\ mem'[dslot].frame = frameIdx
      BY <2>2 DEF DemuxSend, poolVars, OrderInv, Contents, SendContent
    <3> QED
      BY <1>0, <1>1, <1>3, <2>2, <3>1 DEF Ahead
  <2>3. \A w \in Workers : DrainReceive(w) => UNCHANGED frameIdx
    BY DEF DrainReceive, demuxVars
  <2> QED
    BY <1>0, <2>1, <2>2, <2>3, FlightStep
<1> QED
  BY <1>2, <1>3, NextMoves DEF WriterBreaks

LEMMA PhasesStep == TypeInv /\ JobInv /\ NoEnds /\ Phases /\ [Next]_vars => Phases'
<1> SUFFICES ASSUME TypeInv, JobInv, NoEnds, Phases, [Next]_vars PROVE Phases'
  OBVIOUS
<1> USE DEF poolVars, queueVars, workerVars, demuxVars, drainVars, writerVars, mainVars,
            flagVars, encVars
<1> DEFINE Rest == /\ main' = "watch" => demux' # "off" /\ drain' # "off" /\ writer' # "off"
                   /\ broken' => writer' = "exit"
                   /\ demux' = "exit" => allDispatched'
                   /\ ~closed' /\ demux' # "send" => dispatched' = frameIdx'
<1>types. /\ main = "startup" => demux = "off" /\ drain = "off" /\ writer = "off"
          /\ DOMAIN wstate = Workers /\ inQ \in Seq(Request)
  BY DEF TypeInv, TypeOK, ThreadType, QueueType, Places
<1>1. ASSUME main' \in Before, NEW w \in Workers PROVE wstate'[w] # "exited"
  <2>1. main \in Before /\ wstate[w] # "exited"
    BY <1>1, MainMoves DEF Phases
  <2>2. ASSUME NEW v \in Workers, Worker(v) \/ MainTerminate(v)
        PROVE  \E p : p # "exited" /\ wstate' = [wstate EXCEPT ![v] = p]
    <3>1. CASE WorkerTake(v)
      <4>1. Head(inQ) # End
        BY <3>1, <2>1, <1>types DEF WorkerTake, NoEnds
      <4> QED
        BY <3>1, <4>1 DEF WorkerTake
    <3>2. CASE WorkerReady(v) \/ WorkerFatal(v) \/ WorkerCrash(v) \/ MainTerminate(v)
      BY <3>2 DEF WorkerReady, WorkerFatal, WorkerCrash, MainTerminate
    <3>3. CASE WorkerSwap(v) \/ WorkerFrameError(v)
      BY <3>3 DEF WorkerSwap, WorkerFrameError
    <3> QED
      BY <2>2, <3>1, <3>2, <3>3 DEF Worker
  <2> QED
    BY <2>1, <2>2, <1>types, WorkerMoves
<1>drain. drain # "off" => drain' # "off"
  <2>1. ASSUME Drain, drain # "off" PROVE drain' # "off"
    BY <2>1 DEF Drain, DrainReceive, DrainTimeout
  <2> QED
    BY <2>1, DrainMoves
<1> USE DEF Phases, JobInv, DemuxProgress, MainOrder
<1>2. ASSUME Routes \/ FfmpegDies \/ AllOver \/ UNCHANGED vars PROVE Rest
  BY <1>2 DEF Routes, PauseJob, ResumeJob, StopJob, FfmpegDies, AllOver, vars
<1>3. ASSUME NEW w \in Workers, Worker(w) PROVE Rest
  BY <1>3, <1>drain, WorkerKeeps
<1>4. ASSUME DemuxCheck \/ DemuxQuitsPaused \/ DemuxRead \/ DemuxGivesUp \/ DemuxFillRaises
           \/ DemuxSendRefused
      PROVE  Rest
  BY <1>4 DEF DemuxCheck, DemuxQuitsPaused, DemuxRead, DemuxGivesUp, DemuxFillRaises,
     DemuxSendRefused, DemuxLeaves
<1>5. ASSUME DemuxAcquire \/ DemuxFill PROVE Rest
  BY <1>5 DEF DemuxAcquire, DemuxFill
<1>6. ASSUME DemuxSend PROVE Rest
  BY <1>6 DEF DemuxSend, DemuxLeaves
<1>7. ASSUME Drain PROVE Rest
  <2>1. UNCHANGED <<demuxVars, writerVars, mainVars>>
    BY <1>7, DrainKeeps
  <2> QED
    BY <2>1, <1>drain
<1>8. ASSUME Writer PROVE Rest
  BY <1>8 DEF Writer, WriterStops, WriterTake, WriterFinishes, WriterWrite, WriterBreaks
<1>9. ASSUME NEW w \in Workers, MainStartup(w) \/ MainTerminate(w) PROVE Rest
  BY <1>9 DEF MainStartup, MainTerminate, Raises
<1>10. ASSUME MainStart PROVE Rest
  <2>1. /\ demux' = "check" /\ drain' = "run" /\ writer' = "poll" /\ demux = "off"
        /\ writer = "off" /\ UNCHANGED <<dispatched, frameIdx, closed, broken>>
    BY <1>10, <1>types DEF MainStart
  <2> QED
    BY <2>1
<1>11. ASSUME MainStartupFails \/ MainRaise \/ MainStreamed \/ MainJoin \/ MainPutEnd \/ MainClose
            \/ MainAbort \/ MainFinalise
      PROVE  Rest
  <2>1. /\ UNCHANGED <<demuxVars, drain, writerVars>> /\ (closed => closed')
        /\ main' = "watch" => main = "watch"
    BY <1>11 DEF MainStartupFails, MainRaise, MainStreamed, MainJoin, Raises, MainPutEnd,
       MainClose, MainAbort, MainFinalise
  <2> QED
    BY <2>1
<1>12. Rest
  BY <1>2, <1>3, <1>4, <1>5, <1>6, <1>7, <1>8, <1>9, <1>10, <1>11 DEF Next, Demux, Main
<1> QED
  BY <1>1, <1>12

\* All that the argument below needs to know of a reachable state.
MovesInv ==
  /\ OrderInv /\ JobInv /\ NoEnds /\ Phases
  /\ Outstanding /\ DrainInv
  /\ FrameOnce /\ KindInv /\ OnTheWay /\ Ahead
  /\ Excused \/ Slots \subseteq Accounted

LEMMA InitMoves == Init => MovesInv
<1> SUFFICES ASSUME Init PROVE MovesInv
  OBVIOUS
<1>1. OrderInv /\ JobInv
  BY InitTypeInv, InitSlots, InitContents, InitJobInv DEF OrderInv
<1>2. /\ InFlight = {} /\ Moving = {} /\ Slots \subseteq Accounted
      /\ frameIdx = 0 /\ collected = 0 /\ nextToWrite = 0 /\ drain = "off"
  BY DEF Init, Moving, InFlight, QueuedSlots, BusySlots, AnsweredSlots, DoneSlots, WriterSlots,
     SlotsIn, NoWork, End, Accounted, DemuxSlots
<1>3. NoEnds /\ Phases /\ KindInv
  BY DEF Init, NoEnds, Phases, KindInv, StartupQuiet, AnswerKinds
<1>4. Outstanding /\ DrainInv /\ FrameOnce /\ OnTheWay /\ Ahead
  BY <1>2, FS_EmptySet DEF Outstanding, DrainInv, FrameOnce, OnTheWay, Ahead
<1> QED
  BY <1>1, <1>2, <1>3, <1>4 DEF MovesInv

LEMMA MovesStep == MovesInv /\ [Next]_vars => MovesInv'
<1> SUFFICES ASSUME MovesInv, [Next]_vars PROVE MovesInv'
  OBVIOUS
<1> USE DEF MovesInv
<1>1. OrderInv' /\ JobInv'
  BY TypeInvStep, SlotsStep, ContentsStep, JobInvStep DEF OrderInv
<1>2. NoEnds' /\ Phases' /\ Outstanding' /\ DrainInv'
  BY NoEndsStep, PhasesStep, OutstandingStep, DrainStep DEF OrderInv
<1>3. FrameOnce' /\ KindInv' /\ OnTheWay' /\ Ahead'
  BY FrameOnceStep, StartupQuietStep, AnswerKindsStep, OnTheWayStep, AheadStep
  DEF OrderInv, KindInv
<1>4. Excused' \/ Slots \subseteq Accounted'
  BY ExcusedStep, AccountedStep DEF OrderInv
<1> QED
  BY <1>1, <1>2, <1>3, <1>4

\* When workers, drainer and main have nothing to do, nothing has failed and every frame
\* on its way is in the reorder buffer.
LEMMA AllFiled ==
  ASSUME MovesInv, main = "watch", ~MainCanGoOn, ~DrainCanGoOn, writer = "poll",
         \A w \in Workers : ~WorkerCanGoOn(w)
  PROVE  ~Failed /\ Moving = DoneSlots
<1>1. \A w \in Workers : wstate[w] = "idle" /\ inQ = <<>>
  <2> SUFFICES ASSUME NEW w \in Workers PROVE wstate[w] = "idle" /\ inQ = <<>>
    OBVIOUS
  <2>1. wstate[w] \in {"loading", "idle", "busy", "exited", "dead"}
    BY DEF MovesInv, OrderInv, TypeInv, TypeOK, ThreadType
  <2>2. wstate[w] # "dead" /\ wstate[w] # "exited"
    BY DEF MainCanGoOn, SomeWorkerDied, MovesInv, Phases, Before
  <2> QED
    BY <2>1, <2>2 DEF WorkerCanGoOn
<1>2. inQ = <<>> /\ QueuedSlots = {}
  BY <1>1, ConstantsAssumption DEF QueuedSlots, SlotsIn
<1>3. BusySlots = {} /\ WriterSlots = {}
  BY <1>1 DEF MovesInv, OrderInv, TypeInv, Places, BusySlots, WriterSlots, NoWork, End
<1>4. ~workerError /\ ~SomeWorkerDied /\ ~closed
  BY DEF MainCanGoOn, MovesInv, JobInv, MainOrder
<1>5. AnsweredSlots = {}
  <2>1. CASE drain = "run"
    <3>1. \A w \in Workers : outQ[w] = <<>>
      BY <2>1 DEF DrainCanGoOn
    <3> QED
      BY <3>1 DEF AnsweredSlots, SlotsIn
  <2>2. CASE drain = "exit"
    BY <2>2, <1>4 DEF MovesInv, DrainInv, InFlight
  <2> QED
    BY <2>1, <2>2 DEF MovesInv, Phases, OrderInv, TypeInv, TypeOK, ThreadType
<1>6. ~ErrorAnswered
  <2> SUFFICES ASSUME NEW w \in Workers, NEW i \in DOMAIN outQ[w], outQ[w][i].error PROVE FALSE
    BY DEF ErrorAnswered
  <2>1. Kind(w, outQ[w][i])
    BY DEF MovesInv, KindInv, AnswerKinds
  <2>2. outQ[w][i].slot # NoSlot
    BY <2>1, <1>4 DEF Kind, SomeWorkerDied
  <2>3. outQ[w][i].slot \in AnsweredSlots
    BY <2>2 DEF AnsweredSlots, SlotsIn
  <2> QED
    BY <2>3, <1>5
<1> QED
  BY <1>2, <1>3, <1>4, <1>5, <1>6 DEF Failed, Moving, InFlight

\* When the writer has nothing to write either, no frame is on its way and it has passed
\* on all that demux sent.
LEMMA NothingMoving ==
  ASSUME MovesInv, ~Failed, Moving = DoneSlots, writer = "poll", ~WriterCanGoOn
  PROVE  Moving = {} /\ nextToWrite >= frameIdx
<1>0. frameIdx \in Nat /\ nextToWrite \in Nat /\ ~broken
  BY DEF MovesInv, OrderInv, TypeInv, TypeOK, CountType, Phases
<1>1. ASSUME NEW s \in Moving, mem[s].frame = nextToWrite PROVE FALSE
  <2>1. PICK f \in Frames : s = done[f] /\ done[f] # NoSlot
    BY DEF DoneSlots
  <2>2. mem[s].frame = f
    <3>1. mem[done[f]] = SwappedFrame(f)
      BY <2>1 DEF MovesInv, OrderInv, Contents, DoneContent
    <3> QED
      BY <2>1, <3>1 DEF SwappedFrame
  <2> QED
    BY <1>1, <2>1, <2>2 DEF WriterCanGoOn
<1>2. nextToWrite >= frameIdx
  <2> SUFFICES ASSUME nextToWrite < frameIdx PROVE FALSE
    BY <1>0
  <2>1. nextToWrite \in nextToWrite .. frameIdx - 1
    BY <1>0
  <2> QED
    BY <2>1, <1>0, <1>1 DEF MovesInv, OnTheWay
<1>3. ASSUME NEW s \in Moving PROVE FALSE
  <2>1. s \in Slots
    BY MovingTypes DEF MovesInv, OrderInv
  <2>2. mem[s].frame \in Int
    BY <2>1, ConstantsAssumption
    DEF MovesInv, OrderInv, TypeInv, TypeOK, PoolType, Pixels, Frames
  <2>3. mem[s].frame < frameIdx /\ mem[s].frame >= nextToWrite
    BY DEF MovesInv, FrameOnce, Ahead
  <2> QED
    BY <2>2, <2>3, <1>0, <1>2
<1> QED
  BY <1>2, <1>3

\* Then demux has a free slot to take, or has ended and the writer sees that it may.
LEMMA SomebodyMoves == MovesInv => SomebodyGoesOn
<1> SUFFICES ASSUME MovesInv, main = "watch", ~DemuxCanGoOn, ~DrainCanGoOn, ~WriterCanGoOn,
                    ~MainCanGoOn, \A w \in Workers : ~WorkerCanGoOn(w),
                    ~(demux = "pause" /\ pauseFlag)
             PROVE  FALSE
  BY DEF SomebodyGoesOn
<1>1. writer = "poll"
  BY DEF WriterCanGoOn, MainCanGoOn, MovesInv, Phases, OrderInv, TypeInv, TypeOK, ThreadType
<1>2. ~Failed /\ Moving = DoneSlots
  BY <1>1, AllFiled
<1>3. Moving = {} /\ nextToWrite >= frameIdx
  BY <1>1, <1>2, NothingMoving
<1>4. demux \in {"acquire", "send", "exit"}
  BY DEF DemuxCanGoOn, MovesInv, Phases, OrderInv, TypeInv, TypeOK, ThreadType
<1>5. CASE demux = "acquire"
  <2>1. free = {} /\ DemuxSlots = {} /\ ~Excused
    BY <1>2, <1>5
    DEF DemuxCanGoOn, DemuxSlots, Excused, DemuxCut, MovesInv, OrderInv, TypeInv, Places
  <2> QED
    BY <1>3, <2>1, ConstantsAssumption DEF MovesInv, Accounted, Moving, InFlight
<1>6. CASE demux = "send"
  BY <1>6, QueueRoom DEF DemuxCanGoOn, MovesInv, OrderInv, Before
<1>7. CASE demux = "exit"
  <2>1. allDispatched /\ dispatched = frameIdx
    BY <1>2, <1>7 DEF MovesInv, Phases, Failed
  <2> QED
    BY <1>1, <1>3, <2>1 DEF WriterCanGoOn, AllWritten
<1> QED
  BY <1>4, <1>5, <1>6, <1>7

\* While a job streams some thread or worker can always go on, whatever has failed: demux
\* never starves for the slots of frames that only the writer could give back, and nobody
\* waits for somebody who has left; only a pause keeps them all waiting.
THEOREM StreamMoves == Spec => []SomebodyGoesOn
<1>1. Init => MovesInv
  BY InitMoves
<1>2. MovesInv /\ [Next]_vars => MovesInv'
  BY MovesStep
<1>3. MovesInv => SomebodyGoesOn
  BY SomebodyMoves
<1> QED
  BY <1>1, <1>2, <1>3, PTL DEF Spec
================================================================================
