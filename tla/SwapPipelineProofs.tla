--------------------------- MODULE SwapPipelineProofs ---------------------------
(***************************************************************************)
(* Proofs about SwapPipeline, for any number of frames, slots and workers  *)
(* and any set of events. First the types: TypeOK is not inductive by      *)
(* itself, for a frame number stays below NumFrames and a slot is a real   *)
(* one only at certain places of a thread's loop; Places says which. Then  *)
(* the slots: none of the shared memory is ever in two places, and         *)
(* therefore what a frame's slot holds is not disturbed on its way to the  *)
(* encoder, which receives the frames in order.                            *)
(***************************************************************************)
EXTENDS SwapPipeline, FiniteSetTheorems, TLAPS

-------------------------------------------------------------------------------
(* Types *)

\* What the threads and workers have in hand at each place of their loops.
Places ==
  /\ main = "startup" => demux = "off" /\ drain = "off" /\ writer = "off"
  /\ demux \in {"acquire", "fill", "send"} => frameIdx < NumFrames
  /\ IF demux \in {"fill", "send"} THEN dslot \in Slots ELSE dslot = NoSlot
  /\ IF writer = "write" THEN wslot \in Slots /\ nextToWrite < NumFrames ELSE wslot = NoSlot
  /\ \A w \in Workers : IF wstate[w] = "busy" THEN work[w] \in [frame : Frames, slot : Slots]
                        ELSE work[w] = NoWork

TypeInv == TypeOK /\ Places

\* The messages the actions build are requests and answers.
LEMMA MessageTypes ==
  /\ End \in Request /\ NoWork \in Request
  /\ \A f \in Frames, t \in Slots : [frame |-> f, slot |-> t] \in Request
  /\ \A r \in Request : r # End => r \in [frame : Frames, slot : Slots]
  /\ Answer(-2, NoSlot, FALSE) \in Response
  /\ \A e \in BOOLEAN : Answer(-1, NoSlot, e) \in Response
  /\ \A r \in [frame : Frames, slot : Slots], e \in BOOLEAN :
       Answer(r.frame, r.slot, e) \in Response
  BY DEF Request, End, NoWork, Response, Answer

LEMMA PixelTypes ==
  /\ \A f \in Frames, b \in BOOLEAN : [frame |-> f, swapped |-> b] \in Pixels
  /\ \A p \in Pixels, b \in BOOLEAN : [p EXCEPT !.swapped = b] \in Pixels
  BY DEF Pixels

\* Sending an answer, or a request, keeps the queues well typed.
LEMMA SendAnswer ==
  ASSUME outQ \in [Workers -> Seq(Response)], NEW w \in Workers, NEW m \in Response
  PROVE  [outQ EXCEPT ![w] = Append(@, m)] \in [Workers -> Seq(Response)]
<1>1. Append(outQ[w], m) \in Seq(Response)
  OBVIOUS
<1> QED
  BY <1>1

LEMMA SendRequest ==
  ASSUME inQ \in Seq(Request), NEW r \in Request
  PROVE  Append(inQ, r) \in Seq(Request)
  OBVIOUS

LEMMA InitTypeInv == Init => TypeInv
<1> SUFFICES ASSUME Init PROVE TypeInv
  OBVIOUS
<1>1. endsLeft \in 0 .. Cardinality(Workers)
  BY ConstantsAssumption, FS_CardinalityType DEF Init
<1>2. frameIdx \in 0 .. NumFrames /\ dispatched \in 0 .. NumFrames /\ nextToWrite \in 0 .. NumFrames
  BY ConstantsAssumption DEF Init
<1>3. mem \in [Slots -> Pixels] /\ done \in [Frames -> Slots \cup {NoSlot}]
  BY DEF Init, Pixels
<1>4. inQ \in Seq(Request) /\ outQ \in [Workers -> Seq(Response)] /\ output \in Seq(Pixels)
  BY DEF Init
<1>5. work \in [Workers -> Request]
  BY DEF Init, Request, NoWork, End
<1>6. TypeOK
  BY <1>1, <1>2, <1>3, <1>4, <1>5 DEF Init, TypeOK, PoolType, QueueType, ThreadType, CountType,
     FlagType
<1>7. Places
  BY DEF Init, Places
<1> QED
  BY <1>6, <1>7 DEF TypeInv

\* Every step keeps the types and what the threads have in hand.
LEMMA TypeInvStep == TypeInv /\ [Next]_vars => TypeInv'
<1> SUFFICES ASSUME TypeInv, [Next]_vars PROVE TypeInv'
  OBVIOUS
<1> USE DEF TypeInv, TypeOK, poolVars, queueVars, workerVars, demuxVars, drainVars, writerVars,
            mainVars, flagVars, encVars
<1>1. CASE PauseJob
  <2>1. PoolType' /\ QueueType' /\ ThreadType' /\ CountType' /\ output' \in Seq(Pixels) /\ Places'
    BY <1>1 DEF PauseJob, PoolType, QueueType, ThreadType, CountType, Places
  <2>2. FlagType'
    BY <1>1 DEF PauseJob, FlagType
  <2> QED
    BY <2>1, <2>2
<1>2. CASE ResumeJob
  <2>1. PoolType' /\ QueueType' /\ ThreadType' /\ CountType' /\ output' \in Seq(Pixels) /\ Places'
    BY <1>2 DEF ResumeJob, PoolType, QueueType, ThreadType, CountType, Places
  <2>2. FlagType'
    BY <1>2 DEF ResumeJob, FlagType
  <2> QED
    BY <2>1, <2>2
<1>3. CASE StopJob
  <2>1. PoolType' /\ QueueType' /\ ThreadType' /\ CountType' /\ output' \in Seq(Pixels) /\ Places'
    BY <1>3 DEF StopJob, PoolType, QueueType, ThreadType, CountType, Places
  <2>2. FlagType'
    BY <1>3 DEF StopJob, FlagType
  <2> QED
    BY <2>1, <2>2
<1>4. ASSUME NEW w \in Workers, WorkerReady(w) PROVE TypeInv'
  <2>1. PoolType' /\ CountType' /\ FlagType' /\ output' \in Seq(Pixels)
    BY <1>4 DEF WorkerReady, PoolType, CountType, FlagType
  <2>2. QueueType'
    <3>1. Answer(-2, NoSlot, FALSE) \in Response
      BY MessageTypes
    <3>2. outQ' \in [Workers -> Seq(Response)]
      BY <1>4, <3>1, SendAnswer DEF WorkerReady, QueueType
    <3> QED
      BY <1>4, <3>2 DEF WorkerReady, QueueType
  <2>3. ThreadType'
    BY <1>4 DEF WorkerReady, ThreadType
  <2>4. Places'
    BY <1>4 DEF WorkerReady, Places, ThreadType, CountType
  <2> QED
    BY <2>1, <2>2, <2>3, <2>4
<1>5. ASSUME NEW w \in Workers, WorkerFatal(w) PROVE TypeInv'
  <2>1. PoolType' /\ CountType' /\ FlagType' /\ output' \in Seq(Pixels)
    BY <1>5 DEF WorkerFatal, PoolType, CountType, FlagType
  <2>2. QueueType'
    <3>1. Answer(-1, NoSlot, TRUE) \in Response
      BY MessageTypes
    <3>2. outQ' \in [Workers -> Seq(Response)]
      BY <1>5, <3>1, SendAnswer DEF WorkerFatal, QueueType
    <3> QED
      BY <1>5, <3>2 DEF WorkerFatal, QueueType
  <2>3. ThreadType'
    BY <1>5 DEF WorkerFatal, ThreadType
  <2>4. Places'
    BY <1>5 DEF WorkerFatal, Places, ThreadType, CountType
  <2> QED
    BY <2>1, <2>2, <2>3, <2>4
<1>6. ASSUME NEW w \in Workers, WorkerCrash(w) PROVE TypeInv'
  <2>1. PoolType' /\ CountType' /\ FlagType' /\ output' \in Seq(Pixels)
    BY <1>6 DEF WorkerCrash, WorkerGone, PoolType, CountType, FlagType
  <2>2. QueueType'
    <3>1. \A k \in 0 .. Len(outQ[w]) : SubSeq(outQ[w], 1, k) \in Seq(Response)
      BY DEF QueueType
    <3> QED
      BY <1>6, <3>1, MessageTypes DEF WorkerCrash, WorkerGone, QueueType
  <2>3. ThreadType'
    BY <1>6 DEF WorkerCrash, WorkerGone, ThreadType
  <2>4. Places'
    BY <1>6 DEF WorkerCrash, WorkerGone, Places, ThreadType, QueueType
  <2> QED
    BY <2>1, <2>2, <2>3, <2>4
<1>7. ASSUME NEW w \in Workers, WorkerTake(w) PROVE TypeInv'
  <2>1. PoolType' /\ CountType' /\ FlagType' /\ output' \in Seq(Pixels)
    BY <1>7 DEF WorkerTake, PoolType, CountType, FlagType
  <2>2. QueueType'
    <3>1. Head(inQ) \in Request /\ Tail(inQ) \in Seq(Request)
      BY <1>7 DEF WorkerTake, QueueType
    <3>2. Answer(-1, NoSlot, FALSE) \in Response
      BY MessageTypes
    <3>3. outQ' \in [Workers -> Seq(Response)]
      <4>1. CASE Head(inQ) = End
        <5>1. outQ' = [outQ EXCEPT ![w] = Append(@, Answer(-1, NoSlot, FALSE))]
          BY <1>7, <4>1 DEF WorkerTake
        <5> QED
          BY <5>1, <3>2, SendAnswer DEF QueueType
      <4>2. CASE Head(inQ) # End
        BY <1>7, <4>2 DEF WorkerTake, QueueType
      <4> QED
        BY <4>1, <4>2
    <3>4. work' \in [Workers -> Request]
      BY <1>7, <3>1 DEF WorkerTake, QueueType
    <3>5. inQ' \in Seq(Request) /\ done' \in [Frames -> Slots \cup {NoSlot}]
      BY <1>7, <3>1 DEF WorkerTake, QueueType
    <3> QED
      BY <3>3, <3>4, <3>5 DEF QueueType
  <2>3. ThreadType'
    <3>1. \E p \in {"busy", "exited"} : wstate' = [wstate EXCEPT ![w] = p]
      BY <1>7 DEF WorkerTake
    <3>2. wstate' \in [Workers -> {"loading", "idle", "busy", "exited", "dead"}]
      BY <3>1 DEF ThreadType
    <3>3. UNCHANGED <<demux, drain, writer, main, ffmpeg, dslot, wslot, ready>>
      BY <1>7 DEF WorkerTake
    <3> QED
      BY <3>2, <3>3 DEF ThreadType
  <2>4. Places'
    <3>1. Head(inQ) \in Request
      BY <1>7 DEF WorkerTake, QueueType
    <3> QED
      BY <1>7, <3>1, MessageTypes DEF WorkerTake, Places, ThreadType, QueueType
  <2> QED
    BY <2>1, <2>2, <2>3, <2>4
<1>8. ASSUME NEW w \in Workers, WorkerSwap(w) PROVE TypeInv'
  <2>1. CountType' /\ FlagType' /\ output' \in Seq(Pixels)
    BY <1>8 DEF WorkerSwap, CountType, FlagType
  <2>2. PoolType'
    <3>1. work[w] \in [frame : Frames, slot : Slots]
      BY <1>8 DEF WorkerSwap, Places
    <3>2. work[w].slot \in Slots
      BY <3>1
    <3> QED
      BY <1>8, <3>2, PixelTypes DEF WorkerSwap, PoolType
  <2>3. QueueType'
    <3>1. work[w] \in [frame : Frames, slot : Slots]
      BY <1>8 DEF WorkerSwap, Places
    <3>2. Answer(work[w].frame, work[w].slot, FALSE) \in Response
      BY <3>1, MessageTypes
    <3>3. outQ' \in [Workers -> Seq(Response)]
      BY <1>8, <3>2, SendAnswer DEF WorkerSwap, QueueType
    <3>4. work' \in [Workers -> Request]
      BY <1>8, MessageTypes DEF WorkerSwap, QueueType
    <3> QED
      BY <1>8, <3>3, <3>4 DEF WorkerSwap, QueueType
  <2>4. ThreadType'
    BY <1>8 DEF WorkerSwap, ThreadType
  <2>5. Places'
    BY <1>8 DEF WorkerSwap, Places, ThreadType, QueueType
  <2> QED
    BY <2>1, <2>2, <2>3, <2>4, <2>5
<1>9. ASSUME NEW w \in Workers, WorkerFrameError(w) PROVE TypeInv'
  <2>1. CountType' /\ FlagType' /\ output' \in Seq(Pixels)
    BY <1>9 DEF WorkerFrameError, CountType, FlagType
  <2>2. PoolType'
    <3>1. work[w] \in [frame : Frames, slot : Slots]
      BY <1>9 DEF WorkerFrameError, Places
    <3>2. work[w].slot \in Slots
      BY <3>1
    <3> QED
      BY <1>9, <3>2, PixelTypes DEF WorkerFrameError, PoolType
  <2>3. QueueType'
    <3>1. work[w] \in [frame : Frames, slot : Slots]
      BY <1>9 DEF WorkerFrameError, Places
    <3>2. Answer(work[w].frame, work[w].slot, TRUE) \in Response
      BY <3>1, MessageTypes
    <3>3. outQ' \in [Workers -> Seq(Response)]
      BY <1>9, <3>2, SendAnswer DEF WorkerFrameError, QueueType
    <3>4. work' \in [Workers -> Request]
      BY <1>9, MessageTypes DEF WorkerFrameError, QueueType
    <3> QED
      BY <1>9, <3>3, <3>4 DEF WorkerFrameError, QueueType
  <2>4. ThreadType'
    BY <1>9 DEF WorkerFrameError, ThreadType
  <2>5. Places'
    BY <1>9 DEF WorkerFrameError, Places, ThreadType, QueueType
  <2> QED
    BY <2>1, <2>2, <2>3, <2>4, <2>5
<1>10. CASE DemuxCheck
  <2>1. PoolType' /\ QueueType' /\ CountType' /\ output' \in Seq(Pixels)
    BY <1>10 DEF DemuxCheck, DemuxLeaves, PoolType, QueueType, CountType
  <2>2. ThreadType'
    BY <1>10 DEF DemuxCheck, DemuxLeaves, ThreadType
  <2>3. FlagType'
    BY <1>10 DEF DemuxCheck, DemuxLeaves, FlagType
  <2>4. Places'
    BY <1>10 DEF DemuxCheck, DemuxLeaves, Places, ThreadType, CountType
  <2> QED
    BY <2>1, <2>2, <2>3, <2>4
<1>11. CASE DemuxQuitsPaused
  <2>1. PoolType' /\ QueueType' /\ CountType' /\ output' \in Seq(Pixels)
    BY <1>11 DEF DemuxQuitsPaused, DemuxLeaves, PoolType, QueueType, CountType
  <2>2. ThreadType'
    BY <1>11 DEF DemuxQuitsPaused, DemuxLeaves, ThreadType
  <2>3. FlagType'
    BY <1>11 DEF DemuxQuitsPaused, DemuxLeaves, FlagType
  <2>4. Places'
    BY <1>11 DEF DemuxQuitsPaused, DemuxLeaves, Places, ThreadType, CountType
  <2> QED
    BY <2>1, <2>2, <2>3, <2>4
<1>12. CASE DemuxRead
  <2>1. PoolType' /\ QueueType' /\ CountType' /\ output' \in Seq(Pixels)
    BY <1>12 DEF DemuxRead, DemuxLeaves, EndOfVideo, PoolType, QueueType, CountType
  <2>2. ThreadType'
    BY <1>12 DEF DemuxRead, DemuxLeaves, EndOfVideo, ThreadType
  <2>3. FlagType'
    BY <1>12 DEF DemuxRead, DemuxLeaves, EndOfVideo, FlagType
  <2>4. Places'
    BY <1>12, ConstantsAssumption DEF DemuxRead, DemuxLeaves, EndOfVideo, Places, ThreadType,
       CountType
  <2> QED
    BY <2>1, <2>2, <2>3, <2>4
<1>13. CASE DemuxGivesUp
  <2>1. PoolType' /\ QueueType' /\ CountType' /\ output' \in Seq(Pixels)
    BY <1>13 DEF DemuxGivesUp, DemuxLeaves, PoolType, QueueType, CountType
  <2>2. ThreadType'
    BY <1>13 DEF DemuxGivesUp, DemuxLeaves, ThreadType
  <2>3. FlagType'
    BY <1>13 DEF DemuxGivesUp, DemuxLeaves, FlagType
  <2>4. Places'
    BY <1>13 DEF DemuxGivesUp, DemuxLeaves, Places, ThreadType, CountType
  <2> QED
    BY <2>1, <2>2, <2>3, <2>4
<1>14. CASE DemuxAcquire
  <2>1. QueueType' /\ CountType' /\ FlagType' /\ output' \in Seq(Pixels)
    BY <1>14 DEF DemuxAcquire, FreeWithout, QueueType, CountType, FlagType
  <2>2. PoolType'
    BY <1>14 DEF DemuxAcquire, FreeWithout, PoolType
  <2>3. ThreadType'
    BY <1>14 DEF DemuxAcquire, FreeWithout, ThreadType, PoolType
  <2>4. Places'
    BY <1>14 DEF DemuxAcquire, FreeWithout, Places, ThreadType, PoolType
  <2> QED
    BY <2>1, <2>2, <2>3, <2>4
<1>15. CASE DemuxFill
  <2>1. QueueType' /\ FlagType' /\ output' \in Seq(Pixels)
    BY <1>15 DEF DemuxFill, QueueType, FlagType
  <2>2. PoolType'
    <3>1. frameIdx \in Frames
      BY <1>15, ConstantsAssumption DEF DemuxFill, Places, CountType, Frames
    <3> QED
      BY <1>15, <3>1, PixelTypes DEF DemuxFill, PoolType
  <2>3. ThreadType'
    BY <1>15 DEF DemuxFill, ThreadType
  <2>4. CountType'
    BY <1>15, ConstantsAssumption DEF DemuxFill, CountType, Places
  <2>5. Places'
    BY <1>15 DEF DemuxFill, Places, ThreadType, CountType
  <2> QED
    BY <2>1, <2>2, <2>3, <2>4, <2>5
<1>16. CASE DemuxFillRaises
  <2>1. PoolType' /\ QueueType' /\ CountType' /\ output' \in Seq(Pixels)
    BY <1>16 DEF DemuxFillRaises, DemuxLeaves, PoolType, QueueType, CountType
  <2>2. ThreadType'
    BY <1>16 DEF DemuxFillRaises, DemuxLeaves, ThreadType
  <2>3. FlagType'
    BY <1>16 DEF DemuxFillRaises, DemuxLeaves, FlagType
  <2>4. Places'
    BY <1>16 DEF DemuxFillRaises, DemuxLeaves, Places, ThreadType, CountType
  <2> QED
    BY <2>1, <2>2, <2>3, <2>4
<1>17. CASE DemuxSend
  <2>1. PoolType' /\ output' \in Seq(Pixels)
    BY <1>17 DEF DemuxSend, DemuxLeaves, PoolType
  <2>2. QueueType'
    <3>1. frameIdx \in Frames /\ dslot \in Slots
      BY <1>17, ConstantsAssumption DEF DemuxSend, DemuxLeaves, Places, CountType, Frames
    <3>2. [frame |-> frameIdx, slot |-> dslot] \in Request
      BY <3>1, MessageTypes
    <3>3. Append(inQ, [frame |-> frameIdx, slot |-> dslot]) \in Seq(Request)
      BY <3>2, SendRequest DEF QueueType
    <3>4. inQ' \in Seq(Request)
      BY <1>17, <3>3 DEF DemuxSend, DemuxLeaves, QueueType
    <3> QED
      BY <1>17, <3>4 DEF DemuxSend, DemuxLeaves, QueueType
  <2>3. ThreadType'
    BY <1>17 DEF DemuxSend, DemuxLeaves, ThreadType
  <2>4. CountType'
    BY <1>17, ConstantsAssumption DEF DemuxSend, DemuxLeaves, CountType, Places
  <2>5. FlagType'
    BY <1>17 DEF DemuxSend, DemuxLeaves, FlagType
  <2>6. Places'
    BY <1>17 DEF DemuxSend, DemuxLeaves, Places, ThreadType, CountType
  <2> QED
    BY <2>1, <2>2, <2>3, <2>4, <2>5, <2>6
<1>18. CASE DemuxSendRefused
  <2>1. PoolType' /\ QueueType' /\ CountType' /\ output' \in Seq(Pixels)
    BY <1>18 DEF DemuxSendRefused, DemuxLeaves, PoolType, QueueType, CountType
  <2>2. ThreadType'
    BY <1>18 DEF DemuxSendRefused, DemuxLeaves, ThreadType
  <2>3. FlagType'
    BY <1>18 DEF DemuxSendRefused, DemuxLeaves, FlagType
  <2>4. Places'
    BY <1>18 DEF DemuxSendRefused, DemuxLeaves, Places, ThreadType, CountType
  <2> QED
    BY <2>1, <2>2, <2>3, <2>4
<1>19. ASSUME NEW w \in Workers, DrainReceive(w) PROVE TypeInv'
  <2>1. PoolType' /\ output' \in Seq(Pixels)
    BY <1>19 DEF DrainReceive, DoneKey, PoolType
  <2>2. QueueType'
    <3> DEFINE r == Head(outQ[w])
    <3>1. r \in Response /\ Tail(outQ[w]) \in Seq(Response)
      BY <1>19 DEF DrainReceive, DoneKey, QueueType
    <3>2. r.slot \in Slots \cup {NoSlot}
      BY <3>1 DEF Response
    <3>3. outQ' \in [Workers -> Seq(Response)]
      BY <1>19, <3>1 DEF DrainReceive, DoneKey, QueueType
    <3>4. done' \in [Frames -> Slots \cup {NoSlot}]
      BY <1>19, <3>2 DEF DrainReceive, DoneKey, QueueType
    <3> QED
      BY <1>19, <3>3, <3>4 DEF DrainReceive, DoneKey, QueueType
  <2>3. ThreadType'
    BY <1>19 DEF DrainReceive, DoneKey, ThreadType
  <2>4. CountType'
    BY <1>19 DEF DrainReceive, DoneKey, CountType
  <2>5. FlagType'
    BY <1>19 DEF DrainReceive, DoneKey, FlagType
  <2>6. Places'
    BY <1>19 DEF DrainReceive, DoneKey, Places, ThreadType, CountType
  <2> QED
    BY <2>1, <2>2, <2>3, <2>4, <2>5, <2>6
<1>20. CASE DrainTimeout
  <2>1. PoolType' /\ QueueType' /\ CountType' /\ output' \in Seq(Pixels)
    BY <1>20 DEF DrainTimeout, PoolType, QueueType, CountType
  <2>2. ThreadType'
    BY <1>20 DEF DrainTimeout, ThreadType
  <2>3. FlagType'
    BY <1>20 DEF DrainTimeout, FlagType
  <2>4. Places'
    BY <1>20 DEF DrainTimeout, Places, ThreadType, CountType
  <2> QED
    BY <2>1, <2>2, <2>3, <2>4
<1>21. CASE WriterStops
  <2>1. PoolType' /\ QueueType' /\ CountType' /\ FlagType' /\ output' \in Seq(Pixels)
    BY <1>21 DEF WriterStops, PoolType, QueueType, CountType, FlagType
  <2>2. ThreadType'
    BY <1>21 DEF WriterStops, ThreadType
  <2>3. Places'
    BY <1>21 DEF WriterStops, Places, ThreadType, CountType
  <2> QED
    BY <2>1, <2>2, <2>3
<1>22. CASE WriterTake
  <2>1. PoolType' /\ CountType' /\ FlagType' /\ output' \in Seq(Pixels)
    BY <1>22 DEF WriterTake, PopDone, PoolType, CountType, FlagType
  <2>2. QueueType'
    BY <1>22 DEF WriterTake, PopDone, QueueType
  <2>3. ThreadType'
    BY <1>22 DEF WriterTake, PopDone, ThreadType, QueueType
  <2>4. Places'
    BY <1>22, ConstantsAssumption DEF WriterTake, PopDone, Places, ThreadType, QueueType,
       CountType, Frames
  <2> QED
    BY <2>1, <2>2, <2>3, <2>4
<1>23. CASE WriterFinishes
  <2>1. PoolType' /\ QueueType' /\ CountType' /\ FlagType' /\ output' \in Seq(Pixels)
    BY <1>23 DEF WriterFinishes, PoolType, QueueType, CountType, FlagType
  <2>2. ThreadType'
    BY <1>23 DEF WriterFinishes, ThreadType
  <2>3. Places'
    BY <1>23 DEF WriterFinishes, Places, ThreadType, CountType
  <2> QED
    BY <2>1, <2>2, <2>3
<1>24. CASE WriterWrite
  <2>1. QueueType' /\ FlagType'
    BY <1>24 DEF WriterWrite, QueueType, FlagType
  <2>2. PoolType'
    BY <1>24 DEF WriterWrite, PoolType, Places
  <2>3. ThreadType'
    BY <1>24 DEF WriterWrite, ThreadType
  <2>4. CountType'
    BY <1>24, ConstantsAssumption DEF WriterWrite, CountType, Places
  <2>5. output' \in Seq(Pixels)
    <3>1. mem[wslot] \in Pixels
      BY <1>24 DEF WriterWrite, PoolType, Places
    <3> QED
      BY <1>24, <3>1 DEF WriterWrite
  <2>6. Places'
    BY <1>24 DEF WriterWrite, Places, ThreadType, CountType
  <2> QED
    BY <2>1, <2>2, <2>3, <2>4, <2>5, <2>6
<1>25. CASE WriterBreaks
  <2>1. QueueType' /\ CountType' /\ output' \in Seq(Pixels)
    BY <1>25 DEF WriterBreaks, QueueType, CountType
  <2>2. PoolType'
    BY <1>25 DEF WriterBreaks, PoolType, Places
  <2>3. ThreadType'
    BY <1>25 DEF WriterBreaks, ThreadType
  <2>4. FlagType'
    BY <1>25 DEF WriterBreaks, FlagType
  <2>5. Places'
    BY <1>25 DEF WriterBreaks, Places, ThreadType, CountType
  <2> QED
    BY <2>1, <2>2, <2>3, <2>4, <2>5
<1>26. ASSUME NEW w \in Workers, MainStartup(w) PROVE TypeInv'
  <2>1. PoolType' /\ CountType' /\ output' \in Seq(Pixels)
    BY <1>26 DEF MainStartup, Raises, PoolType, CountType
  <2>2. QueueType'
    BY <1>26 DEF MainStartup, Raises, QueueType
  <2>3. ThreadType'
    BY <1>26 DEF MainStartup, Raises, ThreadType
  <2>4. FlagType'
    BY <1>26 DEF MainStartup, Raises, FlagType
  <2>5. Places'
    BY <1>26 DEF MainStartup, Raises, Places, ThreadType, CountType
  <2> QED
    BY <2>1, <2>2, <2>3, <2>4, <2>5
<1>27. ASSUME NEW w \in Workers, MainTerminate(w) PROVE TypeInv'
  <2>1. PoolType' /\ CountType' /\ FlagType' /\ output' \in Seq(Pixels)
    BY <1>27 DEF MainTerminate, WorkerGone, PoolType, CountType, FlagType
  <2>2. QueueType'
    BY <1>27, MessageTypes DEF MainTerminate, WorkerGone, QueueType
  <2>3. ThreadType'
    BY <1>27 DEF MainTerminate, WorkerGone, ThreadType
  <2>4. Places'
    BY <1>27 DEF MainTerminate, WorkerGone, Places, ThreadType, QueueType
  <2> QED
    BY <2>1, <2>2, <2>3, <2>4
<1>28. CASE MainStartupFails
  <2>1. PoolType' /\ QueueType' /\ CountType' /\ output' \in Seq(Pixels)
    BY <1>28 DEF MainStartupFails, Raises, PoolType, QueueType, CountType
  <2>2. ThreadType'
    BY <1>28 DEF MainStartupFails, Raises, ThreadType
  <2>3. FlagType'
    BY <1>28 DEF MainStartupFails, Raises, FlagType
  <2>4. Places'
    BY <1>28 DEF MainStartupFails, Raises, Places, ThreadType, CountType
  <2> QED
    BY <2>1, <2>2, <2>3, <2>4
<1>29. CASE MainStart
  <2>1. PoolType' /\ QueueType' /\ CountType' /\ FlagType' /\ output' \in Seq(Pixels)
    BY <1>29 DEF MainStart, PoolType, QueueType, CountType, FlagType
  <2>2. ThreadType'
    BY <1>29 DEF MainStart, ThreadType
  <2>3. Places'
    BY <1>29 DEF MainStart, Places, ThreadType, CountType
  <2> QED
    BY <2>1, <2>2, <2>3
<1>30. CASE MainRaise
  <2>1. PoolType' /\ QueueType' /\ CountType' /\ output' \in Seq(Pixels)
    BY <1>30 DEF MainRaise, Raises, PoolType, QueueType, CountType
  <2>2. ThreadType'
    BY <1>30 DEF MainRaise, Raises, ThreadType
  <2>3. FlagType'
    BY <1>30 DEF MainRaise, Raises, FlagType
  <2>4. Places'
    BY <1>30 DEF MainRaise, Raises, Places, ThreadType, CountType
  <2> QED
    BY <2>1, <2>2, <2>3, <2>4
<1>31. CASE MainStreamed
  <2>1. PoolType' /\ QueueType' /\ CountType' /\ FlagType' /\ output' \in Seq(Pixels)
    BY <1>31 DEF MainStreamed, PoolType, QueueType, CountType, FlagType
  <2>2. ThreadType'
    BY <1>31 DEF MainStreamed, ThreadType
  <2>3. Places'
    BY <1>31 DEF MainStreamed, Places, ThreadType, CountType
  <2> QED
    BY <2>1, <2>2, <2>3
<1>32. CASE MainJoin
  <2>1. PoolType' /\ QueueType' /\ CountType' /\ FlagType' /\ output' \in Seq(Pixels)
    BY <1>32 DEF MainJoin, PoolType, QueueType, CountType, FlagType
  <2>2. ThreadType'
    BY <1>32 DEF MainJoin, ThreadType
  <2>3. Places'
    BY <1>32 DEF MainJoin, Places, ThreadType, CountType
  <2> QED
    BY <2>1, <2>2, <2>3
<1>33. CASE MainPutEnd
  <2>1. PoolType' /\ ThreadType' /\ FlagType' /\ output' \in Seq(Pixels)
    BY <1>33 DEF MainPutEnd, PoolType, ThreadType, FlagType
  <2>2. QueueType'
    <3>1. Append(inQ, End) \in Seq(Request)
      BY MessageTypes, SendRequest DEF QueueType
    <3>2. inQ' \in Seq(Request)
      BY <1>33, <3>1 DEF MainPutEnd, QueueType
    <3> QED
      BY <1>33, <3>2 DEF MainPutEnd, QueueType
  <2>3. CountType'
    BY <1>33, ConstantsAssumption, FS_CardinalityType DEF MainPutEnd, CountType
  <2>4. Places'
    BY <1>33 DEF MainPutEnd, Places, ThreadType, CountType
  <2> QED
    BY <2>1, <2>2, <2>3, <2>4
<1>34. CASE MainClose
  <2>1. PoolType' /\ QueueType' /\ CountType' /\ output' \in Seq(Pixels)
    BY <1>34 DEF MainClose, PoolType, QueueType, CountType
  <2>2. ThreadType'
    BY <1>34 DEF MainClose, ThreadType
  <2>3. FlagType'
    BY <1>34 DEF MainClose, FlagType
  <2>4. Places'
    BY <1>34 DEF MainClose, Places, ThreadType, CountType
  <2> QED
    BY <2>1, <2>2, <2>3, <2>4
<1>35. CASE MainAbort
  <2>1. PoolType' /\ QueueType' /\ CountType' /\ FlagType' /\ output' \in Seq(Pixels)
    BY <1>35 DEF MainAbort, PoolType, QueueType, CountType, FlagType
  <2>2. ThreadType'
    BY <1>35 DEF MainAbort, ThreadType
  <2>3. Places'
    BY <1>35 DEF MainAbort, Places, ThreadType, CountType
  <2> QED
    BY <2>1, <2>2, <2>3
<1>36. CASE MainFinalise
  <2>1. PoolType' /\ QueueType' /\ CountType' /\ output' \in Seq(Pixels)
    BY <1>36 DEF MainFinalise, PoolType, QueueType, CountType
  <2>2. ThreadType'
    BY <1>36 DEF MainFinalise, ThreadType
  <2>3. FlagType'
    BY <1>36 DEF MainFinalise, FlagType
  <2>4. Places'
    BY <1>36 DEF MainFinalise, Places, ThreadType, CountType
  <2> QED
    BY <2>1, <2>2, <2>3, <2>4
<1>37. CASE FfmpegDies
  BY <1>37 DEF FfmpegDies, PoolType, QueueType, ThreadType, CountType, FlagType, Places
<1>38. CASE AllOver
  BY <1>38 DEF AllOver, vars, PoolType, QueueType, ThreadType, CountType, FlagType, Places
<1>39. CASE UNCHANGED vars
  BY <1>39 DEF vars, PoolType, QueueType, ThreadType, CountType, FlagType, Places
<1> QED
  BY <1>39, <1>1, <1>2, <1>3, <1>4, <1>5, <1>6, <1>7, <1>8, <1>9, <1>10, <1>11, <1>12, <1>13,
     <1>14, <1>15, <1>16, <1>17, <1>18, <1>19, <1>20, <1>21, <1>22, <1>23, <1>24, <1>25, <1>26,
     <1>27, <1>28, <1>29, <1>30, <1>31, <1>32, <1>33, <1>34, <1>35, <1>36, <1>37, <1>38
  DEF Next, Routes, Worker, Demux, Drain, Writer, Main

\* Whatever the number of frames, slots and workers: every request and answer is well
\* formed, every counter stays within the video and every thread at a place of its loop.
THEOREM TypeCorrect == Spec => []TypeOK
<1>1. TypeInv => TypeOK
  BY DEF TypeInv
<1> QED
  BY <1>1, InitTypeInv, TypeInvStep, PTL DEF Spec

-------------------------------------------------------------------------------
(* Slots carried by queues *)

\* Appending a message adds its slot.
LEMMA SlotsAppend ==
  ASSUME NEW S, NEW q \in Seq(S), NEW m \in S, Once(q), m.slot \notin SlotsIn(q)
  PROVE  /\ SlotsIn(Append(q, m)) = SlotsIn(q) \cup ({m.slot} \ {NoSlot})
         /\ Once(Append(q, m))
<1> DEFINE p == Append(q, m)
<1>1. DOMAIN p = DOMAIN q \cup {Len(q) + 1} /\ p[Len(q) + 1] = m /\ Len(q) + 1 \notin DOMAIN q
  OBVIOUS
<1>2. \A i \in DOMAIN q : p[i] = q[i]
  OBVIOUS
<1> HIDE DEF p
<1>3. SlotsIn(p) = SlotsIn(q) \cup ({m.slot} \ {NoSlot})
  BY <1>1, <1>2 DEF SlotsIn
<1>4. Once(p)
  BY <1>1, <1>2 DEF SlotsIn, Once
<1> QED
  BY <1>3, <1>4 DEF p

\* Taking the first message takes its slot.
LEMMA SlotsTail ==
  ASSUME NEW S, NEW q \in Seq(S), q # <<>>, Once(q)
  PROVE  /\ SlotsIn(Tail(q)) = SlotsIn(q) \ {Head(q).slot}
         /\ Once(Tail(q))
         /\ Head(q).slot \in SlotsIn(q) \cup {NoSlot}
<1> DEFINE p == Tail(q)
<1>1. Len(q) \in Nat /\ DOMAIN q = 1 .. Len(q) /\ Len(q) >= 1 /\ DOMAIN p = 1 .. Len(q) - 1
  OBVIOUS
<1>2. (\A i \in DOMAIN p : p[i] = q[i + 1]) /\ Head(q) = q[1]
  OBVIOUS
<1> HIDE DEF p
<1>3. \A i \in DOMAIN q : i # 1 => i - 1 \in DOMAIN p /\ p[i - 1] = q[i]
  BY <1>1, <1>2
<1>4. Once(p)
  BY <1>1, <1>2 DEF Once
<1>5. SlotsIn(p) = SlotsIn(q) \ {Head(q).slot}
  <2>1. ASSUME NEW x \in SlotsIn(p) PROVE x \in SlotsIn(q) \ {Head(q).slot}
    BY <1>1, <1>2 DEF SlotsIn, Once
  <2>2. ASSUME NEW x \in SlotsIn(q), x # Head(q).slot PROVE x \in SlotsIn(p)
    <3>1. PICK i \in DOMAIN q : x = q[i].slot
      BY <2>2 DEF SlotsIn
    <3>2. i - 1 \in DOMAIN p /\ p[i - 1].slot = x
      BY <3>1, <2>2, <1>2, <1>3
    <3> QED
      BY <3>2, <2>2 DEF SlotsIn
  <2> QED
    BY <2>1, <2>2
<1>6. Head(q).slot \in SlotsIn(q) \cup {NoSlot}
  BY <1>1, <1>2 DEF SlotsIn
<1> QED
  BY <1>4, <1>5, <1>6 DEF p

\* Losing the end of a queue adds no slot.
LEMMA SlotsSubSeq ==
  ASSUME NEW S, NEW q \in Seq(S), NEW k \in 0 .. Len(q), Once(q)
  PROVE  SlotsIn(SubSeq(q, 1, k)) \subseteq SlotsIn(q) /\ Once(SubSeq(q, 1, k))
<1> DEFINE p == SubSeq(q, 1, k)
<1>1. DOMAIN p \subseteq DOMAIN q /\ \A i \in DOMAIN p : p[i] = q[i]
  OBVIOUS
<1> HIDE DEF p
<1>2. SlotsIn(p) \subseteq SlotsIn(q) /\ Once(p)
  BY <1>1 DEF SlotsIn, Once
<1> QED
  BY <1>2 DEF p

-------------------------------------------------------------------------------
(* Slots carried by the workers, their answers and the reorder buffer *)

\* A worker that answers passes a slot no answer carries yet.
LEMMA AnswerSlots ==
  ASSUME TypeInv, AnsweredOnce, NEW w \in Workers, NEW m \in Response,
         m.slot \notin AnsweredSlots,
         outQ' = [outQ EXCEPT ![w] = Append(@, m)]
  PROVE  AnsweredSlots' = AnsweredSlots \cup ({m.slot} \ {NoSlot}) /\ AnsweredOnce'
<1>1. outQ \in [Workers -> Seq(Response)] /\ outQ[w] \in Seq(Response)
  BY DEF TypeInv, TypeOK, QueueType
<1>2. m.slot \notin SlotsIn(outQ[w]) /\ Once(outQ[w])
  BY DEF AnsweredSlots, AnsweredOnce
<1>3. /\ SlotsIn(outQ'[w]) = SlotsIn(outQ[w]) \cup ({m.slot} \ {NoSlot})
      /\ Once(outQ'[w])
  <2>1. outQ'[w] = Append(outQ[w], m)
    BY <1>1
  <2> QED
    BY <2>1, <1>1, <1>2, SlotsAppend
<1>4. \A v \in Workers : v # w => outQ'[v] = outQ[v]
  BY <1>1
<1>5. AnsweredSlots' = AnsweredSlots \cup ({m.slot} \ {NoSlot})
  <2>1. \A v \in Workers : v # w => SlotsIn(outQ'[v]) = SlotsIn(outQ[v])
    BY <1>4
  <2> QED
    BY <1>3, <2>1 DEF AnsweredSlots
<1>6. AnsweredOnce'
  <2>1. \A v \in Workers : v # w => SlotsIn(outQ'[v]) = SlotsIn(outQ[v]) /\ Once(outQ'[v])
    BY <1>4 DEF AnsweredOnce
  <2>2. \A u, v \in Workers : u # v => SlotsIn(outQ'[u]) \cap SlotsIn(outQ'[v]) = {}
    <3>1. \A v \in Workers : v # w => SlotsIn(outQ'[w]) \cap SlotsIn(outQ'[v]) = {}
      BY <1>3, <2>1 DEF AnsweredOnce, AnsweredSlots
    <3>2. \A u, v \in Workers : u # v /\ u # w /\ v # w
                               => SlotsIn(outQ'[u]) \cap SlotsIn(outQ'[v]) = {}
      BY <2>1 DEF AnsweredOnce
    <3> QED
      BY <3>1, <3>2
  <2> QED
    BY <1>3, <2>1, <2>2 DEF AnsweredOnce
<1> QED
  BY <1>5, <1>6

\* A queue of answers that loses some of its slots.
LEMMA AnswersShrink ==
  ASSUME TypeInv, AnsweredOnce, NEW w \in Workers, NEW q,
         SlotsIn(q) \subseteq SlotsIn(outQ[w]), Once(q),
         outQ' = [outQ EXCEPT ![w] = q]
  PROVE  /\ AnsweredSlots' \subseteq AnsweredSlots /\ AnsweredOnce'
         /\ AnsweredSlots' \cap SlotsIn(outQ[w]) \subseteq SlotsIn(q)
<1>1. outQ'[w] = q /\ \A v \in Workers : v # w => outQ'[v] = outQ[v]
  BY DEF TypeInv, TypeOK, QueueType
<1>2. \A v \in Workers : v # w => SlotsIn(outQ'[v]) = SlotsIn(outQ[v]) /\ Once(outQ'[v])
  BY <1>1 DEF AnsweredOnce
<1>3. AnsweredSlots' \subseteq AnsweredSlots
  BY <1>1, <1>2 DEF AnsweredSlots
<1>4. AnsweredOnce'
  BY <1>1, <1>2 DEF AnsweredOnce
<1>5. AnsweredSlots' \cap SlotsIn(outQ[w]) \subseteq SlotsIn(q)
  BY <1>1, <1>2 DEF AnsweredSlots, AnsweredOnce
<1> QED
  BY <1>3, <1>4, <1>5

\* A worker hands over, or loses, what it has in hand.
LEMMA WorkerPutsDown ==
  ASSUME TypeInv, BusyOnce, NEW w \in Workers, work' = [work EXCEPT ![w] = NoWork]
  PROVE  BusySlots' \subseteq BusySlots \ {work[w].slot} /\ BusyOnce'
<1>1. work'[w].slot = NoSlot /\ \A v \in Workers : v # w => work'[v] = work[v]
  BY DEF TypeInv, TypeOK, QueueType, NoWork, End
<1> QED
  BY <1>1 DEF BusySlots, BusyOnce

\* A worker takes a request no worker has.
LEMMA WorkerPicksUp ==
  ASSUME TypeInv, BusyOnce, NEW w \in Workers, NEW r \in Request,
         r.slot \notin BusySlots, work' = [work EXCEPT ![w] = r]
  PROVE  BusySlots' \subseteq BusySlots \cup ({r.slot} \ {NoSlot}) /\ BusyOnce'
<1>1. work'[w].slot = r.slot /\ \A v \in Workers : v # w => work'[v] = work[v]
  BY DEF TypeInv, TypeOK, QueueType
<1> QED
  BY <1>1 DEF BusySlots, BusyOnce

\* A frame is filed in the reorder buffer.
LEMMA FileSlot ==
  ASSUME TypeInv, DoneOnce, NEW f, NEW s \in Slots \cup {NoSlot}, s \notin DoneSlots,
         done' = [done EXCEPT ![f] = s]
  PROVE  DoneSlots' \subseteq DoneSlots \cup ({s} \ {NoSlot}) /\ DoneOnce'
<1>1. \A g \in Frames : done'[g] = IF g = f THEN s ELSE done[g]
  BY DEF TypeInv, TypeOK, QueueType
<1> QED
  BY <1>1 DEF DoneSlots, DoneOnce

\* A frame is taken from the reorder buffer.
LEMMA TakeSlot ==
  ASSUME TypeInv, DoneOnce, NEW f \in Frames, done' = [done EXCEPT ![f] = NoSlot]
  PROVE  DoneSlots' \subseteq DoneSlots \ {done[f]} /\ DoneOnce'
<1>1. \A g \in Frames : done'[g] = IF g = f THEN NoSlot ELSE done[g]
  BY DEF TypeInv, TypeOK, QueueType
<1> QED
  BY <1>1 DEF DoneSlots, DoneOnce

\* A request is queued, or the oldest one taken.
LEMMA QueueSlots ==
  ASSUME TypeInv, QueuedOnce
  PROVE  /\ \A r \in Request : r.slot \notin QueuedSlots /\ inQ' = Append(inQ, r) =>
              QueuedSlots' = QueuedSlots \cup ({r.slot} \ {NoSlot}) /\ QueuedOnce'
         /\ inQ # <<>> /\ inQ' = Tail(inQ) =>
              /\ QueuedSlots' = QueuedSlots \ {Head(inQ).slot} /\ QueuedOnce'
              /\ Head(inQ).slot \in QueuedSlots \cup {NoSlot}
<1>1. inQ \in Seq(Request) /\ Once(inQ)
  BY DEF TypeInv, TypeOK, QueueType, QueuedOnce
<1>2. ASSUME NEW r \in Request, r.slot \notin QueuedSlots, inQ' = Append(inQ, r)
      PROVE  QueuedSlots' = QueuedSlots \cup ({r.slot} \ {NoSlot}) /\ QueuedOnce'
  BY <1>1, <1>2, SlotsAppend DEF QueuedSlots, QueuedOnce
<1>3. ASSUME inQ # <<>>, inQ' = Tail(inQ)
      PROVE  /\ QueuedSlots' = QueuedSlots \ {Head(inQ).slot} /\ QueuedOnce'
             /\ Head(inQ).slot \in QueuedSlots \cup {NoSlot}
  BY <1>1, <1>3, SlotsTail DEF QueuedSlots, QueuedOnce
<1> QED
  BY <1>2, <1>3

\* What a step leaves alone keeps its slots.
LEMMA SameSlots ==
  /\ UNCHANGED dslot => UNCHANGED DemuxSlots
  /\ UNCHANGED inQ => UNCHANGED QueuedSlots /\ (QueuedOnce => QueuedOnce')
  /\ UNCHANGED work => UNCHANGED BusySlots /\ (BusyOnce => BusyOnce')
  /\ UNCHANGED outQ => UNCHANGED AnsweredSlots /\ (AnsweredOnce => AnsweredOnce')
  /\ UNCHANGED done => UNCHANGED DoneSlots /\ (DoneOnce => DoneOnce')
  /\ UNCHANGED wslot => UNCHANGED WriterSlots
<1>1. UNCHANGED outQ => UNCHANGED AnsweredSlots /\ (AnsweredOnce => AnsweredOnce')
  BY DEF AnsweredSlots, AnsweredOnce
<1>2. UNCHANGED inQ => UNCHANGED QueuedSlots /\ (QueuedOnce => QueuedOnce')
  BY DEF QueuedSlots, QueuedOnce
<1>3. UNCHANGED work => UNCHANGED BusySlots /\ (BusyOnce => BusyOnce')
  BY DEF BusySlots, BusyOnce
<1>4. UNCHANGED done => UNCHANGED DoneSlots /\ (DoneOnce => DoneOnce')
  BY DEF DoneSlots, DoneOnce
<1> QED
  BY <1>1, <1>2, <1>3, <1>4 DEF DemuxSlots, WriterSlots

LEMMA InitSlots == Init => SlotsExclusive
<1> SUFFICES ASSUME Init PROVE SlotsExclusive
  OBVIOUS
<1>1. QueuedSlots = {} /\ QueuedOnce
  BY DEF Init, QueuedSlots, QueuedOnce, SlotsIn, Once
<1>2. BusySlots = {} /\ BusyOnce
  BY DEF Init, BusySlots, BusyOnce, NoWork, End
<1>3. AnsweredSlots = {} /\ AnsweredOnce
  BY DEF Init, AnsweredSlots, AnsweredOnce, SlotsIn, Once
<1>4. DoneSlots = {} /\ DoneOnce
  BY DEF Init, DoneSlots, DoneOnce
<1>5. DemuxSlots = {} /\ WriterSlots = {}
  BY DEF Init, DemuxSlots, WriterSlots
<1> QED
  BY <1>1, <1>2, <1>3, <1>4, <1>5 DEF SlotsExclusive, PlacesDisjoint

\* Every step moves a slot from one place to another, loses it, or leaves it.
LEMMA SlotsStep == TypeInv /\ SlotsExclusive /\ [Next]_vars => SlotsExclusive'
<1> SUFFICES ASSUME TypeInv, SlotsExclusive, [Next]_vars PROVE SlotsExclusive'
  OBVIOUS
<1> USE DEF poolVars, queueVars, workerVars, demuxVars, drainVars, writerVars, mainVars,
            flagVars, encVars
<1>0. PlacesDisjoint /\ QueuedOnce /\ BusyOnce /\ AnsweredOnce /\ DoneOnce
  BY DEF SlotsExclusive
<1>types. /\ inQ \in Seq(Request) /\ outQ \in [Workers -> Seq(Response)]
          /\ work \in [Workers -> Request] /\ done \in [Frames -> Slots \cup {NoSlot}]
          /\ free \subseteq Slots
  BY DEF TypeInv, TypeOK, QueueType, PoolType
<1>no. NoSlot \notin AnsweredSlots /\ NoSlot \notin QueuedSlots /\ NoSlot \notin BusySlots
       /\ NoSlot \notin DoneSlots
  BY DEF AnsweredSlots, QueuedSlots, BusySlots, DoneSlots, SlotsIn
<1>same. UNCHANGED <<free, dslot, inQ, work, outQ, done, wslot>> => SlotsExclusive'
  BY <1>0, SameSlots DEF SlotsExclusive, PlacesDisjoint
<1>1. ASSUME NEW w \in Workers, WorkerReady(w) \/ WorkerFatal(w) PROVE SlotsExclusive'
  <2>1. PICK m \in Response : m.slot = NoSlot /\ outQ' = [outQ EXCEPT ![w] = Append(@, m)]
    BY <1>1, MessageTypes DEF WorkerReady, WorkerFatal, Answer
  <2>2. UNCHANGED AnsweredSlots /\ AnsweredOnce'
    BY <2>1, <1>0, <1>no, AnswerSlots
  <2>3. UNCHANGED <<free, dslot, inQ, work, done, wslot>>
    BY <1>1 DEF WorkerReady, WorkerFatal
  <2> QED
    BY <2>2, <2>3, <1>0, SameSlots DEF SlotsExclusive, PlacesDisjoint
<1>2. ASSUME NEW w \in Workers, WorkerCrash(w) PROVE SlotsExclusive'
  <2>1. PICK k \in 0 .. Len(outQ[w]) : outQ' = [outQ EXCEPT ![w] = SubSeq(@, 1, k)]
    BY <1>2 DEF WorkerCrash
  <2>2. SlotsIn(SubSeq(outQ[w], 1, k)) \subseteq SlotsIn(outQ[w]) /\ Once(SubSeq(outQ[w], 1, k))
    BY <1>0, <1>types, SlotsSubSeq DEF AnsweredOnce
  <2>3. AnsweredSlots' \subseteq AnsweredSlots /\ AnsweredOnce'
    BY <2>1, <2>2, <1>0, AnswersShrink
  <2>4. BusySlots' \subseteq BusySlots /\ BusyOnce'
    BY <1>2, <1>0, WorkerPutsDown DEF WorkerCrash
  <2>5. UNCHANGED <<free, dslot, inQ, done, wslot>>
    BY <1>2 DEF WorkerCrash
  <2> QED
    BY <2>3, <2>4, <2>5, <1>0, SameSlots DEF SlotsExclusive, PlacesDisjoint
<1>3. ASSUME NEW w \in Workers, WorkerTake(w) PROVE SlotsExclusive'
  <2>1. /\ QueuedSlots' = QueuedSlots \ {Head(inQ).slot} /\ QueuedOnce'
        /\ Head(inQ).slot \in QueuedSlots \cup {NoSlot}
    BY <1>3, <1>0, QueueSlots DEF WorkerTake
  <2>2. UNCHANGED <<free, dslot, done, wslot>>
    BY <1>3 DEF WorkerTake
  <2>3. CASE Head(inQ) = End
    <3>1. outQ' = [outQ EXCEPT ![w] = Append(@, Answer(-1, NoSlot, FALSE))] /\ UNCHANGED work
      BY <1>3, <2>3 DEF WorkerTake
    <3>2. Answer(-1, NoSlot, FALSE) \in Response /\ Answer(-1, NoSlot, FALSE).slot = NoSlot
      BY MessageTypes DEF Answer
    <3>3. UNCHANGED AnsweredSlots /\ AnsweredOnce'
      BY <3>1, <3>2, <1>0, <1>no, AnswerSlots
    <3> QED
      BY <2>1, <2>2, <3>1, <3>3, <1>0, SameSlots DEF SlotsExclusive, PlacesDisjoint
  <2>4. CASE Head(inQ) # End
    <3>1. work' = [work EXCEPT ![w] = Head(inQ)] /\ UNCHANGED outQ
      BY <1>3, <2>4 DEF WorkerTake
    <3>2. Head(inQ) \in Request
      BY <1>3, <1>types DEF WorkerTake
    <3>3. Head(inQ).slot \notin BusySlots
      BY <2>1, <1>0, <1>no DEF PlacesDisjoint
    <3>4. BusySlots' \subseteq BusySlots \cup ({Head(inQ).slot} \ {NoSlot}) /\ BusyOnce'
      BY <3>1, <3>2, <3>3, <1>0, WorkerPicksUp
    <3> QED
      BY <2>1, <2>2, <3>1, <3>4, <1>0, SameSlots DEF SlotsExclusive, PlacesDisjoint
  <2> QED
    BY <2>3, <2>4
<1>4. ASSUME NEW w \in Workers, WorkerSwap(w) \/ WorkerFrameError(w) PROVE SlotsExclusive'
  <2>1. work[w] \in [frame : Frames, slot : Slots]
    BY <1>4 DEF WorkerSwap, WorkerFrameError, TypeInv, Places
  <2>2. PICK m \in Response : /\ m.slot = work[w].slot
                              /\ outQ' = [outQ EXCEPT ![w] = Append(@, m)]
    <3>1. PICK e \in BOOLEAN :
            outQ' = [outQ EXCEPT ![w] = Append(@, Answer(work[w].frame, work[w].slot, e))]
      BY <1>4 DEF WorkerSwap, WorkerFrameError
    <3>2. Answer(work[w].frame, work[w].slot, e) \in Response
      BY <2>1, MessageTypes
    <3> QED
      BY <3>1, <3>2 DEF Answer
  <2>3. work[w].slot \in BusySlots
    BY <2>1, ConstantsAssumption DEF BusySlots
  <2>4. AnsweredSlots' = AnsweredSlots \cup {work[w].slot} /\ AnsweredOnce'
    <3>1. m.slot \notin AnsweredSlots
      BY <2>2, <2>3, <1>0 DEF PlacesDisjoint
    <3> QED
      BY <2>2, <2>3, <3>1, <1>0, <1>no, AnswerSlots
  <2>5. BusySlots' \subseteq BusySlots \ {work[w].slot} /\ BusyOnce'
    BY <1>4, <1>0, WorkerPutsDown DEF WorkerSwap, WorkerFrameError
  <2>6. UNCHANGED <<free, dslot, inQ, done, wslot>>
    BY <1>4 DEF WorkerSwap, WorkerFrameError
  <2> QED
    BY <2>3, <2>4, <2>5, <2>6, <1>0, SameSlots DEF SlotsExclusive, PlacesDisjoint
<1>5. ASSUME NEW w \in Workers, MainTerminate(w) PROVE SlotsExclusive'
  <2>1. BusySlots' \subseteq BusySlots /\ BusyOnce'
    BY <1>5, <1>0, WorkerPutsDown DEF MainTerminate
  <2>2. UNCHANGED <<free, dslot, inQ, outQ, done, wslot>>
    BY <1>5 DEF MainTerminate
  <2> QED
    BY <2>1, <2>2, <1>0, SameSlots DEF SlotsExclusive, PlacesDisjoint
<1>6. CASE DemuxAcquire
  <2>1. PICK s \in free : dslot' = s /\ free' = free \ {s}
    BY <1>6 DEF DemuxAcquire, FreeWithout
  <2>2. UNCHANGED <<inQ, work, outQ, done, wslot>>
    BY <1>6 DEF DemuxAcquire
  <2>3. DemuxSlots' \subseteq {s}
    BY <2>1 DEF DemuxSlots
  <2> QED
    BY <2>1, <2>2, <2>3, <1>0, SameSlots DEF SlotsExclusive, PlacesDisjoint
<1>7. CASE DemuxFillRaises \/ DemuxSendRefused
  <2>1. DemuxSlots' = {}
    BY <1>7 DEF DemuxFillRaises, DemuxSendRefused, DemuxSlots
  <2>2. UNCHANGED <<free, inQ, work, outQ, done, wslot>>
    BY <1>7 DEF DemuxFillRaises, DemuxSendRefused
  <2> QED
    BY <2>1, <2>2, <1>0, SameSlots DEF SlotsExclusive, PlacesDisjoint
<1>8. CASE DemuxSend
  <2>1. DemuxSlots' = {} /\ UNCHANGED <<free, work, outQ, done, wslot>>
    BY <1>8 DEF DemuxSend, DemuxSlots
  <2>2. QueuedSlots' \subseteq QueuedSlots \cup DemuxSlots /\ QueuedOnce'
    <3>1. CASE closed
      BY <1>8, <3>1, <1>0, SameSlots DEF DemuxSend
    <3>2. CASE ~closed
      <4> DEFINE r == [frame |-> frameIdx, slot |-> dslot]
      <4>1. frameIdx \in Frames /\ dslot \in Slots
        BY <1>8, ConstantsAssumption DEF DemuxSend, TypeInv, TypeOK, Places, CountType, Frames
      <4>2. r \in Request /\ r.slot = dslot /\ dslot \in DemuxSlots
        BY <4>1, MessageTypes, ConstantsAssumption DEF DemuxSlots
      <4>3. inQ' = Append(inQ, r) /\ r.slot \notin QueuedSlots
        BY <1>8, <3>2, <4>2, <1>0 DEF DemuxSend, PlacesDisjoint
      <4> QED
        BY <4>2, <4>3, <1>0, QueueSlots
    <3> QED
      BY <3>1, <3>2
  <2> QED
    BY <2>1, <2>2, <1>0, SameSlots DEF SlotsExclusive, PlacesDisjoint
<1>9. ASSUME NEW w \in Workers, outQ[w] # <<>>, outQ' = [outQ EXCEPT ![w] = Tail(@)]
      PROVE  /\ AnsweredSlots' \subseteq AnsweredSlots \ {Head(outQ[w]).slot}
             /\ AnsweredOnce'
             /\ Head(outQ[w]).slot \in AnsweredSlots \cup {NoSlot}
  <2>1. /\ SlotsIn(Tail(outQ[w])) = SlotsIn(outQ[w]) \ {Head(outQ[w]).slot}
        /\ Once(Tail(outQ[w]))
        /\ Head(outQ[w]).slot \in SlotsIn(outQ[w]) \cup {NoSlot}
    BY <1>9, <1>0, <1>types, SlotsTail DEF AnsweredOnce
  <2>2. /\ AnsweredSlots' \subseteq AnsweredSlots /\ AnsweredOnce'
        /\ AnsweredSlots' \cap SlotsIn(outQ[w]) \subseteq SlotsIn(Tail(outQ[w]))
    BY <2>1, <1>9, <1>0, AnswersShrink
  <2> QED
    BY <2>1, <2>2, <1>no DEF AnsweredSlots
<1>10. ASSUME NEW w \in Workers, DrainReceive(w) PROVE SlotsExclusive'
  <2> DEFINE r == Head(outQ[w])
  <2>1. /\ AnsweredSlots' \subseteq AnsweredSlots \ {r.slot} /\ AnsweredOnce'
        /\ r.slot \in AnsweredSlots \cup {NoSlot}
    BY <1>10, <1>9 DEF DrainReceive
  <2>2. UNCHANGED <<free, dslot, inQ, work, wslot>>
    BY <1>10 DEF DrainReceive
  <2>3. r \in Response
    BY <1>10, <1>types DEF DrainReceive
  <2>4. DoneSlots' \subseteq DoneSlots \cup ({r.slot} \ {NoSlot}) /\ DoneOnce'
    <3>1. CASE UNCHANGED done
      BY <3>1, <1>0, SameSlots
    <3>2. CASE done' = [done EXCEPT ![DoneKey(r)] = r.slot]
      <4>1. r.slot \in Slots \cup {NoSlot} /\ r.slot \notin DoneSlots
        BY <2>1, <2>3, <1>0, <1>no DEF PlacesDisjoint, Response
      <4> QED
        BY <3>2, <4>1, <1>0, FileSlot
    <3> QED
      BY <1>10, <3>1, <3>2 DEF DrainReceive
  <2> HIDE DEF r
  <2> QED
    BY <2>1, <2>2, <2>4, <1>0, SameSlots DEF SlotsExclusive, PlacesDisjoint
<1>11. ASSUME NEW w \in Workers, MainStartup(w) PROVE SlotsExclusive'
  <2>1. AnsweredSlots' \subseteq AnsweredSlots /\ AnsweredOnce'
    BY <1>11, <1>9 DEF MainStartup
  <2>2. UNCHANGED <<free, dslot, inQ, work, done, wslot>>
    BY <1>11 DEF MainStartup
  <2> QED
    BY <2>1, <2>2, <1>0, SameSlots DEF SlotsExclusive, PlacesDisjoint
<1>12. CASE WriterTake
  <2>1. DoneSlots' \subseteq DoneSlots \ {done[nextToWrite]} /\ DoneOnce'
    BY <1>12, <1>0, TakeSlot DEF WriterTake, PopDone
  <2>2. done[nextToWrite] \in DoneSlots
    BY <1>12 DEF WriterTake, DoneSlots
  <2>3. WriterSlots' \subseteq WriterSlots \cup {done[nextToWrite]}
    BY <1>12 DEF WriterTake, WriterSlots
  <2>4. WriterSlots = {}
    BY <1>12 DEF WriterTake, WriterSlots, TypeInv, Places
  <2>5. UNCHANGED <<free, dslot, inQ, work, outQ>>
    BY <1>12 DEF WriterTake
  <2> QED
    BY <2>1, <2>2, <2>3, <2>4, <2>5, <1>0, SameSlots DEF SlotsExclusive, PlacesDisjoint
<1>13. CASE WriterWrite \/ WriterBreaks
  <2>1. WriterSlots = {wslot} /\ WriterSlots' = {}
    BY <1>13, ConstantsAssumption DEF WriterWrite, WriterBreaks, WriterSlots, TypeInv, Places
  <2>2. free' = free \cup {wslot} /\ UNCHANGED <<dslot, inQ, work, outQ, done>>
    BY <1>13 DEF WriterWrite, WriterBreaks
  <2> QED
    BY <2>1, <2>2, <1>0, SameSlots DEF SlotsExclusive, PlacesDisjoint
<1>14. CASE MainPutEnd
  <2>1. QueuedSlots' = QueuedSlots /\ QueuedOnce'
    <3>1. CASE inQ' = Append(inQ, End)
      BY <3>1, <1>0, <1>no, MessageTypes, QueueSlots DEF End
    <3>2. CASE UNCHANGED inQ
      BY <3>2, <1>0, SameSlots
    <3> QED
      BY <1>14, <3>1, <3>2 DEF MainPutEnd
  <2>2. UNCHANGED <<free, dslot, work, outQ, done, wslot>>
    BY <1>14 DEF MainPutEnd
  <2> QED
    BY <2>1, <2>2, <1>0, SameSlots DEF SlotsExclusive, PlacesDisjoint
<1>15. CASE Routes \/ FfmpegDies \/ AllOver
  BY <1>15, <1>same DEF Routes, PauseJob, ResumeJob, StopJob, FfmpegDies, AllOver, vars
<1>16. CASE DemuxCheck \/ DemuxQuitsPaused \/ DemuxRead \/ DemuxGivesUp \/ DemuxFill
  BY <1>16, <1>same DEF DemuxCheck, DemuxQuitsPaused, DemuxRead, DemuxGivesUp, DemuxFill
<1>17. CASE DrainTimeout \/ WriterStops \/ WriterFinishes
  BY <1>17, <1>same DEF DrainTimeout, WriterStops, WriterFinishes
<1>18. CASE \/ MainStartupFails \/ MainStart \/ MainRaise \/ MainStreamed \/ MainJoin
            \/ MainClose \/ MainAbort \/ MainFinalise
  BY <1>18, <1>same DEF MainStartupFails, MainStart, MainRaise, MainStreamed, MainJoin,
     MainClose, MainAbort, MainFinalise
<1>19. CASE UNCHANGED vars
  BY <1>19, <1>same DEF vars
<1> QED
  BY <1>1, <1>2, <1>3, <1>4, <1>5, <1>6, <1>7, <1>8, <1>10, <1>11, <1>12, <1>13, <1>14,
     <1>15, <1>16, <1>17, <1>18, <1>19 DEF Next, Worker, Demux, Drain, Writer, Main

\* At no time do two users hold the same slot of the shared memory, whatever the number of
\* workers and slots and wherever a worker dies.
THEOREM SlotExclusion == Spec => []SlotsExclusive
<1>1. Init => TypeInv /\ SlotsExclusive
  BY InitTypeInv, InitSlots
<1>2. (TypeInv /\ SlotsExclusive) /\ [Next]_vars => (TypeInv /\ SlotsExclusive)'
  BY TypeInvStep, SlotsStep
<1> QED
  BY <1>1, <1>2, PTL DEF Spec

-------------------------------------------------------------------------------
(* What the slots hold *)

SwappedFrame(f) == [frame |-> f, swapped |-> TRUE]

\* A slot on its way to a worker, or with one, holds the frame its request names; behind
\* an answer that reports no error, in the reorder buffer and with the writer it holds
\* that frame swapped.
SendContent == demux = "send" => mem[dslot].frame = frameIdx
QueueContent == \A i \in DOMAIN inQ :
                  inQ[i].slot # NoSlot => mem[inQ[i].slot].frame = inQ[i].frame
WorkContent == \A w \in Workers :
                 work[w].slot # NoSlot => mem[work[w].slot].frame = work[w].frame
Delivered(r) == ~r.error /\ r.frame >= 0 => r.slot \in Slots /\ mem[r.slot] = SwappedFrame(r.frame)
AnswerContent == \A w \in Workers : \A i \in DOMAIN outQ[w] : Delivered(outQ[w][i])
DoneContent == \A f \in Frames : done[f] # NoSlot => mem[done[f]] = SwappedFrame(f)
WriteContent == writer = "write" => mem[wslot] = SwappedFrame(nextToWrite)

Contents == /\ SendContent /\ QueueContent /\ WorkContent /\ AnswerContent /\ DoneContent
            /\ WriteContent /\ OutputInOrder

OrderInv == TypeInv /\ SlotsExclusive /\ Contents

\* Swapping a frame in place leaves it the frame it was.
LEMMA SwapPixel == \A p \in Pixels : [p EXCEPT !.swapped = TRUE] = SwappedFrame(p.frame)
<1> SUFFICES ASSUME NEW p \in Pixels PROVE [p EXCEPT !.swapped = TRUE] = SwappedFrame(p.frame)
  OBVIOUS
<1> DEFINE q == [p EXCEPT !.swapped = TRUE]
<1>1. q \in Pixels /\ SwappedFrame(p.frame) \in Pixels
  BY DEF Pixels, SwappedFrame
<1>2. q.frame = p.frame /\ q.swapped = TRUE
  BY DEF Pixels
<1>3. \A x, y \in Pixels : x.frame = y.frame /\ x.swapped = y.swapped => x = y
  BY DEF Pixels
<1>4. SwappedFrame(p.frame).frame = p.frame /\ SwappedFrame(p.frame).swapped = TRUE
  BY DEF SwappedFrame
<1> HIDE DEF q
<1> QED
  BY <1>1, <1>2, <1>3, <1>4 DEF q

\* A step that leaves the pool's memory alone keeps the contents of what it leaves alone.
LEMMA SameContents ==
  ASSUME Contents, UNCHANGED mem
  PROVE  /\ UNCHANGED <<demux, dslot, frameIdx>> => SendContent'
         /\ UNCHANGED inQ => QueueContent'
         /\ UNCHANGED work => WorkContent'
         /\ UNCHANGED outQ => AnswerContent'
         /\ UNCHANGED done => DoneContent'
         /\ UNCHANGED <<writer, wslot, nextToWrite>> => WriteContent'
         /\ UNCHANGED <<output, nextToWrite>> => OutputInOrder'
<1>1. UNCHANGED outQ => AnswerContent'
  BY DEF Contents, AnswerContent, Delivered
<1>2. UNCHANGED inQ => QueueContent'
  BY DEF Contents, QueueContent
<1>3. UNCHANGED work => WorkContent'
  BY DEF Contents, WorkContent
<1>4. UNCHANGED done => DoneContent'
  BY DEF Contents, DoneContent
<1>5. UNCHANGED <<output, nextToWrite>> => OutputInOrder'
  BY DEF Contents, OutputInOrder
<1> QED
  BY <1>1, <1>2, <1>3, <1>4, <1>5 DEF Contents, SendContent, WriteContent

\* A step that writes to one slot keeps what all other places hold.
LEMMA OtherContents ==
  ASSUME TypeInv, SlotsExclusive, Contents, NEW t \in Slots, NEW p,
         mem' = [mem EXCEPT ![t] = p]
  PROVE  /\ t \notin QueuedSlots /\ UNCHANGED inQ => QueueContent'
         /\ t \notin BusySlots /\ UNCHANGED work => WorkContent'
         /\ t \notin AnsweredSlots /\ UNCHANGED outQ => AnswerContent'
         /\ t \notin DoneSlots /\ UNCHANGED done => DoneContent'
         /\ t \notin WriterSlots /\ UNCHANGED <<writer, wslot, nextToWrite>> => WriteContent'
         /\ t \notin DemuxSlots /\ UNCHANGED <<demux, dslot, frameIdx>> => SendContent'
<1>1. \A x \in Slots : x # t => mem'[x] = mem[x]
  BY DEF TypeInv, TypeOK, PoolType
<1>types. /\ inQ \in Seq(Request) /\ outQ \in [Workers -> Seq(Response)]
          /\ work \in [Workers -> Request] /\ done \in [Frames -> Slots \cup {NoSlot}]
          /\ wslot \in Slots \cup {NoSlot} /\ dslot \in Slots \cup {NoSlot}
  BY DEF TypeInv, TypeOK, QueueType, ThreadType
<1>2. ASSUME t \notin QueuedSlots, UNCHANGED inQ PROVE QueueContent'
  <2>1. ASSUME NEW i \in DOMAIN inQ, inQ[i].slot # NoSlot
        PROVE  mem'[inQ[i].slot].frame = inQ[i].frame
    <3>1. inQ[i].slot \in Slots /\ inQ[i].slot # t
      BY <1>2, <2>1, <1>types DEF Request, QueuedSlots, SlotsIn
    <3> QED
      BY <3>1, <1>1, <2>1 DEF Contents, QueueContent
  <2> QED
    BY <1>2, <2>1 DEF QueueContent
<1>3. ASSUME t \notin BusySlots, UNCHANGED work PROVE WorkContent'
  <2>1. ASSUME NEW v \in Workers, work[v].slot # NoSlot
        PROVE  mem'[work[v].slot].frame = work[v].frame
    <3>1. work[v].slot \in Slots /\ work[v].slot # t
      BY <1>3, <2>1, <1>types DEF Request, BusySlots
    <3> QED
      BY <3>1, <1>1, <2>1 DEF Contents, WorkContent
  <2> QED
    BY <1>3, <2>1 DEF WorkContent
<1>4. ASSUME t \notin AnsweredSlots, UNCHANGED outQ PROVE AnswerContent'
  <2> SUFFICES ASSUME NEW w \in Workers, NEW i \in DOMAIN outQ[w],
                      ~outQ[w][i].error, outQ[w][i].frame >= 0
               PROVE  /\ outQ[w][i].slot \in Slots
                      /\ mem'[outQ[w][i].slot] = SwappedFrame(outQ[w][i].frame)
    BY <1>4 DEF AnswerContent, Delivered
  <2>1. outQ[w][i].slot \in Slots /\ mem[outQ[w][i].slot] = SwappedFrame(outQ[w][i].frame)
    BY DEF Contents, AnswerContent, Delivered
  <2>2. outQ[w][i].slot # t
    BY <2>1, <1>4, ConstantsAssumption DEF AnsweredSlots, SlotsIn
  <2> QED
    BY <2>1, <2>2, <1>1
<1>5. ASSUME t \notin DoneSlots, UNCHANGED done PROVE DoneContent'
  <2>1. ASSUME NEW f \in Frames, done[f] # NoSlot PROVE mem'[done[f]] = SwappedFrame(f)
    <3>1. done[f] \in Slots /\ done[f] # t
      BY <1>5, <2>1, <1>types DEF DoneSlots
    <3> QED
      BY <3>1, <1>1, <2>1 DEF Contents, DoneContent
  <2> QED
    BY <1>5, <2>1 DEF DoneContent
<1>6. ASSUME t \notin WriterSlots, UNCHANGED <<writer, wslot, nextToWrite>> PROVE WriteContent'
  BY <1>6, <1>1, ConstantsAssumption DEF Contents, WriteContent, WriterSlots, TypeInv, Places
<1>7. ASSUME t \notin DemuxSlots, UNCHANGED <<demux, dslot, frameIdx>> PROVE SendContent'
  BY <1>7, <1>1, ConstantsAssumption DEF Contents, SendContent, DemuxSlots, TypeInv, Places
<1> QED
  BY <1>2, <1>3, <1>4, <1>5, <1>6, <1>7

LEMMA InitContents == Init => Contents
<1> SUFFICES ASSUME Init PROVE Contents
  OBVIOUS
<1>1. SendContent /\ QueueContent /\ AnswerContent /\ WriteContent
  BY DEF Init, SendContent, QueueContent, AnswerContent, WriteContent
<1>2. WorkContent /\ DoneContent
  BY DEF Init, WorkContent, DoneContent, NoWork, End
<1>3. OutputInOrder
  BY DEF Init, OutputInOrder
<1> QED
  BY <1>1, <1>2, <1>3 DEF Contents

\* A worker's answers stay truthful when a truthful one is added or some are taken away.
LEMMA AnswerAdded ==
  ASSUME TypeInv, Contents, UNCHANGED mem, NEW w \in Workers, NEW m \in Response,
         Delivered(m), outQ' = [outQ EXCEPT ![w] = Append(@, m)]
  PROVE  AnswerContent'
<1>1. outQ \in [Workers -> Seq(Response)] /\ outQ[w] \in Seq(Response)
  BY DEF TypeInv, TypeOK, QueueType
<1>2. ASSUME NEW v \in Workers, NEW i \in DOMAIN outQ'[v] PROVE Delivered(outQ'[v][i])
  <2>1. CASE v # w
    <3>1. outQ'[v] = outQ[v]
      BY <1>1, <2>1
    <3> QED
      BY <3>1, <1>2 DEF Contents, AnswerContent
  <2>2. CASE v = w
    <3>1. outQ'[v] = Append(outQ[w], m)
      BY <1>1, <2>2
    <3>2. outQ'[v][i] = m \/ (i \in DOMAIN outQ[w] /\ outQ'[v][i] = outQ[w][i])
      BY <3>1, <1>1, <1>2
    <3> QED
      BY <3>2 DEF Contents, AnswerContent
  <2> QED
    BY <2>1, <2>2
<1> QED
  BY <1>2 DEF AnswerContent, Delivered

\* Every message of q is one of r.
PartOf(q, r) == \A i \in DOMAIN q : \E j \in DOMAIN r : q[i] = r[j]

LEMMA AnswersLeft ==
  ASSUME TypeInv, Contents, UNCHANGED mem, NEW w \in Workers, NEW q, PartOf(q, outQ[w]),
         outQ' = [outQ EXCEPT ![w] = q]
  PROVE  AnswerContent'
<1>1. outQ'[w] = q /\ \A v \in Workers : v # w => outQ'[v] = outQ[v]
  BY DEF TypeInv, TypeOK, QueueType
<1>2. ASSUME NEW v \in Workers, NEW i \in DOMAIN outQ'[v] PROVE Delivered(outQ'[v][i])
  <2>1. CASE v # w
    BY <2>1, <1>1, <1>2 DEF Contents, AnswerContent
  <2>2. CASE v = w
    <3>1. PICK j \in DOMAIN outQ[w] : outQ'[v][i] = outQ[w][j]
      BY <2>2, <1>1, <1>2 DEF PartOf
    <3> QED
      BY <3>1 DEF Contents, AnswerContent
  <2> QED
    BY <2>1, <2>2
<1> QED
  BY <1>2 DEF AnswerContent, Delivered

\* Every step keeps what the slots hold: a worker writes only to the slot in its hand, the
\* demux thread only to its own, and no other place refers to either.
LEMMA ContentsStep == OrderInv /\ [Next]_vars => Contents'
<1> SUFFICES ASSUME TypeInv, SlotsExclusive, Contents, [Next]_vars PROVE Contents'
  BY DEF OrderInv
<1> USE DEF poolVars, queueVars, workerVars, demuxVars, drainVars, writerVars, mainVars,
            flagVars, encVars
<1>types. /\ inQ \in Seq(Request) /\ outQ \in [Workers -> Seq(Response)]
          /\ work \in [Workers -> Request] /\ done \in [Frames -> Slots \cup {NoSlot}]
          /\ output \in Seq(Pixels) /\ mem \in [Slots -> Pixels]
          /\ frameIdx \in Nat /\ nextToWrite \in Nat
  BY DEF TypeInv, TypeOK, QueueType, PoolType, CountType
<1>p. PlacesDisjoint /\ BusyOnce
  BY DEF SlotsExclusive
<1>1. ASSUME NEW w \in Workers, WorkerReady(w) \/ WorkerFatal(w) PROVE Contents'
  <2>1. PICK m \in Response : m.frame < 0 /\ outQ' = [outQ EXCEPT ![w] = Append(@, m)]
    <3>1. Answer(-2, NoSlot, FALSE) \in Response /\ Answer(-1, NoSlot, TRUE) \in Response
      BY MessageTypes
    <3>2. Answer(-2, NoSlot, FALSE).frame < 0 /\ Answer(-1, NoSlot, TRUE).frame < 0
      BY DEF Answer
    <3> QED
      BY <1>1, <3>1, <3>2 DEF WorkerReady, WorkerFatal
  <2>2. Delivered(m)
    <3>1. ~(m.frame >= 0)
      BY <2>1, ConstantsAssumption DEF Response, Frames
    <3> QED
      BY <3>1 DEF Delivered
  <2>3. /\ UNCHANGED <<mem, demux, dslot, frameIdx, inQ, work, done, writer, wslot>>
        /\ UNCHANGED <<nextToWrite, output>>
    BY <1>1 DEF WorkerReady, WorkerFatal
  <2> QED
    BY <2>1, <2>2, <2>3, AnswerAdded, SameContents DEF Contents
<1>2. ASSUME NEW w \in Workers, WorkerCrash(w) PROVE Contents'
  <2>1. PICK k \in 0 .. Len(outQ[w]) : outQ' = [outQ EXCEPT ![w] = SubSeq(@, 1, k)]
    BY <1>2 DEF WorkerCrash
  <2> DEFINE q == SubSeq(outQ[w], 1, k)
  <2>2. PartOf(q, outQ[w])
    BY <1>types DEF PartOf
  <2>3. /\ UNCHANGED <<mem, demux, dslot, frameIdx, inQ, done, writer, wslot>>
        /\ UNCHANGED <<nextToWrite, output>>
    BY <1>2 DEF WorkerCrash
  <2>4. AnswerContent'
    <3>1. outQ' = [outQ EXCEPT ![w] = q]
      BY <2>1
    <3> HIDE DEF q
    <3> QED
      BY <2>2, <2>3, <3>1, AnswersLeft
  <2>5. WorkContent'
    BY <1>2, <1>types DEF WorkerCrash, Contents, WorkContent, NoWork, End
  <2> QED
    BY <2>3, <2>4, <2>5, SameContents DEF Contents
<1>3. ASSUME NEW w \in Workers, WorkerTake(w) PROVE Contents'
  <2>1. /\ UNCHANGED <<mem, demux, dslot, frameIdx, done, writer, wslot>>
        /\ UNCHANGED <<nextToWrite, output>>
    BY <1>3 DEF WorkerTake
  <2>2. inQ # <<>> /\ inQ' = Tail(inQ)
    BY <1>3 DEF WorkerTake
  <2>3. QueueContent'
    <3>1. \A i \in DOMAIN Tail(inQ) : i + 1 \in DOMAIN inQ /\ Tail(inQ)[i] = inQ[i + 1]
      BY <2>2, <1>types
    <3> QED
      BY <2>1, <2>2, <3>1 DEF Contents, QueueContent
  <2>4. CASE Head(inQ) = End
    <3>1. outQ' = [outQ EXCEPT ![w] = Append(@, Answer(-1, NoSlot, FALSE))] /\ UNCHANGED work
      BY <1>3, <2>4 DEF WorkerTake
    <3>2. Answer(-1, NoSlot, FALSE) \in Response
      BY MessageTypes
    <3>3. Delivered(Answer(-1, NoSlot, FALSE))
      BY DEF Answer, Delivered
    <3> QED
      BY <2>1, <2>3, <3>1, <3>2, <3>3, AnswerAdded, SameContents DEF Contents
  <2>5. CASE Head(inQ) # End
    <3>1. work' = [work EXCEPT ![w] = Head(inQ)] /\ UNCHANGED outQ
      BY <1>3, <2>5 DEF WorkerTake
    <3>2. Head(inQ) = inQ[1] /\ 1 \in DOMAIN inQ
      BY <2>2, <1>types
    <3>3. WorkContent'
      BY <2>1, <3>1, <3>2, <1>types DEF Contents, WorkContent, QueueContent
    <3> QED
      BY <2>1, <2>3, <3>1, <3>3, SameContents DEF Contents
  <2> QED
    BY <2>4, <2>5
<1>4. ASSUME NEW w \in Workers, WorkerSwap(w) \/ WorkerFrameError(w) PROVE Contents'
  <2> DEFINE t == work[w].slot
             g == work[w].frame
  <2>1. wstate[w] = "busy" /\ work[w] \in [frame : Frames, slot : Slots]
    BY <1>4 DEF WorkerSwap, WorkerFrameError, TypeInv, Places
  <2>2. t \in Slots /\ g \in Frames /\ t \in BusySlots /\ mem[t].frame = g
    BY <2>1, ConstantsAssumption DEF BusySlots, Contents, WorkContent
  <2>3. PICK b \in BOOLEAN, e \in BOOLEAN :
          /\ mem' = [mem EXCEPT ![t] = [mem[t] EXCEPT !.swapped = b]]
          /\ outQ' = [outQ EXCEPT ![w] = Append(@, Answer(g, t, e))]
          /\ ~e => b = TRUE
    BY <1>4 DEF WorkerSwap, WorkerFrameError
  <2>4. /\ UNCHANGED <<demux, dslot, frameIdx, inQ, done, writer, wslot, nextToWrite>>
        /\ UNCHANGED output /\ work' = [work EXCEPT ![w] = NoWork]
    BY <1>4 DEF WorkerSwap, WorkerFrameError
  <2> HIDE DEF t, g
  <2>5. /\ t \notin QueuedSlots /\ t \notin AnsweredSlots /\ t \notin DoneSlots
        /\ t \notin WriterSlots /\ t \notin DemuxSlots
    BY <2>2, <1>p DEF PlacesDisjoint
  <2>6. SendContent' /\ QueueContent' /\ DoneContent' /\ WriteContent'
    BY <2>2, <2>3, <2>4, <2>5, OtherContents
  <2>7. OutputInOrder'
    BY <2>4 DEF Contents, OutputInOrder
  <2>8. WorkContent'
    <3>1. ASSUME NEW v \in Workers, work'[v].slot # NoSlot
          PROVE  mem'[work'[v].slot].frame = work'[v].frame
      <4>1. v # w /\ work'[v] = work[v]
        BY <2>4, <3>1, <1>types DEF NoWork, End
      <4>2. work[v].slot # t /\ work[v].slot \in Slots
        BY <4>1, <3>1, <1>p, <1>types DEF BusyOnce, Request, t
      <4> QED
        BY <4>1, <4>2, <3>1, <2>2, <2>3, <1>types DEF Contents, WorkContent
    <3> QED
      BY <3>1 DEF WorkContent
  <2>9. AnswerContent'
    <3>1. mem'[t] = [mem[t] EXCEPT !.swapped = b] /\ \A x \in Slots : x # t => mem'[x] = mem[x]
      BY <2>2, <2>3, <1>types
    <3>2. ~e => mem'[t] = SwappedFrame(g)
      <4>1. mem[t] \in Pixels
        BY <2>2, <1>types
      <4> QED
        BY <4>1, <3>1, <2>2, <2>3, SwapPixel
    <3>3. ASSUME NEW v \in Workers, NEW i \in DOMAIN outQ'[v],
                 ~outQ'[v][i].error, outQ'[v][i].frame >= 0
          PROVE  /\ outQ'[v][i].slot \in Slots
                 /\ mem'[outQ'[v][i].slot] = SwappedFrame(outQ'[v][i].frame)
      <4>1. CASE i \in DOMAIN outQ[v] /\ outQ'[v][i] = outQ[v][i]
        <5>1. outQ[v][i].slot \in Slots /\ mem[outQ[v][i].slot] = SwappedFrame(outQ[v][i].frame)
          BY <3>3, <4>1 DEF Contents, AnswerContent, Delivered
        <5>2. outQ[v][i].slot # t
          BY <5>1, <4>1, <2>5, ConstantsAssumption DEF AnsweredSlots, SlotsIn
        <5> QED
          BY <5>1, <5>2, <4>1, <3>1
      <4>2. CASE outQ'[v][i] = Answer(g, t, e)
        BY <4>2, <3>3, <3>2, <2>2 DEF Answer
      <4>3. (i \in DOMAIN outQ[v] /\ outQ'[v][i] = outQ[v][i]) \/ outQ'[v][i] = Answer(g, t, e)
        <5>1. CASE v # w
          BY <5>1, <2>3, <3>3, <1>types
        <5>2. CASE v = w
          <6>1. outQ'[v] = Append(outQ[v], Answer(g, t, e)) /\ outQ[v] \in Seq(Response)
            BY <5>2, <2>3, <1>types
          <6> QED
            BY <6>1, <3>3
        <5> QED
          BY <5>1, <5>2
      <4> QED
        BY <4>1, <4>2, <4>3
    <3> QED
      BY <3>3 DEF AnswerContent, Delivered
  <2> QED
    BY <2>6, <2>7, <2>8, <2>9 DEF Contents
<1>5. ASSUME NEW w \in Workers, MainTerminate(w) PROVE Contents'
  <2>1. WorkContent'
    BY <1>5, <1>types DEF MainTerminate, Contents, WorkContent, NoWork, End
  <2>2. /\ UNCHANGED <<mem, demux, dslot, frameIdx, inQ, outQ, done, writer, wslot>>
        /\ UNCHANGED <<nextToWrite, output>>
    BY <1>5 DEF MainTerminate
  <2> QED
    BY <2>1, <2>2, SameContents DEF Contents
<1>6. CASE DemuxFill
  <2> DEFINE p == [frame |-> frameIdx, swapped |-> FALSE]
  <2>1. dslot \in Slots /\ dslot \in DemuxSlots /\ mem' = [mem EXCEPT ![dslot] = p]
    BY <1>6, ConstantsAssumption DEF DemuxFill, DemuxSlots, TypeInv, Places
  <2>2. /\ UNCHANGED <<frameIdx, dslot, inQ, work, outQ, done, writer, wslot, nextToWrite>>
        /\ UNCHANGED output
    BY <1>6 DEF DemuxFill
  <2>3. SendContent'
    BY <2>1, <2>2, <1>types DEF SendContent
  <2>4. /\ dslot \notin QueuedSlots /\ dslot \notin AnsweredSlots /\ dslot \notin DoneSlots
        /\ dslot \notin WriterSlots /\ dslot \notin BusySlots
    BY <2>1, <1>p DEF PlacesDisjoint
  <2>5. QueueContent' /\ WorkContent' /\ AnswerContent' /\ DoneContent' /\ WriteContent'
    BY <2>1, <2>2, <2>4, OtherContents
  <2>6. OutputInOrder'
    BY <2>2 DEF Contents, OutputInOrder
  <2> QED
    BY <2>3, <2>5, <2>6 DEF Contents
<1>7. CASE DemuxSend
  <2>1. /\ UNCHANGED <<mem, work, outQ, done, writer, wslot, nextToWrite, output>>
        /\ SendContent'
    BY <1>7 DEF DemuxSend, DemuxLeaves, SendContent
  <2>2. CASE closed
    BY <1>7, <2>1, <2>2, SameContents DEF DemuxSend, Contents
  <2>3. CASE ~closed
    <3> DEFINE r == [frame |-> frameIdx, slot |-> dslot]
    <3>1. inQ' = Append(inQ, r) /\ mem[dslot].frame = frameIdx
      BY <1>7, <2>3 DEF DemuxSend, Contents, SendContent
    <3>2. \A i \in DOMAIN inQ' : inQ'[i] = r \/ (i \in DOMAIN inQ /\ inQ'[i] = inQ[i])
      BY <3>1, <1>types
    <3>3. QueueContent'
      BY <2>1, <3>1, <3>2 DEF Contents, QueueContent
    <3> QED
      BY <2>1, <3>3, SameContents DEF Contents
  <2> QED
    BY <2>2, <2>3
<1>8. CASE \/ DemuxCheck \/ DemuxQuitsPaused \/ DemuxRead \/ DemuxGivesUp \/ DemuxAcquire
           \/ DemuxFillRaises \/ DemuxSendRefused \/ MainStart
  <2>1. /\ UNCHANGED <<mem, inQ, work, outQ, done, wslot, nextToWrite, output>>
        /\ demux' # "send"
    BY <1>8 DEF DemuxCheck, DemuxQuitsPaused, DemuxRead, DemuxGivesUp, DemuxAcquire,
       DemuxFillRaises, DemuxSendRefused, MainStart, DemuxLeaves
  <2>2. WriteContent'
    BY <1>8, <2>1 DEF DemuxCheck, DemuxQuitsPaused, DemuxRead, DemuxGivesUp, DemuxAcquire,
       DemuxFillRaises, DemuxSendRefused, MainStart, Contents, WriteContent
  <2>3. SendContent'
    BY <2>1 DEF SendContent
  <2> QED
    BY <2>1, <2>2, <2>3, SameContents DEF Contents
<1>9. ASSUME NEW w \in Workers, outQ[w] # <<>>, outQ' = [outQ EXCEPT ![w] = Tail(@)],
             UNCHANGED mem
      PROVE  AnswerContent'
  <2> DEFINE q == Tail(outQ[w])
  <2>1. PartOf(q, outQ[w])
    <3>1. outQ[w] \in Seq(Response)
      BY <1>types
    <3>2. \A i \in DOMAIN q : i + 1 \in DOMAIN outQ[w] /\ q[i] = outQ[w][i + 1]
      BY <3>1, <1>9
    <3> QED
      BY <3>2 DEF PartOf
  <2>2. outQ' = [outQ EXCEPT ![w] = q]
    BY <1>9
  <2> HIDE DEF q
  <2> QED
    BY <2>1, <2>2, <1>9, AnswersLeft
<1>10. ASSUME NEW w \in Workers, DrainReceive(w) PROVE Contents'
  <2> DEFINE r == Head(outQ[w])
  <2>1. /\ UNCHANGED <<mem, demux, dslot, frameIdx, inQ, work, writer, wslot, nextToWrite>>
        /\ UNCHANGED output
    BY <1>10 DEF DrainReceive
  <2>2. AnswerContent'
    BY <1>10, <2>1, <1>9 DEF DrainReceive
  <2>3. r \in Response /\ Delivered(r)
    <3>1. outQ[w] \in Seq(Response) /\ outQ[w] # <<>>
      BY <1>10, <1>types DEF DrainReceive
    <3>2. 1 \in DOMAIN outQ[w] /\ r = outQ[w][1] /\ r \in Response
      BY <3>1
    <3> QED
      BY <3>2 DEF Contents, AnswerContent
  <2>4. DoneContent'
    <3>1. CASE UNCHANGED done
      BY <2>1, <3>1, SameContents
    <3>2. CASE ~r.error /\ ~(r.frame < 0) /\ done' = [done EXCEPT ![r.frame] = r.slot]
      <4>1. r.frame \in Int
        BY <2>3, ConstantsAssumption DEF Response, Frames
      <4>2. mem[r.slot] = SwappedFrame(r.frame)
        BY <2>3, <3>2, <4>1 DEF Delivered
      <4>3. \A f \in Frames : done'[f] = IF f = r.frame THEN r.slot ELSE done[f]
        BY <3>2, <1>types
      <4> QED
        BY <2>1, <4>2, <4>3 DEF Contents, DoneContent
    <3> QED
      BY <1>10, <3>1, <3>2 DEF DrainReceive, DoneKey
  <2> QED
    BY <2>1, <2>2, <2>4, SameContents DEF Contents
<1>11. ASSUME NEW w \in Workers, MainStartup(w) PROVE Contents'
  <2>1. /\ UNCHANGED <<mem, demux, dslot, frameIdx, inQ, work, done, writer, wslot>>
        /\ UNCHANGED <<nextToWrite, output>>
    BY <1>11 DEF MainStartup
  <2>2. AnswerContent'
    BY <1>11, <2>1, <1>9 DEF MainStartup
  <2> QED
    BY <2>1, <2>2, SameContents DEF Contents
<1>12. CASE WriterTake
  <2>1. UNCHANGED <<mem, demux, dslot, frameIdx, inQ, work, outQ, nextToWrite, output>>
    BY <1>12 DEF WriterTake
  <2>2. \A f \in Frames : done'[f] = IF f = nextToWrite THEN NoSlot ELSE done[f]
    BY <1>12, <1>types DEF WriterTake, PopDone
  <2>3. DoneContent'
    BY <2>1, <2>2 DEF Contents, DoneContent
  <2>4. WriteContent'
    BY <1>12, <2>1 DEF WriterTake, Contents, DoneContent, WriteContent
  <2> QED
    BY <2>1, <2>3, <2>4, SameContents DEF Contents
<1>13. CASE WriterWrite
  <2>1. /\ UNCHANGED <<mem, demux, dslot, frameIdx, inQ, work, outQ, done>>
        /\ writer' = "poll" /\ nextToWrite' = nextToWrite + 1
        /\ output' = Append(output, SwappedFrame(nextToWrite))
    BY <1>13 DEF WriterWrite, Contents, WriteContent
  <2>2. WriteContent'
    BY <2>1 DEF WriteContent
  <2>3. OutputInOrder'
    <3>1. Len(output) = nextToWrite /\ Len(output') = Len(output) + 1
      BY <2>1, <1>types DEF Contents, OutputInOrder
    <3>2. \A i \in DOMAIN output' :
            \/ i \in DOMAIN output /\ output'[i] = output[i]
            \/ i = nextToWrite + 1 /\ output'[i] = SwappedFrame(nextToWrite)
      BY <2>1, <3>1, <1>types
    <3>3. ASSUME NEW i \in DOMAIN output'
          PROVE  output'[i] = [frame |-> i - 1, swapped |-> TRUE]
      <4>1. CASE i \in DOMAIN output /\ output'[i] = output[i]
        BY <4>1 DEF Contents, OutputInOrder
      <4>2. CASE i = nextToWrite + 1 /\ output'[i] = SwappedFrame(nextToWrite)
        <5>1. i - 1 = nextToWrite
          BY <4>2, <1>types
        <5> QED
          BY <4>2, <5>1 DEF SwappedFrame
      <4> QED
        BY <3>2, <4>1, <4>2
    <3> QED
      BY <2>1, <3>1, <3>3 DEF OutputInOrder
  <2> QED
    BY <2>1, <2>2, <2>3, SameContents DEF Contents
<1>14. CASE WriterBreaks \/ WriterStops \/ WriterFinishes
  <2>1. /\ UNCHANGED <<mem, demux, dslot, frameIdx, inQ, work, outQ, done, nextToWrite>>
        /\ UNCHANGED output /\ writer' = "exit"
    BY <1>14 DEF WriterBreaks, WriterStops, WriterFinishes
  <2>2. WriteContent'
    BY <2>1 DEF WriteContent
  <2> QED
    BY <2>1, <2>2, SameContents DEF Contents
<1>15. CASE MainPutEnd
  <2>1. /\ UNCHANGED <<mem, demux, dslot, frameIdx, work, outQ, done, writer, wslot>>
        /\ UNCHANGED <<nextToWrite, output>>
    BY <1>15 DEF MainPutEnd
  <2>2. QueueContent'
    <3>1. CASE inQ' = Append(inQ, End)
      <4>1. \A i \in DOMAIN inQ' : inQ'[i] = End \/ (i \in DOMAIN inQ /\ inQ'[i] = inQ[i])
        BY <3>1, <1>types
      <4> QED
        BY <2>1, <4>1 DEF Contents, QueueContent, End
    <3>2. CASE UNCHANGED inQ
      BY <2>1, <3>2, SameContents
    <3> QED
      BY <1>15, <3>1, <3>2 DEF MainPutEnd
  <2> QED
    BY <2>1, <2>2, SameContents DEF Contents
<1>16. ASSUME UNCHANGED <<mem, demux, dslot, frameIdx, inQ, work, outQ, done, writer, wslot>>,
              UNCHANGED <<nextToWrite, output>>
       PROVE  Contents'
  BY <1>16, SameContents DEF Contents
<1>17. CASE Routes \/ FfmpegDies \/ AllOver \/ DrainTimeout
  BY <1>16, <1>17 DEF Routes, PauseJob, ResumeJob, StopJob, FfmpegDies, AllOver, vars,
     DrainTimeout
<1>18. CASE \/ MainStartupFails \/ MainRaise \/ MainStreamed \/ MainJoin \/ MainClose
            \/ MainAbort \/ MainFinalise
  BY <1>16, <1>18 DEF MainStartupFails, MainRaise, MainStreamed, MainJoin, MainClose,
     MainAbort, MainFinalise
<1>19. CASE UNCHANGED vars
  BY <1>16, <1>19 DEF vars
<1> QED
  BY <1>1, <1>2, <1>3, <1>4, <1>5, <1>6, <1>7, <1>8, <1>10, <1>11, <1>12, <1>13, <1>14,
     <1>15, <1>17, <1>18, <1>19 DEF Next, Worker, Demux, Drain, Writer, Main

\* Whatever order the workers answer in, and whoever fails: ffmpeg has received exactly the
\* first frames of the video, in order and swapped.
THEOREM OutputOrder == Spec => []OutputInOrder
<1>1. Init => OrderInv
  BY InitTypeInv, InitSlots, InitContents DEF OrderInv
<1>2. OrderInv /\ [Next]_vars => OrderInv'
  BY TypeInvStep, SlotsStep, ContentsStep DEF OrderInv
<1>3. OrderInv => OutputInOrder
  BY DEF OrderInv, Contents
<1> QED
  BY <1>1, <1>2, <1>3, PTL DEF Spec
================================================================================
