----------------------------- MODULE ThreadPipeline -----------------------------
(***************************************************************************)
(* run_streaming of server/worker.py (webapp.py has a twin): a reader, a   *)
(* detector and a writer thread around the job's own thread, which swaps.  *)
(* They pass frames and an end marker through three bounded queues; the    *)
(* job's thread, when it leaves its loop for any reason, raises the stop   *)
(* flag, empties the first two queues, puts an end marker into the third   *)
(* and joins the threads, each for a bounded time.                         *)
(*                                                                         *)
(* A frame is its number. Nothing but the job's own thread sets stop_flag. *)
(***************************************************************************)
EXTENDS Integers, Sequences, FiniteSets

CONSTANTS
  NumFrames,     \* frames of the video
  QDepth,        \* FACESWAP_Q_DEPTH, the capacity of each queue
  Events         \* what may happen in this instance, see AllEvents

AllEvents == {"open",     \* the video or ffmpeg cannot be opened
              "decode",   \* cap.read fails, or raises, before the last frame
              "detect",   \* the face analyser raises
              "swap",     \* the swapper raises
              "pipe",     \* ffmpeg ends early
              "slow"}     \* a bounded join or wait runs out

ASSUME PipelineAssumption ==
  NumFrames \in Nat /\ QDepth \in Nat \ {0} /\ Events \subseteq AllEvents

Frames == 0 .. NumFrames - 1
END == -1            \* the end marker
None == -2           \* nothing in hand
Items == Frames \cup {END}

VARIABLES
  main, failing,             \* the job's thread, and an exception on its way out
  reader, detect, writer,    \* the other threads
  hand,                      \* what each thread holds
  readQ, detectQ, writeQ,
  pos,                       \* frames cap has given
  stopFlag, broken,
  ffmpeg, output,            \* the process, and the frames written to it
  cuts                       \* auxiliary: why the stream may be incomplete

queueVars == <<readQ, detectQ, writeQ>>
flagVars  == <<stopFlag, broken>>
encVars   == <<ffmpeg, output>>
vars == <<main, failing, reader, detect, writer, hand, queueVars, pos, flagVars, encVars, cuts>>

Init ==
  /\ main = "open" /\ failing = FALSE
  /\ reader = "off" /\ detect = "off" /\ writer = "off"
  /\ hand = [t \in {"reader", "detect", "main", "writer"} |-> None]
  /\ readQ = <<>> /\ detectQ = <<>> /\ writeQ = <<>>
  /\ pos = 0
  /\ stopFlag = FALSE /\ broken = FALSE
  /\ ffmpeg = "off" /\ output = <<>>
  /\ cuts = {}

-------------------------------------------------------------------------------
(* Queues *)

HasRoom(q) == Len(q) < QDepth

Newest(q) == q[Len(q)]
Oldest(q) == Head(q)

\* A thread that has put the end marker has ended.
AfterPut(t, again) == IF hand[t] = END THEN "exit" ELSE again

-------------------------------------------------------------------------------
(* The reader *)

\* The loop: stop_flag, cap.read; a released capture gives no frame.
Released == main \in {"wait", "done", "error"}

ReaderReads ==
  /\ reader = "loop"
  /\ reader' = "put"
  /\ IF stopFlag \/ pos = NumFrames \/ Released
     THEN hand' = [hand EXCEPT !["reader"] = END] /\ UNCHANGED pos
     ELSE hand' = [hand EXCEPT !["reader"] = pos] /\ pos' = pos + 1
  /\ UNCHANGED <<main, failing, detect, writer, queueVars, flagVars, encVars, cuts>>

\* The same way out through break and through finally.
ReadFails ==
  /\ "decode" \in Events
  /\ reader = "loop" /\ pos < NumFrames
  /\ reader' = "put"
  /\ hand' = [hand EXCEPT !["reader"] = END]
  /\ cuts' = cuts \cup {"decode"}
  /\ UNCHANGED <<main, failing, detect, writer, queueVars, pos, flagVars, encVars>>

ReaderPuts ==
  /\ reader = "put" /\ HasRoom(readQ)
  /\ readQ' = Append(readQ, hand["reader"])
  /\ reader' = AfterPut("reader", "loop")
  /\ hand' = [hand EXCEPT !["reader"] = None]
  /\ UNCHANGED <<main, failing, detect, writer, detectQ, writeQ, pos, flagVars, encVars, cuts>>

-------------------------------------------------------------------------------
(* The detector *)

\* It passes the end marker on.
DetectGets ==
  /\ detect = "get" /\ readQ # <<>>
  /\ readQ' = Tail(readQ)
  /\ hand' = [hand EXCEPT !["detect"] = Oldest(readQ)]
  /\ detect' = "put"
  /\ UNCHANGED <<main, failing, reader, writer, detectQ, writeQ, pos, flagVars, encVars, cuts>>

\* An exception in fa.get: the finally clause puts an end marker.
DetectRaises ==
  /\ "detect" \in Events
  /\ detect = "put" /\ hand["detect"] \in Frames
  /\ hand' = [hand EXCEPT !["detect"] = END]
  /\ cuts' = cuts \cup {"detect"}
  /\ UNCHANGED <<main, failing, reader, detect, writer, queueVars, pos, flagVars, encVars>>

DetectPuts ==
  /\ detect = "put" /\ HasRoom(detectQ)
  /\ detectQ' = Append(detectQ, hand["detect"])
  /\ detect' = AfterPut("detect", "get")
  /\ hand' = [hand EXCEPT !["detect"] = None]
  /\ UNCHANGED <<main, failing, reader, writer, readQ, writeQ, pos, flagVars, encVars, cuts>>

-------------------------------------------------------------------------------
(* The writer *)

WriterGets ==
  /\ writer = "get" /\ writeQ # <<>>
  /\ writeQ' = Tail(writeQ)
  /\ IF Head(writeQ) = END
     THEN writer' = "exit" /\ UNCHANGED hand
     ELSE writer' = "write" /\ hand' = [hand EXCEPT !["writer"] = Head(writeQ)]
  /\ UNCHANGED <<main, failing, reader, detect, readQ, detectQ, pos, flagVars, encVars, cuts>>

WriterWrites ==
  /\ writer = "write" /\ ffmpeg = "run" /\ ~Released
  /\ output' = Append(output, hand["writer"])
  /\ hand' = [hand EXCEPT !["writer"] = None]
  /\ writer' = "get"
  /\ UNCHANGED <<main, failing, reader, detect, queueVars, pos, flagVars, ffmpeg, cuts>>

\* ffmpeg is gone: the writer goes on taking frames, for the sake of the job's thread.
WriterQuits == writer' = "exit"
WriterDiscards == writer' = "discard"

WriterBreaks ==
  /\ writer = "write" /\ ffmpeg # "run" /\ ~Released
  /\ broken' = TRUE
  /\ WriterDiscards
  /\ hand' = [hand EXCEPT !["writer"] = None]
  /\ UNCHANGED <<main, failing, reader, detect, queueVars, pos, stopFlag, encVars, cuts>>

WriterDropsItem ==
  /\ writer = "discard" /\ writeQ # <<>>
  /\ writeQ' = Tail(writeQ)
  /\ writer' = IF Head(writeQ) = END THEN "exit" ELSE writer
  /\ UNCHANGED <<main, failing, reader, detect, hand, readQ, detectQ, pos, flagVars, encVars, cuts>>

\* ffmpeg's input has been closed under it: a ValueError, which nobody catches.
WriterTooLate ==
  /\ writer = "write" /\ Released
  /\ writer' = "exit"
  /\ hand' = [hand EXCEPT !["writer"] = None]
  /\ UNCHANGED <<main, failing, reader, detect, queueVars, pos, flagVars, encVars, cuts>>

-------------------------------------------------------------------------------
(* The job's thread *)

MainOpens ==
  /\ main = "open"
  /\ main' = "check" /\ ffmpeg' = "run"
  /\ reader' = "loop" /\ detect' = "get" /\ writer' = "get"
  /\ UNCHANGED <<failing, hand, queueVars, pos, flagVars, output, cuts>>

MainFailsToOpen ==
  /\ "open" \in Events
  /\ main = "open"
  /\ main' = "error"
  /\ UNCHANGED <<failing, reader, detect, writer, hand, queueVars, pos, flagVars, encVars, cuts>>

\* Out of the loop: the first statement of the finally clause.
LeaveLoop == main' = "clearRead" /\ stopFlag' = TRUE

MainChecks ==
  /\ main = "check"
  /\ IF broken THEN LeaveLoop ELSE main' = "get" /\ UNCHANGED stopFlag
  /\ UNCHANGED <<failing, reader, detect, writer, hand, queueVars, pos, broken, encVars, cuts>>

MainGets ==
  /\ main = "get" /\ detectQ # <<>>
  /\ detectQ' = Tail(detectQ)
  /\ IF Head(detectQ) = END
     THEN LeaveLoop /\ UNCHANGED hand
     ELSE /\ main' = "swap" /\ UNCHANGED stopFlag
          /\ hand' = [hand EXCEPT !["main"] = Head(detectQ)]
  /\ UNCHANGED <<failing, reader, detect, writer, readQ, writeQ, pos, broken, encVars, cuts>>

\* The swap, and the second look at broken.
MainSwaps ==
  /\ main = "swap"
  /\ IF broken THEN LeaveLoop ELSE main' = "put" /\ UNCHANGED stopFlag
  /\ UNCHANGED <<failing, reader, detect, writer, hand, queueVars, pos, broken, encVars, cuts>>

SwapRaises ==
  /\ "swap" \in Events
  /\ main = "swap"
  /\ LeaveLoop
  /\ failing' = TRUE
  /\ UNCHANGED <<reader, detect, writer, hand, queueVars, pos, broken, encVars, cuts>>

MainPuts ==
  /\ main = "put" /\ HasRoom(writeQ)
  /\ writeQ' = Append(writeQ, hand["main"])
  /\ hand' = [hand EXCEPT !["main"] = None]
  /\ main' = "check"
  /\ UNCHANGED <<failing, reader, detect, writer, readQ, detectQ, pos, flagVars, encVars, cuts>>

\* get_nowait until it finds the queue empty, the end marker included; then the next one.
SweptUnseen(q) == TRUE
Swept(q) == q = <<>>

MainClearsRead ==
  /\ main = "clearRead"
  /\ IF Swept(readQ) THEN main' = "clearDetect" /\ UNCHANGED readQ
                     ELSE readQ' = Tail(readQ) /\ UNCHANGED main
  /\ UNCHANGED <<failing, reader, detect, writer, hand, detectQ, writeQ, pos, flagVars, encVars, cuts>>

MainClearsDetect ==
  /\ main = "clearDetect"
  /\ IF Swept(detectQ) THEN main' = "putEnd" /\ UNCHANGED detectQ
                       ELSE detectQ' = Tail(detectQ) /\ UNCHANGED main
  /\ UNCHANGED <<failing, reader, detect, writer, hand, readQ, writeQ, pos, flagVars, encVars, cuts>>

MainPutsEnd ==
  /\ main = "putEnd" /\ HasRoom(writeQ)
  /\ writeQ' = Append(writeQ, END)
  /\ main' = "joinWriter"
  /\ UNCHANGED <<failing, reader, detect, writer, hand, readQ, detectQ, pos, flagVars, encVars, cuts>>

\* A join ends with the thread, or when its time has run out: because the thread is
\* slow, or because it waits for something that nobody will do any more.
DetectStuck == \/ detect = "get" /\ readQ = <<>> /\ reader = "exit"
               \/ detect = "put" /\ ~HasRoom(detectQ)
ReaderStuck == reader = "put" /\ ~HasRoom(readQ) /\ (detect = "exit" \/ DetectStuck)

Joined(state) == state = "exit"

MainJoinsWriter ==
  /\ main = "joinWriter"
  /\ Joined(writer) \/ "slow" \in Events
  /\ main' = "joinDetect"
  /\ cuts' = IF writer = "exit" THEN cuts ELSE cuts \cup {"slow"}
  /\ UNCHANGED <<failing, reader, detect, writer, hand, queueVars, pos, flagVars, encVars>>

MainJoinsDetect ==
  /\ main = "joinDetect"
  /\ Joined(detect) \/ DetectStuck \/ "slow" \in Events
  /\ main' = "joinReader"
  /\ UNCHANGED <<failing, reader, detect, writer, hand, queueVars, pos, flagVars, encVars, cuts>>

MainJoinsReader ==
  /\ main = "joinReader"
  /\ Joined(reader) \/ ReaderStuck \/ "slow" \in Events
  /\ main' = "release"
  /\ UNCHANGED <<failing, reader, detect, writer, hand, queueVars, pos, flagVars, encVars, cuts>>

\* cap.release and ffmpeg.stdin.close, then the exception goes on to run_single_job.
MainReleases ==
  /\ main = "release"
  /\ main' = IF failing THEN "error" ELSE "wait"
  /\ UNCHANGED <<failing, reader, detect, writer, hand, queueVars, pos, flagVars, encVars, cuts>>

\* ffmpeg.wait, its return code, and a remux whose failure is only logged. A failure of
\* ffmpeg that the writer has noticed is no error.
MainFinishes ==
  /\ main = "wait"
  /\ main' = IF ffmpeg = "failed" /\ ~broken THEN "error" ELSE "done"
  /\ UNCHANGED <<failing, reader, detect, writer, hand, queueVars, pos, flagVars, encVars, cuts>>

MainGivesUpWaiting ==
  /\ "slow" \in Events
  /\ main = "wait"
  /\ main' = "error"
  /\ UNCHANGED <<failing, reader, detect, writer, hand, queueVars, pos, flagVars, encVars, cuts>>

-------------------------------------------------------------------------------
(* ffmpeg ends before its input does: it fails, or has all it wants (-shortest). *)
FfmpegEnds ==
  /\ "pipe" \in Events /\ ffmpeg = "run"
  /\ \E e \in {"failed", "content"} : ffmpeg' = e
  /\ UNCHANGED <<main, failing, reader, detect, writer, hand, queueVars, pos, flagVars, output, cuts>>

-------------------------------------------------------------------------------
ReaderStep == ReaderReads \/ ReadFails \/ ReaderPuts
DetectStep == DetectGets \/ DetectRaises \/ DetectPuts
WriterStep == WriterGets \/ WriterWrites \/ WriterBreaks \/ WriterDropsItem \/ WriterTooLate
MainStep ==
  \/ MainOpens \/ MainFailsToOpen \/ MainChecks \/ MainGets \/ MainSwaps \/ SwapRaises \/ MainPuts
  \/ MainClearsRead \/ MainClearsDetect \/ MainPutsEnd
  \/ MainJoinsWriter \/ MainJoinsDetect \/ MainJoinsReader
  \/ MainReleases \/ MainFinishes \/ MainGivesUpWaiting

Next == ReaderStep \/ DetectStep \/ WriterStep \/ MainStep \/ FfmpegEnds

Spec == Init /\ [][Next]_vars

\* Every thread is scheduled by the operating system, and a join comes to its end.
FairSpec == Spec /\ WF_vars(ReaderStep) /\ WF_vars(DetectStep) /\ WF_vars(WriterStep) /\ WF_vars(MainStep)

-------------------------------------------------------------------------------
(* Properties *)

Queue == {q \in Seq(Items) : Len(q) <= QDepth}

\* Every variable has its type, and no queue holds more than FACESWAP_Q_DEPTH items
\* (worker.py:430-434).
TypeOK ==
  /\ main \in {"open", "check", "get", "swap", "put", "clearRead", "clearDetect", "putEnd",
               "joinWriter", "joinDetect", "joinReader", "release", "wait", "done", "error"}
  /\ failing \in BOOLEAN
  /\ reader \in {"off", "loop", "put", "exit"}
  /\ detect \in {"off", "get", "put", "exit"}
  /\ writer \in {"off", "get", "write", "discard", "exit"}
  /\ hand \in [{"reader", "detect", "main", "writer"} -> Items \cup {None}]
  /\ readQ \in Queue /\ detectQ \in Queue /\ writeQ \in Queue
  /\ pos \in 0 .. NumFrames
  /\ stopFlag \in BOOLEAN /\ broken \in BOOLEAN
  /\ ffmpeg \in {"off", "run", "failed", "content"}
  /\ output \in Seq(Frames)
  /\ cuts \in SUBSET {"decode", "detect", "slow"}

\* run_streaming does what StreamJob promises: the frames in order, and all of them unless
\* the decoder, the detector or ffmpeg failed or the writer was given up on. In particular
\* the queues that are emptied in the end (worker.py:522-527) never held a frame of a
\* complete stream.
JobStatus == IF main = "wait" THEN "sealed"
             ELSE IF main \in {"done", "error"} THEN main ELSE "open"
Job == INSTANCE StreamJob
  WITH out <- [i \in 1 .. Len(output) |-> [frame |-> output[i], swapped |-> TRUE]],
       status <- JobStatus, cut <- broken \/ cuts # {}
ImplementsStreamJob == Job!Spec

\* The job ends, whatever fails: nobody waits for good in a queue for the job's thread.
JobEnds == <>(main \in {"done", "error"})

\* Of the threads only the detector can be left behind: when the end marker meant for it
\* was swept out of read_q (worker.py:522), its bounded join runs out.
ThreadsEnd ==
  <>[](/\ reader \in {"off", "exit"} /\ writer \in {"off", "exit"}
       /\ detect \in {"off", "exit"} \/ (detect = "get" /\ readQ = <<>> /\ stopFlag))
================================================================================
