------------------------------- MODULE CppPipeline -------------------------------
(***************************************************************************)
(* The command line tool's pipeline (cli/src/pipeline.cpp): run_batch runs *)
(* up to Concurrency videos at a time, and run_streaming passes each video *)
(* through four threads, reader, detector, swapper and writer, joined by   *)
(* three bounded queues.  A thread that ends closes the queue it fills,    *)
(* never the one it empties.  One cancel flag is shared by all: the        *)
(* interrupt handler sets it, and so does a writer whose ffmpeg has died.  *)
(*                                                                         *)
(* A frame is its number; detection and swapping pass it on, since their   *)
(* exceptions are caught per frame.  A thread that leaves with a frame in  *)
(* its hands drops it there.  Pipes are those of the Windows build: a      *)
(* write to an ffmpeg that has ended fails, and does nothing else.         *)
(***************************************************************************)
EXTENDS Integers, Sequences, FiniteSets

CONSTANTS
  NumJobs,       \* videos of the batch
  NumFrames,     \* frames of each video that can be read
  Depth,         \* q_depth, the capacity of each queue
  Concurrency,   \* worker threads of run_batch
  Events         \* what may happen in this instance, see AllEvents

AllEvents == {"interrupt",   \* SIGINT
              "pipe",        \* an ffmpeg process ends early, with an error or without
              "open"}        \* a video or its encoder cannot be opened

ASSUME PipelineAssumption ==
  /\ NumJobs \in Nat \ {0} /\ NumFrames \in Nat
  /\ Depth \in Nat \ {0} /\ Concurrency \in Nat \ {0}
  /\ Events \subseteq AllEvents

Jobs == 1 .. NumJobs
Workers == 1 .. (IF Concurrency < NumJobs THEN Concurrency ELSE NumJobs)
Frames == 0 .. NumFrames - 1

\* The threads of a job; thread k fills queue k + 1 and empties queue k.
Reader == 0
Detector == 1
Swapper == 2
Writer == 3
Threads == Reader .. Writer
Queues == Detector .. Writer

None == -1    \* no frame in hand

VARIABLES
  cancel,           \* the flag shared by all
  nextIdx, worker,  \* run_batch: the next job, and the job each worker thread runs (0: none)
  job, error,       \* "waiting", "opening", "running" or "returned"; job.error is set
  thread, hand,     \* per job and thread: where it is, and the frame in its hands
  queue, shut,      \* per job and queue: its frames, and closed_
  pos,              \* frames the reader has read
  encoder, output   \* per job: the ffmpeg process, and the frames written to it

batchVars == <<nextIdx, worker>>
jobVars   == <<job, error>>
lineVars  == <<thread, hand, queue, shut, pos>>
encVars   == <<encoder, output>>
vars == <<cancel, batchVars, jobVars, lineVars, encVars>>

Init ==
  /\ cancel = FALSE
  /\ nextIdx = 1 /\ worker = [w \in Workers |-> 0]
  /\ job = [j \in Jobs |-> "waiting"] /\ error = [j \in Jobs |-> FALSE]
  /\ thread = [j \in Jobs |-> [k \in Threads |-> "off"]]
  /\ hand = [j \in Jobs |-> [k \in Threads |-> None]]
  /\ queue = [j \in Jobs |-> [k \in Queues |-> <<>>]]
  /\ shut = [j \in Jobs |-> [k \in Queues |-> FALSE]]
  /\ pos = [j \in Jobs |-> 0]
  /\ encoder = [j \in Jobs |-> "off"]
  /\ output = [j \in Jobs |-> <<>>]

-------------------------------------------------------------------------------
(* BoundedQueue *)

\* push() waits while the queue is full. Only its producer closes a queue,
\* when it leaves, so a push never finds it closed.
HasRoomOffByOne(j, k) == Len(queue[j][k]) <= Depth
HasRoom(j, k) == Len(queue[j][k]) < Depth

\* pop() returns the oldest frame,
OldestFrame(q) == Head(q)

\* and nothing once the queue is empty and closed.
ClosedAtOnce(j, k) == shut[j][k]
Exhausted(j, k) == shut[j][k] /\ queue[j][k] = <<>>

-------------------------------------------------------------------------------
(* The threads of run_streaming *)

\* Leaving the loop: the next queue is closed. The writer has none.
LeaveOpen(j, k) == thread' = [thread EXCEPT ![j][k] = "exit"] /\ UNCHANGED shut
Leave(j, k) ==
  /\ thread' = [thread EXCEPT ![j][k] = "exit"]
  /\ shut' = IF k = Writer THEN shut ELSE [shut EXCEPT ![j][k + 1] = TRUE]

\* The loop condition of the reader: a look at cancel, then the next frame.
ReaderReads(j) ==
  /\ thread[j][Reader] = "get"
  /\ IF cancel \/ pos[j] = NumFrames
     THEN Leave(j, Reader) /\ UNCHANGED <<hand, pos>>
     ELSE /\ hand' = [hand EXCEPT ![j][Reader] = pos[j]]
          /\ pos' = [pos EXCEPT ![j] = @ + 1]
          /\ thread' = [thread EXCEPT ![j][Reader] = "put"]
          /\ UNCHANGED shut
  /\ UNCHANGED <<cancel, batchVars, jobVars, queue, encVars>>

\* The loop condition of the other threads: a frame is there,
Takes(j, k) ==
  /\ thread[j][k] = "get"
  /\ queue[j][k] # <<>> /\ ~Exhausted(j, k)
  /\ hand' = [hand EXCEPT ![j][k] = OldestFrame(queue[j][k])]
  /\ queue' = [queue EXCEPT ![j][k] = Tail(@)]
  /\ thread' = [thread EXCEPT ![j][k] = "check"]
  /\ UNCHANGED <<cancel, batchVars, jobVars, shut, pos, encVars>>

\* or the queue has come to its end.
FindsEnd(j, k) ==
  /\ thread[j][k] = "get"
  /\ Exhausted(j, k)
  /\ Leave(j, k)
  /\ UNCHANGED <<cancel, batchVars, jobVars, hand, queue, pos, encVars>>

\* The look at cancel comes after the pop: others may have moved in between.
ChecksCancel(j, k) ==
  /\ thread[j][k] = "check"
  /\ IF cancel
     THEN Leave(j, k)
     ELSE thread' = [thread EXCEPT ![j][k] = "put"] /\ UNCHANGED shut
  /\ UNCHANGED <<cancel, batchVars, jobVars, hand, queue, pos, encVars>>

\* A thread other than the writer pushes its frame when there is room.
Puts(j, k) ==
  /\ thread[j][k] = "put"
  /\ HasRoom(j, k + 1)
  /\ queue' = [queue EXCEPT ![j][k + 1] = Append(@, hand[j][k])]
  /\ hand' = [hand EXCEPT ![j][k] = None]
  /\ thread' = [thread EXCEPT ![j][k] = "get"]
  /\ UNCHANGED <<cancel, batchVars, jobVars, shut, pos, encVars>>

\* write_frame succeeds,
WriterWrites(j) ==
  /\ thread[j][Writer] = "put"
  /\ encoder[j] = "run"
  /\ output' = [output EXCEPT ![j] = Append(@, hand[j][Writer])]
  /\ hand' = [hand EXCEPT ![j][Writer] = None]
  /\ thread' = [thread EXCEPT ![j][Writer] = "get"]
  /\ UNCHANGED <<cancel, batchVars, jobVars, queue, shut, pos, encoder>>

\* or fails, which cancels every job.
WriterFails(j) ==
  /\ thread[j][Writer] = "put"
  /\ encoder[j] # "run"
  /\ error' = [error EXCEPT ![j] = TRUE]
  /\ cancel' = TRUE
  /\ Leave(j, Writer)
  /\ UNCHANGED <<batchVars, job, hand, queue, pos, encVars>>

-------------------------------------------------------------------------------
(* run_batch, and run_streaming before and after its threads *)

\* A worker of the pool takes the next job unless cancel is set. A single
\* video is run without the pool, whatever cancel says.
WorkerTakesJob(w) ==
  /\ worker[w] = 0 /\ nextIdx \in Jobs
  /\ ~cancel \/ NumJobs = 1
  /\ worker' = [worker EXCEPT ![w] = nextIdx]
  /\ nextIdx' = nextIdx + 1
  /\ job' = [job EXCEPT ![nextIdx] = "opening"]
  /\ UNCHANGED <<cancel, error, lineVars, encVars>>

\* The video, its references or the encoder cannot be opened: an early return.
JobFailsToOpen(w) ==
  LET j == worker[w] IN
  /\ "open" \in Events
  /\ j # 0 /\ job[j] = "opening"
  /\ job' = [job EXCEPT ![j] = "returned"]
  /\ error' = [error EXCEPT ![j] = TRUE]
  /\ worker' = [worker EXCEPT ![w] = 0]
  /\ UNCHANGED <<cancel, nextIdx, lineVars, encVars>>

\* The encoder is open, and the four threads are started.
JobStarts(w) ==
  LET j == worker[w] IN
  /\ j # 0 /\ job[j] = "opening"
  /\ job' = [job EXCEPT ![j] = "running"]
  /\ encoder' = [encoder EXCEPT ![j] = "run"]
  /\ thread' = [thread EXCEPT ![j] = [k \in Threads |-> "get"]]
  /\ UNCHANGED <<cancel, batchVars, error, hand, queue, shut, pos, output>>

\* The joins, then encoder.close() and its exit code.
Joined(j) == \A k \in Threads : thread[j][k] = "exit"

JobReturns(w) ==
  LET j == worker[w] IN
  /\ j # 0 /\ job[j] = "running" /\ Joined(j)
  /\ job' = [job EXCEPT ![j] = "returned"]
  /\ error' = [error EXCEPT ![j] = @ \/ encoder[j] = "failed"]
  /\ encoder' = [encoder EXCEPT ![j] = IF @ = "run" THEN "off" ELSE @]
  /\ worker' = [worker EXCEPT ![w] = 0]
  /\ UNCHANGED <<cancel, nextIdx, lineVars, output>>

-------------------------------------------------------------------------------
(* The environment *)

\* on_sigint
Interrupt ==
  /\ "interrupt" \in Events /\ ~cancel
  /\ cancel' = TRUE
  /\ UNCHANGED <<batchVars, jobVars, lineVars, encVars>>

\* An ffmpeg process ends before its input does: it fails, or it has all it
\* wants (-shortest, when the sound ends before the pictures).
FfmpegEnds(j) ==
  /\ "pipe" \in Events /\ encoder[j] = "run"
  /\ \E e \in {"failed", "content"} : encoder' = [encoder EXCEPT ![j] = e]
  /\ UNCHANGED <<cancel, batchVars, jobVars, lineVars, output>>

-------------------------------------------------------------------------------
ThreadStep(j, k) ==
  \/ k = Reader /\ ReaderReads(j)
  \/ k # Reader /\ (Takes(j, k) \/ FindsEnd(j, k) \/ ChecksCancel(j, k))
  \/ k # Writer /\ Puts(j, k)
  \/ k = Writer /\ (WriterWrites(j) \/ WriterFails(j))

WorkerStep(w) ==
  WorkerTakesJob(w) \/ JobFailsToOpen(w) \/ JobStarts(w) \/ JobReturns(w)

Next ==
  \/ \E j \in Jobs, k \in Threads : ThreadStep(j, k)
  \/ \E w \in Workers : WorkerStep(w)
  \/ Interrupt
  \/ \E j \in Jobs : FfmpegEnds(j)

Spec == Init /\ [][Next]_vars

\* The operating system schedules every thread, the workers of the pool included.
Fairness ==
  /\ \A j \in Jobs, k \in Threads : WF_vars(ThreadStep(j, k))
  /\ \A w \in Workers : WF_vars(WorkerStep(w))

FairSpec == Spec /\ Fairness

-------------------------------------------------------------------------------
(* Properties *)

Places == {"off", "get", "check", "put", "exit"}

\* Every variable has its type: the queues of q_depth (pipeline.cpp:42) hold
\* frames of the video and never more than Depth of them.
TypeOK ==
  /\ cancel \in BOOLEAN
  /\ nextIdx \in 1 .. NumJobs + 1
  /\ worker \in [Workers -> 0 .. NumJobs]
  /\ job \in [Jobs -> {"waiting", "opening", "running", "returned"}]
  /\ error \in [Jobs -> BOOLEAN]
  /\ thread \in [Jobs -> [Threads -> Places]]
  /\ hand \in [Jobs -> [Threads -> Frames \cup {None}]]
  /\ queue \in [Jobs -> [Queues -> Seq(Frames)]]
  /\ \A j \in Jobs, k \in Queues : Len(queue[j][k]) <= Depth
  /\ shut \in [Jobs -> [Queues -> BOOLEAN]]
  /\ pos \in [Jobs -> 0 .. NumFrames]
  /\ encoder \in [Jobs -> {"off", "run", "failed", "content"}]
  /\ output \in [Jobs -> Seq(Frames)]

\* Frames n .. m - 1: those of q, in order, then the one in hand h.
Link(n, q, h, m) ==
  /\ \A i \in 1 .. Len(q) : q[i] = n + i - 1
  /\ h # None => h = n + Len(q)
  /\ m = n + Len(q) + (IF h = None THEN 0 ELSE 1)

LineOf(j) ==
  \E n1, n2, n3 \in 0 .. NumFrames :
    /\ Link(0, output[j], hand[j][Writer], n1)
    /\ Link(n1, queue[j][Writer], hand[j][Swapper], n2)
    /\ Link(n2, queue[j][Swapper], hand[j][Detector], n3)
    /\ Link(n3, queue[j][Detector], hand[j][Reader], pos[j])

\* The line of a video from encoder to reader (pipeline.cpp:154-227): read
\* backwards, output, hands and queues hold the frames read so far, each once
\* and in order, whoever has been cancelled, has failed or has left.
LineInOrder == \A j \in Jobs : LineOf(j)

\* A job reported as "[ok]" (main.cpp:242) while nothing has been cancelled has
\* written every frame of its video to ffmpeg.
OkIsComplete ==
  \A j \in Jobs : job[j] = "returned" /\ ~error[j] /\ ~cancel
                   => Len(output[j]) = NumFrames

\* A producer that waits at a full queue its consumer has left for good.
Stuck(j, k) == thread[j][k] = "put" /\ ~HasRoom(j, k + 1) /\ thread[j][k + 1] = "exit"

\* The four threads of a job (pipeline.cpp:154-232) never all wait for each other: as long as
\* the joins wait, some thread can go on, unless cancel made one leave a full queue behind.
CanGoOn(j, k) ==
  \/ thread[j][k] = "get" /\ (k = Reader \/ queue[j][k] # <<>> \/ Exhausted(j, k))
  \/ thread[j][k] = "check"
  \/ thread[j][k] = "put" /\ (k = Writer \/ HasRoom(j, k + 1))

SomebodyGoesOn ==
  \A j \in Jobs : job[j] = "running" =>
    \/ Joined(j)
    \/ \E k \in Threads : CanGoOn(j, k)
    \/ cancel /\ \E k \in Threads \ {Writer} : Stuck(j, k)

\* Every job returns in the end (pipeline.cpp:229-232, run_batch), unless cancel is
\* set: then jobs that were not taken stay behind, and so do jobs with a stuck producer.
\* There is no other way to hang.
JobsEnd ==
  <>[](\A j \in Jobs :
        \/ job[j] = "returned"
        \/ cancel /\ job[j] = "waiting"
        \/ cancel /\ \E k \in Threads \ {Writer} : Stuck(j, k))

\* Every video of a batch keeps the promise of a streaming job (pipeline.cpp:154-240): ffmpeg
\* gets its frames in order and each once, nothing is written once the writer has left, and
\* unless an interrupt, an encoder that ended early or another video of the batch cut it short,
\* the writer only leaves when ffmpeg has every frame.
Received(j) == [i \in DOMAIN output[j] |-> [frame |-> output[j][i], swapped |-> TRUE]]

JobStatus(j) == IF job[j] = "returned" THEN (IF error[j] THEN "error" ELSE "done")
                ELSE IF thread[j][Writer] = "exit" THEN "sealed" ELSE "open"

CutShort(j) == cancel \/ encoder[j] \in {"failed", "content"}

Job(j) == INSTANCE StreamJob
            WITH out <- Received(j), status <- JobStatus(j), cut <- CutShort(j)

ImplementsStreamJob ==
  /\ \A j \in Jobs : Job(j)!Init
  /\ [][\A j \in Jobs : [Job(j)!Next]_(Job(j)!vars)]_vars
================================================================================
