---------------------------- MODULE CppPipelineProofs ----------------------------
(***************************************************************************)
(* Proofs about CppPipeline, for any number of videos, frames and workers, *)
(* any depth of the queues and any set of events: the types, the order of  *)
(* the frames, that a job without an error is complete, that the threads   *)
(* of a job never all wait for each other, and that every video keeps the  *)
(* promise of StreamJob.                                                   *)
(***************************************************************************)
EXTENDS CppPipeline, TLAPS

\* A thread has a frame from the moment it gets one until it has passed it on.
Hands ==
  \A j \in Jobs, k \in Threads :
    /\ thread[j][k] \in {"check", "put"} => hand[j][k] # None
    /\ thread[j][k] \in {"off", "get"} => hand[j][k] = None

\* Jobs are taken in order, and their threads are started once.
Fresh ==
  /\ \A j \in Jobs : j >= nextIdx => job[j] = "waiting"
  /\ \A j \in Jobs, k \in Threads : job[j] \in {"waiting", "opening"} => thread[j][k] = "off"

TypeInv == TypeOK /\ Hands /\ Fresh

LEMMA InitTypeInv == Init => TypeInv
<1> SUFFICES ASSUME Init PROVE TypeInv
  OBVIOUS
<1>1. /\ 1 \in 1 .. NumJobs + 1 /\ 0 \in 0 .. NumJobs /\ 0 \in 0 .. NumFrames /\ 0 <= Depth
  BY PipelineAssumption
<1>2. TypeOK
  <2>1. queue \in [Jobs -> [Queues -> Seq(Frames)]] /\ output \in [Jobs -> Seq(Frames)]
    BY DEF Init
  <2>2. \A j \in Jobs, k \in Queues : Len(queue[j][k]) <= Depth
    BY <1>1 DEF Init
  <2> QED
    BY <1>1, <2>1, <2>2 DEF Init, TypeOK, Places
<1>3. Hands /\ Fresh
  BY DEF Init, Hands, Fresh
<1> QED
  BY <1>2, <1>3 DEF TypeInv

LEMMA ThreadNames ==
  /\ Threads = {Reader, Detector, Swapper, Writer} /\ Queues = {Detector, Swapper, Writer}
  /\ Reader = 0 /\ Detector = 1 /\ Swapper = 2 /\ Writer = 3
  /\ \A k \in Threads : k # Writer => k + 1 \in Queues
  /\ \A k \in Queues : k - 1 \in Threads /\ k - 1 # Writer
  BY DEF Threads, Queues, Reader, Detector, Swapper, Writer

\* Leaving keeps the types of what it touches.
LEMMA LeaveTypes ==
  ASSUME TypeOK, NEW j \in Jobs, NEW k \in Threads, Leave(j, k)
  PROVE  /\ thread' = [thread EXCEPT ![j][k] = "exit"]
         /\ thread' \in [Jobs -> [Threads -> Places]] /\ shut' \in [Jobs -> [Queues -> BOOLEAN]]
<1>1. CASE k = Writer
  BY <1>1 DEF Leave, TypeOK, Places
<1>2. CASE k # Writer
  BY <1>2, ThreadNames DEF Leave, TypeOK, Places
<1> QED
  BY <1>1, <1>2

Fits(p, h) == /\ p \in {"check", "put"} => h # None
              /\ p \in {"off", "get"} => h = None

\* One thread moves on and takes, keeps or passes on its frame: the hands stay right if
\* its own does.
LEMMA HandsStep ==
  ASSUME TypeOK, Hands, NEW j \in Jobs, NEW k \in Threads, NEW p, NEW h,
         thread' = [thread EXCEPT ![j][k] = p], hand' = [hand EXCEPT ![j][k] = h],
         Fits(p, h)
  PROVE  Hands'
<1>1. SUFFICES ASSUME NEW i \in Jobs, NEW m \in Threads
               PROVE  /\ thread'[i][m] \in {"check", "put"} => hand'[i][m] # None
                      /\ thread'[i][m] \in {"off", "get"} => hand'[i][m] = None
  BY DEF Hands
<1>2. thread \in [Jobs -> [Threads -> Places]] /\ hand \in [Jobs -> [Threads -> Frames \cup {None}]]
  BY DEF TypeOK
<1>3. CASE i = j /\ m = k
  <2>1. thread'[i][m] = p /\ hand'[i][m] = h
    BY <1>2, <1>3
  <2> QED
    BY <2>1 DEF Fits
<1>4. CASE ~(i = j /\ m = k)
  <2>1. thread'[i][m] = thread[i][m] /\ hand'[i][m] = hand[i][m]
    BY <1>2, <1>4
  <2> QED
    BY <2>1 DEF Hands
<1> QED
  BY <1>3, <1>4

\* A thread that leaves may keep what it has in hand.
LEMMA HandsLeave ==
  ASSUME TypeOK, Hands, NEW j \in Jobs, NEW k \in Threads,
         thread' = [thread EXCEPT ![j][k] = "exit"], UNCHANGED hand
  PROVE  Hands'
<1>1. hand' = [hand EXCEPT ![j][k] = hand[j][k]]
  BY DEF TypeOK
<1>2. Fits("exit", hand[j][k])
  BY DEF Fits
<1> QED
  BY <1>1, <1>2, HandsStep

\* A thread that moves on had been started, hence so had its job.
LEMMA FreshStep ==
  ASSUME TypeOK, Fresh, NEW j \in Jobs, NEW k \in Threads, NEW p,
         thread[j][k] # "off", thread' = [thread EXCEPT ![j][k] = p], UNCHANGED <<nextIdx, job>>
  PROVE  Fresh'
<1>1. job[j] \notin {"waiting", "opening"}
  BY DEF Fresh
<1>2. ASSUME NEW i \in Jobs, NEW m \in Threads, job[i] \in {"waiting", "opening"}
      PROVE  thread'[i][m] = "off"
  <2>1. i # j /\ thread[i][m] = "off"
    BY <1>1, <1>2 DEF Fresh
  <2>2. thread'[i] = thread[i]
    BY <2>1 DEF TypeOK
  <2> QED
    BY <2>1, <2>2
<1>3. \A i \in Jobs : i >= nextIdx' => job'[i] = "waiting"
  BY DEF Fresh
<1> QED
  BY <1>2, <1>3 DEF Fresh

\* A step of a thread keeps the types.
LEMMA ThreadTypes ==
  ASSUME TypeInv, NEW j \in Jobs, NEW k \in Threads, ThreadStep(j, k)
  PROVE  TypeInv'
<1> USE DEF TypeInv
<1> USE ThreadNames
<1>1. ASSUME k = Reader, ReaderReads(j) PROVE TypeInv'
  <2>1. CASE cancel \/ pos[j] = NumFrames
    <3>1. Leave(j, Reader) /\ UNCHANGED <<cancel, batchVars, jobVars, hand, queue, pos, encVars>>
      BY <1>1, <2>1 DEF ReaderReads
    <3>2. TypeOK'
      BY <3>1, LeaveTypes DEF TypeOK, batchVars, jobVars, encVars
    <3>5. thread' = [thread EXCEPT ![j][Reader] = "exit"]
      BY <3>1, LeaveTypes
    <3>3. Hands'
      BY <1>1, <3>1, <3>5, HandsLeave
    <3>4. Fresh'
      BY <1>1, <3>1, <3>5, FreshStep DEF ReaderReads, batchVars, jobVars
    <3> QED
      BY <3>2, <3>3, <3>4
  <2>2. CASE ~(cancel \/ pos[j] = NumFrames)
    <3>1. /\ hand' = [hand EXCEPT ![j][Reader] = pos[j]]
          /\ pos' = [pos EXCEPT ![j] = @ + 1]
          /\ thread' = [thread EXCEPT ![j][Reader] = "put"]
          /\ UNCHANGED <<cancel, nextIdx, worker, job, error, queue, shut, encoder, output>>
      BY <1>1, <2>2 DEF ReaderReads, batchVars, jobVars, encVars
    <3>2. pos[j] \in Frames /\ pos[j] + 1 \in 0 .. NumFrames /\ pos[j] # None
      <4>1. pos[j] \in 0 .. NumFrames /\ pos[j] # NumFrames
        BY <2>2 DEF TypeOK
      <4> QED
        BY <4>1, PipelineAssumption DEF Frames, None
    <3>3. TypeOK'
      BY <3>1, <3>2 DEF TypeOK, Places
    <3>4. Hands'
      <4>1. Fits("put", pos[j])
        BY <3>2 DEF Fits
      <4> QED
        BY <1>1, <3>1, <4>1, HandsStep
    <3>5. Fresh'
      BY <1>1, <3>1, FreshStep DEF ReaderReads
    <3> QED
      BY <3>3, <3>4, <3>5
  <2> QED
    BY <2>1, <2>2
<1>2. ASSUME k # Reader, Takes(j, k) PROVE TypeInv'
  <2>1. k \in Queues /\ queue[j][k] \in Seq(Frames) /\ queue[j][k] # <<>>
    BY <1>2 DEF Takes, TypeOK
  <2>2. /\ Head(queue[j][k]) \in Frames /\ Tail(queue[j][k]) \in Seq(Frames)
        /\ Len(Tail(queue[j][k])) <= Depth /\ Head(queue[j][k]) # None
    <3>1. Len(queue[j][k]) <= Depth
      BY <2>1 DEF TypeOK
    <3>2. Head(queue[j][k]) \in Frames /\ Tail(queue[j][k]) \in Seq(Frames)
      BY <2>1
    <3>3. Len(Tail(queue[j][k])) = Len(queue[j][k]) - 1 /\ Len(queue[j][k]) \in Nat
      BY <2>1
    <3>4. Len(Tail(queue[j][k])) <= Depth
      BY <3>1, <3>3, PipelineAssumption
    <3>5. Head(queue[j][k]) # None
      BY <3>2, PipelineAssumption DEF Frames, None
    <3> QED
      BY <3>2, <3>4, <3>5
  <2>3. /\ hand' = [hand EXCEPT ![j][k] = Head(queue[j][k])]
        /\ queue' = [queue EXCEPT ![j][k] = Tail(queue[j][k])]
        /\ thread' = [thread EXCEPT ![j][k] = "check"]
        /\ UNCHANGED <<cancel, nextIdx, worker, job, error, shut, pos, encoder, output>>
    BY <1>2, <2>1 DEF Takes, TypeOK, OldestFrame, batchVars, jobVars, encVars
  <2>4. TypeOK'
    BY <2>1, <2>2, <2>3 DEF TypeOK, Places
  <2>5. Hands'
    <3>1. Fits("check", Head(queue[j][k]))
      BY <2>2 DEF Fits
    <3>2. /\ thread' = [thread EXCEPT ![j][k] = "check"]
          /\ hand' = [hand EXCEPT ![j][k] = Head(queue[j][k])]
      BY <2>3
    <3> QED
      BY ONLY TypeInv, j \in Jobs, k \in Threads, <3>1, <3>2, HandsStep DEF TypeInv
  <2>6. Fresh'
    <3>1. /\ thread[j][k] # "off" /\ UNCHANGED <<nextIdx, job>>
          /\ thread' = [thread EXCEPT ![j][k] = "check"]
      BY <1>2, <2>3 DEF Takes
    <3> QED
      BY ONLY TypeInv, j \in Jobs, k \in Threads, <3>1, FreshStep DEF TypeInv
  <2> QED
    BY <2>4, <2>5, <2>6
<1>3. ASSUME k # Reader, FindsEnd(j, k) PROVE TypeInv'
  <2>1. /\ Leave(j, k) /\ thread[j][k] = "get"
        /\ UNCHANGED <<cancel, nextIdx, worker, job, error, hand, queue, pos, encoder, output>>
    BY <1>3 DEF FindsEnd, batchVars, jobVars, encVars
  <2>2. TypeOK'
    BY <2>1, LeaveTypes DEF TypeOK
  <2>3. thread' = [thread EXCEPT ![j][k] = "exit"]
    BY <2>1, LeaveTypes
  <2>4. Hands' /\ Fresh'
    BY <2>1, <2>3, HandsLeave, FreshStep
  <2> QED
    BY <2>2, <2>4
<1>4. ASSUME k # Reader, ChecksCancel(j, k) PROVE TypeInv'
  <2>1. /\ thread[j][k] = "check"
        /\ UNCHANGED <<cancel, nextIdx, worker, job, error, hand, queue, pos, encoder, output>>
    BY <1>4 DEF ChecksCancel, batchVars, jobVars, encVars
  <2>2. CASE Leave(j, k)
    <3>1. TypeOK'
      BY <2>1, <2>2, LeaveTypes DEF TypeOK
    <3>2. thread' = [thread EXCEPT ![j][k] = "exit"]
      BY <2>2, LeaveTypes
    <3>3. Hands' /\ Fresh'
      BY <2>1, <3>2, HandsLeave, FreshStep
    <3> QED
      BY <3>1, <3>3
  <2>3. CASE thread' = [thread EXCEPT ![j][k] = "put"] /\ UNCHANGED shut
    <3>1. TypeOK'
      BY <2>1, <2>3 DEF TypeOK, Places
    <3>2. Hands'
      <4>1. hand' = [hand EXCEPT ![j][k] = hand[j][k]]
        BY <2>1 DEF TypeOK
      <4>2. Fits("put", hand[j][k])
        BY <2>1 DEF Hands, Fits
      <4> QED
        BY <2>3, <4>1, <4>2, HandsStep
    <3>3. Fresh'
      BY <2>1, <2>3, FreshStep
    <3> QED
      BY <3>1, <3>2, <3>3
  <2> QED
    BY <1>4, <2>2, <2>3 DEF ChecksCancel
<1>5. ASSUME k # Writer, Puts(j, k) PROVE TypeInv'
  <2> DEFINE q == Append(queue[j][k + 1], hand[j][k])
  <2>1. k + 1 \in Queues /\ queue[j][k + 1] \in Seq(Frames) /\ hand[j][k] \in Frames
    BY <1>5 DEF Puts, TypeOK, Hands
  <2>2. q \in Seq(Frames) /\ Len(q) <= Depth
    BY <1>5, <2>1, PipelineAssumption DEF Puts, HasRoom
  <2>3. /\ queue' = [queue EXCEPT ![j][k + 1] = q]
        /\ hand' = [hand EXCEPT ![j][k] = None]
        /\ thread' = [thread EXCEPT ![j][k] = "get"]
        /\ UNCHANGED <<cancel, nextIdx, worker, job, error, shut, pos, encoder, output>>
    BY <1>5, <2>1 DEF Puts, TypeOK, batchVars, jobVars, encVars
  <2> HIDE DEF q
  <2>4. TypeOK'
    BY <2>1, <2>2, <2>3 DEF TypeOK, Places
  <2>5. Hands'
    <3>1. Fits("get", None)
      BY DEF Fits
    <3>2. thread' = [thread EXCEPT ![j][k] = "get"] /\ hand' = [hand EXCEPT ![j][k] = None]
      BY <2>3
    <3> QED
      BY ONLY TypeInv, j \in Jobs, k \in Threads, <3>1, <3>2, HandsStep DEF TypeInv
  <2>6. Fresh'
    <3>1. /\ thread[j][k] # "off" /\ UNCHANGED <<nextIdx, job>>
          /\ thread' = [thread EXCEPT ![j][k] = "get"]
      BY <1>5, <2>3 DEF Puts
    <3> QED
      BY ONLY TypeInv, j \in Jobs, k \in Threads, <3>1, FreshStep DEF TypeInv
  <2> QED
    BY <2>4, <2>5, <2>6
<1>6. ASSUME k = Writer, WriterWrites(j) PROVE TypeInv'
  <2>1. hand[j][Writer] \in Frames /\ output[j] \in Seq(Frames)
    BY <1>6 DEF WriterWrites, TypeOK, Hands
  <2>2. Append(output[j], hand[j][Writer]) \in Seq(Frames)
    BY <2>1
  <2>3. TypeOK'
    BY <1>6, <2>2 DEF WriterWrites, TypeOK, Places, batchVars, jobVars
  <2>4. Hands'
    <3>1. Fits("get", None)
      BY DEF Fits
    <3> QED
      BY <1>6, <3>1, HandsStep DEF WriterWrites
  <2>5. Fresh'
    BY <1>6, FreshStep DEF WriterWrites, batchVars, jobVars
  <2> QED
    BY <2>3, <2>4, <2>5
<1>7. ASSUME k = Writer, WriterFails(j) PROVE TypeInv'
  <2>1. Leave(j, Writer)
    BY <1>7 DEF WriterFails
  <2>2. TypeOK'
    BY <1>7, <2>1, LeaveTypes DEF WriterFails, TypeOK, batchVars, encVars
  <2>4. thread' = [thread EXCEPT ![j][k] = "exit"]
    BY <1>7, <2>1, LeaveTypes
  <2>3. Hands' /\ Fresh'
    BY <1>7, <2>4, HandsLeave, FreshStep DEF WriterFails, batchVars
  <2> QED
    BY <2>2, <2>3
<1> QED
  BY <1>1, <1>2, <1>3, <1>4, <1>5, <1>6, <1>7 DEF ThreadStep

\* A step of a worker of the pool keeps the types.
LEMMA WorkerTypes ==
  ASSUME TypeInv, NEW w \in Workers, WorkerStep(w)
  PROVE  TypeInv'
<1> USE DEF TypeInv
<1>1. ASSUME WorkerTakesJob(w) PROVE TypeInv'
  <2>1. nextIdx \in Jobs /\ nextIdx + 1 \in 1 .. NumJobs + 1 /\ nextIdx \in 0 .. NumJobs
    BY <1>1, PipelineAssumption DEF WorkerTakesJob, Jobs
  <2>2. TypeOK' /\ Hands'
    BY <1>1, <2>1 DEF WorkerTakesJob, TypeOK, Hands, lineVars, encVars
  <2>3. Fresh'
    BY <1>1, <2>1 DEF WorkerTakesJob, TypeOK, Fresh, lineVars, Jobs
  <2> QED
    BY <2>2, <2>3
<1>2. worker[w] # 0 => worker[w] \in Jobs
  BY PipelineAssumption DEF TypeOK, Jobs
<1>3. ASSUME JobFailsToOpen(w) PROVE TypeInv'
  <2>1. TypeOK'
    BY <1>2, <1>3, PipelineAssumption DEF JobFailsToOpen, TypeOK, lineVars, encVars
  <2>2. Hands' /\ Fresh'
    BY <1>2, <1>3 DEF JobFailsToOpen, TypeOK, Hands, Fresh, lineVars
  <2> QED
    BY <2>1, <2>2
<1>4. ASSUME JobStarts(w) PROVE TypeInv'
  <2>1. TypeOK'
    BY <1>2, <1>4 DEF JobStarts, TypeOK, Places, batchVars
  <2>2. Hands' /\ Fresh'
    BY <1>2, <1>4 DEF JobStarts, TypeOK, Hands, Fresh, batchVars
  <2> QED
    BY <2>1, <2>2
<1>5. ASSUME JobReturns(w) PROVE TypeInv'
  <2>1. TypeOK'
    BY <1>2, <1>5, PipelineAssumption DEF JobReturns, TypeOK, lineVars
  <2>2. Hands' /\ Fresh'
    BY <1>2, <1>5 DEF JobReturns, TypeOK, Hands, Fresh, lineVars
  <2> QED
    BY <2>1, <2>2
<1> QED
  BY <1>1, <1>3, <1>4, <1>5 DEF WorkerStep

LEMMA StepTypes == TypeInv /\ [Next]_vars => TypeInv'
<1> SUFFICES ASSUME TypeInv, [Next]_vars PROVE TypeInv'
  OBVIOUS
<1>1. ASSUME NEW j \in Jobs, NEW k \in Threads, ThreadStep(j, k) PROVE TypeInv'
  BY <1>1, ThreadTypes
<1>2. ASSUME NEW w \in Workers, WorkerStep(w) PROVE TypeInv'
  BY <1>2, WorkerTypes
<1>3. CASE Interrupt
  BY <1>3 DEF Interrupt, TypeInv, TypeOK, Hands, Fresh, batchVars, jobVars, lineVars, encVars
<1>4. ASSUME NEW j \in Jobs, FfmpegEnds(j) PROVE TypeInv'
  BY <1>4 DEF FfmpegEnds, TypeInv, TypeOK, Hands, Fresh, batchVars, jobVars, lineVars
<1>5. CASE UNCHANGED vars
  BY <1>5 DEF vars, TypeInv, TypeOK, Hands, Fresh, batchVars, jobVars, lineVars, encVars
<1> QED
  BY <1>1, <1>2, <1>3, <1>4, <1>5 DEF Next

\* Every variable keeps its type; in particular no queue outgrows q_depth, however
\* threads are scheduled and whatever fails.
THEOREM TypeCorrect == Spec => []TypeOK
<1>1. TypeInv => TypeOK
  BY DEF TypeInv
<1> QED
  BY <1>1, InitTypeInv, StepTypes, PTL DEF Spec

-------------------------------------------------------------------------------
(* The order of the frames *)

\* Pushing the frame in hand,
LEMMA LinkPush ==
  ASSUME NEW q \in Seq(Frames), NEW n \in Nat, NEW h \in Frames, NEW m, Link(n, q, h, m)
  PROVE  Link(n, Append(q, h), None, m)
<1>1. h # None /\ Len(Append(q, h)) = Len(q) + 1
  BY DEF Frames, None
<1>2. h = n + Len(q) /\ m = n + Len(q) + 1
  BY <1>1 DEF Link
<1>3. ASSUME NEW i \in 1 .. Len(q) + 1 PROVE Append(q, h)[i] = n + i - 1
  <2>1. CASE i \in 1 .. Len(q)
    BY <2>1 DEF Link
  <2>2. CASE i = Len(q) + 1
    BY <1>2, <2>2
  <2> QED
    BY <2>1, <2>2
<1> QED
  BY <1>1, <1>2, <1>3 DEF Link

\* taking the oldest frame of the queue,
LEMMA LinkPop ==
  ASSUME NEW q \in Seq(Frames), NEW n \in Nat, NEW h, NEW m, Link(n, q, h, m), q # <<>>
  PROVE  Head(q) = n /\ Link(n + 1, Tail(q), h, m)
<1>1. Len(q) \in Nat \ {0} /\ Len(Tail(q)) = Len(q) - 1
  OBVIOUS
<1>2. Head(q) = n
  BY <1>1 DEF Link
<1>3. ASSUME NEW i \in 1 .. Len(q) - 1 PROVE Tail(q)[i] = n + 1 + i - 1
  <2>1. Tail(q)[i] = q[i + 1] /\ i + 1 \in 1 .. Len(q)
    BY <1>1
  <2> QED
    BY <2>1 DEF Link
<1> QED
  BY <1>1, <1>2, <1>3 DEF Link

\* and getting a frame into an empty hand, keep the links of the line.
LEMMA LinkGet ==
  ASSUME NEW q \in Seq(Frames), NEW n \in Nat, NEW m \in Nat, Link(n, q, None, m)
  PROVE  Link(n, q, m, m + 1)
  BY DEF Link, None

LEMMA LinkBound ==
  ASSUME NEW q \in Seq(Frames), NEW n \in Nat, NEW h, NEW m, Link(n, q, h, m)
  PROVE  m \in Nat /\ n <= m
  BY DEF Link

\* The line of a job depends on nothing else.
LEMMA LineUnchanged ==
  ASSUME NEW j \in Jobs, LineOf(j), output'[j] = output[j], queue'[j] = queue[j],
         hand'[j] = hand[j], pos'[j] = pos[j]
  PROVE  LineOf(j)'
  BY DEF LineOf

LEMMA InitLine == Init => LineInOrder
<1> SUFFICES ASSUME Init, NEW j \in Jobs PROVE LineOf(j)
  BY DEF LineInOrder
<1>1. 0 \in 0 .. NumFrames /\ Link(0, << >>, None, 0)
  BY PipelineAssumption DEF Link
<1> QED
  BY <1>1, ThreadNames DEF Init, LineOf

\* A frame moves on: from reader to detector, and so on.
LEMMA PutsInOrder ==
  ASSUME TypeInv, NEW j \in Jobs, NEW k \in Threads \ {Writer}, LineOf(j), Puts(j, k)
  PROVE  LineOf(j)'
<1>1. /\ k + 1 \in Queues /\ queue[j][k + 1] \in Seq(Frames) /\ hand[j][k] \in Frames
      /\ queue'[j] = [queue[j] EXCEPT ![k + 1] = Append(queue[j][k + 1], hand[j][k])]
      /\ hand'[j] = [hand[j] EXCEPT ![k] = None]
      /\ UNCHANGED <<output, pos>>
  BY ThreadNames DEF Puts, TypeInv, TypeOK, Hands, encVars
<1>2. DOMAIN queue[j] = Queues /\ DOMAIN hand[j] = Threads
  BY DEF TypeInv, TypeOK
<1>3. PICK n1, n2, n3 \in 0 .. NumFrames :
        /\ Link(0, output[j], hand[j][Writer], n1)
        /\ Link(n1, queue[j][Writer], hand[j][Swapper], n2)
        /\ Link(n2, queue[j][Swapper], hand[j][Detector], n3)
        /\ Link(n3, queue[j][Detector], hand[j][Reader], pos[j])
  BY DEF LineOf
<1>4. n1 \in Nat /\ n2 \in Nat /\ n3 \in Nat
  OBVIOUS
<1>5. CASE k = Reader
  <2>1. Link(n3, Append(queue[j][Detector], hand[j][Reader]), None, pos[j])
    BY <1>1, <1>3, <1>4, <1>5, LinkPush, ThreadNames
  <2>2. /\ queue'[j][Writer] = queue[j][Writer] /\ queue'[j][Swapper] = queue[j][Swapper]
        /\ queue'[j][Detector] = Append(queue[j][Detector], hand[j][Reader])
        /\ hand'[j][Writer] = hand[j][Writer] /\ hand'[j][Swapper] = hand[j][Swapper]
        /\ hand'[j][Detector] = hand[j][Detector] /\ hand'[j][Reader] = None
    BY <1>1, <1>2, <1>5, ThreadNames
  <2> QED
    BY <1>1, <1>3, <2>1, <2>2 DEF LineOf
<1>6. CASE k = Detector
  <2>1. Link(n2, Append(queue[j][Swapper], hand[j][Detector]), None, n3)
    BY <1>1, <1>3, <1>4, <1>6, LinkPush, ThreadNames
  <2>2. /\ queue'[j][Writer] = queue[j][Writer] /\ queue'[j][Detector] = queue[j][Detector]
        /\ queue'[j][Swapper] = Append(queue[j][Swapper], hand[j][Detector])
        /\ hand'[j][Writer] = hand[j][Writer] /\ hand'[j][Swapper] = hand[j][Swapper]
        /\ hand'[j][Reader] = hand[j][Reader] /\ hand'[j][Detector] = None
    BY <1>1, <1>2, <1>6, ThreadNames
  <2> QED
    BY <1>1, <1>3, <2>1, <2>2 DEF LineOf
<1>7. CASE k = Swapper
  <2>1. Link(n1, Append(queue[j][Writer], hand[j][Swapper]), None, n2)
    BY <1>1, <1>3, <1>4, <1>7, LinkPush, ThreadNames
  <2>2. /\ queue'[j][Swapper] = queue[j][Swapper] /\ queue'[j][Detector] = queue[j][Detector]
        /\ queue'[j][Writer] = Append(queue[j][Writer], hand[j][Swapper])
        /\ hand'[j][Writer] = hand[j][Writer] /\ hand'[j][Detector] = hand[j][Detector]
        /\ hand'[j][Reader] = hand[j][Reader] /\ hand'[j][Swapper] = None
    BY <1>1, <1>2, <1>7, ThreadNames
  <2> QED
    BY <1>1, <1>3, <2>1, <2>2 DEF LineOf
<1> QED
  BY <1>5, <1>6, <1>7, ThreadNames

\* A thread takes a frame into its empty hand.
LEMMA TakesInOrder ==
  ASSUME TypeInv, NEW j \in Jobs, NEW k \in Queues, LineOf(j), Takes(j, k)
  PROVE  LineOf(j)'
<1>types. /\ queue \in [Jobs -> [Queues -> Seq(Frames)]] /\ output \in [Jobs -> Seq(Frames)]
          /\ hand \in [Jobs -> [Threads -> Frames \cup {None}]] /\ pos \in [Jobs -> 0 .. NumFrames]
  BY DEF TypeInv, TypeOK
<1>step. /\ queue[j][k] # <<>> /\ thread[j][k] = "get" /\ UNCHANGED <<output, pos>>
         /\ queue' = [queue EXCEPT ![j][k] = Tail(@)]
         /\ hand' = [hand EXCEPT ![j][k] = Head(queue[j][k])]
  BY DEF Takes, OldestFrame, encVars
<1>empty. k \in Threads /\ hand[j][k] = None
  BY <1>step, ThreadNames DEF TypeInv, Hands
<1>1. /\ queue[j] \in [Queues -> Seq(Frames)] /\ queue[j][k] # <<>> /\ output[j] \in Seq(Frames)
      /\ queue[j][k] \in Seq(Frames) /\ Tail(queue[j][k]) \in Seq(Frames) /\ hand[j][k] = None
      /\ queue'[j] = [queue[j] EXCEPT ![k] = Tail(queue[j][k])]
      /\ hand'[j] = [hand[j] EXCEPT ![k] = Head(queue[j][k])]
      /\ UNCHANGED <<output, pos>> /\ pos[j] \in 0 .. NumFrames
  BY <1>types, <1>step, <1>empty
<1>2. DOMAIN queue[j] = Queues /\ DOMAIN hand[j] = Threads
  BY DEF TypeInv, TypeOK
<1>3. PICK n1, n2, n3 \in 0 .. NumFrames :
        /\ Link(0, output[j], hand[j][Writer], n1)
        /\ Link(n1, queue[j][Writer], hand[j][Swapper], n2)
        /\ Link(n2, queue[j][Swapper], hand[j][Detector], n3)
        /\ Link(n3, queue[j][Detector], hand[j][Reader], pos[j])
  BY DEF LineOf
<1>4. n1 \in Nat /\ n2 \in Nat /\ n3 \in Nat
  OBVIOUS
<1>5. CASE k = Writer
  <2>1. /\ Head(queue[j][Writer]) = n1 /\ Link(n1 + 1, Tail(queue[j][Writer]), hand[j][Swapper], n2)
        /\ Link(0, output[j], n1, n1 + 1)
    <3>1. /\ queue[j][Writer] \in Seq(Frames) /\ queue[j][Writer] # <<>>
          /\ Link(n1, queue[j][Writer], hand[j][Swapper], n2)
      BY <1>1, <1>3, <1>5
    <3>2. output[j] \in Seq(Frames) /\ 0 \in Nat /\ Link(0, output[j], None, n1)
      BY <1>1, <1>3, <1>5, ThreadNames
    <3>3. Head(queue[j][Writer]) = n1 /\ Link(n1 + 1, Tail(queue[j][Writer]), hand[j][Swapper], n2)
      BY <1>4, <3>1, LinkPop
    <3> QED
      BY <1>4, <3>2, <3>3, LinkGet
  <2>2. /\ queue'[j][Swapper] = queue[j][Swapper] /\ queue'[j][Detector] = queue[j][Detector]
        /\ queue'[j][Writer] = Tail(queue[j][Writer]) /\ hand'[j][Writer] = n1
        /\ hand'[j][Swapper] = hand[j][Swapper] /\ hand'[j][Detector] = hand[j][Detector]
        /\ hand'[j][Reader] = hand[j][Reader]
    BY <1>1, <1>2, <1>5, <2>1, ThreadNames
  <2>3. n1 + 1 \in 0 .. NumFrames
    <3>1. n1 + 1 \in Nat /\ Tail(queue[j][Writer]) \in Seq(Frames)
      BY <1>1, <1>4, <1>5
    <3>2. n1 + 1 <= n2 /\ n2 \in Nat
      BY <2>1, <3>1, LinkBound
    <3>3. n2 \in 0 .. NumFrames /\ NumFrames \in Nat
      BY <1>1, PipelineAssumption
    <3> QED
      BY <3>1, <3>2, <3>3
  <2> QED
    BY <1>1, <1>3, <2>1, <2>2, <2>3 DEF LineOf
<1>6. CASE k = Swapper
  <2>1. /\ Head(queue[j][Swapper]) = n2 /\ Link(n2 + 1, Tail(queue[j][Swapper]), hand[j][Detector], n3)
        /\ Link(n1, queue[j][Writer], n2, n2 + 1)
    <3>1. /\ queue[j][Swapper] \in Seq(Frames) /\ queue[j][Swapper] # <<>>
          /\ Link(n2, queue[j][Swapper], hand[j][Detector], n3)
      BY <1>1, <1>3, <1>6
    <3>2. queue[j][Writer] \in Seq(Frames) /\ Link(n1, queue[j][Writer], None, n2)
      BY <1>1, <1>3, <1>6, ThreadNames
    <3>3. Head(queue[j][Swapper]) = n2 /\ Link(n2 + 1, Tail(queue[j][Swapper]), hand[j][Detector], n3)
      BY <1>4, <3>1, LinkPop
    <3> QED
      BY <1>4, <3>2, <3>3, LinkGet
  <2>2. /\ queue'[j][Writer] = queue[j][Writer] /\ queue'[j][Detector] = queue[j][Detector]
        /\ queue'[j][Swapper] = Tail(queue[j][Swapper]) /\ hand'[j][Swapper] = n2
        /\ hand'[j][Writer] = hand[j][Writer] /\ hand'[j][Detector] = hand[j][Detector]
        /\ hand'[j][Reader] = hand[j][Reader]
    BY <1>1, <1>2, <1>6, <2>1, ThreadNames
  <2>3. n2 + 1 \in 0 .. NumFrames
    <3>1. n2 + 1 \in Nat /\ Tail(queue[j][Swapper]) \in Seq(Frames)
      BY <1>1, <1>4, <1>6
    <3>2. n2 + 1 <= n3 /\ n3 \in Nat
      BY <2>1, <3>1, LinkBound
    <3>3. n3 \in 0 .. NumFrames /\ NumFrames \in Nat
      BY <1>1, PipelineAssumption
    <3> QED
      BY <3>1, <3>2, <3>3
  <2> QED
    BY <1>1, <1>3, <2>1, <2>2, <2>3 DEF LineOf
<1>7. CASE k = Detector
  <2>1. /\ Head(queue[j][Detector]) = n3 /\ Link(n3 + 1, Tail(queue[j][Detector]), hand[j][Reader], pos[j])
        /\ Link(n2, queue[j][Swapper], n3, n3 + 1)
    <3>1. /\ queue[j][Detector] \in Seq(Frames) /\ queue[j][Detector] # <<>>
          /\ Link(n3, queue[j][Detector], hand[j][Reader], pos[j])
      BY <1>1, <1>3, <1>7
    <3>2. queue[j][Swapper] \in Seq(Frames) /\ Link(n2, queue[j][Swapper], None, n3)
      BY <1>1, <1>3, <1>7, ThreadNames
    <3>3. Head(queue[j][Detector]) = n3 /\ Link(n3 + 1, Tail(queue[j][Detector]), hand[j][Reader], pos[j])
      BY <1>4, <3>1, LinkPop
    <3> QED
      BY <1>4, <3>2, <3>3, LinkGet
  <2>2. /\ queue'[j][Writer] = queue[j][Writer] /\ queue'[j][Swapper] = queue[j][Swapper]
        /\ queue'[j][Detector] = Tail(queue[j][Detector]) /\ hand'[j][Detector] = n3
        /\ hand'[j][Writer] = hand[j][Writer] /\ hand'[j][Swapper] = hand[j][Swapper]
        /\ hand'[j][Reader] = hand[j][Reader]
    BY <1>1, <1>2, <1>7, <2>1, ThreadNames
  <2>3. n3 + 1 \in 0 .. NumFrames
    <3>1. n3 + 1 \in Nat /\ Tail(queue[j][Detector]) \in Seq(Frames)
      BY <1>1, <1>4, <1>7
    <3>2. n3 + 1 <= pos[j] /\ pos[j] \in Nat
      BY <2>1, <3>1, LinkBound
    <3>3. pos[j] \in 0 .. NumFrames /\ NumFrames \in Nat
      BY <1>1, PipelineAssumption
    <3> QED
      BY <3>1, <3>2, <3>3
  <2> QED
    BY <1>1, <1>3, <2>1, <2>2, <2>3 DEF LineOf
<1> QED
  BY <1>5, <1>6, <1>7, ThreadNames

LEMMA ReaderReadsInOrder ==
  ASSUME TypeInv, NEW j \in Jobs, LineOf(j), ReaderReads(j), UNCHANGED <<output, queue>>
  PROVE  LineOf(j)'
<1>1. CASE UNCHANGED <<hand, pos>>
  BY <1>1, LineUnchanged
<1>2. CASE ~(cancel \/ pos[j] = NumFrames)
  <2>1. /\ hand[j][Reader] = None /\ pos[j] \in Nat /\ queue[j][Detector] \in Seq(Frames)
        /\ hand'[j][Reader] = pos[j] /\ pos'[j] = pos[j] + 1
        /\ hand'[j][Writer] = hand[j][Writer] /\ hand'[j][Swapper] = hand[j][Swapper]
        /\ hand'[j][Detector] = hand[j][Detector]
    BY <1>2, ThreadNames, PipelineAssumption DEF ReaderReads, TypeInv, TypeOK, Hands
  <2>2. PICK n1, n2, n3 \in 0 .. NumFrames :
          /\ Link(0, output[j], hand[j][Writer], n1)
          /\ Link(n1, queue[j][Writer], hand[j][Swapper], n2)
          /\ Link(n2, queue[j][Swapper], hand[j][Detector], n3)
          /\ Link(n3, queue[j][Detector], hand[j][Reader], pos[j])
    BY DEF LineOf
  <2>3. Link(n3, queue[j][Detector], pos[j], pos[j] + 1)
    BY <2>1, <2>2, LinkGet
  <2> QED
    BY <2>1, <2>2, <2>3 DEF LineOf
<1> QED
  BY <1>1, <1>2 DEF ReaderReads

LEMMA WriterWritesInOrder ==
  ASSUME TypeInv, NEW j \in Jobs, LineOf(j), WriterWrites(j)
  PROVE  LineOf(j)'
<1>1. /\ hand[j][Writer] \in Frames /\ output[j] \in Seq(Frames)
      /\ output'[j] = Append(output[j], hand[j][Writer]) /\ hand'[j][Writer] = None
      /\ hand'[j][Swapper] = hand[j][Swapper] /\ hand'[j][Detector] = hand[j][Detector]
      /\ hand'[j][Reader] = hand[j][Reader] /\ UNCHANGED <<queue, pos>>
  BY ThreadNames DEF WriterWrites, TypeInv, TypeOK, Hands
<1>2. PICK n1, n2, n3 \in 0 .. NumFrames :
        /\ Link(0, output[j], hand[j][Writer], n1)
        /\ Link(n1, queue[j][Writer], hand[j][Swapper], n2)
        /\ Link(n2, queue[j][Swapper], hand[j][Detector], n3)
        /\ Link(n3, queue[j][Detector], hand[j][Reader], pos[j])
  BY DEF LineOf
<1>3. Link(0, Append(output[j], hand[j][Writer]), None, n1)
  BY <1>1, <1>2, LinkPush
<1> QED
  BY <1>1, <1>2, <1>3 DEF LineOf

\* A step of one job's thread leaves the lines of the others alone.
LEMMA OtherLines ==
  ASSUME TypeInv, NEW j \in Jobs, NEW k \in Threads, ThreadStep(j, k), NEW i \in Jobs \ {j}
  PROVE  output'[i] = output[i] /\ queue'[i] = queue[i] /\ hand'[i] = hand[i] /\ pos'[i] = pos[i]
  BY DEF TypeInv, TypeOK, ThreadStep, ReaderReads, Takes, FindsEnd, ChecksCancel, Puts,
         WriterWrites, WriterFails, encVars

LEMMA StepLine == TypeInv /\ LineInOrder /\ [Next]_vars => LineInOrder'
<1> SUFFICES ASSUME TypeInv, LineInOrder, [Next]_vars, NEW i \in Jobs PROVE LineOf(i)'
  BY DEF LineInOrder
<1>1. LineOf(i)
  BY DEF LineInOrder
<1>2. ASSUME NEW j \in Jobs, NEW k \in Threads, ThreadStep(j, k) PROVE LineOf(i)'
  <2>1. CASE i # j
    BY <1>1, <1>2, <2>1, OtherLines, LineUnchanged
  <2>2. CASE i = j
    <3>1. CASE k = Reader /\ ReaderReads(j)
      BY <1>1, <2>2, <3>1, ReaderReadsInOrder DEF ReaderReads, encVars
    <3>2. CASE k # Reader /\ Takes(j, k)
      BY <1>1, <2>2, <3>2, TakesInOrder, ThreadNames
    <3>3. CASE (k # Reader /\ (FindsEnd(j, k) \/ ChecksCancel(j, k))) \/ (k = Writer /\ WriterFails(j))
      BY <1>1, <2>2, <3>3, LineUnchanged DEF FindsEnd, ChecksCancel, WriterFails, encVars
    <3>4. CASE k # Writer /\ Puts(j, k)
      BY <1>1, <2>2, <3>4, PutsInOrder
    <3>5. CASE k = Writer /\ WriterWrites(j)
      BY <1>1, <2>2, <3>5, WriterWritesInOrder
    <3> QED
      BY <1>2, <3>1, <3>2, <3>3, <3>4, <3>5 DEF ThreadStep
  <2> QED
    BY <2>1, <2>2
<1>3. ASSUME NEW w \in Workers, WorkerStep(w) PROVE LineOf(i)'
  BY <1>1, <1>3, LineUnchanged DEF WorkerStep, WorkerTakesJob, JobFailsToOpen, JobStarts, JobReturns, lineVars, encVars
<1>4. CASE Interrupt \/ UNCHANGED vars
  BY <1>1, <1>4, LineUnchanged DEF Interrupt, vars, lineVars, encVars
<1>5. ASSUME NEW j \in Jobs, FfmpegEnds(j) PROVE LineOf(i)'
  BY <1>1, <1>5, LineUnchanged DEF FfmpegEnds, lineVars
<1> QED
  BY <1>2, <1>3, <1>4, <1>5 DEF Next

\* What ffmpeg has been given, the queues and the frames in hand are, read from the
\* encoder to the reader, the frames read so far, each once and in order.
THEOREM LineOrder == Spec => []LineInOrder
<1>1. Init => TypeInv /\ LineInOrder
  BY InitTypeInv, InitLine
<1>2. TypeInv /\ LineInOrder /\ [Next]_vars => (TypeInv /\ LineInOrder)'
  BY StepTypes, StepLine
<1> QED
  BY <1>1, <1>2, PTL DEF Spec

-------------------------------------------------------------------------------
(* Complete jobs *)

\* A queue is closed when its producer has left. Unless cancelled, a thread leaves with
\* nothing left to do; a job that returned without an error has no thread left.
LeftClean(j, k) ==
  /\ hand[j][k] = None
  /\ IF k = Reader THEN pos[j] = NumFrames ELSE Exhausted(j, k)

Leavers ==
  /\ \A j \in Jobs, k \in Queues : shut[j][k] <=> thread[j][k - 1] = "exit"
  /\ ~cancel => \A j \in Jobs, k \in Threads : thread[j][k] = "exit" => LeftClean(j, k)
  /\ \A j \in Jobs : job[j] = "returned" /\ ~error[j] => Joined(j)

CompleteInv == TypeInv /\ LineInOrder /\ Leavers

LEMMA InitLeavers == Init => Leavers
<1> SUFFICES ASSUME Init PROVE Leavers
  OBVIOUS
<1>1. \A j \in Jobs, k \in Threads : thread[j][k] # "exit"
  BY DEF Init
<1>2. \A j \in Jobs, k \in Queues : shut[j][k] = FALSE /\ thread[j][k - 1] # "exit"
  BY <1>1, ThreadNames DEF Init
<1> QED
  BY <1>1, <1>2 DEF Init, Leavers

\* With nobody left on the line, its links are those of the output alone.
LEMMA LeaversComplete == CompleteInv => OkIsComplete
<1> SUFFICES ASSUME CompleteInv, NEW j \in Jobs, job[j] = "returned", ~error[j], ~cancel
             PROVE  Len(output[j]) = NumFrames
  BY DEF OkIsComplete
<1>1. \A k \in Threads : LeftClean(j, k)
  BY DEF CompleteInv, Leavers, Joined
<1>2. /\ pos[j] = NumFrames
      /\ hand[j][Reader] = None /\ hand[j][Detector] = None
      /\ hand[j][Swapper] = None /\ hand[j][Writer] = None
      /\ queue[j][Detector] = <<>> /\ queue[j][Swapper] = <<>> /\ queue[j][Writer] = <<>>
  BY <1>1, ThreadNames DEF LeftClean, Exhausted
<1>3. PICK n1, n2, n3 \in 0 .. NumFrames :
        /\ Link(0, output[j], None, n1) /\ Link(n1, <<>>, None, n2)
        /\ Link(n2, <<>>, None, n3) /\ Link(n3, <<>>, None, NumFrames)
  BY <1>2 DEF CompleteInv, LineInOrder, LineOf
<1>4. n1 = n2 /\ n2 = n3 /\ n3 = NumFrames
  BY <1>3, PipelineAssumption DEF Link
<1>5. Len(output[j]) \in Nat /\ n1 = Len(output[j])
  BY <1>3 DEF Link, CompleteInv, TypeInv, TypeOK
<1> QED
  BY <1>4, <1>5

\* Leavers are not disturbed by a thread that moves a frame.
LEMMA MoveKeepsLeavers ==
  ASSUME TypeInv, Leavers, NEW j \in Jobs, NEW k \in Threads, thread[j][k] # "exit",
         NEW p \in Places \ {"exit"}, thread' = [thread EXCEPT ![j][k] = p],
         UNCHANGED <<cancel, job, error, shut>>,
         \A i \in Jobs, l \in Threads : thread[i][l] = "exit" /\ LeftClean(i, l) => LeftClean(i, l)'
  PROVE  Leavers'
<1>1. \A i \in Jobs, l \in Threads : (thread'[i][l] = "exit") = (thread[i][l] = "exit")
  BY DEF TypeInv, TypeOK
<1>2. \A i \in Jobs, l \in Queues : shut'[i][l] <=> thread'[i][l - 1] = "exit"
  BY <1>1, ThreadNames DEF Leavers
<1>3. ASSUME ~cancel', NEW i \in Jobs, NEW l \in Threads, thread'[i][l] = "exit"
      PROVE  LeftClean(i, l)'
  BY <1>1, <1>3 DEF Leavers
<1>4. ASSUME NEW i \in Jobs, job'[i] = "returned", ~error'[i] PROVE Joined(i)'
  BY <1>1, <1>4 DEF Leavers, Joined
<1> QED
  BY <1>2, <1>3, <1>4 DEF Leavers

\* A thread that leaves closes its queue, and is clean unless cancelled.
LEMMA LeaveKeepsLeavers ==
  ASSUME TypeInv, Leavers, NEW j \in Jobs, NEW k \in Threads, thread[j][k] # "exit", Leave(j, k),
         ~cancel' => ~cancel /\ LeftClean(j, k), UNCHANGED <<job, hand, queue, pos>>,
         \A i \in Jobs : error[i] => error'[i]
  PROVE  Leavers'
<1>1. thread' = [thread EXCEPT ![j][k] = "exit"]
  BY LeaveTypes DEF TypeInv
<1>2. \A i \in Jobs, l \in Queues : shut'[i][l] <=> thread'[i][l - 1] = "exit"
  <2>1. CASE k = Writer
    BY <1>1, <2>1, ThreadNames DEF Leave, Leavers, TypeInv, TypeOK
  <2>2. CASE k # Writer
    <3>1. shut' = [shut EXCEPT ![j][k + 1] = TRUE] /\ k + 1 \in Queues
      BY <2>2, ThreadNames DEF Leave
    <3> SUFFICES ASSUME NEW i \in Jobs, NEW l \in Queues
                 PROVE  shut'[i][l] <=> thread'[i][l - 1] = "exit"
      OBVIOUS
    <3>2. CASE i = j /\ l = k + 1
      BY <1>1, <3>1, <3>2, ThreadNames DEF TypeInv, TypeOK
    <3>3. CASE ~(i = j /\ l = k + 1)
      <4>1. shut'[i][l] = shut[i][l]
        BY <3>1, <3>3 DEF TypeInv, TypeOK
      <4>2. l - 1 \in Threads /\ ~(i = j /\ l - 1 = k)
        BY <3>3, ThreadNames DEF Queues, Threads, Detector, Writer
      <4>3. thread'[i][l - 1] = thread[i][l - 1]
        BY <1>1, <4>2 DEF TypeInv, TypeOK
      <4> QED
        BY <4>1, <4>3 DEF Leavers
    <3> QED
      BY <3>2, <3>3
  <2> QED
    BY <2>1, <2>2
<1>3. \A i \in Jobs, l \in Queues : shut[i][l] => shut'[i][l]
  <2>1. \A i \in Jobs, l \in Threads : thread[i][l] = "exit" => thread'[i][l] = "exit"
    BY <1>1 DEF TypeInv, TypeOK
  <2> QED
    BY <1>2, <2>1, ThreadNames DEF Leavers
<1>4. ASSUME ~cancel', NEW i \in Jobs, NEW l \in Threads, thread'[i][l] = "exit"
      PROVE  LeftClean(i, l)'
  <2>1. LeftClean(i, l)
    BY <1>1, <1>4 DEF Leavers, TypeInv, TypeOK
  <2> QED
    BY <1>3, <2>1, ThreadNames DEF LeftClean, Exhausted
<1>5. ASSUME NEW i \in Jobs, job'[i] = "returned", ~error'[i] PROVE Joined(i)'
  BY <1>1, <1>5 DEF Leavers, Joined, TypeInv, TypeOK
<1> QED
  BY <1>2, <1>4, <1>5 DEF Leavers

\* Only the hand, the queues and the reader's count matter for being clean.
LEMMA CleanUnchanged ==
  ASSUME TypeInv, NEW i \in Jobs, NEW l \in Threads, LeftClean(i, l),
         hand'[i][l] = hand[i][l], pos'[i] = pos[i], shut'[i] = shut[i],
         l # Reader => queue'[i][l] = queue[i][l]
  PROVE  LeftClean(i, l)'
  BY DEF LeftClean, Exhausted

LEMMA ThreadLeavers ==
  ASSUME TypeInv, Leavers, NEW j \in Jobs, NEW k \in Threads, ThreadStep(j, k)
  PROVE  Leavers'
<1>1. ASSUME k = Reader, ReaderReads(j) PROVE Leavers'
  <2>1. CASE cancel \/ pos[j] = NumFrames
    <3>1. /\ Leave(j, k) /\ thread[j][k] = "get"
          /\ UNCHANGED <<cancel, job, error, hand, queue, pos>>
      BY <1>1, <2>1 DEF ReaderReads, jobVars
    <3>2. ~cancel' => ~cancel /\ LeftClean(j, k)
      BY <1>1, <2>1, <3>1 DEF LeftClean, TypeInv, Hands
    <3> QED
      BY <3>1, <3>2, LeaveKeepsLeavers
  <2>2. CASE ~(cancel \/ pos[j] = NumFrames)
    <3>1. /\ thread[j][k] = "get" /\ thread' = [thread EXCEPT ![j][k] = "put"]
          /\ hand' = [hand EXCEPT ![j][k] = pos[j]] /\ pos' = [pos EXCEPT ![j] = @ + 1]
          /\ UNCHANGED <<cancel, job, error, shut, queue>>
      BY <1>1, <2>2 DEF ReaderReads, jobVars
    <3>2. ASSUME NEW i \in Jobs, NEW l \in Threads, thread[i][l] = "exit", LeftClean(i, l)
          PROVE  LeftClean(i, l)'
      <4>1. ~(i = j /\ l = k)
        BY <3>1, <3>2
      <4> QED
        BY <1>1, <3>1, <3>2, <4>1 DEF LeftClean, Exhausted, TypeInv, TypeOK
    <3> QED
      BY <3>1, <3>2, MoveKeepsLeavers DEF Places
  <2> QED
    BY <2>1, <2>2
<1>2. ASSUME k # Reader, Takes(j, k) PROVE Leavers'
  <2>1. /\ thread[j][k] = "get" /\ queue[j][k] # <<>> /\ k \in Queues
        /\ thread' = [thread EXCEPT ![j][k] = "check"]
        /\ hand' = [hand EXCEPT ![j][k] = Head(queue[j][k])]
        /\ queue' = [queue EXCEPT ![j][k] = Tail(queue[j][k])]
        /\ UNCHANGED <<cancel, job, error, shut, pos>>
    BY <1>2, ThreadNames DEF Takes, OldestFrame, jobVars, TypeInv, TypeOK
  <2>2. ASSUME NEW i \in Jobs, NEW l \in Threads, thread[i][l] = "exit", LeftClean(i, l)
        PROVE  LeftClean(i, l)'
    <3>1. ~(i = j /\ l = k)
      BY <2>1, <2>2
    <3>2. hand'[i][l] = hand[i][l] /\ (l # Reader => queue'[i][l] = queue[i][l])
      BY <2>1, <3>1, ThreadNames DEF TypeInv, TypeOK
    <3> QED
      BY <2>1, <2>2, <3>2, CleanUnchanged
  <2> QED
    BY <2>1, <2>2, MoveKeepsLeavers DEF Places
<1>3. ASSUME k # Reader, FindsEnd(j, k) PROVE Leavers'
  <2>1. /\ Leave(j, k) /\ thread[j][k] = "get" /\ Exhausted(j, k)
        /\ UNCHANGED <<cancel, job, error, hand, queue, pos>>
    BY <1>3 DEF FindsEnd, jobVars
  <2>2. LeftClean(j, k)
    BY <1>3, <2>1 DEF LeftClean, TypeInv, Hands
  <2> QED
    BY <2>1, <2>2, LeaveKeepsLeavers
<1>4. ASSUME k # Reader, ChecksCancel(j, k) PROVE Leavers'
  <2>1. thread[j][k] = "check" /\ UNCHANGED <<cancel, job, error, hand, queue, pos>>
    BY <1>4 DEF ChecksCancel, jobVars
  <2>2. CASE cancel /\ Leave(j, k)
    BY <2>1, <2>2, LeaveKeepsLeavers
  <2>3. CASE thread' = [thread EXCEPT ![j][k] = "put"] /\ UNCHANGED shut
    <3>1. ASSUME NEW i \in Jobs, NEW l \in Threads, LeftClean(i, l) PROVE LeftClean(i, l)'
      BY <2>1, <2>3, <3>1, CleanUnchanged
    <3> QED
      BY <2>1, <2>3, <3>1, MoveKeepsLeavers DEF Places
  <2> QED
    BY <1>4, <2>2, <2>3 DEF ChecksCancel
<1>5. ASSUME k # Writer, Puts(j, k) PROVE Leavers'
  <2>1. /\ thread[j][k] = "put" /\ k + 1 \in Queues
        /\ thread' = [thread EXCEPT ![j][k] = "get"]
        /\ hand' = [hand EXCEPT ![j][k] = None]
        /\ queue' = [queue EXCEPT ![j][k + 1] = Append(queue[j][k + 1], hand[j][k])]
        /\ UNCHANGED <<cancel, job, error, shut, pos>>
    BY <1>5, ThreadNames DEF Puts, jobVars, TypeInv, TypeOK
  <2>2. ~shut[j][k + 1]
    <3>1. \A l \in Queues : l - 1 = k => ~shut[j][l]
      BY <2>1 DEF Leavers
    <3>2. PICK l \in Queues : l = k + 1 /\ l - 1 = k
      BY <2>1 DEF Threads, Reader, Writer
    <3> QED
      BY <2>1, <3>1, <3>2
  <2>3. ASSUME NEW i \in Jobs, NEW l \in Threads, thread[i][l] = "exit", LeftClean(i, l)
        PROVE  LeftClean(i, l)'
    <3>1. ~(i = j /\ l = k)
      BY <2>1, <2>3
    <3>2. hand'[i][l] = hand[i][l]
      BY <2>1, <3>1 DEF TypeInv, TypeOK
    <3>3. CASE i = j /\ l = k + 1
      <4>1. l # Reader
        BY <2>1, <3>3, ThreadNames
      <4> QED
        BY <2>2, <2>3, <3>3, <4>1 DEF LeftClean, Exhausted
    <3>4. CASE ~(i = j /\ l = k + 1)
      <4>1. l # Reader => queue'[i][l] = queue[i][l]
        BY <2>1, <3>4, ThreadNames DEF TypeInv, TypeOK
      <4> QED
        BY <2>1, <2>3, <3>2, <4>1, CleanUnchanged
    <3> QED
      BY <3>3, <3>4
  <2> QED
    BY <2>1, <2>3, MoveKeepsLeavers DEF Places
<1>6. ASSUME k = Writer, WriterWrites(j) PROVE Leavers'
  <2>1. /\ thread[j][k] = "put" /\ thread' = [thread EXCEPT ![j][k] = "get"]
        /\ hand' = [hand EXCEPT ![j][k] = None]
        /\ UNCHANGED <<cancel, job, error, shut, queue, pos>>
    BY <1>6 DEF WriterWrites, jobVars
  <2>2. ASSUME NEW i \in Jobs, NEW l \in Threads, thread[i][l] = "exit", LeftClean(i, l)
        PROVE  LeftClean(i, l)'
    <3>1. hand'[i][l] = hand[i][l]
      BY <2>1, <2>2 DEF TypeInv, TypeOK
    <3> QED
      BY <2>1, <2>2, <3>1, CleanUnchanged
  <2> QED
    BY <2>1, <2>2, MoveKeepsLeavers DEF Places
<1>7. ASSUME k = Writer, WriterFails(j) PROVE Leavers'
  <2>1. /\ thread[j][k] = "put" /\ Leave(j, k) /\ cancel' = TRUE
        /\ UNCHANGED <<job, hand, queue, pos>> /\ error' = [error EXCEPT ![j] = TRUE]
    BY <1>7 DEF WriterFails
  <2>2. \A i \in Jobs : error[i] => error'[i]
    BY <2>1 DEF TypeInv, TypeOK
  <2> QED
    BY <2>1, <2>2, LeaveKeepsLeavers
<1> QED
  BY <1>1, <1>2, <1>3, <1>4, <1>5, <1>6, <1>7 DEF ThreadStep

LEMMA WorkerLeavers ==
  ASSUME TypeInv, Leavers, NEW w \in Workers, WorkerStep(w)
  PROVE  Leavers'
<1>1. worker[w] # 0 => worker[w] \in Jobs
  BY PipelineAssumption DEF TypeInv, TypeOK, Jobs
<1>2. ASSUME UNCHANGED <<cancel, lineVars>>,
             \A i \in Jobs : job'[i] = "returned" /\ ~error'[i]
                             => Joined(i) \/ (job[i] = "returned" /\ ~error[i])
      PROVE  Leavers'
  <2>1. \A i \in Jobs, l \in Threads : LeftClean(i, l) => LeftClean(i, l)'
    BY <1>2 DEF LeftClean, Exhausted, lineVars
  <2> QED
    BY <1>2, <2>1 DEF Leavers, Joined, lineVars
<1>3. ASSUME WorkerTakesJob(w) PROVE Leavers'
  BY <1>2, <1>3 DEF WorkerTakesJob, TypeInv, TypeOK
<1>4. ASSUME JobFailsToOpen(w) PROVE Leavers'
  BY <1>1, <1>2, <1>4 DEF JobFailsToOpen, TypeInv, TypeOK
<1>5. ASSUME JobReturns(w) PROVE Leavers'
  BY <1>1, <1>2, <1>5 DEF JobReturns, TypeInv, TypeOK
<1>6. ASSUME JobStarts(w) PROVE Leavers'
  <2> DEFINE j == worker[w]
  <2>1. /\ j \in Jobs /\ job[j] = "opening" /\ job' = [job EXCEPT ![j] = "running"]
        /\ thread' = [thread EXCEPT ![j] = [k \in Threads |-> "get"]]
        /\ UNCHANGED <<cancel, error, hand, queue, shut, pos>>
    BY <1>1, <1>6 DEF JobStarts, batchVars
  <2> HIDE DEF j
  <2>2. \A i \in Jobs, l \in Threads : (thread'[i][l] = "exit") <=> (thread[i][l] = "exit")
    BY <2>1 DEF TypeInv, TypeOK, Fresh
  <2>3. \A i \in Jobs, l \in Threads : LeftClean(i, l) => LeftClean(i, l)'
    BY <2>1 DEF LeftClean, Exhausted
  <2>4. \A i \in Jobs, l \in Queues : shut'[i][l] <=> thread'[i][l - 1] = "exit"
    BY <2>1, <2>2, ThreadNames DEF Leavers
  <2>5. \A i \in Jobs : job'[i] = "returned" => job[i] = "returned"
    BY <2>1 DEF TypeInv, TypeOK
  <2> QED
    BY <2>1, <2>2, <2>3, <2>4, <2>5 DEF Leavers, Joined
<1> QED
  BY <1>3, <1>4, <1>5, <1>6 DEF WorkerStep

LEMMA StepLeavers == TypeInv /\ Leavers /\ [Next]_vars => Leavers'
<1> SUFFICES ASSUME TypeInv, Leavers, [Next]_vars PROVE Leavers'
  OBVIOUS
<1>1. ASSUME NEW j \in Jobs, NEW k \in Threads, ThreadStep(j, k) PROVE Leavers'
  BY <1>1, ThreadLeavers
<1>2. ASSUME NEW w \in Workers, WorkerStep(w) PROVE Leavers'
  BY <1>2, WorkerLeavers
<1>3. ASSUME UNCHANGED <<job, error, lineVars>>, cancel => cancel' PROVE Leavers'
  <2>1. \A i \in Jobs, l \in Threads : LeftClean(i, l) => LeftClean(i, l)'
    BY <1>3 DEF LeftClean, Exhausted, lineVars
  <2> QED
    BY <1>3, <2>1 DEF Leavers, Joined, lineVars
<1>4. CASE Interrupt \/ UNCHANGED vars
  BY <1>3, <1>4 DEF Interrupt, vars, jobVars
<1>5. ASSUME NEW j \in Jobs, FfmpegEnds(j) PROVE Leavers'
  BY <1>3, <1>5 DEF FfmpegEnds, jobVars
<1> QED
  BY <1>1, <1>2, <1>4, <1>5 DEF Next

\* A job that returns without an error, with nothing cancelled, has written every frame
\* of its video, for any depth of the queues.
THEOREM Completeness == Spec => []OkIsComplete
<1>1. Init => CompleteInv
  BY InitTypeInv, InitLine, InitLeavers DEF CompleteInv
<1>2. CompleteInv /\ [Next]_vars => CompleteInv'
  BY StepTypes, StepLine, StepLeavers DEF CompleteInv
<1> QED
  BY <1>1, <1>2, LeaversComplete, PTL DEF Spec

-------------------------------------------------------------------------------
(* Nobody waits for nobody *)

\* A running job has its encoder and its four threads; none is left at work when it has returned.
Started ==
  \A j \in Jobs :
    /\ job[j] \in {"waiting", "opening"} => encoder[j] = "off"
    /\ job[j] = "running" => encoder[j] # "off" /\ \A k \in Threads : thread[j][k] # "off"
    /\ job[j] = "returned" => \A k \in Threads : thread[j][k] \in {"off", "exit"}

PipelineInv == CompleteInv /\ Started

AtWork == {"get", "check", "put"}

\* What a thread's step does to the job: it moves that thread, and nothing of the batch.
LEMMA OneThreadMoves ==
  ASSUME TypeInv, NEW j \in Jobs, NEW k \in Threads, ThreadStep(j, k)
  PROVE  /\ thread[j][k] \in AtWork
         /\ \E p \in AtWork \cup {"exit"} : thread' = [thread EXCEPT ![j][k] = p]
         /\ UNCHANGED <<nextIdx, worker, job, encoder>>
<1>1. Leave(j, k) => thread' = [thread EXCEPT ![j][k] = "exit"]
  BY DEF Leave
<1>2. CASE k = Reader /\ ReaderReads(j)
  BY <1>1, <1>2 DEF ReaderReads, AtWork, batchVars, jobVars, encVars
<1>3. CASE Takes(j, k) \/ Puts(j, k)
  BY <1>3 DEF Takes, Puts, AtWork, batchVars, jobVars, encVars
<1>4. CASE FindsEnd(j, k) \/ ChecksCancel(j, k)
  BY <1>1, <1>4 DEF FindsEnd, ChecksCancel, AtWork, batchVars, jobVars, encVars
<1>5. CASE k = Writer /\ (WriterWrites(j) \/ WriterFails(j))
  BY <1>1, <1>5 DEF WriterWrites, WriterFails, AtWork, batchVars, jobVars, encVars
<1> QED
  BY <1>2, <1>3, <1>4, <1>5 DEF ThreadStep

\* A thread at work belongs to a running job.
LEMMA AtWorkRuns ==
  ASSUME TypeInv, Started, NEW j \in Jobs, NEW k \in Threads, thread[j][k] \in AtWork
  PROVE  job[j] = "running"
<1>1. thread[j][k] \notin {"off", "exit"}
  BY DEF AtWork
<1>2. job[j] \in {"waiting", "opening", "running", "returned"}
  BY DEF TypeInv, TypeOK
<1> QED
  BY <1>1, <1>2 DEF TypeInv, Fresh, Started

LEMMA InitStarted == Init => Started
  BY DEF Init, Started

LEMMA StepStarted == TypeInv /\ Started /\ [Next]_vars => Started'
<1> SUFFICES ASSUME TypeInv, Started, [Next]_vars PROVE Started'
  OBVIOUS
<1>1. ASSUME NEW j \in Jobs, NEW k \in Threads, ThreadStep(j, k) PROVE Started'
  <2>1. PICK p \in AtWork \cup {"exit"} : thread' = [thread EXCEPT ![j][k] = p]
    BY <1>1, OneThreadMoves
  <2>2. job[j] = "running" /\ UNCHANGED <<job, encoder>>
    BY <1>1, OneThreadMoves, AtWorkRuns
  <2>3. ASSUME NEW i \in Jobs, NEW m \in Threads
        PROVE  /\ thread'[i][m] = "off" => thread[i][m] = "off"
               /\ i # j => thread'[i][m] = thread[i][m]
    BY <2>1 DEF TypeInv, TypeOK, AtWork
  <2> QED
    BY <2>2, <2>3 DEF Started
<1>2. ASSUME NEW w \in Workers, WorkerStep(w) PROVE Started'
  <2>1. worker[w] # 0 => worker[w] \in Jobs
    BY PipelineAssumption DEF TypeInv, TypeOK, Jobs
  <2>2. CASE WorkerTakesJob(w)
    <3>1. nextIdx \in Jobs /\ job[nextIdx] = "waiting"
      BY <2>2 DEF WorkerTakesJob, Jobs, TypeInv, TypeOK, Fresh
    <3> QED
      BY <2>2, <3>1 DEF WorkerTakesJob, Started, TypeInv, TypeOK, lineVars, encVars
  <2>3. CASE JobFailsToOpen(w)
    BY <2>1, <2>3 DEF JobFailsToOpen, Started, TypeInv, TypeOK, Fresh, lineVars, encVars
  <2>4. CASE JobStarts(w)
    BY <2>1, <2>4 DEF JobStarts, Started, TypeInv, TypeOK
  <2>5. CASE JobReturns(w)
    BY <2>1, <2>5 DEF JobReturns, Joined, Started, TypeInv, TypeOK, lineVars
  <2> QED
    BY <1>2, <2>2, <2>3, <2>4, <2>5 DEF WorkerStep
<1>3. CASE Interrupt \/ UNCHANGED vars
  BY <1>3 DEF Interrupt, vars, jobVars, lineVars, encVars, Started
<1>4. ASSUME NEW j \in Jobs, FfmpegEnds(j) PROVE Started'
  BY <1>4 DEF FfmpegEnds, jobVars, lineVars, Started, TypeInv, TypeOK
<1> QED
  BY <1>1, <1>2, <1>3, <1>4 DEF Next

LEMMA InitPipeline == Init => PipelineInv
  BY InitTypeInv, InitLine, InitLeavers, InitStarted DEF PipelineInv, CompleteInv

LEMMA StepPipeline == PipelineInv /\ [Next]_vars => PipelineInv'
  BY StepTypes, StepLine, StepLeavers, StepStarted DEF PipelineInv, CompleteInv

\* A producer that cannot push waits for a consumer that can go on, that waits itself, or that
\* has left a full queue: then the job was cancelled, or it would have left an empty one.
LEMMA WaitsForConsumer ==
  ASSUME PipelineInv, NEW j \in Jobs, job[j] = "running", NEW k \in Threads \ {Writer},
         thread[j][k] = "put", ~CanGoOn(j, k), ~CanGoOn(j, k + 1)
  PROVE  thread[j][k + 1] = "put" \/ (cancel /\ Stuck(j, k))
<1>1. k + 1 \in Queues /\ k + 1 \in Threads /\ k + 1 # Reader
  BY ThreadNames
<1>2. ~HasRoom(j, k + 1)
  BY ThreadNames DEF CanGoOn
<1>3. queue[j][k + 1] # <<>>
  BY <1>1, <1>2, PipelineAssumption DEF HasRoom
<1>4. thread[j][k + 1] \in {"put", "exit"}
  BY <1>1, <1>3 DEF CanGoOn, PipelineInv, CompleteInv, Started, TypeInv, TypeOK, Places
<1>5. thread[j][k + 1] = "exit" => cancel /\ Stuck(j, k)
  BY <1>1, <1>2, <1>3 DEF PipelineInv, CompleteInv, Leavers, LeftClean, Exhausted, Stuck
<1> QED
  BY <1>4, <1>5

\* A consumer that finds nothing to take waits for a producer that has not left: it closes
\* the queue when it does.
LEMMA WaitsForProducer ==
  ASSUME PipelineInv, NEW j \in Jobs, NEW k \in Queues,
         thread[j][k] = "get", ~CanGoOn(j, k)
  PROVE  thread[j][k - 1] # "exit"
<1>1. k \in Threads /\ queue[j][k] = <<>> /\ ~Exhausted(j, k)
  BY ThreadNames DEF CanGoOn
<1> QED
  BY <1>1 DEF PipelineInv, CompleteInv, Leavers, Exhausted

\* The four threads of a job never all wait for each other, for any depth of the queues: as
\* long as the joins of run_streaming wait, a thread can go on, or cancel made a consumer
\* leave a full queue to a producer.
THEOREM Progress == Spec => []SomebodyGoesOn
<1>1. PipelineInv => SomebodyGoesOn
  <2> SUFFICES ASSUME PipelineInv, NEW j \in Jobs, job[j] = "running",
                      \A k \in Threads : ~CanGoOn(j, k),
                      ~(cancel /\ \E k \in Threads \ {Writer} : Stuck(j, k))
               PROVE  Joined(j)
    BY DEF SomebodyGoesOn
  <2>1. \A k \in Threads : thread[j][k] \in {"get", "put", "exit"}
    BY DEF CanGoOn, PipelineInv, CompleteInv, Started, TypeInv, TypeOK, Places
  <2>2. \A k \in Threads \ {Writer} : thread[j][k] = "put" => thread[j][k + 1] = "put"
    BY WaitsForConsumer, ThreadNames
  <2>3. thread[j][Writer] # "put"
    BY ThreadNames DEF CanGoOn
  <2>4. \A k \in Threads : thread[j][k] # "put"
    <3>1. thread[j][2] # "put"
      BY <2>2, <2>3, ThreadNames
    <3>2. thread[j][1] # "put"
      BY <2>2, <3>1, ThreadNames
    <3>3. thread[j][0] # "put"
      BY <2>2, <3>2, ThreadNames
    <3> QED
      BY <2>3, <3>1, <3>2, <3>3, ThreadNames
  <2>5. thread[j][0] = "exit"
    BY <2>1, <2>4, ThreadNames DEF CanGoOn
  <2>6. \A k \in Queues : thread[j][k - 1] = "exit" => thread[j][k] = "exit"
    BY <2>1, <2>4, WaitsForProducer, ThreadNames
  <2>7. thread[j][1] = "exit"
    BY <2>5, <2>6, ThreadNames
  <2>8. thread[j][2] = "exit"
    BY <2>6, <2>7, ThreadNames
  <2>9. thread[j][3] = "exit"
    BY <2>6, <2>8, ThreadNames
  <2> QED
    BY <2>5, <2>7, <2>8, <2>9, ThreadNames DEF Joined
<1> QED
  BY <1>1, InitPipeline, StepPipeline, PTL DEF Spec

-------------------------------------------------------------------------------
(* The promise of StreamJob *)

\* The steps of StreamJob, in the terms of one video of the batch.
LEMMA JobMeans ==
  ASSUME NEW j \in Jobs
  PROVE  /\ Received(j) = <<>> /\ JobStatus(j) = "open" /\ CutShort(j) = FALSE => Job(j)!Init
         /\ UNCHANGED <<Received(j), JobStatus(j), CutShort(j)>> => [Job(j)!Next]_(Job(j)!vars)
         /\ JobStatus(j) = "open" /\ Len(Received(j)) < NumFrames
              /\ Received(j)' = Append(Received(j), Job(j)!Swapped(Len(Received(j))))
              /\ UNCHANGED <<JobStatus(j), CutShort(j)>> => [Job(j)!Next]_(Job(j)!vars)
         /\ CutShort(j)' = TRUE /\ UNCHANGED <<Received(j), JobStatus(j)>>
              => [Job(j)!Next]_(Job(j)!vars)
         /\ JobStatus(j) = "open" /\ (CutShort(j) \/ Len(Received(j)) = NumFrames)
              /\ JobStatus(j)' = "sealed" /\ UNCHANGED <<Received(j), CutShort(j)>>
              => [Job(j)!Next]_(Job(j)!vars)
         /\ JobStatus(j) = "sealed" /\ JobStatus(j)' = "done"
              /\ UNCHANGED <<Received(j), CutShort(j)>> => [Job(j)!Next]_(Job(j)!vars)
         /\ JobStatus(j) \in {"open", "sealed"} /\ JobStatus(j)' = "error"
              /\ UNCHANGED <<Received(j), CutShort(j)>> => [Job(j)!Next]_(Job(j)!vars)
  BY DEF Job!Init, Job!Next, Job!vars, Job!Emit, Job!Cut, Job!Seal, Job!Finish, Job!Fail

LEMMA ReceivedGrows ==
  ASSUME NEW j \in Jobs, output[j] \in Seq(Frames), NEW f \in Frames,
         output'[j] = Append(output[j], f)
  PROVE  Received(j)' = Append(Received(j), [frame |-> f, swapped |-> TRUE])
<1>1. /\ Len(output[j]) \in Nat /\ DOMAIN output[j] = 1 .. Len(output[j])
      /\ DOMAIN output'[j] = 1 .. Len(output[j]) + 1 /\ output'[j][Len(output[j]) + 1] = f
      /\ \A i \in 1 .. Len(output[j]) : output'[j][i] = output[j][i]
  OBVIOUS
<1>2. Received(j) \in Seq([frame : Frames, swapped : {TRUE}]) /\ Len(Received(j)) = Len(output[j])
  BY <1>1 DEF Received
<1> DEFINE e == [frame |-> f, swapped |-> TRUE]
<1>3. Append(Received(j), e)
        = [i \in 1 .. Len(output[j]) + 1 |-> IF i = Len(output[j]) + 1 THEN e ELSE Received(j)[i]]
  BY <1>1, <1>2
<1>4. ASSUME NEW i \in 1 .. Len(output[j]) + 1
      PROVE  [frame |-> output'[j][i], swapped |-> TRUE]
               = IF i = Len(output[j]) + 1 THEN e ELSE Received(j)[i]
  <2>1. i = Len(output[j]) + 1 \/ i \in 1 .. Len(output[j])
    BY <1>1
  <2> QED
    BY <1>1, <2>1 DEF Received
<1> QED
  BY <1>1, <1>3, <1>4 DEF Received

LEMMA ReceivedLength ==
  ASSUME NEW j \in Jobs, output[j] \in Seq(Frames)
  PROVE  Len(Received(j)) = Len(output[j])
  BY DEF Received

\* While a job runs, its stream is cut short exactly when it is cancelled or ffmpeg is gone.
LEMMA RunsOrCut ==
  ASSUME TypeInv, Started, NEW j \in Jobs, job[j] = "running"
  PROVE  CutShort(j) <=> cancel \/ encoder[j] # "run"
  BY DEF TypeInv, TypeOK, Started, CutShort

\* The writer's frame is the next one of the video: nothing precedes it on the line.
LEMMA WriterHasNext ==
  ASSUME TypeInv, LineInOrder, NEW j \in Jobs, hand[j][Writer] # None
  PROVE  /\ output[j] \in Seq(Frames) /\ hand[j][Writer] \in Frames
         /\ hand[j][Writer] = Len(output[j]) /\ Len(output[j]) < NumFrames
<1>1. output[j] \in Seq(Frames) /\ hand[j][Writer] \in Frames
  BY ThreadNames DEF TypeInv, TypeOK
<1>2. hand[j][Writer] = 0 + Len(output[j])
  BY DEF LineInOrder, LineOf, Link
<1> QED
  BY <1>1, <1>2, PipelineAssumption DEF Frames

\* The writer that finds its queue at its end, with nothing cancelled, has written everything:
\* its queue was closed by a swapper that had found its own at its end, and so on to the reader.
LEMMA EndMeansAll ==
  ASSUME CompleteInv, ~cancel, NEW j \in Jobs, thread[j][Writer] = "get", Exhausted(j, Writer)
  PROVE  Len(output[j]) = NumFrames
<1>1. \A k \in Queues : Exhausted(j, k) => LeftClean(j, k - 1) /\ queue[j][k] = <<>>
  BY ThreadNames DEF CompleteInv, Leavers, Exhausted
<1>2. LeftClean(j, 2) /\ queue[j][3] = <<>> /\ Exhausted(j, 2)
  BY <1>1, ThreadNames DEF LeftClean
<1>3. LeftClean(j, 1) /\ queue[j][2] = <<>> /\ Exhausted(j, 1)
  BY <1>1, <1>2, ThreadNames DEF LeftClean
<1>4. LeftClean(j, 0) /\ queue[j][1] = <<>>
  BY <1>1, <1>3, ThreadNames
<1>5. /\ pos[j] = NumFrames
      /\ hand[j][Reader] = None /\ hand[j][Detector] = None
      /\ hand[j][Swapper] = None /\ hand[j][Writer] = None
      /\ queue[j][Detector] = <<>> /\ queue[j][Swapper] = <<>> /\ queue[j][Writer] = <<>>
  BY <1>2, <1>3, <1>4, ThreadNames DEF LeftClean, CompleteInv, TypeInv, Hands
<1>6. PICK n1, n2, n3 \in 0 .. NumFrames :
        /\ Link(0, output[j], None, n1) /\ Link(n1, <<>>, None, n2)
        /\ Link(n2, <<>>, None, n3) /\ Link(n3, <<>>, None, NumFrames)
  BY <1>5 DEF CompleteInv, LineInOrder, LineOf
<1>7. n1 = n2 /\ n2 = n3 /\ n3 = NumFrames
  BY <1>6, PipelineAssumption DEF Link
<1>8. Len(output[j]) \in Nat /\ n1 = Len(output[j])
  BY <1>6 DEF Link, CompleteInv, TypeInv, TypeOK
<1> QED
  BY <1>7, <1>8

\* What leaves the output and the status of a video alone can only cut it short.
LEMMA QuietStep ==
  ASSUME NEW j \in Jobs, output'[j] = output[j], UNCHANGED JobStatus(j), CutShort(j) => CutShort(j)'
  PROVE  [Job(j)!Next]_(Job(j)!vars)
<1>1. UNCHANGED Received(j)
  BY DEF Received
<1>2. CutShort(j)' = TRUE \/ CutShort(j)' = CutShort(j)
  BY DEF CutShort
<1> QED
  BY <1>1, <1>2, JobMeans

\* The step of a thread, for the video i: its own writer emits a frame or seals the stream,
\* everything else leaves the promise alone.
LEMMA ThreadKeepsPromise ==
  ASSUME PipelineInv, NEW i \in Jobs, NEW j \in Jobs, NEW k \in Threads, ThreadStep(j, k)
  PROVE  [Job(i)!Next]_(Job(i)!vars)
<1>inv. TypeInv /\ Started /\ LineInOrder /\ CompleteInv
  BY DEF PipelineInv, CompleteInv
<1>run. job[j] = "running" /\ UNCHANGED <<job, encoder>> /\ thread[j][k] \in AtWork
  BY <1>inv, OneThreadMoves, AtWorkRuns
<1>cut. (cancel => cancel') => (CutShort(i) => CutShort(i)')
  BY <1>run DEF CutShort
<1>mono. cancel => cancel'
  BY DEF ThreadStep, ReaderReads, Takes, FindsEnd, ChecksCancel, Puts, WriterWrites, WriterFails
<1>err. i # j \/ ~WriterFails(j) => error'[i] = error[i]
  BY <1>inv DEF ThreadStep, ReaderReads, Takes, FindsEnd, ChecksCancel, Puts, WriterWrites, WriterFails,
     jobVars, TypeInv, TypeOK
<1>out. i # j \/ ~WriterWrites(j) => output'[i] = output[i]
  BY <1>inv DEF ThreadStep, ReaderReads, Takes, FindsEnd, ChecksCancel, Puts, WriterWrites, WriterFails,
     encVars, TypeInv, TypeOK
<1>thr. i # j \/ k # Writer => thread'[i][Writer] = thread[i][Writer]
  BY <1>inv, OneThreadMoves, ThreadNames DEF TypeInv, TypeOK
<1>1. CASE i # j
  <2>1. UNCHANGED JobStatus(i)
    BY <1>1, <1>run, <1>err, <1>thr DEF JobStatus
  <2> QED
    BY <1>1, <1>out, <1>mono, <1>cut, <2>1, QuietStep
<1>2. CASE i = j /\ k # Writer
  <2>1. ~WriterWrites(j) /\ ~WriterFails(j)
    BY <1>2, <1>inv, OneThreadMoves, ThreadNames, <1>thr
       DEF WriterWrites, WriterFails, Leave, TypeInv, TypeOK
  <2>2. UNCHANGED JobStatus(i)
    BY <1>2, <2>1, <1>run, <1>err, <1>thr DEF JobStatus
  <2> QED
    BY <2>1, <1>out, <1>mono, <1>cut, <2>2, QuietStep
<1>3. CASE i = j /\ k = Writer
  <2>0. k # Reader /\ k \in Queues
    BY <1>3, ThreadNames
  <2>s. JobStatus(j) = "open"
    BY <1>3, <1>run DEF JobStatus, AtWork
  <2>l. Leave(j, k) => thread'[j][Writer] = "exit"
    BY <1>3, <1>inv, LeaveTypes DEF TypeInv, TypeOK
  <2>1. CASE WriterWrites(j)
    <3>1. /\ thread[j][Writer] = "put" /\ thread'[j][Writer] = "get"
          /\ output'[j] = Append(output[j], hand[j][Writer]) /\ UNCHANGED <<cancel, error>>
      BY <2>1, <1>inv, ThreadNames DEF WriterWrites, jobVars, TypeInv, TypeOK
    <3>2. /\ output[j] \in Seq(Frames) /\ hand[j][Writer] \in Frames
          /\ hand[j][Writer] = Len(output[j]) /\ Len(output[j]) < NumFrames
      BY <1>inv, <3>1, WriterHasNext, ThreadNames DEF TypeInv, Hands
    <3>3. Received(j)' = Append(Received(j), Job(j)!Swapped(Len(Received(j))))
      BY <3>1, <3>2, ReceivedGrows, ReceivedLength DEF Job!Swapped
    <3>4. UNCHANGED <<JobStatus(j), CutShort(j)>>
      BY <3>1, <1>run DEF JobStatus, CutShort
    <3> QED
      BY <1>3, <2>s, <3>2, <3>3, <3>4, ReceivedLength, JobMeans
  <2>2. CASE Takes(j, k) \/ (ChecksCancel(j, k) /\ thread' = [thread EXCEPT ![j][k] = "put"])
    <3>1. ~WriterWrites(j) /\ ~WriterFails(j) /\ thread'[j][Writer] # "exit"
      BY <2>2, <1>3, <1>inv, ThreadNames DEF Takes, ChecksCancel, WriterWrites, WriterFails, TypeInv, TypeOK
    <3>2. UNCHANGED JobStatus(j)
      BY <1>run, <2>s, <3>1 DEF JobStatus
    <3> QED
      BY <1>3, <3>1, <1>out, <1>mono, <1>cut, <3>2, QuietStep
  <2>3. CASE Leave(j, k) /\ (FindsEnd(j, k) \/ (ChecksCancel(j, k) /\ cancel) \/ WriterFails(j))
    <3>1. output'[j] = output[j] /\ UNCHANGED Received(j)
      BY <2>3, <1>inv DEF FindsEnd, ChecksCancel, WriterFails, encVars, Received
    <3>2. CutShort(j) \/ (Len(output[j]) = NumFrames /\ UNCHANGED cancel)
      <4>1. CASE FindsEnd(j, k)
        BY <4>1, <1>3, <1>inv, EndMeansAll DEF FindsEnd, CutShort
      <4>2. CASE ChecksCancel(j, k) /\ cancel
        BY <4>2 DEF CutShort
      <4>3. CASE WriterFails(j)
        BY <4>3, <1>run, <1>inv, RunsOrCut DEF WriterFails
      <4> QED
        BY <2>3, <4>1, <4>2, <4>3
    <3>3. UNCHANGED CutShort(j)
      BY <3>2, <1>run, <1>mono DEF CutShort
    <3>4. JobStatus(j)' = "sealed"
      BY <2>3, <2>l, <1>run DEF JobStatus
    <3>5. Len(Received(j)) = Len(output[j])
      BY <1>inv, ReceivedLength DEF TypeInv, TypeOK
    <3> QED
      BY <1>3, <2>s, <3>1, <3>2, <3>3, <3>4, <3>5, JobMeans
  <2> QED
    BY <1>3, <2>0, <2>1, <2>2, <2>3 DEF ThreadStep, FindsEnd, ChecksCancel, WriterFails
<1> QED
  BY <1>1, <1>2, <1>3

\* A worker of the pool starts a job, ends it, or has nothing to start.
LEMMA WorkerKeepsPromise ==
  ASSUME PipelineInv, NEW i \in Jobs, NEW w \in Workers, WorkerStep(w)
  PROVE  [Job(i)!Next]_(Job(i)!vars)
<1>inv. TypeInv /\ Started
  BY DEF PipelineInv, CompleteInv
<1>job. worker[w] # 0 => worker[w] \in Jobs
  BY <1>inv, PipelineAssumption DEF TypeInv, TypeOK, Jobs
<1>1. CASE WorkerTakesJob(w)
  <2>1. job[nextIdx] = "waiting" /\ nextIdx \in Jobs /\ nextIdx \in Nat
    BY <1>1, <1>inv DEF WorkerTakesJob, TypeInv, TypeOK, Fresh, Jobs
  <2>2. UNCHANGED <<output, JobStatus(i), CutShort(i)>>
    BY <1>1, <1>inv, <2>1 DEF WorkerTakesJob, JobStatus, CutShort, TypeInv, TypeOK, lineVars, encVars
  <2> QED
    BY <2>2, QuietStep
<1>2. CASE i # worker[w] /\ (JobFailsToOpen(w) \/ JobStarts(w) \/ JobReturns(w))
  <2>1. UNCHANGED <<cancel, output>> /\ job'[i] = job[i] /\ error'[i] = error[i]
        /\ thread'[i] = thread[i] /\ encoder'[i] = encoder[i]
    BY <1>2, <1>inv DEF JobFailsToOpen, JobStarts, JobReturns, TypeInv, TypeOK, lineVars, encVars
  <2> QED
    BY <2>1, QuietStep DEF JobStatus, CutShort
<1>3. CASE i = worker[w] /\ JobFailsToOpen(w)
  <2>1. job[i] = "opening" /\ job'[i] = "returned" /\ error'[i] = TRUE
        /\ UNCHANGED <<cancel, output, encoder>>
    BY <1>3, <1>inv DEF JobFailsToOpen, TypeInv, TypeOK, lineVars, encVars
  <2>2. JobStatus(i) \in {"open", "sealed"} /\ JobStatus(i)' = "error"
        /\ UNCHANGED <<Received(i), CutShort(i)>>
    BY <2>1 DEF JobStatus, Received, CutShort
  <2> QED
    BY <2>2, JobMeans
<1>4. CASE i = worker[w] /\ JobStarts(w)
  <2>1. job[i] = "opening" /\ job'[i] = "running" /\ UNCHANGED <<cancel, output>>
        /\ thread'[i][Writer] # "exit" /\ thread[i][Writer] # "exit"
        /\ encoder[i] = "off" /\ encoder'[i] = "run"
    BY <1>4, <1>inv, ThreadNames DEF JobStarts, TypeInv, TypeOK, Fresh, Started
  <2>2. UNCHANGED JobStatus(i)
    BY <2>1 DEF JobStatus
  <2>3. UNCHANGED CutShort(i)
    BY <2>1 DEF CutShort
  <2> QED
    BY <2>1, <2>2, <2>3, QuietStep
<1>5. CASE i = worker[w] /\ JobReturns(w)
  <2>1. /\ job[i] = "running" /\ job'[i] = "returned" /\ thread[i][Writer] = "exit"
        /\ encoder'[i] = (IF encoder[i] = "run" THEN "off" ELSE encoder[i])
        /\ error'[i] \in BOOLEAN /\ UNCHANGED <<cancel, output>>
    BY <1>5, <1>inv, ThreadNames DEF JobReturns, Joined, TypeInv, TypeOK, lineVars
  <2>2. JobStatus(i) = "sealed" /\ JobStatus(i)' \in {"done", "error"}
    BY <2>1 DEF JobStatus
  <2>3. UNCHANGED <<Received(i), CutShort(i)>>
    BY <2>1 DEF Received, CutShort
  <2> QED
    BY <2>2, <2>3, JobMeans
<1> QED
  BY <1>1, <1>2, <1>3, <1>4, <1>5 DEF WorkerStep

LEMMA StepKeepsPromise ==
  ASSUME PipelineInv, [Next]_vars, NEW i \in Jobs
  PROVE  [Job(i)!Next]_(Job(i)!vars)
<1>1. ASSUME NEW j \in Jobs, NEW k \in Threads, ThreadStep(j, k) PROVE [Job(i)!Next]_(Job(i)!vars)
  BY <1>1, ThreadKeepsPromise
<1>2. ASSUME NEW w \in Workers, WorkerStep(w) PROVE [Job(i)!Next]_(Job(i)!vars)
  BY <1>2, WorkerKeepsPromise
<1>3. CASE Interrupt \/ UNCHANGED vars
  BY <1>3, QuietStep
     DEF Interrupt, vars, batchVars, jobVars, lineVars, encVars, JobStatus, CutShort
<1>4. ASSUME NEW j \in Jobs, FfmpegEnds(j) PROVE [Job(i)!Next]_(Job(i)!vars)
  BY <1>4, QuietStep
     DEF FfmpegEnds, batchVars, jobVars, lineVars, JobStatus, CutShort, PipelineInv, CompleteInv,
         TypeInv, TypeOK
<1> QED
  BY <1>1, <1>2, <1>3, <1>4 DEF Next

LEMMA InitPromise == Init => \A j \in Jobs : Job(j)!Init
<1> SUFFICES ASSUME Init, NEW j \in Jobs PROVE Job(j)!Init
  OBVIOUS
<1>1. Received(j) = <<>>
  BY DEF Init, Received
<1>2. JobStatus(j) = "open" /\ CutShort(j) = FALSE
  BY ThreadNames DEF Init, JobStatus, CutShort
<1> QED
  BY <1>1, <1>2, JobMeans

\* Every video of the batch keeps the promise of StreamJob, for any number of videos and
\* workers and any depth of the queues: its frames reach ffmpeg in order and each once,
\* whatever the other videos do, and a writer that leaves before the last frame leaves a
\* stream that an interrupt, its ffmpeg or another video's writer cut short.
THEOREM Implementation == Spec => ImplementsStreamJob
<1>1. PipelineInv /\ [Next]_vars => \A j \in Jobs : [Job(j)!Next]_(Job(j)!vars)
  BY StepKeepsPromise
<1> QED
  BY <1>1, InitPipeline, StepPipeline, InitPromise, PTL DEF Spec, ImplementsStreamJob
================================================================================
