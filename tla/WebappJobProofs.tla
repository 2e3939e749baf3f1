---------------------------- MODULE WebappJobProofs ----------------------------
(***************************************************************************)
(* Proofs about ThreadPipeline and WebappJob, for a video of any length,   *)
(* queues of any depth and any set of failures and uploads. The threads    *)
(* are the same in both, so what is proved of their steps serves both: the *)
(* types, the order of the frames, that a stream which nothing cut short   *)
(* is complete, and with it that both keep the promise of StreamJob. Then  *)
(* what is WebappJob's own: the files of the jobs in flight and the end of *)
(* the encoder.                                                            *)
(***************************************************************************)
EXTENDS WebappJob, TLAPS

-------------------------------------------------------------------------------
(* What is true of the threads *)

\* What a thread has in its hand, by its place.
Hands ==
  /\ reader = "put" => hand["reader"] \in Items
  /\ detect = "put" => hand["detect"] \in Items
  /\ main \in {"swap", "put"} => hand["main"] \in Frames
  /\ writer = "write" => hand["writer"] \in Frames
  /\ detect # "put" => hand["detect"] = None

InLoop == main \in {"check", "get", "swap", "put"}
EndPut == main \in {"joinWriter", "joinDetect", "joinReader", "release", "wait", "done", "error"}
Alive == writer \in {"get", "write"}

\* Before the stream nothing has happened; in the loop nothing has been stopped.
Begun ==
  /\ main = "open" =>
       /\ reader = "off" /\ detect = "off" /\ writer = "off"
       /\ readQ = <<>> /\ detectQ = <<>> /\ writeQ = <<>> /\ output = <<>> /\ pos = 0
       /\ ffmpeg = "off" /\ ~stopFlag /\ ~broken /\ ~failing /\ cuts = {}
  /\ InLoop => ~stopFlag /\ (Alive \/ broken) /\ reader # "off" /\ detect # "off"
  /\ writer = "discard" => broken
  /\ writer = "off" => main \in {"open", "error"}

TypeInv == TypeOK /\ Hands /\ Begun

\* The queue holds the frames from a on, and in the end the marker, if it has been put.
Run(q, a, ended) ==
  /\ \A i \in 1 .. Len(q) : q[i] = IF ended /\ i = Len(q) THEN END ELSE a + i - 1
  /\ ended => q # <<>>

\* The frame at which each part of the line begins.
Written == Len(output)
Sent == Written + (IF writer = "write" THEN 1 ELSE 0)
ToSwap == Sent + Len(writeQ)
Taken == ToSwap + (IF main \in {"swap", "put"} THEN 1 ELSE 0)
ToDetect == Taken + Len(detectQ)
Detected == ToDetect + (IF detect = "put" THEN 1 ELSE 0)
ToRead == Detected + Len(readQ)

\* The writer's part of the line, the job's thread's, the detector's and the reader's; what is
\* behind an end marker does not matter any more.
OutLine == \A i \in 1 .. Len(output) : output[i] = i - 1
WriteLine ==
  Alive => (writer = "write" => hand["writer"] = Written) /\ Run(writeQ, Sent, EndPut)
SwapLine ==
  Alive /\ InLoop => /\ main \in {"swap", "put"} => hand["main"] = ToSwap
                     /\ Run(detectQ, Taken, detect = "exit")
DetectLine ==
  Alive /\ InLoop /\ detect = "put" => hand["detect"] \in {END, ToDetect}
Passing == Alive /\ InLoop /\ detect # "exit" /\ hand["detect"] # END
ReadLine ==
  Passing =>
    /\ Run(readQ, Detected, reader = "exit")
    /\ reader = "put" => hand["reader"] = END \/ (hand["reader"] = ToRead /\ pos = ToRead + 1)
    /\ reader = "loop" => pos = ToRead

Line == OutLine /\ WriteLine /\ SwapLine /\ DetectLine /\ ReadLine

\* As long as nothing cuts the stream short an end marker stands behind the last frame.
Whole ==
  cuts = {} /\ Alive /\ InLoop =>
    /\ detect = "exit" => ToDetect - 1 = NumFrames
    /\ detect = "put" /\ hand["detect"] = END => ToDetect = NumFrames
    /\ Passing /\ reader = "exit" => ToRead - 1 = NumFrames
    /\ Passing /\ reader = "put" /\ hand["reader"] = END => ToRead = NumFrames

Left == main \in {"clearRead", "clearDetect", "putEnd", "joinWriter", "joinDetect", "joinReader", "release"}
Delivered ==
  Left /\ cuts = {} /\ ~broken /\ ~failing =>
    /\ writer \in {"get", "write", "exit"}
    /\ Alive => ToSwap = NumFrames + (IF EndPut THEN 1 ELSE 0)
    /\ writer = "exit" => Written = NumFrames
    /\ main \in {"joinDetect", "joinReader", "release"} => writer = "exit"

StreamInv == TypeInv /\ Line /\ Whole /\ Delivered

-------------------------------------------------------------------------------
(* What is true of webapp.py besides *)

\* The phase that the page is told goes with the place of the job's thread.
Before == {"queued", "detecting_source", "finding_reference"}
PhaseOfMain ==
  /\ main = "open" <=> phase[Mine] \in Before
  /\ main = "wait" <=> phase[Mine] = "finalising"
  /\ main = "done" <=> phase[Mine] = "done"
  /\ main = "error" <=> phase[Mine] = "error"

Encoder ==
  /\ main = "open" => ffmpeg = "off"
  /\ main = "done" => reaped
  /\ main = "error" => ffmpeg # "run" \/ reaped

\* A cleanup that has collected its list and not yet wiped has every upload in it that it must
\* not touch, unless it runs into the saving of that upload's files.
Files ==
  \A u \in Uploads \ raced :
    /\ Unlisted(u) => u \in dirs /\ \A v \in Uploads : request[v] # "collected"
    /\ request[u] = "accepted" /\ Active(u) =>
         /\ u \in jobs /\ u \in dirs
         /\ \A v \in Uploads : request[v] = "collected" => u \in kept[v]

WebInv == StartTypeOK /\ PhaseOfMain /\ Encoder /\ Files

-------------------------------------------------------------------------------
(* The steps *)

\* What both programs have in common.
ReaderMoves == ReaderReads \/ ReadFails \/ ReaderPuts
DetectMoves == DetectGets \/ DetectRaises \/ DetectPuts
WriterMoves == WriterGets \/ WriterWrites \/ WriterBreaks \/ WriterDropsItem
LoopMoves == MainChecks \/ MainGets \/ MainSwaps \/ SwapRaises \/ MainPuts
SweepMoves == MainClearsRead \/ MainClearsDetect \/ MainPutsEnd
JoinMoves == MainJoinsWriter \/ MainJoinsDetect \/ MainJoinsReader

\* And what they do each in its own way: the end of the job's thread, a writer that was given
\* up on, and the end of ffmpeg.
MainGoesOn ==
  /\ \/ main = "open" /\ main' = "error"
     \/ main = "release" /\ failing /\ main' = "error"
     \/ main = "release" /\ ~failing /\ main' = "wait"
     \/ main = "wait" /\ main' \in {"done", "error"}
  /\ UNCHANGED <<failing, reader, detect, writer, hand, queueVars, pos, flagVars, encVars, cuts>>
WriterLeftBehind ==
  /\ writer = "write" /\ Released
  /\ \/ writer' = "exit" /\ UNCHANGED broken
     \/ writer' = "discard" /\ broken' = TRUE
  /\ hand' = [hand EXCEPT !["writer"] = None]
  /\ UNCHANGED <<main, failing, reader, detect, queueVars, pos, stopFlag, encVars, cuts>>
EncoderEnds ==
  /\ ffmpeg = "run" /\ ffmpeg' \in {"failed", "content"}
  /\ UNCHANGED <<main, failing, reader, detect, writer, hand, queueVars, pos, flagVars, output, cuts>>

StreamStep == \/ ReaderMoves \/ DetectMoves \/ WriterMoves \/ MainOpens \/ LoopMoves \/ SweepMoves
              \/ JoinMoves \/ MainGoesOn \/ WriterLeftBehind \/ EncoderEnds

LEMMA NextIsStreamStep == [Next]_vars => StreamStep \/ UNCHANGED vars
<1> SUFFICES ASSUME Next PROVE StreamStep
  OBVIOUS
<1>1. CASE ReaderStep \/ DetectStep
  BY <1>1 DEF ReaderStep, DetectStep, StreamStep, ReaderMoves, DetectMoves
<1>2. CASE WriterStep
  <2>1. WriterTooLate => WriterLeftBehind
    BY DEF WriterTooLate, WriterLeftBehind, flagVars
  <2> QED
    BY <1>2, <2>1 DEF WriterStep, StreamStep, WriterMoves
<1>3. CASE MainStep
  <2>1. MainFailsToOpen \/ MainReleases \/ MainFinishes \/ MainGivesUpWaiting => MainGoesOn
    BY DEF MainFailsToOpen, MainReleases, MainFinishes, MainGivesUpWaiting, MainGoesOn
  <2> QED
    BY <1>3, <2>1 DEF MainStep, StreamStep, LoopMoves, SweepMoves, JoinMoves
<1>4. CASE FfmpegEnds
  BY <1>4 DEF FfmpegEnds, StreamStep, EncoderEnds
<1> QED
  BY <1>1, <1>2, <1>3, <1>4 DEF Next

LEMMA WebNextIsStreamStep == PhaseOfMain /\ [WebNext]_allVars => StreamStep \/ UNCHANGED vars
<1> SUFFICES ASSUME PhaseOfMain, WebNext PROVE StreamStep \/ UNCHANGED vars
  BY DEF allVars
<1>1. CASE \E u \in Uploads : Start(u) \/ OtherRuns(u)
  BY <1>1 DEF Start, CleanupCollects, CleanupWipes, StartRefuses, StartMakesDir, StartSaves,
     StartRegisters, OtherRuns
<1>2. CASE Prewarms
  BY <1>2 DEF Prewarms
<1>3. CASE ReaderLoop \/ DetectLoop \/ WriterLoop \/ SwapLoop \/ LeavesLoop
  BY <1>3 DEF ReaderLoop, DetectLoop, WriterLoop, SwapLoop, LeavesLoop, Streams, ReaderStep, DetectStep,
     StreamStep, ReaderMoves, DetectMoves, WriterMoves, LoopMoves, SweepMoves, JoinMoves
<1>4. CASE WriterComesLate
  <2>1. WriterLeftBehind
    BY <1>4 DEF WriterComesLate, WriterLeftBehind, WriterDiscards, WriterQuits
  <2> QED
    BY <2>1 DEF StreamStep
<1>5. CASE FfmpegGoes
  <2>1. EncoderEnds
    BY <1>5 DEF FfmpegGoes, EncoderEnds
  <2> QED
    BY <2>1 DEF StreamStep
<1>6. CASE JobLoadsModels \/ JobReadsUploads \/ JobFindsNobody \/ JobCannotSpawn
  <2>1. main = "open"
    BY <1>6 DEF JobLoadsModels, JobReadsUploads, JobFindsNobody, JobCannotSpawn, PhaseOfMain, Before
  <2>2. main' = main \/ main' = "error"
    BY <1>6 DEF JobLoadsModels, JobReadsUploads, JobFindsNobody, JobCannotSpawn, EnsureModels, RaisesEarly
  <2>3. UNCHANGED <<failing, reader, detect, writer, hand, queueVars, pos, flagVars, encVars, cuts>>
    BY <1>6 DEF JobLoadsModels, JobReadsUploads, JobFindsNobody, JobCannotSpawn
  <2> QED
    BY <2>1, <2>2, <2>3 DEF StreamStep, MainGoesOn, vars
<1>7. CASE JobSpawnsFfmpeg
  BY <1>7 DEF JobSpawnsFfmpeg, StreamStep
<1>8. CASE JobCloses \/ JobReapsFfmpeg \/ JobGivesUpOnFfmpeg \/ JobRemuxes
  <2>1. \/ UNCHANGED main
        \/ main = "release" /\ failing /\ main' = "error"
        \/ main = "release" /\ ~failing /\ main' = "wait"
        \/ main = "wait" /\ main' \in {"done", "error"}
    BY <1>8 DEF JobCloses, JobReapsFfmpeg, JobGivesUpOnFfmpeg, JobRemuxes
  <2>2. UNCHANGED <<failing, reader, detect, writer, hand, queueVars, pos, flagVars, encVars, cuts>>
    BY <1>8 DEF JobCloses, JobReapsFfmpeg, JobGivesUpOnFfmpeg, JobRemuxes
  <2> QED
    BY <2>1, <2>2 DEF StreamStep, MainGoesOn, vars
<1> QED
  BY <1>1, <1>2, <1>3, <1>4, <1>5, <1>6, <1>7, <1>8 DEF WebNext, RunJob

-------------------------------------------------------------------------------
(* Queues *)

LEMMA QueueOps ==
  ASSUME NEW q \in Queue
  PROVE  /\ q \in Seq(Items) /\ Len(q) \in Nat
         /\ q # <<>> => /\ Head(q) \in Items /\ Tail(q) \in Queue /\ Tail(q) \in Seq(Items)
                        /\ Len(q) > 0 /\ Len(Tail(q)) = Len(q) - 1
         /\ \A x \in Items : /\ Len(Append(q, x)) = Len(q) + 1
                             /\ HasRoom(q) => Append(q, x) \in Queue
  BY PipelineAssumption DEF Queue, HasRoom

LEMMA RunPush ==
  ASSUME NEW q \in Seq(Items), NEW a \in Nat, Run(q, a, FALSE)
  PROVE  /\ a + Len(q) \in Items => Run(Append(q, a + Len(q)), a, FALSE)
         /\ Run(Append(q, END), a, TRUE)
<1> USE DEF END
<1>1. ASSUME NEW x \in Items
      PROVE  LET p == Append(q, x) IN
             /\ Len(p) = Len(q) + 1 /\ p[Len(q) + 1] = x /\ p # <<>>
             /\ \A i \in 1 .. Len(q) : p[i] = a + i - 1
  <2>1. \A i \in 1 .. Len(q) : q[i] = a + i - 1
    BY DEF Run
  <2>2. Append(q, x) \in Seq(Items) /\ Len(Append(q, x)) = Len(q) + 1 /\ Len(q) \in Nat
    OBVIOUS
  <2>3. Append(q, x)[Len(q) + 1] = x /\ \A i \in 1 .. Len(q) : Append(q, x)[i] = q[i]
    OBVIOUS
  <2>4. Append(q, x) # <<>>
    BY <2>2
  <2> QED
    BY <2>1, <2>2, <2>3, <2>4
<1>2. ASSUME a + Len(q) \in Items PROVE Run(Append(q, a + Len(q)), a, FALSE)
  <2> DEFINE p == Append(q, a + Len(q))
  <2>1. ASSUME NEW i \in 1 .. Len(p) PROVE p[i] = a + i - 1
    <3>1. i \in 1 .. Len(q) \/ i = Len(q) + 1
      BY <1>1, <1>2
    <3> QED
      BY <1>1, <1>2, <3>1
  <2> QED
    BY <2>1 DEF Run
<1>3. Run(Append(q, END), a, TRUE)
  <2> DEFINE p == Append(q, END)
  <2>1. END \in Items
    BY DEF Items
  <2>2. ASSUME NEW i \in 1 .. Len(p) PROVE p[i] = IF i = Len(p) THEN END ELSE a + i - 1
    <3>1. i \in 1 .. Len(q) \/ i = Len(q) + 1
      BY <1>1, <2>1
    <3> QED
      BY <1>1, <2>1, <3>1
  <2> QED
    BY <1>1, <2>1, <2>2 DEF Run
<1> QED
  BY <1>2, <1>3

LEMMA RunPop ==
  ASSUME NEW q \in Seq(Items), NEW a \in Nat, NEW e \in BOOLEAN, Run(q, a, e), q # <<>>
  PROVE  /\ Head(q) = END => e /\ Len(q) = 1
         /\ Head(q) # END => Head(q) = a /\ Run(Tail(q), a + 1, e)
<1>1. Len(q) \in Nat \ {0} /\ Len(Tail(q)) = Len(q) - 1 /\ Head(q) = q[1] /\ 1 \in 1 .. Len(q)
  OBVIOUS
<1>2. Len(q) # 1 => Tail(q) # <<>>
  BY <1>1
<1>3. \A i \in 1 .. Len(q) - 1 : Tail(q)[i] = q[i + 1] /\ i + 1 \in 1 .. Len(q)
  BY <1>1
<1>4. CASE e
  <2>0. \A i \in 1 .. Len(q) : q[i] = IF i = Len(q) THEN END ELSE a + i - 1
    BY <1>4 DEF Run
  <2>1. q[Len(q)] = END /\ \A i \in 1 .. Len(q) - 1 : q[i] = a + i - 1
    <3>1. Len(q) \in 1 .. Len(q)
      BY <1>1
    <3>2. ASSUME NEW i \in 1 .. Len(q) - 1 PROVE i \in 1 .. Len(q) /\ i # Len(q)
      OBVIOUS
    <3> QED
      BY <2>0, <3>1, <3>2
  <2>2. Head(q) = END => Len(q) = 1
    BY <1>1, <2>1 DEF END
  <2>3. ASSUME Head(q) # END PROVE Head(q) = a /\ Len(q) # 1
    BY <1>1, <2>1, <2>3
  <2>4. ASSUME NEW i \in 1 .. Len(q) - 1
        PROVE  Tail(q)[i] = IF i = Len(q) - 1 THEN END ELSE a + 1 + i - 1
    <3>1. CASE i = Len(q) - 1
      BY <1>1, <1>3, <2>1, <3>1
    <3>2. CASE i # Len(q) - 1
      <4>1. i + 1 \in 1 .. Len(q) - 1
        BY <3>2
      <4> QED
        BY <1>3, <2>1, <3>2, <4>1
    <3> QED
      BY <3>1, <3>2
  <2> QED
    BY <1>1, <1>2, <1>4, <2>2, <2>3, <2>4 DEF Run
<1>5. CASE ~e
  <2>1. \A i \in 1 .. Len(q) : q[i] = a + i - 1
    BY <1>5 DEF Run
  <2>2. Head(q) = a /\ Head(q) # END
    BY <1>1, <2>1 DEF END
  <2>3. \A i \in 1 .. Len(q) - 1 : Tail(q)[i] = a + 1 + i - 1
    BY <1>1, <1>3, <2>1
  <2> QED
    BY <1>1, <1>5, <2>2, <2>3 DEF Run
<1> QED
  BY <1>4, <1>5

LEMMA RunEmpty == \A a : Run(<<>>, a, FALSE)
  BY DEF Run

-------------------------------------------------------------------------------
(* Types *)

Places ==
  /\ main \in {"open", "check", "get", "swap", "put", "clearRead", "clearDetect", "putEnd",
               "joinWriter", "joinDetect", "joinReader", "release", "wait", "done", "error"}
  /\ reader \in {"off", "loop", "put", "exit"}
  /\ detect \in {"off", "get", "put", "exit"}
  /\ writer \in {"off", "get", "write", "discard", "exit"}
  /\ ffmpeg \in {"off", "run", "failed", "content"}
Flags == failing \in BOOLEAN /\ stopFlag \in BOOLEAN /\ broken \in BOOLEAN
InHand == hand \in [{"reader", "detect", "main", "writer"} -> Items \cup {None}]
Queues == readQ \in Queue /\ detectQ \in Queue /\ writeQ \in Queue
Frame == pos \in 0 .. NumFrames /\ output \in Seq(Frames)
Cuts == cuts \in SUBSET {"decode", "detect", "slow"}

LEMMA TypeParts == TypeOK <=> Places /\ Flags /\ InHand /\ Queues /\ Frame /\ Cuts
  BY DEF TypeOK, Places, Flags, InHand, Queues, Frame, Cuts

\* Taking something into a hand or out of it.
LEMMA HandStep ==
  ASSUME InHand, NEW t \in {"reader", "detect", "main", "writer"}, NEW x \in Items \cup {None},
         hand' = [hand EXCEPT ![t] = x]
  PROVE  /\ InHand' /\ hand'[t] = x
         /\ \A s \in {"reader", "detect", "main", "writer"} : s # t => hand'[s] = hand[s]
  BY DEF InHand

LEMMA ItemKinds ==
  /\ END \in Items /\ Frames \subseteq Items /\ None \notin Items /\ END \notin Frames /\ END # None
  /\ \A x \in Items : x # END => x \in Frames
  BY DEF Items, Frames, END, None

LEMMA TypeStep ==
  ASSUME TypeInv, StreamStep
  PROVE  TypeOK' /\ Hands'
<1>ok. Places /\ Flags /\ InHand /\ Queues /\ Frame /\ Cuts
  BY TypeParts DEF TypeInv
<1>same. /\ UNCHANGED <<main, reader, detect, writer, ffmpeg>> => Places'
         /\ UNCHANGED <<failing, flagVars>> => Flags'
         /\ UNCHANGED hand => InHand'
         /\ UNCHANGED queueVars => Queues'
         /\ UNCHANGED <<pos, output>> => Frame'
         /\ UNCHANGED cuts => Cuts'
  <2>1. UNCHANGED <<main, reader, detect, writer, ffmpeg>> => Places'
    BY <1>ok DEF Places
  <2>2. UNCHANGED <<failing, flagVars>> => Flags'
    BY <1>ok DEF Flags, flagVars
  <2>3. (UNCHANGED hand => InHand') /\ (UNCHANGED queueVars => Queues')
    BY <1>ok DEF InHand, Queues, queueVars
  <2>4. (UNCHANGED <<pos, output>> => Frame') /\ (UNCHANGED cuts => Cuts')
    BY <1>ok DEF Frame, Cuts
  <2> QED
    BY <2>1, <2>2, <2>3, <2>4
<1> SUFFICES Places' /\ Flags' /\ InHand' /\ Queues' /\ Frame' /\ Cuts' /\ Hands'
  BY TypeParts DEF TypeOK, Places, Flags, InHand, Queues, Frame, Cuts
<1>held. Hands
  BY DEF TypeInv
<1>1. CASE ReaderReads \/ ReadFails
  <2>1. /\ reader = "loop" /\ reader' = "put"
        /\ UNCHANGED <<main, failing, detect, writer, queueVars, flagVars, encVars>>
    BY <1>1 DEF ReaderReads, ReadFails
  <2>2. /\ \E x \in Items : hand' = [hand EXCEPT !["reader"] = x]
        /\ pos' \in 0 .. NumFrames
    <3>1. CASE ReaderReads
      <4>1. \/ hand' = [hand EXCEPT !["reader"] = END] /\ UNCHANGED pos
            \/ pos # NumFrames /\ hand' = [hand EXCEPT !["reader"] = pos] /\ pos' = pos + 1
        BY <3>1 DEF ReaderReads
      <4>2. pos \in 0 .. NumFrames /\ NumFrames \in Nat
        BY <1>ok, PipelineAssumption DEF Frame
      <4>3. pos # NumFrames => pos \in Items /\ pos + 1 \in 0 .. NumFrames
        BY <4>2 DEF Items, Frames
      <4> QED
        BY <4>1, <4>2, <4>3, ItemKinds
    <3>2. CASE ReadFails
      BY <1>ok, <3>2 DEF ReadFails, Frame, Items
    <3> QED
      BY <1>1, <3>1, <3>2
  <2>3. Cuts'
    BY <1>1, <1>ok DEF ReaderReads, ReadFails, Cuts
  <2>4. Places' /\ Flags' /\ Queues' /\ Frame'
    BY <2>1, <2>2, <1>ok, <1>same DEF Places, Frame, encVars
  <2>5. InHand' /\ Hands'
    BY <2>1, <2>2, <1>ok, <1>held, HandStep, ItemKinds DEF Hands
  <2> QED
    BY <2>3, <2>4, <2>5
<1>2. CASE ReaderPuts
  <2>1. /\ reader = "put" /\ HasRoom(readQ) /\ reader' \in {"loop", "exit"}
        /\ readQ' = Append(readQ, hand["reader"])
        /\ hand' = [hand EXCEPT !["reader"] = None]
        /\ UNCHANGED <<main, failing, detect, writer, detectQ, writeQ, pos, flagVars, encVars, cuts>>
    BY <1>2 DEF ReaderPuts, AfterPut
  <2>2. Queues'
    BY <2>1, <1>ok, <1>held, QueueOps DEF Queues, Hands
  <2>3. Places' /\ Flags' /\ Frame' /\ Cuts'
    BY <2>1, <1>ok, <1>same DEF Places, encVars
  <2>4. InHand' /\ Hands'
    BY <2>1, <1>ok, <1>held, HandStep DEF Hands
  <2> QED
    BY <2>2, <2>3, <2>4
<1>3. CASE DetectGets
  <2>1. /\ detect = "get" /\ readQ # <<>> /\ detect' = "put"
        /\ readQ' = Tail(readQ) /\ hand' = [hand EXCEPT !["detect"] = Head(readQ)]
        /\ UNCHANGED <<main, failing, reader, writer, detectQ, writeQ, pos, flagVars, encVars, cuts>>
    BY <1>3 DEF DetectGets, Oldest
  <2>2. Queues' /\ Head(readQ) \in Items
    BY <2>1, <1>ok, QueueOps DEF Queues
  <2>3. Places' /\ Flags' /\ Frame' /\ Cuts'
    BY <2>1, <1>ok, <1>same DEF Places, encVars
  <2>4. InHand' /\ Hands'
    BY <2>1, <2>2, <1>ok, <1>held, HandStep DEF Hands
  <2> QED
    BY <2>2, <2>3, <2>4
<1>4. CASE DetectRaises
  <2>1. /\ detect = "put" /\ hand' = [hand EXCEPT !["detect"] = END]
        /\ UNCHANGED <<main, failing, reader, detect, writer, queueVars, pos, flagVars, encVars>>
    BY <1>4 DEF DetectRaises
  <2>2. Cuts'
    BY <1>4, <1>ok DEF DetectRaises, Cuts
  <2>3. Places' /\ Flags' /\ Queues' /\ Frame'
    BY <2>1, <1>ok, <1>same DEF encVars
  <2>4. InHand' /\ Hands'
    BY <2>1, <1>ok, <1>held, HandStep, ItemKinds DEF Hands
  <2> QED
    BY <2>2, <2>3, <2>4
<1>5. CASE DetectPuts
  <2>1. /\ detect = "put" /\ HasRoom(detectQ) /\ detect' \in {"get", "exit"}
        /\ detectQ' = Append(detectQ, hand["detect"])
        /\ hand' = [hand EXCEPT !["detect"] = None]
        /\ UNCHANGED <<main, failing, reader, writer, readQ, writeQ, pos, flagVars, encVars, cuts>>
    BY <1>5 DEF DetectPuts, AfterPut
  <2>2. Queues'
    BY <2>1, <1>ok, <1>held, QueueOps DEF Queues, Hands
  <2>3. Places' /\ Flags' /\ Frame' /\ Cuts'
    BY <2>1, <1>ok, <1>same DEF Places, encVars
  <2>4. InHand' /\ Hands'
    BY <2>1, <1>ok, <1>held, HandStep DEF Hands
  <2> QED
    BY <2>2, <2>3, <2>4
<1>6. CASE WriterGets \/ WriterDropsItem
  <2>1. /\ writer \in {"get", "discard"} /\ writeQ # <<>> /\ writeQ' = Tail(writeQ)
        /\ \/ writer' \in {"discard", "exit"} /\ UNCHANGED hand
           \/ /\ writer' = "write" /\ Head(writeQ) # END
              /\ hand' = [hand EXCEPT !["writer"] = Head(writeQ)]
        /\ UNCHANGED <<main, failing, reader, detect, readQ, detectQ, pos, flagVars, encVars, cuts>>
    BY <1>6 DEF WriterGets, WriterDropsItem
  <2>2. Queues' /\ Head(writeQ) \in Items
    BY <2>1, <1>ok, QueueOps DEF Queues
  <2>3. Places' /\ Flags' /\ Frame' /\ Cuts'
    BY <2>1, <1>ok, <1>same DEF Places, encVars
  <2>4. InHand' /\ Hands'
    BY <2>1, <2>2, <1>ok, <1>same, <1>held, HandStep, ItemKinds DEF Hands
  <2> QED
    BY <2>2, <2>3, <2>4
<1>7. CASE WriterWrites \/ WriterBreaks \/ WriterLeftBehind
  <2>1. /\ writer = "write" /\ writer' \in {"get", "discard", "exit"}
        /\ hand' = [hand EXCEPT !["writer"] = None]
        /\ broken' \in {broken, TRUE} /\ output' \in {output, Append(output, hand["writer"])}
        /\ UNCHANGED <<main, failing, reader, detect, queueVars, pos, stopFlag, ffmpeg, cuts>>
    BY <1>7 DEF WriterWrites, WriterBreaks, WriterLeftBehind, WriterDiscards, encVars, flagVars
  <2>2. Flags'
    BY <2>1, <1>ok DEF Flags
  <2>3. Frame'
    BY <2>1, <1>ok, <1>held DEF Frame, Hands
  <2>4. Places' /\ Queues' /\ Cuts'
    BY <2>1, <1>ok, <1>same DEF Places
  <2>5. InHand' /\ Hands'
    BY <2>1, <1>ok, <1>held, HandStep DEF Hands
  <2> QED
    BY <2>2, <2>3, <2>4, <2>5
<1>8. CASE MainOpens
  <2>1. /\ main' = "check" /\ ffmpeg' = "run" /\ reader' = "loop" /\ detect' = "get" /\ writer' = "get"
        /\ main = "open" /\ UNCHANGED <<failing, hand, queueVars, pos, flagVars, output, cuts>>
    BY <1>8 DEF MainOpens
  <2>2. Places' /\ Flags' /\ InHand' /\ Queues' /\ Frame' /\ Cuts'
    BY <2>1, <1>same DEF Places
  <2>3. Hands'
    BY <2>1, <1>held DEF Hands, TypeInv, Begun
  <2> QED
    BY <2>2, <2>3
<1>9. CASE MainChecks \/ MainSwaps \/ SwapRaises
  <2>1. /\ main' \in {"get", "clearRead", "put"} /\ (main' = "put" => main = "swap")
        /\ stopFlag' \in {stopFlag, TRUE} /\ failing' \in {failing, TRUE}
        /\ UNCHANGED <<reader, detect, writer, hand, queueVars, pos, broken, encVars, cuts>>
    BY <1>9 DEF MainChecks, MainSwaps, SwapRaises, LeaveLoop
  <2>2. Flags'
    BY <2>1, <1>ok DEF Flags
  <2>3. Places' /\ InHand' /\ Queues' /\ Frame' /\ Cuts'
    BY <2>1, <1>ok, <1>same DEF Places, encVars
  <2>4. Hands'
    BY <2>1, <1>held DEF Hands
  <2> QED
    BY <2>2, <2>3, <2>4
<1>10. CASE MainGets
  <2>1. /\ detectQ # <<>> /\ detectQ' = Tail(detectQ)
        /\ \/ main' = "clearRead" /\ UNCHANGED hand
           \/ /\ main' = "swap" /\ Head(detectQ) # END
              /\ hand' = [hand EXCEPT !["main"] = Head(detectQ)]
        /\ stopFlag' \in {stopFlag, TRUE}
        /\ UNCHANGED <<failing, reader, detect, writer, readQ, writeQ, pos, broken, encVars, cuts>>
    BY <1>10 DEF MainGets, LeaveLoop
  <2>2. Queues' /\ Head(detectQ) \in Items
    BY <2>1, <1>ok, QueueOps DEF Queues
  <2>3. Flags'
    BY <2>1, <1>ok DEF Flags
  <2>4. Places' /\ Frame' /\ Cuts'
    BY <2>1, <1>ok, <1>same DEF Places, encVars
  <2>5. InHand' /\ Hands'
    BY <2>1, <2>2, <1>ok, <1>same, <1>held, HandStep, ItemKinds DEF Hands
  <2> QED
    BY <2>2, <2>3, <2>4, <2>5
<1>11. CASE MainPuts
  <2>1. /\ main = "put" /\ HasRoom(writeQ) /\ main' = "check"
        /\ writeQ' = Append(writeQ, hand["main"])
        /\ hand' = [hand EXCEPT !["main"] = None]
        /\ UNCHANGED <<failing, reader, detect, writer, readQ, detectQ, pos, flagVars, encVars, cuts>>
    BY <1>11 DEF MainPuts
  <2>2. Queues'
    BY <2>1, <1>ok, <1>held, QueueOps, ItemKinds DEF Queues, Hands
  <2>3. Places' /\ Flags' /\ Frame' /\ Cuts'
    BY <2>1, <1>ok, <1>same DEF Places, encVars
  <2>4. InHand' /\ Hands'
    BY <2>1, <1>ok, <1>held, HandStep DEF Hands
  <2> QED
    BY <2>2, <2>3, <2>4
<1>12. CASE SweepMoves \/ JoinMoves
  <2>1. /\ main' \in {"clearRead", "clearDetect", "putEnd", "joinWriter", "joinDetect", "joinReader", "release"}
        /\ UNCHANGED <<failing, reader, detect, writer, hand, pos, flagVars, encVars>>
    BY <1>12 DEF SweepMoves, MainClearsRead, MainClearsDetect, MainPutsEnd, JoinMoves, MainJoinsWriter,
       MainJoinsDetect, MainJoinsReader
  <2>2. Queues'
    <3>1. CASE MainClearsRead
      BY <3>1, <1>ok, QueueOps DEF MainClearsRead, Swept, Queues
    <3>2. CASE MainClearsDetect
      BY <3>2, <1>ok, QueueOps DEF MainClearsDetect, Swept, Queues
    <3>3. CASE MainPutsEnd
      BY <3>3, <1>ok, QueueOps, ItemKinds DEF MainPutsEnd, Queues
    <3>4. CASE JoinMoves
      BY <3>4, <1>same DEF JoinMoves, MainJoinsWriter, MainJoinsDetect, MainJoinsReader
    <3> QED
      BY <1>12, <3>1, <3>2, <3>3, <3>4 DEF SweepMoves
  <2>3. Cuts'
    BY <1>12, <1>ok DEF SweepMoves, MainClearsRead, MainClearsDetect, MainPutsEnd, JoinMoves, MainJoinsWriter,
       MainJoinsDetect, MainJoinsReader, Cuts
  <2>4. Places' /\ Flags' /\ InHand' /\ Frame'
    BY <2>1, <1>ok, <1>same DEF Places, encVars
  <2>5. Hands'
    BY <2>1, <1>held DEF Hands
  <2> QED
    BY <2>2, <2>3, <2>4, <2>5
<1>13. CASE MainGoesOn \/ EncoderEnds
  <2>1. /\ main' = main \/ main' \in {"wait", "done", "error"}
        /\ ffmpeg' = ffmpeg \/ ffmpeg' \in {"failed", "content"}
        /\ UNCHANGED <<failing, reader, detect, writer, hand, queueVars, pos, flagVars, output, cuts>>
    BY <1>13 DEF MainGoesOn, EncoderEnds, encVars
  <2>2. Places' /\ Flags' /\ InHand' /\ Queues' /\ Frame' /\ Cuts'
    BY <2>1, <1>ok, <1>same DEF Places
  <2>3. Hands'
    BY <2>1, <1>held DEF Hands
  <2> QED
    BY <2>2, <2>3
<1> QED
  BY <1>1, <1>2, <1>3, <1>4, <1>5, <1>6, <1>7, <1>8, <1>9, <1>10, <1>11, <1>12, <1>13
  DEF StreamStep, ReaderMoves, DetectMoves, WriterMoves, LoopMoves

LEMMA BegunStep ==
  ASSUME TypeInv, WriteLine, StreamStep
  PROVE  Begun'
<1>begun. Begun
  BY DEF TypeInv
<1>ok. Places /\ Flags /\ InHand /\ Queues /\ Frame /\ Cuts
  BY TypeParts DEF TypeInv
<1>1. CASE ReaderMoves
  <2>1. /\ reader # "off" /\ reader' # "off"
        /\ UNCHANGED <<main, failing, detect, writer, detectQ, writeQ, flagVars, encVars>>
    BY <1>1 DEF ReaderMoves, ReaderReads, ReadFails, ReaderPuts, queueVars, AfterPut
  <2> QED
    BY <2>1, <1>begun DEF Begun, InLoop, Alive, flagVars
<1>2. CASE DetectMoves
  <2>1. /\ detect # "off" /\ detect' # "off"
        /\ UNCHANGED <<main, failing, reader, writer, writeQ, pos, flagVars, encVars>>
    BY <1>2 DEF DetectMoves, DetectGets, DetectRaises, DetectPuts, queueVars, AfterPut
  <2> QED
    BY <2>1, <1>begun DEF Begun, InLoop, Alive, flagVars
<1>3. CASE WriterGets
  <2>1. /\ writer = "get" /\ writeQ # <<>> /\ writer' \in {"write", "exit"}
        /\ writer' = "exit" => Head(writeQ) = END
        /\ UNCHANGED <<main, failing, reader, detect, readQ, detectQ, pos, flagVars, encVars, cuts>>
    BY <1>3 DEF WriterGets
  <2>2. writer' = "exit" => EndPut
    <3>1. Written \in Nat /\ Sent \in Nat /\ Sent = Written /\ writeQ \in Seq(Items)
      BY <2>1, <1>ok, QueueOps DEF Frame, Written, Sent, Queues
    <3>2. Run(writeQ, Sent, EndPut) /\ EndPut \in BOOLEAN
      BY <2>1 DEF WriteLine, Alive, EndPut
    <3> QED
      BY <2>1, <3>1, <3>2, RunPop
  <2> QED
    BY <2>1, <2>2, <1>begun DEF Begun, InLoop, Alive, EndPut, flagVars
<1>4. CASE WriterWrites \/ WriterBreaks \/ WriterDropsItem \/ WriterLeftBehind
  <2>1. /\ writer \in {"write", "discard"} /\ writer' # "off"
        /\ \/ writer' = "get" /\ UNCHANGED broken
           \/ writer' = "discard" /\ broken'
           \/ writer' = "exit" /\ UNCHANGED broken /\ (writer = "discard" \/ ~InLoop)
        /\ UNCHANGED <<main, failing, reader, detect, stopFlag, cuts>>
    BY <1>4, <1>begun DEF WriterWrites, WriterBreaks, WriterDropsItem, WriterLeftBehind, WriterDiscards, flagVars, queueVars,
       Released, InLoop, Begun
  <2> QED
    BY <2>1, <1>begun DEF Begun, InLoop, Alive
<1>5. CASE MainOpens
  BY <1>5, <1>begun DEF MainOpens, Begun, InLoop, Alive, flagVars
<1>6. CASE LoopMoves
  <2>1. InLoop /\ UNCHANGED <<reader, detect, writer, broken>>
    BY <1>6 DEF LoopMoves, MainChecks, MainGets, MainSwaps, SwapRaises, MainPuts, InLoop, flagVars
  <2>2. main' = "clearRead" \/ (main' \in {"check", "get", "swap", "put"} /\ UNCHANGED stopFlag)
    BY <1>6 DEF LoopMoves, MainChecks, MainGets, MainSwaps, SwapRaises, MainPuts, LeaveLoop, flagVars
  <2> QED
    BY <2>1, <2>2, <1>begun DEF Begun, InLoop, Alive
<1>7. CASE SweepMoves \/ JoinMoves
  <2>1. /\ main \notin {"open", "error"}
        /\ main' \notin {"open", "error", "check", "get", "swap", "put"}
        /\ UNCHANGED <<writer, broken>>
    BY <1>7 DEF SweepMoves, MainClearsRead, MainClearsDetect, MainPutsEnd, JoinMoves, MainJoinsWriter,
       MainJoinsDetect, MainJoinsReader, flagVars
  <2> QED
    BY <2>1, <1>begun DEF Begun, InLoop, Alive
<1>8. CASE MainGoesOn
  BY <1>8, <1>begun DEF MainGoesOn, Begun, InLoop, Alive, flagVars
<1>9. CASE EncoderEnds
  BY <1>9, <1>begun DEF EncoderEnds, Begun, InLoop, Alive, flagVars, queueVars
<1> QED
  BY <1>1, <1>2, <1>3, <1>4, <1>5, <1>6, <1>7, <1>8, <1>9 DEF StreamStep, WriterMoves

-------------------------------------------------------------------------------
(* The order of the frames *)

Rest == Line /\ Whole /\ Delivered

LEMMA Numbers ==
  ASSUME TypeOK
  PROVE  /\ Written \in Nat /\ Sent \in Nat /\ ToSwap \in Nat /\ Taken \in Nat
         /\ ToDetect \in Nat /\ Detected \in Nat /\ ToRead \in Nat
         /\ readQ \in Seq(Items) /\ detectQ \in Seq(Items) /\ writeQ \in Seq(Items)
         /\ Len(readQ) \in Nat /\ Len(detectQ) \in Nat /\ Len(writeQ) \in Nat
  <1>1. output \in Seq(Frames) /\ readQ \in Queue /\ detectQ \in Queue /\ writeQ \in Queue
    BY DEF TypeOK
  <1>2. /\ readQ \in Seq(Items) /\ detectQ \in Seq(Items) /\ writeQ \in Seq(Items)
        /\ Len(readQ) \in Nat /\ Len(detectQ) \in Nat /\ Len(writeQ) \in Nat
    BY <1>1, QueueOps
  <1>3. Written \in Nat /\ Sent \in Nat
    BY <1>1 DEF Written, Sent
  <1>4. ToSwap \in Nat /\ Taken \in Nat
    BY <1>2, <1>3 DEF ToSwap, Taken
  <1>5. ToDetect \in Nat /\ Detected \in Nat /\ ToRead \in Nat
    BY <1>2, <1>4 DEF ToDetect, Detected, ToRead
  <1> QED
    BY <1>2, <1>3, <1>4, <1>5

\* Whoever does not touch a part of the line leaves it as it is.
LEMMA WriterApart ==
  ASSUME UNCHANGED <<writer, output, writeQ, EndPut>>, hand'["writer"] = hand["writer"]
  PROVE  /\ OutLine /\ WriteLine => (OutLine /\ WriteLine)'
         /\ UNCHANGED <<Written, Sent, ToSwap, Alive>>
  BY DEF OutLine, WriteLine, Alive, Run, Written, Sent, ToSwap

LEMMA SwapApart ==
  ASSUME UNCHANGED <<main, detectQ, Alive, ToSwap>>, (detect' = "exit") = (detect = "exit"),
         hand'["main"] = hand["main"]
  PROVE  /\ SwapLine => SwapLine'
         /\ UNCHANGED <<InLoop, Taken, ToDetect>>
<1>1. UNCHANGED <<InLoop, Taken, ToDetect>>
  BY DEF InLoop, Taken, ToDetect
<1> QED
  BY <1>1 DEF SwapLine, Run

LEMMA RestStays ==
  ASSUME Rest, UNCHANGED <<main, failing, reader, detect, writer, hand, queueVars, pos, broken, output, cuts>>
  PROVE  Rest'
<1>1. UNCHANGED <<readQ, detectQ, writeQ, EndPut, InLoop, Alive, Passing, Left, Written, Sent, ToSwap>>
  BY DEF queueVars, EndPut, InLoop, Alive, Passing, Left, Written, Sent, ToSwap
<1>2. UNCHANGED <<Taken, ToDetect, Detected, ToRead>>
  BY <1>1 DEF Taken, ToDetect, Detected, ToRead
<1>3. OutLine' /\ WriteLine'
  BY <1>1 DEF Rest, Line, OutLine, WriteLine, Run
<1>4. SwapLine' /\ DetectLine'
  BY <1>1, <1>2 DEF Rest, Line, SwapLine, DetectLine, Run
<1>5. ReadLine'
  BY <1>1, <1>2 DEF Rest, Line, ReadLine, Run
<1>6. Whole' /\ Delivered'
  BY <1>1, <1>2 DEF Rest, Whole, Delivered
<1> QED
  BY <1>3, <1>4, <1>5, <1>6 DEF Rest, Line

LEMMA ReaderLine ==
  ASSUME StreamInv, ReaderMoves
  PROVE  Rest'
<1>inv. TypeOK /\ Hands /\ Begun /\ Line /\ Whole /\ Delivered
  BY DEF StreamInv, TypeInv
<1> HIDE DEF StreamInv
<1>1. /\ UNCHANGED <<main, failing, detect, writer, detectQ, writeQ, flagVars, encVars>>
      /\ \A t \in {"detect", "main", "writer"} : hand'[t] = hand[t]
  BY <1>inv, HandStep, TypeParts, ItemKinds DEF ReaderMoves, ReaderReads, ReadFails, ReaderPuts, queueVars, Hands, InHand
<1>2. UNCHANGED <<EndPut, InLoop>>
  BY <1>1 DEF EndPut, InLoop
<1>3. OutLine' /\ WriteLine' /\ UNCHANGED <<Written, Sent, ToSwap, Alive>>
  BY <1>1, <1>2, <1>inv, WriterApart DEF Line, encVars
<1>4. SwapLine' /\ UNCHANGED <<Taken, ToDetect>>
  BY <1>1, <1>3, <1>inv, SwapApart DEF Line
<1>5. DetectLine' /\ UNCHANGED <<Detected, Passing>>
  BY <1>1, <1>2, <1>3, <1>4, <1>inv DEF Line, DetectLine, Detected, Passing
<1>6. Delivered'
  <2>1. cuts \subseteq cuts'
    BY DEF ReaderMoves, ReaderReads, ReadFails, ReaderPuts
  <2> QED
    BY <1>1, <1>2, <1>3, <1>inv, <2>1 DEF Delivered, Left, flagVars
<1>num. Detected \in Nat /\ ToRead \in Nat /\ Len(readQ) \in Nat /\ readQ \in Seq(Items)
  BY <1>inv, Numbers
<1>7. CASE ReaderReads \/ ReadFails
  <2>1. reader = "loop" /\ reader' = "put" /\ UNCHANGED readQ
    BY <1>7 DEF ReaderReads, ReadFails, queueVars
  <2>2. UNCHANGED ToRead
    BY <1>5, <2>1 DEF ToRead
  <2>3. \/ hand'["reader"] = END /\ (InLoop => cuts' # {} \/ pos = NumFrames)
        \/ hand'["reader"] = pos /\ pos' = pos + 1
    BY <1>7, <1>inv, TypeParts DEF ReaderReads, ReadFails, InHand, Begun, InLoop, Released
  <2>4. Passing => pos = ToRead
    BY <1>inv, <2>1 DEF Line, ReadLine
  <2>5. ReadLine'
    <3>1. Passing => Run(readQ, Detected, FALSE)
      BY <1>inv, <2>1 DEF Line, ReadLine, Run
    <3>2. ASSUME Passing' PROVE Run(readQ, Detected, FALSE)'
      BY <1>5, <2>1, <3>1, <3>2 DEF Run
    <3>3. ASSUME Passing'
          PROVE  hand'["reader"] = END \/ (hand'["reader"] = ToRead' /\ pos' = ToRead' + 1)
      BY <1>5, <2>2, <2>3, <2>4, <3>3
    <3> QED
      BY <2>1, <3>2, <3>3 DEF ReadLine, Run
  <2>6. Whole'
    <3>1. ASSUME cuts' = {}, Passing', hand'["reader"] = END PROVE ToRead' = NumFrames
      <4>1. pos \in Nat
        BY <1>inv DEF TypeOK
      <4>2. pos = NumFrames
        BY <1>2, <1>3, <1>5, <2>3, <3>1, <4>1 DEF END, Passing
      <4> QED
        BY <1>5, <2>2, <2>4, <3>1, <4>2
    <3>2. cuts' = {} => cuts = {}
      BY <1>7 DEF ReaderReads, ReadFails
    <3> QED
      BY <1>1, <1>2, <1>3, <1>4, <1>inv, <2>1, <3>1, <3>2 DEF Whole
  <2> QED
    BY <1>3, <1>4, <1>5, <1>6, <2>5, <2>6 DEF Rest, Line
<1>8. CASE ReaderPuts
  <2>1. /\ reader = "put" /\ readQ' = Append(readQ, hand["reader"])
        /\ hand["reader"] \in Items
        /\ hand["reader"] = END => reader' = "exit"
        /\ hand["reader"] # END => reader' = "loop"
        /\ UNCHANGED <<pos, cuts>>
    BY <1>8, <1>inv DEF ReaderPuts, AfterPut, Hands
  <2>2. ToRead' = ToRead + 1 /\ Len(readQ') = Len(readQ) + 1
    BY <1>5, <1>num, <2>1 DEF ToRead
  <2>3. Passing => /\ Run(readQ, Detected, FALSE)
                   /\ hand["reader"] = END \/ (hand["reader"] = ToRead /\ pos = ToRead + 1)
    BY <1>inv, <2>1 DEF Line, ReadLine, Run
  <2>4. CASE hand["reader"] = END
    <3>1. Passing => Run(Append(readQ, END), Detected, TRUE)
      BY <1>num, <2>3, RunPush
    <3>2. ReadLine'
      BY <1>5, <2>1, <2>4, <3>1 DEF ReadLine, Run
    <3>3. cuts = {} /\ Passing => ToRead' - 1 = NumFrames
      BY <1>inv, <1>num, <2>1, <2>2, <2>4 DEF Whole, Passing
    <3>4. Whole'
      BY <1>1, <1>2, <1>3, <1>4, <1>5, <1>inv, <2>1, <2>4, <3>3 DEF Whole
    <3> QED
      BY <1>3, <1>4, <1>5, <1>6, <3>2, <3>4 DEF Rest, Line
  <2>5. CASE hand["reader"] # END
    <3>1. ToRead = Detected + Len(readQ)
      BY DEF ToRead
    <3>2. Passing => Run(readQ', Detected, FALSE)
      BY <1>num, <2>1, <2>3, <2>5, <3>1, RunPush
    <3>3. ReadLine'
      BY <1>5, <2>1, <2>2, <2>3, <2>5, <3>2 DEF ReadLine, Run
    <3>4. Whole'
      BY <1>1, <1>2, <1>3, <1>4, <1>5, <1>inv, <2>1, <2>5 DEF Whole
    <3> QED
      BY <1>3, <1>4, <1>5, <1>6, <3>3, <3>4 DEF Rest, Line
  <2> QED
    BY <2>4, <2>5
<1> QED
  BY <1>7, <1>8 DEF ReaderMoves

LEMMA DetectorLine ==
  ASSUME StreamInv, DetectMoves
  PROVE  Rest'
<1>inv. TypeOK /\ Hands /\ Begun /\ Line /\ Whole /\ Delivered
  BY DEF StreamInv, TypeInv
<1> HIDE DEF StreamInv
<1>hand. InHand
  BY <1>inv, TypeParts
<1>num. /\ Taken \in Nat /\ ToDetect \in Nat /\ Detected \in Nat /\ ToRead \in Nat
        /\ Len(readQ) \in Nat /\ Len(detectQ) \in Nat
        /\ readQ \in Seq(Items) /\ detectQ \in Seq(Items)
  BY <1>inv, Numbers
<1>1. /\ UNCHANGED <<main, failing, reader, writer, writeQ, pos, flagVars, encVars>>
      /\ cuts \subseteq cuts'
  BY DEF DetectMoves, DetectGets, DetectRaises, DetectPuts, queueVars
<1>2. UNCHANGED <<EndPut, InLoop>>
  BY <1>1 DEF EndPut, InLoop
<1>3. ASSUME \A t \in {"reader", "main", "writer"} : hand'[t] = hand[t]
      PROVE  /\ OutLine' /\ WriteLine' /\ UNCHANGED <<Written, Sent, ToSwap, Alive, Taken>>
             /\ Delivered'
  <2>1. OutLine' /\ WriteLine' /\ UNCHANGED <<Written, Sent, ToSwap, Alive>>
    BY <1>1, <1>2, <1>3, <1>inv, WriterApart DEF Line, encVars
  <2>2. Delivered'
    BY <1>1, <1>2, <1>inv, <2>1 DEF Delivered, Left, flagVars
  <2> QED
    BY <1>1, <2>1, <2>2 DEF Taken
<1>4. CASE DetectGets
  <2>1. /\ detect = "get" /\ detect' = "put" /\ readQ # <<>> /\ readQ' = Tail(readQ)
        /\ UNCHANGED <<detectQ, cuts>>
        /\ hand'["detect"] = Head(readQ)
        /\ \A t \in {"reader", "main", "writer"} : hand'[t] = hand[t]
    <3>1. Head(readQ) \in Items
      BY <1>inv, <1>4, QueueOps DEF DetectGets, TypeOK
    <3> QED
      BY <1>4, <1>hand, <3>1, HandStep DEF DetectGets, Oldest
  <2>2. OutLine' /\ WriteLine' /\ UNCHANGED <<ToSwap, Alive, Taken>> /\ Delivered'
    BY <1>3, <2>1
  <2>3. SwapLine' /\ UNCHANGED ToDetect
    BY <1>1, <1>inv, <2>1, <2>2, SwapApart DEF Line
  <2>4. /\ ToDetect = Detected /\ Detected' = ToDetect + 1 /\ ToRead' = ToRead
        /\ ToRead = Detected + Len(readQ) /\ Len(readQ') = Len(readQ) - 1 /\ Len(readQ) > 0
    BY <1>num, <2>1, <2>3 DEF Detected, ToRead
  <2>5. Passing <=> Alive /\ InLoop
    BY <1>inv, <2>1, ItemKinds DEF Passing, Hands
  <2>6. Passing => /\ Head(readQ) = END => reader = "exit" /\ Len(readQ) = 1
                   /\ Head(readQ) # END => Head(readQ) = ToDetect /\ Run(readQ', Detected', reader = "exit")
    BY <1>inv, <1>num, <2>1, <2>4, RunPop DEF Line, ReadLine
  <2>7. Passing' => Passing /\ Head(readQ) # END
    BY <1>2, <2>1, <2>2, <2>5 DEF Passing
  <2>8. DetectLine'
    BY <1>2, <2>1, <2>2, <2>3, <2>5, <2>6 DEF DetectLine
  <2>9. ReadLine'
    <3>1. ASSUME Passing' PROVE Run(readQ, Detected, reader = "exit")'
      BY <1>1, <2>6, <2>7, <3>1
    <3> QED
      BY <1>1, <1>inv, <2>1, <2>4, <2>7, <3>1 DEF Line, ReadLine
  <2>10. Whole'
    <3>1. ASSUME cuts = {}, Alive, InLoop, Head(readQ) = END PROVE ToDetect' = NumFrames
      <4>1. ToRead - 1 = NumFrames
        BY <1>inv, <2>5, <2>6, <3>1 DEF Whole
      <4>2. Len(readQ) = 1
        BY <2>5, <2>6, <3>1
      <4> QED
        BY <1>num, <2>3, <2>4, <4>1, <4>2
    <3>2. cuts = {} /\ Passing' /\ reader = "exit" => ToRead' - 1 = NumFrames
      BY <1>inv, <2>4, <2>5, <2>7 DEF Whole
    <3>3. cuts = {} /\ Passing' /\ reader = "put" /\ hand["reader"] = END => ToRead' = NumFrames
      BY <1>inv, <2>4, <2>5, <2>7 DEF Whole
    <3> QED
      BY <1>1, <1>2, <2>1, <2>2, <3>1, <3>2, <3>3 DEF Whole
  <2> QED
    BY <2>2, <2>3, <2>8, <2>9, <2>10 DEF Rest, Line
<1>5. CASE DetectRaises
  <2>1. /\ detect = "put" /\ detect' = "put" /\ UNCHANGED queueVars /\ cuts' # {}
        /\ hand'["detect"] = END
        /\ \A t \in {"reader", "main", "writer"} : hand'[t] = hand[t]
    BY <1>5, <1>hand, HandStep, ItemKinds DEF DetectRaises
  <2>2. OutLine' /\ WriteLine' /\ UNCHANGED <<ToSwap, Alive, Taken>> /\ Delivered'
    BY <1>3, <2>1
  <2>3. SwapLine'
    BY <1>1, <1>inv, <2>1, <2>2, SwapApart DEF Line, queueVars
  <2> QED
    BY <2>1, <2>2, <2>3 DEF Rest, Line, DetectLine, ReadLine, Passing, Whole
<1>6. CASE DetectPuts
  <2>1. /\ detect = "put" /\ detectQ' = Append(detectQ, hand["detect"]) /\ UNCHANGED <<readQ, cuts>>
        /\ hand["detect"] \in Items
        /\ hand["detect"] = END => detect' = "exit"
        /\ hand["detect"] # END => detect' = "get"
        /\ hand'["detect"] = None
        /\ \A t \in {"reader", "main", "writer"} : hand'[t] = hand[t]
    BY <1>6, <1>inv, <1>hand, HandStep DEF DetectPuts, AfterPut, Hands
  <2>2. OutLine' /\ WriteLine' /\ UNCHANGED <<ToSwap, Alive, Taken>> /\ Delivered'
    BY <1>3, <2>1
  <2>3. /\ ToDetect = Taken + Len(detectQ) /\ ToDetect' = ToDetect + 1
        /\ Detected = ToDetect + 1 /\ Detected' = Detected /\ ToRead' = ToRead
    <3>1. ToDetect' = ToDetect + 1 /\ ToDetect = Taken + Len(detectQ)
      BY <1>num, <2>1, <2>2 DEF ToDetect
    <3>2. Detected = ToDetect + 1 /\ Detected' = ToDetect'
      BY <1>num, <2>1, <3>1 DEF Detected
    <3> QED
      BY <2>1, <3>1, <3>2 DEF ToRead
  <2>4. Alive /\ InLoop => /\ main \in {"swap", "put"} => hand["main"] = ToSwap
                           /\ Run(detectQ, Taken, FALSE)
                           /\ hand["detect"] \in {END, ToDetect}
    BY <1>inv, <2>1 DEF Line, SwapLine, DetectLine, Run
  <2>5. DetectLine'
    BY <2>1 DEF DetectLine
  <2>6. CASE hand["detect"] = END
    <3>1. Alive /\ InLoop => Run(detectQ', Taken, TRUE)
      BY <1>num, <2>1, <2>4, <2>6, RunPush
    <3>2. SwapLine'
      BY <1>1, <1>2, <2>1, <2>2, <2>4, <2>6, <3>1 DEF SwapLine, Run
    <3>3. ReadLine'
      BY <2>1, <2>6 DEF ReadLine, Passing
    <3>4. Whole'
      <4>1. cuts = {} /\ Alive /\ InLoop => ToDetect' - 1 = NumFrames
        BY <1>inv, <1>num, <2>1, <2>3, <2>6 DEF Whole
      <4> QED
        BY <1>2, <2>1, <2>2, <2>6, <4>1 DEF Whole, Passing
    <3> QED
      BY <2>2, <2>5, <3>2, <3>3, <3>4 DEF Rest, Line
  <2>7. CASE hand["detect"] # END
    <3>1. Alive /\ InLoop => Run(detectQ', Taken, FALSE)
      BY <1>num, <2>1, <2>3, <2>4, <2>7, RunPush
    <3>2. SwapLine'
      BY <1>1, <1>2, <2>1, <2>2, <2>4, <2>7, <3>1 DEF SwapLine, Run
    <3>3. Passing' => Passing
      BY <1>2, <2>1, <2>2, <2>7 DEF Passing
    <3>4. ReadLine'
      <4>1. ASSUME Passing' PROVE Run(readQ, Detected, reader = "exit")'
        BY <1>1, <1>inv, <2>1, <2>3, <3>3, <4>1 DEF Line, ReadLine
      <4> QED
        BY <1>1, <1>inv, <2>1, <2>3, <3>3, <4>1 DEF Line, ReadLine
    <3>5. Whole'
      BY <1>1, <1>2, <1>inv, <2>1, <2>2, <2>3, <2>7, <3>3 DEF Whole
    <3> QED
      BY <2>2, <2>5, <3>2, <3>4, <3>5 DEF Rest, Line
  <2> QED
    BY <2>6, <2>7
<1> QED
  BY <1>4, <1>5, <1>6 DEF DetectMoves

\* The parts of the line behind the writer: they begin at ToSwap.
LEMMA BehindWriter ==
  ASSUME StreamInv, UNCHANGED <<main, reader, detect, readQ, detectQ, pos, cuts, ToSwap>>,
         \A t \in {"reader", "detect", "main"} : hand'[t] = hand[t],
         Alive' => Alive
  PROVE  SwapLine' /\ DetectLine' /\ ReadLine' /\ Whole'
<1>inv. SwapLine /\ DetectLine /\ ReadLine /\ Whole
  BY DEF StreamInv, Line
<1>1. UNCHANGED <<InLoop, Taken, ToDetect, Detected, ToRead>>
  BY DEF InLoop, Taken, ToDetect, Detected, ToRead
<1>2. Passing' => Passing
  BY <1>1 DEF Passing
<1>3. SwapLine'
  BY <1>1, <1>inv DEF SwapLine, Run
<1>4. DetectLine'
  BY <1>1, <1>inv DEF DetectLine
<1>5. ReadLine'
  BY <1>1, <1>2, <1>inv DEF ReadLine, Run
<1>6. Whole'
  BY <1>1, <1>2, <1>inv DEF Whole
<1> QED
  BY <1>3, <1>4, <1>5, <1>6

LEMMA WriterLine ==
  ASSUME StreamInv, WriterMoves \/ WriterLeftBehind
  PROVE  Rest'
<1>inv. TypeOK /\ Hands /\ Begun /\ Line /\ Whole /\ Delivered
  BY DEF StreamInv, TypeInv
<1> HIDE DEF StreamInv
<1>hand. InHand
  BY <1>inv, TypeParts
<1>num. /\ Written \in Nat /\ Sent \in Nat /\ ToSwap \in Nat /\ Len(writeQ) \in Nat
        /\ writeQ \in Seq(Items) /\ output \in Seq(Frames) /\ EndPut \in BOOLEAN
  BY <1>inv, Numbers DEF TypeOK, EndPut
<1>1. UNCHANGED <<main, failing, reader, detect, readQ, detectQ, pos, cuts>>
  BY DEF WriterMoves, WriterGets, WriterWrites, WriterBreaks, WriterDropsItem, WriterLeftBehind, queueVars
<1>2. UNCHANGED <<EndPut, InLoop, Left>>
  BY <1>1 DEF EndPut, InLoop, Left
<1>3. CASE WriterGets
  <2>1. /\ writer = "get" /\ writeQ # <<>> /\ writeQ' = Tail(writeQ) /\ UNCHANGED <<output, broken>>
        /\ Alive /\ Head(writeQ) \in Items
    BY <1>3, <1>inv, QueueOps DEF WriterGets, Alive, TypeOK, encVars, flagVars
  <2>2. /\ Written' = Written /\ Sent = Written /\ Run(writeQ, Sent, EndPut)
        /\ Len(writeQ') = Len(writeQ) - 1 /\ ToSwap = Written + Len(writeQ) /\ Len(writeQ) > 0
    BY <1>inv, <1>num, <2>1 DEF Written, Sent, ToSwap, Line, WriteLine
  <2>3. OutLine'
    BY <1>inv, <2>1 DEF Line, OutLine
  <2>4. /\ Head(writeQ) = END => EndPut /\ Len(writeQ) = 1
        /\ Head(writeQ) # END => Head(writeQ) = Written /\ Run(writeQ', Written + 1, EndPut)
    BY <1>num, <2>1, <2>2, RunPop
  <2>5. CASE Head(writeQ) = END
    <3>1. writer' = "exit" /\ ~Alive' /\ UNCHANGED hand
      BY <1>3, <2>5 DEF WriterGets, Alive
    <3>2. Delivered'
      <4>1. ASSUME Left, cuts = {}, ~broken, ~failing PROVE Written' = NumFrames
        <5>1. ToSwap = NumFrames + 1
          BY <1>inv, <2>1, <2>4, <2>5, <4>1 DEF Delivered
        <5> QED
          BY <1>num, <2>2, <2>4, <2>5, <5>1, PipelineAssumption
      <4> QED
        BY <1>1, <1>2, <2>1, <3>1, <4>1 DEF Delivered
    <3> QED
      BY <2>3, <3>1, <3>2 DEF Rest, Line, WriteLine, SwapLine, DetectLine, ReadLine, Passing, Whole
  <2>6. CASE Head(writeQ) # END
    <3>1. /\ writer' = "write" /\ Alive' /\ hand'["writer"] = Written
          /\ \A t \in {"reader", "detect", "main"} : hand'[t] = hand[t]
      BY <1>3, <1>hand, <2>1, <2>4, <2>6, HandStep DEF WriterGets, Alive
    <3>2. Sent' = Written + 1 /\ ToSwap' = ToSwap
      <4>1. Sent' = Written + 1
        BY <2>2, <3>1 DEF Sent
      <4> QED
        BY <1>num, <2>2, <4>1 DEF ToSwap
    <3>3. WriteLine'
      BY <1>2, <2>2, <2>4, <2>6, <3>1, <3>2 DEF WriteLine
    <3>4. SwapLine' /\ DetectLine' /\ ReadLine' /\ Whole'
      BY <1>1, <2>1, <3>1, <3>2, BehindWriter
    <3>5. Delivered'
      BY <1>1, <1>2, <1>inv, <2>1, <2>2, <3>1, <3>2 DEF Delivered
    <3> QED
      BY <2>3, <3>3, <3>4, <3>5 DEF Rest, Line
  <2> QED
    BY <2>5, <2>6
<1>4. CASE WriterWrites
  <2>1. /\ writer = "write" /\ writer' = "get" /\ Alive /\ Alive' /\ UNCHANGED <<writeQ, broken>>
        /\ output' = Append(output, hand["writer"])
        /\ \A t \in {"reader", "detect", "main"} : hand'[t] = hand[t]
    BY <1>4, <1>hand, HandStep DEF WriterWrites, Alive, queueVars, flagVars
  <2>2. hand["writer"] = Written /\ hand["writer"] \in Frames /\ Run(writeQ, Sent, EndPut)
    BY <1>inv, <2>1 DEF Line, WriteLine, Hands
  <2>3. Sent = Written + 1 /\ Written' = Written + 1 /\ Sent' = Sent /\ ToSwap' = ToSwap
    <3>1. Sent = Written + 1 /\ Written' = Written + 1
      BY <1>num, <2>1, <2>2 DEF Sent, Written
    <3>2. Sent' = Sent
      BY <1>num, <2>1, <3>1 DEF Sent
    <3> QED
      BY <2>1, <3>1, <3>2 DEF ToSwap
  <2>4. OutLine'
    <3>1. \A i \in 1 .. Len(output) : output[i] = i - 1
      BY <1>inv DEF Line, OutLine
    <3>2. /\ Len(output') = Len(output) + 1 /\ output'[Len(output) + 1] = Len(output)
          /\ \A i \in 1 .. Len(output) : output'[i] = output[i]
      BY <1>num, <2>1, <2>2 DEF Written
    <3>3. ASSUME NEW i \in 1 .. Len(output) + 1 PROVE output'[i] = i - 1
      <4>1. i \in 1 .. Len(output) \/ i = Len(output) + 1
        BY <1>num
      <4> QED
        BY <1>num, <3>1, <3>2, <4>1
    <3> QED
      BY <3>2, <3>3 DEF OutLine
  <2>5. WriteLine'
    BY <1>2, <2>1, <2>2, <2>3 DEF WriteLine
  <2>6. SwapLine' /\ DetectLine' /\ ReadLine' /\ Whole'
    BY <1>1, <2>1, <2>3, BehindWriter
  <2>7. Delivered'
    BY <1>1, <1>2, <1>inv, <2>1, <2>3 DEF Delivered
  <2> QED
    BY <2>4, <2>5, <2>6, <2>7 DEF Rest, Line
<1>5. CASE WriterBreaks \/ WriterDropsItem \/ WriterLeftBehind
  <2>1. ~Alive' /\ UNCHANGED output
    BY <1>5 DEF WriterBreaks, WriterDropsItem, WriterLeftBehind, WriterDiscards, Alive, encVars
  <2>2. OutLine'
    BY <1>inv, <2>1 DEF Line, OutLine
  <2>3. broken' \/ ~Left
    BY <1>5, <1>inv DEF WriterBreaks, WriterDropsItem, WriterLeftBehind, Released, Left, Begun, flagVars
  <2>4. Delivered'
    BY <1>2, <2>3 DEF Delivered
  <2> QED
    BY <2>1, <2>2, <2>4 DEF Rest, Line, WriteLine, SwapLine, DetectLine, ReadLine, Passing, Whole
<1> QED
  BY <1>3, <1>4, <1>5 DEF WriterMoves

LEMMA MainLine ==
  ASSUME StreamInv, MainOpens \/ LoopMoves
  PROVE  Rest'
<1>inv. TypeOK /\ Hands /\ Begun /\ Line /\ Whole /\ Delivered
  BY DEF StreamInv, TypeInv
<1> HIDE DEF StreamInv
<1>hand. InHand
  BY <1>inv, TypeParts
<1>num. /\ Written \in Nat /\ Sent \in Nat /\ ToSwap \in Nat /\ Taken \in Nat /\ ToDetect \in Nat
        /\ Len(writeQ) \in Nat /\ Len(detectQ) \in Nat
        /\ writeQ \in Seq(Items) /\ detectQ \in Seq(Items)
  BY <1>inv, Numbers
<1>1. CASE MainOpens
  <2>1. /\ writeQ' = <<>> /\ detectQ' = <<>> /\ readQ' = <<>> /\ output' = <<>> /\ pos' = 0
        /\ main' = "check" /\ reader' = "loop" /\ detect' = "get" /\ writer' = "get"
    BY <1>1, <1>inv DEF MainOpens, Begun, queueVars
  <2>2. Written' = 0 /\ Sent' = 0 /\ ToSwap' = 0
    BY <2>1 DEF Written, Sent, ToSwap
  <2>3. Taken' = 0 /\ ToDetect' = 0 /\ Detected' = 0 /\ ToRead' = 0
    <3>1. Taken' = 0
      BY <2>1, <2>2 DEF Taken
    <3>2. ToDetect' = 0
      BY <2>1, <3>1 DEF ToDetect
    <3>3. Detected' = 0
      BY <2>1, <3>2 DEF Detected
    <3> QED
      BY <2>1, <3>1, <3>2, <3>3 DEF ToRead
  <2>4. OutLine' /\ WriteLine'
    BY <2>1 DEF OutLine, WriteLine, Run, EndPut
  <2>5. SwapLine' /\ DetectLine' /\ ReadLine'
    BY <2>1, <2>3 DEF SwapLine, DetectLine, ReadLine, Run
  <2>6. Whole' /\ Delivered'
    BY <2>1 DEF Whole, Delivered, Left
  <2> QED
    BY <2>4, <2>5, <2>6 DEF Rest, Line
<1>2. ASSUME LoopMoves PROVE InLoop /\ ~EndPut /\ UNCHANGED <<reader, detect, writer, readQ, pos, broken, output, cuts, Alive>>
                            /\ ~EndPut'
  BY <1>2 DEF LoopMoves, MainChecks, MainGets, MainSwaps, SwapRaises, MainPuts, InLoop, EndPut, LeaveLoop,
     queueVars, flagVars, encVars, Alive
<1>3. ASSUME LoopMoves, UNCHANGED writeQ, hand'["writer"] = hand["writer"]
      PROVE  OutLine' /\ WriteLine' /\ UNCHANGED <<Written, Sent, ToSwap>>
  <2>1. EndPut' = EndPut
    BY <1>2, <1>3 DEF EndPut
  <2> QED
    BY <1>2, <1>3, <1>inv, <2>1, WriterApart DEF Line
<1>4. ASSUME LoopMoves, main' = "clearRead", UNCHANGED writeQ, hand'["writer"] = hand["writer"],
             broken \/ failing' \/ (cuts = {} => writer \in {"get", "write"} /\ ToSwap = NumFrames)
      PROVE  Rest'
  <2>1. ~InLoop' /\ OutLine' /\ WriteLine' /\ UNCHANGED <<writer, ToSwap, broken, cuts, Alive>> /\ ~EndPut'
    BY <1>2, <1>3, <1>4 DEF InLoop
  <2>2. Delivered'
    <3>1. NumFrames + 0 = NumFrames
      BY PipelineAssumption
    <3>2. ASSUME cuts' = {}, ~broken', ~failing'
          PROVE  writer' \in {"get", "write"} /\ ToSwap' = NumFrames /\ main' = "clearRead"
      BY <1>4, <2>1, <3>2
    <3> QED
      BY <2>1, <3>1, <3>2 DEF Delivered
  <2> QED
    BY <2>1, <2>2 DEF Rest, Line, SwapLine, DetectLine, ReadLine, Passing, Whole
<1>5. ASSUME LoopMoves, main' \in {"check", "get", "swap", "put"}, OutLine', WriteLine', SwapLine',
             UNCHANGED ToDetect, \A t \in {"reader", "detect"} : hand'[t] = hand[t]
      PROVE  Rest'
  <2>1. UNCHANGED <<reader, detect, readQ, pos, cuts, Alive, Detected, ToRead>> /\ InLoop /\ InLoop'
    BY <1>2, <1>5 DEF InLoop, Detected, ToRead
  <2>2. UNCHANGED Passing
    BY <1>5, <2>1 DEF Passing
  <2>3. DetectLine' /\ ReadLine'
    BY <1>5, <1>inv, <2>1, <2>2 DEF Line, DetectLine, ReadLine, Run
  <2>4. Whole'
    BY <1>5, <1>inv, <2>1, <2>2 DEF Whole
  <2>5. Delivered'
    BY <1>5 DEF Delivered, Left
  <2> QED
    BY <1>5, <2>3, <2>4, <2>5 DEF Rest, Line
<1>6. CASE MainChecks \/ MainSwaps \/ SwapRaises
  <2>1. LoopMoves /\ UNCHANGED <<detectQ, writeQ, hand>>
    BY <1>6 DEF LoopMoves, MainChecks, MainSwaps, SwapRaises, queueVars
  <2>2. \/ main' = "clearRead" /\ (broken \/ failing')
        \/ main = "check" /\ main' = "get"
        \/ main = "swap" /\ main' = "put"
    BY <1>6 DEF MainChecks, MainSwaps, SwapRaises, LeaveLoop
  <2>3. CASE main' # "clearRead"
    <3>1. UNCHANGED <<ToSwap, Taken, ToDetect, InLoop>>
      BY <1>3, <2>1, <2>2, <2>3 DEF Taken, ToDetect, InLoop
    <3>2. SwapLine'
      BY <1>2, <1>inv, <2>1, <2>2, <2>3, <3>1 DEF Line, SwapLine, Run
    <3> QED
      BY <1>3, <1>5, <2>1, <2>2, <2>3, <3>1, <3>2
  <2> QED
    BY <1>4, <2>1, <2>2, <2>3
<1>7. CASE MainGets
  <2>1. /\ LoopMoves /\ main = "get" /\ detectQ # <<>> /\ detectQ' = Tail(detectQ) /\ UNCHANGED writeQ
        /\ Head(detectQ) \in Items /\ Taken = ToSwap
    BY <1>7, <1>inv, <1>num, QueueOps DEF LoopMoves, MainGets, TypeOK, Taken
  <2>2. Alive => /\ Head(detectQ) = END => detect = "exit" /\ Len(detectQ) = 1
                 /\ Head(detectQ) # END => Head(detectQ) = Taken /\ Run(detectQ', Taken + 1, detect = "exit")
    <3>1. Alive => Run(detectQ, Taken, detect = "exit")
      BY <1>2, <1>inv, <2>1 DEF Line, SwapLine
    <3> QED
      BY <1>num, <2>1, <3>1, RunPop
  <2>3. CASE Head(detectQ) = END
    <3>1. main' = "clearRead" /\ UNCHANGED hand
      BY <1>7, <2>3 DEF MainGets, LeaveLoop
    <3>2. ASSUME ~broken, cuts = {} PROVE writer \in {"get", "write"} /\ ToSwap = NumFrames
      <4>1. Alive
        BY <1>2, <1>inv, <2>1, <3>2 DEF Begun
      <4>2. ToDetect - 1 = NumFrames /\ Len(detectQ) = 1
        BY <1>2, <1>inv, <2>1, <2>2, <2>3, <3>2, <4>1 DEF Whole
      <4> QED
        BY <1>num, <2>1, <4>1, <4>2 DEF ToDetect, Alive
    <3> QED
      BY <1>4, <2>1, <3>1, <3>2
  <2>4. CASE Head(detectQ) # END
    <3>1. /\ main' = "swap" /\ hand'["main"] = Head(detectQ)
          /\ \A t \in {"reader", "detect", "writer"} : hand'[t] = hand[t]
      BY <1>7, <1>hand, <2>1, <2>4, HandStep DEF MainGets
    <3>2. OutLine' /\ WriteLine' /\ UNCHANGED ToSwap
      BY <1>3, <2>1, <3>1
    <3>3. Taken' = Taken + 1 /\ ToDetect' = ToDetect
      <4>1. Taken' = Taken + 1
        BY <2>1, <3>1, <3>2 DEF Taken
      <4>2. Len(detectQ') = Len(detectQ) - 1
        BY <1>num, <2>1
      <4> QED
        BY <1>num, <4>1, <4>2 DEF ToDetect
    <3>4. SwapLine'
      BY <1>2, <2>1, <2>2, <2>4, <3>1, <3>2, <3>3 DEF SwapLine
    <3> QED
      BY <1>5, <2>1, <3>1, <3>2, <3>3, <3>4
  <2> QED
    BY <2>3, <2>4
<1>8. CASE MainPuts
  <2>1. /\ LoopMoves /\ main = "put" /\ main' = "check" /\ writeQ' = Append(writeQ, hand["main"])
        /\ UNCHANGED <<writer, output, detectQ>> /\ hand["main"] \in Frames
        /\ \A t \in {"reader", "detect", "writer"} : hand'[t] = hand[t]
    BY <1>8, <1>inv, <1>hand, HandStep DEF LoopMoves, MainPuts, Hands, encVars
  <2>2. /\ UNCHANGED <<Written, Sent>> /\ ToSwap = Sent + Len(writeQ) /\ Len(writeQ') = Len(writeQ) + 1
        /\ ToSwap' = ToSwap + 1 /\ Taken = ToSwap + 1
    <3>1. UNCHANGED <<Written, Sent>> /\ ToSwap = Sent + Len(writeQ) /\ Taken = ToSwap + 1
      BY <2>1 DEF Written, Sent, ToSwap, Taken
    <3>2. Len(writeQ') = Len(writeQ) + 1
      BY <1>num, <2>1, ItemKinds
    <3> QED
      BY <1>num, <3>1, <3>2 DEF ToSwap
  <2>3. UNCHANGED <<Taken, ToDetect>>
    <3>1. Taken' = Taken
      BY <1>num, <2>1, <2>2 DEF Taken
    <3> QED
      BY <2>1, <3>1 DEF ToDetect
  <2>4. OutLine'
    BY <1>inv, <2>1 DEF Line, OutLine
  <2>5. WriteLine'
    <3>1. Alive => (writer = "write" => hand["writer"] = Written) /\ Run(writeQ, Sent, FALSE)
      BY <1>2, <1>inv, <2>1 DEF Line, WriteLine, Run
    <3>2. Alive => hand["main"] = ToSwap
      BY <1>2, <1>inv, <2>1 DEF Line, SwapLine
    <3>3. Alive => Run(writeQ', Sent, FALSE)
      BY <1>num, <2>1, <2>2, <3>1, <3>2, ItemKinds, RunPush
    <3>4. Alive' => (writer' = "write" => hand'["writer"] = Written') /\ Run(writeQ', Sent', FALSE)
      BY <1>2, <2>1, <2>2, <3>1, <3>3
    <3> QED
      BY <1>2, <2>1, <3>4 DEF WriteLine, Run
  <2>6. SwapLine'
    BY <1>2, <1>inv, <2>1, <2>3 DEF Line, SwapLine, Run
  <2> QED
    BY <1>5, <2>1, <2>3, <2>4, <2>5, <2>6
<1> QED
  BY <1>1, <1>6, <1>7, <1>8 DEF LoopMoves

LEMMA EndLine ==
  ASSUME StreamInv, SweepMoves \/ JoinMoves \/ MainGoesOn \/ EncoderEnds
  PROVE  Rest'
<1>inv. TypeOK /\ Hands /\ Begun /\ Line /\ Whole /\ Delivered
  BY DEF StreamInv, TypeInv
<1> HIDE DEF StreamInv
<1>num. /\ Written \in Nat /\ Sent \in Nat /\ ToSwap \in Nat /\ Len(writeQ) \in Nat
        /\ writeQ \in Seq(Items)
  BY <1>inv, Numbers
<1>1. UNCHANGED <<reader, detect, writer, hand, broken, output, pos, Alive>> /\ cuts \subseteq cuts'
  BY DEF SweepMoves, MainClearsRead, MainClearsDetect, MainPutsEnd, JoinMoves, MainJoinsWriter,
     MainJoinsDetect, MainJoinsReader, MainGoesOn, EncoderEnds, flagVars, encVars, Alive
<1>2. ASSUME ~InLoop', OutLine', WriteLine', Delivered' PROVE Rest'
  BY <1>2 DEF Rest, Line, SwapLine, DetectLine, ReadLine, Passing, Whole
<1>3. CASE EncoderEnds
  <2>1. UNCHANGED <<main, failing, queueVars, cuts>>
    BY <1>3 DEF EncoderEnds
  <2> QED
    BY <1>1, <1>inv, <2>1, RestStays DEF Rest
<1>4. CASE MainPutsEnd
  <2>1. /\ main = "putEnd" /\ main' = "joinWriter" /\ writeQ' = Append(writeQ, END)
        /\ UNCHANGED <<failing, cuts>>
    BY <1>4 DEF MainPutsEnd
  <2>2. ~InLoop' /\ ~EndPut /\ EndPut' /\ Left /\ Left'
    BY <2>1 DEF InLoop, EndPut, Left
  <2>3. OutLine' /\ UNCHANGED <<Written, Sent>>
    BY <1>1, <1>inv DEF Line, OutLine, Written, Sent
  <2>4. ToSwap' = ToSwap + 1
    BY <1>num, <2>1, <2>3, ItemKinds DEF ToSwap
  <2>5. WriteLine'
    <3>1. Alive => (writer = "write" => hand["writer"] = Written) /\ Run(writeQ, Sent, FALSE)
      BY <1>inv, <2>2 DEF Line, WriteLine, Run
    <3>2. Alive => Run(writeQ', Sent, TRUE)
      BY <1>num, <2>1, <3>1, RunPush
    <3>3. Alive' => (writer' = "write" => hand'["writer"] = Written') /\ Run(writeQ', Sent', TRUE)
      BY <1>1, <2>1, <2>3, <3>1, <3>2
    <3> QED
      BY <2>2, <3>3 DEF WriteLine, Run
  <2>6. Delivered'
    BY <1>1, <1>inv, <1>num, <2>1, <2>2, <2>3, <2>4, PipelineAssumption DEF Delivered
  <2> QED
    BY <1>2, <2>2, <2>3, <2>5, <2>6
<1>5. CASE MainClearsRead \/ MainClearsDetect \/ JoinMoves
  <2>1. /\ UNCHANGED <<failing, writeQ, EndPut, Left>> /\ ~InLoop'
        /\ main' \in {"joinDetect", "joinReader", "release"}
             => main \in {"joinDetect", "joinReader", "release"} \/ writer = "exit" \/ cuts' # {}
    BY <1>5 DEF MainClearsRead, MainClearsDetect, JoinMoves, MainJoinsWriter, MainJoinsDetect, MainJoinsReader,
       EndPut, Left, InLoop, queueVars
  <2>2. OutLine' /\ WriteLine' /\ UNCHANGED <<Written, ToSwap>>
    BY <1>1, <1>inv, <2>1, WriterApart DEF Line
  <2>3. Delivered'
    BY <1>1, <1>inv, <2>1, <2>2 DEF Delivered
  <2> QED
    BY <1>2, <2>1, <2>2, <2>3
<1>6. CASE MainGoesOn
  <2>1. UNCHANGED writeQ /\ ~InLoop' /\ ~Left' /\ (main = "open" \/ (EndPut /\ EndPut'))
    BY <1>6 DEF MainGoesOn, InLoop, Left, EndPut, queueVars
  <2>2. OutLine' /\ WriteLine'
    <3>1. CASE main = "open"
      BY <1>1, <1>inv, <3>1 DEF Begun, Alive, WriteLine, Line, OutLine
    <3>2. CASE EndPut /\ EndPut'
      <4>1. EndPut' = EndPut
        BY <3>2
      <4> QED
        BY <1>1, <1>inv, <2>1, <4>1, WriterApart DEF Line
    <3> QED
      BY <2>1, <3>1, <3>2
  <2> QED
    BY <1>2, <2>1, <2>2 DEF Delivered
<1> QED
  BY <1>3, <1>4, <1>5, <1>6 DEF SweepMoves

\* Whatever the threads do, in either program.
LEMMA StreamInvStep == StreamInv /\ StreamStep => StreamInv'
<1> SUFFICES ASSUME StreamInv, StreamStep PROVE StreamInv'
  OBVIOUS
<1>1. TypeInv /\ WriteLine
  BY DEF StreamInv, Line
<1>2. TypeInv'
  BY <1>1, TypeStep, BegunStep DEF TypeInv
<1>3. Rest'
  BY ReaderLine, DetectorLine, WriterLine, MainLine, EndLine DEF StreamStep
<1> QED
  BY <1>2, <1>3 DEF StreamInv, Rest

LEMMA StreamInvStutter == StreamInv /\ UNCHANGED vars => StreamInv'
<1> SUFFICES ASSUME StreamInv, UNCHANGED vars PROVE StreamInv'
  OBVIOUS
<1>1. Rest'
  BY RestStays DEF StreamInv, Rest, vars, flagVars, encVars
<1>2. TypeOK'
  BY DEF StreamInv, TypeInv, TypeOK, vars, queueVars, flagVars, encVars
<1>3. Hands' /\ Begun'
  BY DEF StreamInv, TypeInv, Hands, Begun, InLoop, Alive, vars, queueVars, flagVars, encVars
<1> QED
  BY <1>1, <1>2, <1>3 DEF StreamInv, TypeInv, Rest

LEMMA StreamInit == Init => StreamInv
<1> SUFFICES ASSUME Init PROVE StreamInv
  OBVIOUS
<1>1. <<>> \in Queue /\ 0 \in 0 .. NumFrames
  BY PipelineAssumption DEF Queue
<1>2. TypeOK
  <2>1. Places /\ Flags /\ InHand
    BY DEF Init, Places, Flags, InHand
  <2>2. Queues /\ Frame /\ Cuts
    BY <1>1 DEF Init, Queues, Frame, Cuts
  <2> QED
    BY <2>1, <2>2, TypeParts
<1>3. Hands /\ Begun
  BY DEF Init, Hands, Begun, InLoop
<1>4. Rest
  BY DEF Init, Rest, Line, OutLine, WriteLine, SwapLine, DetectLine, ReadLine, Passing, Whole, Delivered, Left,
     InLoop, Alive
<1> QED
  BY <1>2, <1>3, <1>4 DEF StreamInv, TypeInv, Rest

\* Every variable of the threads has its type, and the queues keep to their depth.
THEOREM TypeCorrect == Spec => []TypeOK
<1>1. StreamInv => TypeOK
  BY DEF StreamInv, TypeInv
<1>2. StreamInv /\ [Next]_vars => StreamInv'
  BY NextIsStreamStep, StreamInvStep, StreamInvStutter
<1> QED
  BY <1>1, <1>2, StreamInit, PTL DEF Spec

-------------------------------------------------------------------------------
(* The promise of StreamJob *)

Out == [i \in 1 .. Len(output) |-> [frame |-> output[i], swapped |-> TRUE]]
CutShort == broken \/ cuts # {}

LEMMA JobMeans ==
  /\ Job!Init <=> Out = <<>> /\ JobStatus = "open" /\ CutShort = FALSE
  /\ UNCHANGED <<Out, JobStatus, CutShort>> => [Job!Next]_(Job!vars)
  /\ JobStatus = "open" /\ Len(Out) < NumFrames /\ Out' = Append(Out, Job!Swapped(Len(Out)))
       /\ UNCHANGED <<JobStatus, CutShort>> => [Job!Next]_(Job!vars)
  /\ CutShort' = TRUE /\ UNCHANGED <<Out, JobStatus>> => [Job!Next]_(Job!vars)
  /\ JobStatus = "open" /\ (CutShort \/ Len(Out) = NumFrames) /\ JobStatus' = "sealed"
       /\ UNCHANGED <<Out, CutShort>> => [Job!Next]_(Job!vars)
  /\ JobStatus = "sealed" /\ JobStatus' = "done" /\ UNCHANGED <<Out, CutShort>> => [Job!Next]_(Job!vars)
  /\ JobStatus \in {"open", "sealed"} /\ JobStatus' = "error" /\ UNCHANGED <<Out, CutShort>>
       => [Job!Next]_(Job!vars)
  BY DEF Out, CutShort, Job!Init, Job!Next, Job!vars, Job!Emit, Job!Cut, Job!Seal, Job!Finish, Job!Fail

LEMMA OutGrows ==
  ASSUME output \in Seq(Frames), NEW f \in Frames, output' = Append(output, f)
  PROVE  Out' = Append(Out, [frame |-> f, swapped |-> TRUE])
<1>1. /\ Len(output) \in Nat /\ Len(output') = Len(output) + 1 /\ output'[Len(output) + 1] = f
      /\ \A i \in 1 .. Len(output) : output'[i] = output[i]
  OBVIOUS
<1>2. Out \in Seq([frame : Frames, swapped : {TRUE}]) /\ Len(Out) = Len(output)
  BY <1>1 DEF Out
<1> DEFINE e == [frame |-> f, swapped |-> TRUE]
<1>3. Append(Out, e) = [i \in 1 .. Len(output) + 1 |-> IF i = Len(output) + 1 THEN e ELSE Out[i]]
  BY <1>1, <1>2
<1>4. ASSUME NEW i \in 1 .. Len(output) + 1
      PROVE  [frame |-> output'[i], swapped |-> TRUE] = IF i = Len(output) + 1 THEN e ELSE Out[i]
  <2>1. i = Len(output) + 1 \/ i \in 1 .. Len(output)
    BY <1>1
  <2> QED
    BY <1>1, <2>1 DEF Out
<1> QED
  BY <1>1, <1>3, <1>4 DEF Out

LEMMA OutLength == output \in Seq(Frames) => Len(Out) = Written
  BY DEF Out, Written

\* A step of the threads is a step of StreamJob, or none.
LEMMA StreamStepKeepsPromise ==
  ASSUME StreamInv, StreamStep
  PROVE  [Job!Next]_(Job!vars)
<1>inv. TypeOK /\ Hands /\ Begun /\ Line /\ Delivered /\ output \in Seq(Frames)
  BY DEF StreamInv, TypeInv, TypeOK
<1>1. ASSUME UNCHANGED <<output, JobStatus>>, CutShort => CutShort' PROVE [Job!Next]_(Job!vars)
  <2>1. UNCHANGED Out
    BY <1>1 DEF Out
  <2>2. CutShort' = TRUE \/ CutShort' = CutShort
    BY <1>1 DEF CutShort
  <2> QED
    BY <1>1, <2>1, <2>2, JobMeans
<1>2. CASE ReaderMoves \/ DetectMoves \/ WriterGets \/ WriterBreaks \/ WriterDropsItem \/ WriterLeftBehind \/ EncoderEnds
  <2>1. UNCHANGED <<main, output>> /\ cuts \subseteq cuts' /\ (broken => broken')
    BY <1>2 DEF ReaderMoves, ReaderReads, ReadFails, ReaderPuts, DetectMoves, DetectGets, DetectRaises,
       DetectPuts, WriterGets, WriterBreaks, WriterDropsItem, WriterLeftBehind, EncoderEnds, flagVars, encVars
  <2> QED
    BY <1>1, <2>1 DEF JobStatus, CutShort
<1>3. CASE WriterWrites
  <2>1. /\ writer = "write" /\ main \notin {"wait", "done", "error"}
        /\ output' = Append(output, hand["writer"]) /\ UNCHANGED <<main, broken, cuts>>
    BY <1>3 DEF WriterWrites, Released, flagVars
  <2>2. JobStatus = "open" /\ UNCHANGED <<JobStatus, CutShort>>
    BY <2>1 DEF JobStatus, CutShort
  <2>3. hand["writer"] = Len(output) /\ hand["writer"] \in Frames
    BY <1>inv, <2>1 DEF Line, WriteLine, Alive, Hands, Written
  <2>4. Len(Out) = Len(output) /\ Len(output) < NumFrames
    BY <1>inv, <2>3, OutLength, PipelineAssumption DEF Written, Frames
  <2>5. Out' = Append(Out, Job!Swapped(Len(Out)))
    BY <1>inv, <2>1, <2>3, <2>4, OutGrows DEF Job!Swapped
  <2> QED
    BY <2>2, <2>4, <2>5, JobMeans
<1>4. CASE MainOpens \/ LoopMoves \/ SweepMoves \/ JoinMoves
  <2>1. main \notin {"wait", "done", "error"} /\ main' \notin {"wait", "done", "error"}
    BY <1>4 DEF MainOpens, LoopMoves, MainChecks, MainGets, MainSwaps, SwapRaises, MainPuts, LeaveLoop, SweepMoves,
       MainClearsRead, MainClearsDetect, MainPutsEnd, JoinMoves, MainJoinsWriter, MainJoinsDetect, MainJoinsReader
  <2>2. UNCHANGED <<output, broken>> /\ cuts \subseteq cuts'
    BY <1>4 DEF MainOpens, LoopMoves, MainChecks, MainGets, MainSwaps, SwapRaises, MainPuts, LeaveLoop, SweepMoves,
       MainClearsRead, MainClearsDetect, MainPutsEnd, JoinMoves, MainJoinsWriter, MainJoinsDetect, MainJoinsReader,
       flagVars, encVars
  <2> QED
    BY <1>1, <2>1, <2>2 DEF JobStatus, CutShort
<1>5. CASE MainGoesOn
  <2>1. UNCHANGED <<Out, CutShort>>
    BY <1>5 DEF MainGoesOn, Out, CutShort, flagVars, encVars
  <2>2. CASE main' = "error"
    <3>1. JobStatus \in {"open", "sealed"} /\ JobStatus' = "error"
      BY <1>5, <2>2 DEF MainGoesOn, JobStatus
    <3> QED
      BY <2>1, <3>1, JobMeans
  <2>3. CASE main = "release" /\ ~failing /\ main' = "wait"
    <3>1. JobStatus = "open" /\ JobStatus' = "sealed"
      BY <2>3 DEF JobStatus
    <3>2. ~CutShort => Written = NumFrames
      BY <1>inv, <2>3 DEF Delivered, Left, CutShort
    <3> QED
      BY <1>inv, <2>1, <3>1, <3>2, OutLength, JobMeans
  <2>4. CASE main = "wait" /\ main' = "done"
    <3>1. JobStatus = "sealed" /\ JobStatus' = "done"
      BY <2>4 DEF JobStatus
    <3> QED
      BY <2>1, <3>1, JobMeans
  <2> QED
    BY <1>5, <2>2, <2>3, <2>4 DEF MainGoesOn
<1> QED
  BY <1>2, <1>3, <1>4, <1>5 DEF StreamStep, WriterMoves

LEMMA StutterKeepsPromise == UNCHANGED vars => [Job!Next]_(Job!vars)
  BY DEF vars, flagVars, encVars, Job!vars, JobStatus

\* run_streaming keeps the promise of StreamJob, for a video of any length and queues of any
\* depth: the frames reach ffmpeg in order, each once, and a stream that nothing cut short is
\* closed only after its last frame. In particular what the job's thread sweeps out of the
\* queues in the end (worker.py:522-527) is never a frame of such a stream.
THEOREM Implementation == Spec => ImplementsStreamJob
<1>1. Init => Job!Init
  BY DEF Init, JobMeans, Job!Init, JobStatus
<1>2. StreamInv /\ [Next]_vars => StreamInv'
  BY NextIsStreamStep, StreamInvStep, StreamInvStutter
<1>3. StreamInv /\ [Next]_vars => [Job!Next]_(Job!vars)
  BY NextIsStreamStep, StreamStepKeepsPromise, StutterKeepsPromise
<1> QED
  BY <1>1, <1>2, <1>3, StreamInit, PTL DEF Spec, ImplementsStreamJob, Job!Spec

-------------------------------------------------------------------------------
(* What is webapp.py's own *)

LEMMA WebInitHolds == WebInit => WebInv
<1> SUFFICES ASSUME WebInit PROVE WebInv
  OBVIOUS
<1>1. StartTypeOK
  BY WebappAssumption DEF WebInit, StartTypeOK
<1>2. PhaseOfMain
  BY WebappAssumption DEF WebInit, Init, PhaseOfMain, Before
<1>3. Encoder
  BY DEF WebInit, Init, Encoder
<1>4. Files
  BY DEF WebInit, Files, Unlisted
<1> QED
  BY <1>1, <1>2, <1>3, <1>4 DEF WebInv

\* The requests of /start: they leave the job alone.
LEMMA StartStep ==
  ASSUME WebInv, NEW u \in Uploads, Start(u)
  PROVE  WebInv'
<1> USE DEF WebInv
<1>1. UNCHANGED <<vars, phase, models, reaped>>
  BY DEF Start, CleanupCollects, CleanupWipes, StartRefuses, StartMakesDir, StartSaves, StartRegisters
<1>2. PhaseOfMain' /\ Encoder'
  BY <1>1 DEF vars, encVars, PhaseOfMain, Encoder
<1>3. StartTypeOK'
  <2> USE DEF StartTypeOK
  <2>1. CASE CleanupCollects(u)
    BY <1>1, <2>1 DEF CleanupCollects, InFlight
  <2>2. CASE CleanupWipes(u)
    BY <1>1, <2>2 DEF CleanupWipes
  <2>3. CASE StartRefuses(u) \/ StartSaves(u) \/ StartRegisters(u)
    BY <1>1, <2>3 DEF StartRefuses, StartSaves, StartRegisters
  <2>4. CASE StartMakesDir(u)
    BY <1>1, <2>4 DEF StartMakesDir
  <2> QED
    BY <2>1, <2>2, <2>3, <2>4 DEF Start
<1>4. Files'
  <2> SUFFICES ASSUME NEW t \in Uploads, t \notin raced'
               PROVE  /\ Unlisted(t)' => t \in dirs' /\ \A v \in Uploads : request'[v] # "collected"
                      /\ request'[t] = "accepted" /\ Active(t)' =>
                           /\ t \in jobs' /\ t \in dirs'
                           /\ \A v \in Uploads : request'[v] = "collected" => t \in kept'[v]
    BY DEF Files
  <2>1. Active(t)' <=> Active(t)
    BY <1>1 DEF Active
  <2>2. raced \subseteq raced'
    BY DEF Start, CleanupCollects, CleanupWipes, StartRefuses, StartMakesDir, StartSaves, StartRegisters
  <2>3. /\ Unlisted(t) => t \in dirs /\ \A v \in Uploads : request[v] # "collected"
        /\ request[t] = "accepted" /\ Active(t) =>
             /\ t \in jobs /\ t \in dirs
             /\ \A v \in Uploads : request[v] = "collected" => t \in kept[v]
    BY <2>2 DEF Files
  <2> USE <2>1, <2>3 DEF StartTypeOK, Unlisted
  <2>4. CASE CleanupCollects(u)
    BY <2>4 DEF CleanupCollects, InFlight
  <2>5. CASE CleanupWipes(u)
    BY <2>5 DEF CleanupWipes
  <2>6. CASE StartRefuses(u)
    BY <2>6 DEF StartRefuses
  <2>7. CASE StartMakesDir(u)
    BY <2>7 DEF StartMakesDir
  <2>8. CASE StartSaves(u)
    BY <2>8 DEF StartSaves
  <2>9. CASE StartRegisters(u)
    BY <2>9 DEF StartRegisters
  <2> QED
    BY <2>4, <2>5, <2>6, <2>7, <2>8, <2>9 DEF Start
<1> QED
  BY <1>2, <1>3, <1>4

\* A job's own end and the phases of the others: no job becomes active again.
LEMMA FilesLast ==
  ASSUME Files, UNCHANGED startVars, \A u \in Uploads : request[u] = "accepted" /\ Active(u)' => Active(u)
  PROVE  Files'
  BY DEF Files, startVars, Unlisted

LEMMA WebInvStep == WebInv /\ [WebNext]_allVars => WebInv'
<1> SUFFICES ASSUME WebInv, [WebNext]_allVars PROVE WebInv'
  OBVIOUS
<1> USE DEF WebInv
<1>1. ASSUME NEW u \in Uploads, Start(u) PROVE WebInv'
  BY <1>1, StartStep
<1>2. ASSUME UNCHANGED <<main, ffmpeg, startVars, phase, reaped>>, models' \in {"none", "cuda", "cpu"}
      PROVE  WebInv'
  <2>1. StartTypeOK'
    BY <1>2 DEF StartTypeOK, startVars
  <2>2. PhaseOfMain' /\ Encoder'
    BY <1>2 DEF PhaseOfMain, Encoder
  <2>3. Files'
    BY <1>2, FilesLast DEF Active
  <2> QED
    BY <2>1, <2>2, <2>3
<1>3. ASSUME NEW u \in Uploads, OtherRuns(u) PROVE WebInv'
  <2>1. StartTypeOK'
    BY <1>3 DEF OtherRuns, StartTypeOK, startVars, Terminal
  <2>2. phase'[Mine] = phase[Mine] /\ UNCHANGED <<vars, reaped>>
    BY <1>3, WebappAssumption DEF OtherRuns, StartTypeOK
  <2>3. PhaseOfMain' /\ Encoder'
    BY <2>2 DEF PhaseOfMain, Encoder, vars, encVars
  <2>4. \A v \in Uploads : Active(v)' => Active(v)
    BY <1>3 DEF OtherRuns, StartTypeOK, Active
  <2> QED
    BY <1>3, <2>1, <2>3, <2>4, FilesLast DEF OtherRuns
<1>4. CASE Prewarms
  <2>1. models' \in {"none", "cuda", "cpu"}
    BY <1>4 DEF Prewarms, EnsureModels
  <2> QED
    BY <1>2, <1>4, <2>1 DEF Prewarms, vars, encVars
<1>5. CASE WriterComesLate
  BY <1>2, <1>5 DEF WriterComesLate, encVars, webVars, StartTypeOK
<1>6. ASSUME NEW p \in {"detecting_source", "finding_reference", "streaming", "finalising", "done", "error"},
             SetPhase(p), UNCHANGED startVars, models' \in {"none", "cuda", "cpu"}, Active(Mine),
             reaped' \in BOOLEAN
      PROVE  StartTypeOK' /\ phase'[Mine] = p /\ Files'
  <2>1. StartTypeOK' /\ phase'[Mine] = p
    BY <1>6, WebappAssumption DEF SetPhase, StartTypeOK, startVars, Terminal
  <2>2. \A u \in Uploads : Active(u)' => Active(u)
    BY <1>6 DEF SetPhase, StartTypeOK, Active
  <2> QED
    BY <1>6, <2>1, <2>2, FilesLast

<1>terms. Active(Mine) <=> phase[Mine] \notin {"done", "error"}
  BY DEF Active, Terminal
<1>7. CASE JobLoadsModels \/ JobReadsUploads \/ JobFindsNobody \/ JobCannotSpawn
  <2>1. /\ phase[Mine] \in Before /\ UNCHANGED <<ffmpeg, startVars, reaped>>
        /\ models' \in {"none", "cuda", "cpu"}
        /\ \/ RaisesEarly
           \/ main' = main /\ \E p \in {"detecting_source", "finding_reference"} : SetPhase(p)
    <3>1. CASE JobLoadsModels
      <4>1. phase[Mine] \in Before /\ UNCHANGED <<ffmpeg, startVars, reaped>>
        BY <3>1 DEF JobLoadsModels, Before, encVars
      <4>2. models' \in {"none", "cuda", "cpu"}
        BY <3>1 DEF JobLoadsModels, EnsureModels, StartTypeOK
      <4>3. RaisesEarly \/ (SetPhase("detecting_source") /\ UNCHANGED main)
        BY <3>1 DEF JobLoadsModels, EnsureModels
      <4> QED
        BY <4>1, <4>2, <4>3
    <3>2. CASE JobReadsUploads \/ JobFindsNobody \/ JobCannotSpawn
      BY <3>2 DEF JobReadsUploads, JobFindsNobody, JobCannotSpawn, Before, encVars, StartTypeOK
    <3> QED
      BY <1>7, <3>1, <3>2
  <2>2. main = "open" /\ ffmpeg = "off" /\ Active(Mine) /\ reaped' \in BOOLEAN
    BY <1>terms, <2>1 DEF PhaseOfMain, Encoder, Before, StartTypeOK
  <2>3. CASE RaisesEarly
    <3>1. StartTypeOK' /\ phase'[Mine] = "error" /\ Files'
      BY <1>6, <2>1, <2>2, <2>3 DEF RaisesEarly
    <3>2. PhaseOfMain' /\ Encoder'
      BY <2>1, <2>2, <2>3, <3>1 DEF RaisesEarly, PhaseOfMain, Before, Encoder
    <3> QED
      BY <3>1, <3>2
  <2>4. ASSUME main' = main, NEW p \in {"detecting_source", "finding_reference"}, SetPhase(p)
        PROVE  WebInv'
    <3>1. StartTypeOK' /\ phase'[Mine] = p /\ Files'
      BY <1>6, <2>1, <2>2, <2>4
    <3>2. PhaseOfMain' /\ Encoder'
      BY <2>1, <2>2, <2>4, <3>1 DEF PhaseOfMain, Before, Encoder
    <3> QED
      BY <3>1, <3>2
  <2> QED
    BY <2>1, <2>3, <2>4
<1>8. CASE JobSpawnsFfmpeg
  <2>1. StartTypeOK' /\ phase'[Mine] = "streaming" /\ Files'
    BY <1>6, <1>8, <1>terms DEF JobSpawnsFfmpeg, StartTypeOK
  <2>2. PhaseOfMain' /\ Encoder'
    BY <1>8, <2>1 DEF JobSpawnsFfmpeg, MainOpens, PhaseOfMain, Before, Encoder
  <2> QED
    BY <2>1, <2>2
<1>9. ASSUME UNCHANGED <<main, ffmpeg, webVars>> PROVE WebInv'
  BY <1>2, <1>9 DEF webVars, StartTypeOK
<1>10. CASE ReaderLoop \/ DetectLoop
  BY <1>9, <1>10 DEF ReaderLoop, DetectLoop, ReaderStep, DetectStep, ReaderReads, ReadFails, ReaderPuts,
     DetectGets, DetectRaises, DetectPuts, encVars, Streams
<1>11. CASE WriterLoop
  BY <1>9, <1>11 DEF WriterLoop, WriterGets, WriterWrites, WriterBreaks, WriterDropsItem, encVars, Streams
<1>12. CASE FfmpegGoes
  <2>1. ffmpeg = "run" /\ ffmpeg' # "run" /\ UNCHANGED <<main, webVars>>
    BY <1>12 DEF FfmpegGoes
  <2>2. StartTypeOK' /\ PhaseOfMain' /\ Encoder'
    BY <2>1 DEF StartTypeOK, PhaseOfMain, Encoder, webVars, startVars
  <2>3. Files'
    BY <2>1, FilesLast DEF webVars, Active
  <2> QED
    BY <2>2, <2>3
<1>13. CASE SwapLoop \/ LeavesLoop
  <2>1. UNCHANGED <<ffmpeg, webVars>>
    BY <1>13 DEF SwapLoop, LeavesLoop, Streams, MainChecks, MainGets, MainSwaps, SwapRaises, MainPuts,
       MainClearsRead, MainClearsDetect, MainPutsEnd, MainJoinsWriter, MainJoinsDetect, MainJoinsReader, encVars
  <2>2. main \notin {"open", "wait", "done", "error"} /\ main' \notin {"open", "wait", "done", "error"}
    <3>1. CASE SwapLoop
      BY <3>1 DEF SwapLoop, Streams, MainChecks, MainGets, MainSwaps, SwapRaises, MainPuts, LeaveLoop
    <3>2. CASE LeavesLoop
      BY <3>2 DEF LeavesLoop, Streams, MainClearsRead, MainClearsDetect, MainPutsEnd, MainJoinsWriter,
         MainJoinsDetect, MainJoinsReader
    <3> QED
      BY <1>13, <3>1, <3>2
  <2>3. StartTypeOK' /\ PhaseOfMain' /\ Encoder'
    BY <2>1, <2>2 DEF StartTypeOK, PhaseOfMain, Encoder, webVars, startVars
  <2>4. Files'
    BY <2>1, FilesLast DEF webVars, Active
  <2> QED
    BY <2>3, <2>4
<1>14. CASE JobCloses \/ JobReapsFfmpeg \/ JobGivesUpOnFfmpeg \/ JobRemuxes
  <2>1. UNCHANGED <<ffmpeg, startVars, models>> /\ main \in {"release", "wait"}
    BY <1>14 DEF JobCloses, JobReapsFfmpeg, JobGivesUpOnFfmpeg, JobRemuxes, encVars
  <2>2. Active(Mine) /\ reaped' \in BOOLEAN /\ models' \in {"none", "cuda", "cpu"}
    BY <1>14, <1>terms, <2>1 DEF PhaseOfMain, StartTypeOK, JobCloses, JobReapsFfmpeg, JobGivesUpOnFfmpeg,
       JobRemuxes, Kills
  <2>3. ASSUME NEW p \in {"finalising", "done", "error"}, SetPhase(p),
               main' = (IF p = "finalising" THEN "wait" ELSE p), p # "finalising" => reaped'
        PROVE  WebInv'
    <3>1. StartTypeOK' /\ phase'[Mine] = p /\ Files'
      BY <1>6, <2>1, <2>2, <2>3
    <3>2. PhaseOfMain' /\ Encoder'
      BY <2>3, <3>1 DEF PhaseOfMain, Before, Encoder
    <3> QED
      BY <3>1, <3>2
  <2>4. CASE JobCloses
    BY <2>3, <2>4 DEF JobCloses, Kills
  <2>5. CASE JobReapsFfmpeg
    <3>1. CASE ffmpeg = "failed" /\ ~broken
      BY <2>3, <2>5, <3>1 DEF JobReapsFfmpeg
    <3>2. CASE ~(ffmpeg = "failed" /\ ~broken)
      <4>1. UNCHANGED <<main, phase>> /\ reaped'
        BY <2>5, <3>2 DEF JobReapsFfmpeg
      <4>2. StartTypeOK' /\ PhaseOfMain' /\ Encoder'
        BY <2>1, <2>2, <4>1 DEF StartTypeOK, PhaseOfMain, Encoder, startVars
      <4>3. Files'
        BY <2>1, <4>1, FilesLast DEF Active
      <4> QED
        BY <4>2, <4>3
    <3> QED
      BY <3>1, <3>2
  <2>6. CASE JobGivesUpOnFfmpeg
    BY <2>3, <2>6 DEF JobGivesUpOnFfmpeg, Kills
  <2>7. CASE JobRemuxes
    BY <2>3, <2>7 DEF JobRemuxes
  <2> QED
    BY <1>14, <2>4, <2>5, <2>6, <2>7
<1>15. CASE UNCHANGED allVars
  BY <1>2, <1>15 DEF allVars, vars, webVars, encVars, StartTypeOK
<1> QED
  BY <1>1, <1>3, <1>4, <1>5, <1>7, <1>8, <1>10, <1>11, <1>12, <1>13, <1>14, <1>15 DEF WebNext, RunJob

LEMMA WebStreamIsJob ==
  ASSUME PhaseOfMain, PhaseOfMain', [Job!Next]_(Job!vars)
  PROVE  [WebStream!Next]_(WebStream!vars)
<1>1. WebStatus = JobStatus /\ WebStatus' = JobStatus'
  BY DEF PhaseOfMain, WebStatus, JobStatus, Terminal
<1> QED
  BY <1>1 DEF Job!Next, Job!vars, Job!Emit, Job!Cut, Job!Seal, Job!Finish, Job!Fail, Job!Swapped,
     WebStream!Next, WebStream!vars, WebStream!Emit, WebStream!Cut, WebStream!Seal, WebStream!Finish,
     WebStream!Fail, WebStream!Swapped

LEMMA WebStreamStep ==
  StreamInv /\ WebInv /\ [WebNext]_allVars => StreamInv' /\ [WebStream!Next]_(WebStream!vars)
<1> SUFFICES ASSUME StreamInv, WebInv, [WebNext]_allVars
             PROVE  StreamInv' /\ [WebStream!Next]_(WebStream!vars)
  OBVIOUS
<1>1. PhaseOfMain /\ PhaseOfMain'
  BY WebInvStep DEF WebInv
<1>2. StreamStep \/ UNCHANGED vars
  BY <1>1, WebNextIsStreamStep
<1>3. StreamInv' /\ [Job!Next]_(Job!vars)
  BY <1>2, StreamInvStep, StreamInvStutter, StreamStepKeepsPromise, StutterKeepsPromise
<1> QED
  BY <1>1, <1>3, WebStreamIsJob

\* webapp.py keeps the promise of StreamJob as well, with everything around its threads: a
\* job that the status page reports as done has sent every frame, in order, unless something
\* cut the stream short.
THEOREM WebImplementation == WebSpec => WebImplementsStreamJob
<1>1. WebInit => StreamInv /\ WebInv
  BY WebInitHolds, StreamInit DEF WebInit
<1>2. WebInit => WebStream!Init
  BY WebappAssumption DEF WebInit, Init, WebStream!Init, WebStatus, Terminal
<1>3. WebInv /\ [WebNext]_allVars => WebInv'
  BY WebInvStep
<1> QED
  BY <1>1, <1>2, <1>3, WebStreamStep, PTL DEF WebSpec, WebImplementsStreamJob, WebStream!Spec

\* In the web app too every variable of the threads has its type, and so have those that
\* webapp.py adds.
THEOREM WebTypeCorrect == WebSpec => []WebTypeOK
<1>1. WebInit => StreamInv /\ WebInv
  BY WebInitHolds, StreamInit DEF WebInit
<1>2. WebInv /\ [WebNext]_allVars => WebInv'
  BY WebInvStep
<1>3. StreamInv /\ WebInv => WebTypeOK
  BY DEF StreamInv, TypeInv, WebInv, WebTypeOK
<1> QED
  BY <1>1, <1>2, <1>3, WebStreamStep, PTL DEF WebSpec

\* A job in flight is registered and has its files, whatever is uploaded meanwhile, unless
\* another cleanup ran into the saving of its files: a cleanup that has collected its list
\* and not wiped yet has the job in it, which FilesOfJobsInFlight does not say.
THEOREM FilesKept == WebSpec => []FilesOfJobsInFlight
<1>1. WebInv => FilesOfJobsInFlight
  BY DEF WebInv, Files, FilesOfJobsInFlight, StatusOf, Served
<1> QED
  BY <1>1, WebInitHolds, WebInvStep, PTL DEF WebSpec

\* A job that has ended leaves no encoder behind, whichever of the ways out it took.
THEOREM EncoderReaped == WebSpec => []NoEncoderLeft
<1>1. WebInv => NoEncoderLeft
  BY DEF WebInv, Encoder, NoEncoderLeft, Terminal
<1> QED
  BY <1>1, WebInitHolds, WebInvStep, PTL DEF WebSpec
================================================================================
