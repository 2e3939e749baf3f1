---------------------------- MODULE JobServerProofs ----------------------------
(***************************************************************************)
(* Proofs about JobServer: its type invariant, and that the registry, the  *)
(* disk and the threads agree, for any number of uploads and of videos in  *)
(* a batch, whatever fails and however the cleanups fall between the steps *)
(* of the threads.                                                         *)
(***************************************************************************)
EXTENDS JobServer, TLAPS

Over == {"done", "error"}

ServeType ==
  /\ serving \in Items \cup {NoItem}
  /\ step \in {"idle", "collect", "forget", "wipe", "save", "detect", "register"}
  /\ keep \subseteq Jobs \cup Batches
  /\ request \in [Items -> {"open", "accepted", "refused"}]
ListType == jobs \subseteq Jobs /\ batches \subseteq Batches
PhaseType == phase \in [Jobs \cup Batches -> {"queued", "working", "processing", "done", "error"}]
ThreadType == thread \in [Items -> {"off", "prepare", "run", "end"}]
NextType == next \in [Batches -> 1 .. Videos + 1]
DiskType == dirs \subseteq Items /\ files \subseteq Jobs /\ unmuxed \subseteq Jobs
ModelType == models \in {"none", "cuda", "cpu"}
Typed == ServeType /\ ListType /\ PhaseType /\ ThreadType /\ NextType /\ DiskType /\ ModelType

\* The request that is served has had no answer; an upload has a thread exactly when it was
\* accepted.
Serving ==
  /\ step = "idle" <=> serving = NoItem
  /\ serving # NoItem => request[serving] = "open"
  /\ step \in {"detect", "register"} => serving \in dirs
  /\ \A i \in Items : thread[i] # "off" <=> request[i] = "accepted"

\* How far the thread of a single job has brought it.
SingleWork ==
  \A s \in Singles :
    /\ thread[s] # "prepare"
    /\ thread[s] = "off" => phase[s] = "queued"
    /\ thread[s] = "run" => phase[s] \in {"queued", "working"}
    /\ thread[s] = "end" => phase[s] \in Over

\* The same of a batch: its children before next are over, those after it are queued. At its
\* end all of them are over, or none was begun.
AllQueued(b) == \A i \in 1 .. Videos : phase[<<b, i>>] = "queued"
AllOver(b) == \A i \in 1 .. Videos : phase[<<b, i>>] \in Over
SomeFailed(b) == \E i \in 1 .. Videos : phase[<<b, i>>] = "error"
UpToNext(b) ==
  \A i \in 1 .. Videos : /\ i < next[b] => phase[<<b, i>>] \in Over
                         /\ i = next[b] => phase[<<b, i>>] \in {"queued", "working"}
                         /\ i > next[b] => phase[<<b, i>>] = "queued"
BatchWork ==
  \A b \in Batches :
    /\ thread[b] = "off" => phase[b] = "queued"
    /\ thread[b] = "prepare" => phase[b] \in {"queued", "processing"}
    /\ thread[b] \in {"off", "prepare"} => next[b] = 1 /\ AllQueued(b)
    /\ thread[b] = "run" => phase[b] = "processing" /\ UpToNext(b)
    /\ thread[b] = "end" => \/ phase[b] = "error" /\ AllQueued(b)
                            \/ phase[b] = "error" /\ AllOver(b) /\ SomeFailed(b)
                            \/ phase[b] = "done" /\ AllOver(b) /\ ~SomeFailed(b)

\* What a thread works on is listed; what has no thread is in no list and has no file.
Listed ==
  /\ \A j \in Jobs : Working(j) => j \in jobs
  /\ \A b \in Batches : Working(b) => b \in batches
  /\ \A j \in jobs \cup files : thread[Top(j)] # "off"
  /\ \A b \in batches : thread[b] # "off"

\* What is listed is on disk; and while a cleanup is under way what it keeps is enough for that.
Backed(j, entries) == Top(j) \in entries \/ Stranded(j)
Keeps ==
  /\ \A j \in jobs : Backed(j, dirs)
  /\ batches \subseteq dirs
  /\ \A j \in files : Top(j) \in dirs
  /\ step = "forget" => /\ \A j \in jobs : Active(j) => Backed(j, keep)
                        /\ \A b \in batches : Active(b) => b \in keep
  /\ step = "wipe" => /\ \A j \in jobs : Backed(j, keep)
                      /\ batches \subseteq keep

\* A job that is done and still listed, itself or in its batch, has its MP4 or has failed to
\* make it.
Muxed ==
  /\ \A j \in Jobs : phase[j] = "done" /\ (j \in jobs \/ Top(j) \in batches) => j \in files \cup unmuxed
  /\ \A j \in files \cup unmuxed : phase[j] = "done"
  /\ files \cap unmuxed = {}

Inv == Typed /\ Serving /\ SingleWork /\ BatchWork /\ Listed /\ Keeps /\ Muxed

-------------------------------------------------------------------------------
(* The jobs and their uploads *)

LEMMA Shapes ==
  /\ \A s \in Singles : s \in Jobs /\ s \in Items /\ s \notin Batches /\ Top(s) = s
  /\ \A b \in Batches : b \in Items /\ b \notin Jobs /\ b \notin Singles
  /\ \A b \in Batches, i \in 1 .. Videos : <<b, i>> \in Jobs /\ <<b, i>> \notin Singles /\ Top(<<b, i>>) = b
  /\ \A j \in Jobs : j \notin Singles =>
       j[1] \in Batches /\ j[2] \in 1 .. Videos /\ j = <<j[1], j[2]>> /\ Top(j) = j[1]
  /\ \A j \in Jobs : Top(j) \in Items /\ j \notin Batches
  /\ NoItem \notin Items /\ Videos \in Nat /\ Videos > 0
  BY JobServerAssumption DEF Jobs, Items, Top

\* The step of a thread that brings the job j to the phase p.
JobMoves(j, p) ==
  /\ Due(j) /\ SetPhase(j, p)
  /\ \/ phase[j] = "queued" /\ p = "working" /\ UNCHANGED <<thread, next>>
     \/ phase[j] \in {"queued", "working"} /\ p \in Over /\ HandsOn(j)

LEMMA JobSteps ==
  ASSUME NEW j \in Jobs, JobStarts(j) \/ JobDone(j) \/ JobFails(j)
  PROVE  \E p \in {"working", "done", "error"} : JobMoves(j, p)
<1>1. CASE JobStarts(j)
  BY <1>1 DEF JobStarts, EnsureModels, JobMoves, Over
<1>2. CASE JobDone(j)
  BY <1>2 DEF JobDone, JobMoves, Over
<1>3. CASE JobFails(j)
  BY <1>3 DEF JobFails, JobMoves, Over
<1> QED
  BY <1>1, <1>2, <1>3

-------------------------------------------------------------------------------
(* Types *)

LEMMA TypedStep == Inv /\ Next => Typed'
<1> SUFFICES ASSUME Inv, Next PROVE Typed'
  OBVIOUS
<1>t. Typed
  BY DEF Inv
<1>n. NextType /\ Videos \in Nat
  BY <1>t, Shapes DEF Typed
<1> USE DEF serveVars, listVars, workVars, diskVars
<1>same. /\ UNCHANGED serveVars => ServeType'
         /\ UNCHANGED listVars => ListType'
         /\ UNCHANGED phase => PhaseType'
         /\ UNCHANGED thread => ThreadType'
         /\ UNCHANGED next => NextType'
         /\ UNCHANGED <<dirs, files, unmuxed>> => DiskType'
         /\ UNCHANGED models => ModelType'
  BY <1>t DEF Typed, ServeType, ListType, PhaseType, ThreadType, NextType, DiskType, ModelType
<1> USE DEF Typed
<1>1. ASSUME NEW i \in Items, Serve(i) PROVE Typed'
  BY <1>1, <1>t, <1>same DEF Serve, ServeType
<1>2. CASE CleanupCollects
  <2>1. NamesInUse \subseteq Jobs \cup Batches
    BY <1>t DEF NamesInUse, ListType
  <2> QED
    BY <1>2, <2>1, <1>t, <1>same DEF CleanupCollects, ServeType
<1>3. CASE CleanupForgets
  BY <1>3, <1>t, <1>same DEF CleanupForgets, ServeType, ListType
<1>4. CASE CleanupWipes
  BY <1>4, <1>t, <1>same DEF CleanupWipes, ServeType, DiskType
<1>5. CASE SavesUploads
  <2>1. serving \in Items
    BY <1>5, <1>t DEF SavesUploads, Inv, Serving, ServeType
  <2> QED
    BY <1>5, <2>1, <1>t, <1>same DEF SavesUploads, ServeType, DiskType
<1>6. CASE Detects \/ DetectCrashes
  <2>1. /\ serving' \in {serving, NoItem} /\ step' \in {"register", "idle"} /\ UNCHANGED keep
        /\ request' = request \/ request' = [request EXCEPT ![serving] = "refused"]
        /\ dirs' = dirs \/ dirs' = dirs \ {serving}
        /\ UNCHANGED <<listVars, workVars, files, unmuxed>> /\ models' \in {models, "cuda", "cpu"}
    BY <1>6 DEF Detects, DetectCrashes, DetectSourceFaces, EnsureModels, Answer
  <2>2. ServeType'
    BY <2>1, <1>t DEF ServeType
  <2>3. DiskType' /\ ModelType'
    BY <2>1, <1>t DEF DiskType, ModelType
  <2> QED
    BY <2>1, <2>2, <2>3, <1>same
<1>7. CASE RegistersJob \/ RegistersBatch
  <2>1. serving \in Items /\ serving \in Singles \cup Batches
    BY <1>7 DEF RegistersJob, RegistersBatch, Items
  <2>2. ServeType'
    BY <1>7, <1>t DEF RegistersJob, RegistersBatch, Answer, ServeType
  <2>3. ThreadType'
    BY <1>7, <1>t, <2>1 DEF RegistersJob, RegistersBatch, ThreadType
  <2>4. ListType'
    BY <1>7, <1>t DEF RegistersJob, RegistersBatch, ListType, Jobs, Children
  <2> QED
    BY <1>7, <2>2, <2>3, <2>4, <1>same DEF RegistersJob, RegistersBatch
<1>8. ASSUME NEW j \in Jobs, JobStarts(j) \/ JobDone(j) \/ JobFails(j) PROVE Typed'
  <2>1. PICK p \in {"working", "done", "error"} : JobMoves(j, p)
    BY <1>8, JobSteps
  <2>2. PhaseType'
    BY <2>1, <1>t DEF JobMoves, SetPhase, PhaseType
  <2>3. ThreadType' /\ NextType'
    <3>1. CASE UNCHANGED <<thread, next>>
      BY <3>1, <1>same
    <3>2. CASE HandsOn(j) /\ j \in Singles
      <4>1. j \in Items
        BY <3>2, Shapes
      <4> QED
        BY <3>2, <4>1, <1>t, <1>same DEF HandsOn, ThreadType
    <3>3. CASE HandsOn(j) /\ j \notin Singles
      <4>1. j[1] \in Batches /\ next[j[1]] = j[2] /\ j[2] \in 1 .. Videos
        BY <3>3, <2>1, Shapes DEF JobMoves, Due
      <4>2. next' = [next EXCEPT ![j[1]] = j[2] + 1] /\ UNCHANGED thread
        BY <3>3, <4>1 DEF HandsOn
      <4>3. j[2] + 1 \in 1 .. Videos + 1
        BY <4>1, <1>n
      <4>4. NextType'
        BY <4>1, <4>2, <4>3, <1>n DEF NextType
      <4> QED
        BY <4>2, <4>4, <1>same
    <3> QED
      BY <2>1, <3>1, <3>2, <3>3 DEF JobMoves
  <2>4. /\ UNCHANGED <<serveVars, listVars, dirs>> /\ models' \in {models, "cuda", "cpu"}
        /\ files' \in {files, files \cup {j}} /\ unmuxed' \in {unmuxed, unmuxed \cup {j}}
    BY <1>8 DEF JobStarts, JobDone, JobFails, EnsureModels
  <2>5. DiskType' /\ ModelType'
    BY <2>4, <1>t DEF DiskType, ModelType
  <2> QED
    BY <2>2, <2>3, <2>4, <2>5, <1>same
<1>9. ASSUME NEW b \in Batches, BatchStarts(b) \/ BatchPrepares(b) \/ BatchEnds(b) PROVE Typed'
  <2>1. /\ UNCHANGED <<serveVars, listVars, next, diskVars, unmuxed>>
        /\ models' \in {models, "cuda", "cpu"}
        /\ phase' = phase \/ \E p \in {"processing", "error", "done"} : SetPhase(b, p)
        /\ thread' = thread \/ \E t \in {"run", "end"} : thread' = [thread EXCEPT ![b] = t]
    BY <1>9 DEF BatchStarts, BatchPrepares, BatchEnds, DetectSourceFaces, EnsureModels, SetPhase
  <2>2. PhaseType' /\ ThreadType'
    BY <2>1, <1>t, Shapes DEF SetPhase, PhaseType, ThreadType
  <2>3. ModelType'
    BY <2>1, <1>t DEF ModelType
  <2> QED
    BY <2>1, <2>2, <2>3, <1>same
<1>10. CASE Prewarm
  <2>1. models' \in {models, "cuda", "cpu"}
    BY <1>10 DEF Prewarm, EnsureModels
  <2>2. ModelType'
    BY <2>1, <1>t DEF ModelType
  <2> QED
    BY <1>10, <2>2, <1>same DEF Prewarm
<1> QED
  BY <1>1, <1>2, <1>3, <1>4, <1>5, <1>6, <1>7, <1>8, <1>9, <1>10 DEF Next, Handlers, Threads

-------------------------------------------------------------------------------
(* The threads *)

LEMMA WorkStep == Inv /\ Next => SingleWork' /\ BatchWork'
<1> SUFFICES ASSUME Inv, Next PROVE SingleWork' /\ BatchWork'
  OBVIOUS
<1>t. PhaseType /\ ThreadType /\ NextType /\ SingleWork /\ BatchWork
  BY DEF Inv, Typed
<1> USE DEF serveVars, listVars, workVars, diskVars
<1>same. ASSUME UNCHANGED workVars PROVE SingleWork' /\ BatchWork'
  BY <1>same, <1>t DEF SingleWork, BatchWork, AllQueued, AllOver, SomeFailed, UpToNext
<1>1. CASE (\E i \in Items : Serve(i)) \/ CleanupCollects \/ CleanupForgets \/ CleanupWipes
           \/ SavesUploads \/ Prewarm
  BY <1>1, <1>same DEF Serve, CleanupCollects, CleanupForgets, CleanupWipes, SavesUploads, Prewarm
<1>2. CASE Detects \/ DetectCrashes
  BY <1>2, <1>same DEF Detects, DetectCrashes
<1>3. CASE RegistersJob \/ RegistersBatch
  <2>1. /\ serving \in Items /\ UNCHANGED <<phase, next>>
        /\ \/ serving \in Singles /\ thread' = [thread EXCEPT ![serving] = "run"]
           \/ serving \in Batches /\ thread' = [thread EXCEPT ![serving] = "prepare"]
    BY <1>3 DEF RegistersJob, RegistersBatch, Items
  <2>2. thread[serving] = "off"
    BY <2>1, <1>t, Shapes DEF Inv, Serving, ThreadType
  <2>3. SingleWork'
    BY <2>1, <2>2, <1>t, Shapes DEF SingleWork, ThreadType
  <2>4. BatchWork'
    BY <2>1, <2>2, <1>t, Shapes DEF BatchWork, ThreadType, AllQueued, AllOver, SomeFailed, UpToNext
  <2> QED
    BY <2>3, <2>4
<1>4. ASSUME NEW j \in Jobs, JobStarts(j) \/ JobDone(j) \/ JobFails(j)
      PROVE  SingleWork' /\ BatchWork'
  <2>1. PICK p \in {"working", "done", "error"} : JobMoves(j, p)
    BY <1>4, JobSteps
  <2>2. CASE j \in Singles
    <3>1. /\ thread[j] = "run" /\ phase' = [phase EXCEPT ![j] = p] /\ UNCHANGED next
          /\ \/ p = "working" /\ UNCHANGED thread
             \/ p \in Over /\ thread' = [thread EXCEPT ![j] = "end"]
      BY <2>1, <2>2, Shapes DEF JobMoves, Due, SetPhase, HandsOn
    <3>2. SingleWork'
      BY <3>1, <2>2, <1>t, Shapes DEF SingleWork, ThreadType, PhaseType
    <3>3. /\ \A b \in Batches : phase'[b] = phase[b] /\ thread'[b] = thread[b]
          /\ \A b \in Batches, i \in 1 .. Videos : phase'[<<b, i>>] = phase[<<b, i>>]
      BY <3>1, <2>2, <1>t, Shapes DEF ThreadType, PhaseType
    <3>4. BatchWork'
      BY <3>1, <3>3, <1>t DEF BatchWork, AllQueued, AllOver, SomeFailed, UpToNext
    <3> QED
      BY <3>2, <3>4
  <2>3. CASE j \notin Singles
    <3>1. PICK b \in Batches, n \in 1 .. Videos : j = <<b, n>> /\ j[1] = b /\ j[2] = n
      BY <2>3, Shapes
    <3>2. /\ thread[b] = "run" /\ next[b] = n /\ UNCHANGED thread
          /\ phase' = [phase EXCEPT ![<<b, n>>] = p]
          /\ \/ p = "working" /\ UNCHANGED next
             \/ p \in Over /\ next' = [next EXCEPT ![b] = @ + 1]
      <4>1. Due(j) /\ phase' = [phase EXCEPT ![j] = p]
        BY <2>1 DEF JobMoves, SetPhase
      <4>2. thread[j[1]] = "run" /\ next[j[1]] = j[2]
        BY <4>1, <2>3 DEF Due
      <4>3. \/ p = "working" /\ UNCHANGED <<thread, next>>
            \/ p \in Over /\ next' = [next EXCEPT ![j[1]] = @ + 1] /\ UNCHANGED thread
        BY <2>1, <2>3 DEF JobMoves, HandsOn
      <4>4. /\ thread[b] = "run" /\ next[b] = n /\ UNCHANGED thread
            /\ \/ p = "working" /\ UNCHANGED next
               \/ p \in Over /\ next' = [next EXCEPT ![b] = @ + 1]
        BY <4>2, <4>3, <3>1
      <4> QED
        BY <4>1, <4>4, <3>1
    <3>3. SingleWork'
      BY <3>2, <3>1, <1>t, Shapes DEF SingleWork, PhaseType
    <3>4. \A c \in Batches \ {b} : /\ UNCHANGED <<phase[c], next[c], thread[c]>>
                                   /\ \A i \in 1 .. Videos : UNCHANGED phase[<<c, i>>]
      BY <3>2, <3>1, <1>t, Shapes DEF PhaseType, NextType
    <3>5. /\ UNCHANGED phase[b] /\ phase'[<<b, n>>] = p
          /\ \A i \in 1 .. Videos \ {n} : UNCHANGED phase[<<b, i>>]
      BY <3>2, <3>1, <1>t, Shapes DEF PhaseType
    <3>6. UpToNext(b)'
      <4>1. UpToNext(b) /\ next[b] \in 1 .. Videos + 1
        BY <3>2, <1>t DEF BatchWork, NextType
      <4>2. CASE p = "working" /\ UNCHANGED next
        BY <4>1, <4>2, <3>2, <3>5 DEF UpToNext
      <4>3. CASE p \in Over /\ next'[b] = n + 1
        BY <4>1, <4>3, <3>2, <3>5, Shapes DEF UpToNext
      <4> QED
        BY <4>2, <4>3, <3>1, <3>2, <1>t DEF NextType
    <3>7. \A c \in Batches \ {b} :
             /\ AllQueued(c)' = AllQueued(c) /\ AllOver(c)' = AllOver(c)
             /\ SomeFailed(c)' = SomeFailed(c) /\ UpToNext(c)' = UpToNext(c)
      BY <3>4 DEF AllQueued, AllOver, SomeFailed, UpToNext
    <3>8. BatchWork'
      BY <3>2, <3>4, <3>5, <3>6, <3>7, <1>t DEF BatchWork
    <3> QED
      BY <3>3, <3>8
  <2> QED
    BY <2>2, <2>3
<1>5. ASSUME NEW b \in Batches, BatchStarts(b) \/ BatchPrepares(b) \/ BatchEnds(b)
      PROVE  SingleWork' /\ BatchWork'
  <2>1. /\ phase' = [phase EXCEPT ![b] = phase'[b]] /\ thread' = [thread EXCEPT ![b] = thread'[b]]
        /\ UNCHANGED next
    BY <1>5, <1>t, Shapes DEF BatchStarts, BatchPrepares, BatchEnds, DetectSourceFaces, EnsureModels,
       SetPhase, PhaseType, ThreadType
  <2>2. /\ \A s \in Singles : UNCHANGED <<phase[s], thread[s]>>
        /\ \A c \in Batches \ {b} : UNCHANGED <<phase[c], thread[c]>>
        /\ \A c \in Batches, i \in 1 .. Videos : UNCHANGED phase[<<c, i>>]
    BY <2>1, <1>t, Shapes DEF PhaseType, ThreadType
  <2>3. SingleWork'
    BY <2>2, <1>t DEF SingleWork
  <2>4. \A c \in Batches : /\ AllQueued(c)' = AllQueued(c) /\ AllOver(c)' = AllOver(c)
                           /\ SomeFailed(c)' = SomeFailed(c) /\ UpToNext(c)' = UpToNext(c)
    BY <2>1, <2>2 DEF AllQueued, AllOver, SomeFailed, UpToNext
  <2>5. CASE BatchStarts(b)
    <3>1. thread[b] = "prepare" /\ thread'[b] = "prepare" /\ phase'[b] = "processing"
      BY <2>5, <1>t, Shapes DEF BatchStarts, SetPhase, PhaseType
    <3> QED
      BY <3>1, <2>1, <2>2, <2>3, <2>4, <1>t DEF BatchWork
  <2>6. CASE BatchPrepares(b)
    <3>1. /\ thread[b] = "prepare" /\ phase[b] = "processing"
          /\ \/ thread'[b] = "run" /\ phase'[b] = "processing"
             \/ thread'[b] = "end" /\ phase'[b] = "error"
      BY <2>6, <1>t, Shapes DEF BatchPrepares, DetectSourceFaces, EnsureModels, SetPhase, PhaseType, ThreadType
    <3>2. AllQueued(b) /\ next[b] = 1
      BY <3>1, <1>t DEF BatchWork
    <3>3. UpToNext(b)
      BY <3>2 DEF AllQueued, UpToNext
    <3> QED
      BY <3>1, <3>2, <3>3, <2>1, <2>2, <2>3, <2>4, <1>t DEF BatchWork
  <2>7. CASE BatchEnds(b)
    <3>1. thread[b] = "run" /\ next[b] > Videos /\ next[b] \in 1 .. Videos + 1
      BY <2>7, <1>t DEF BatchEnds, NextType
    <3>2. UpToNext(b)
      BY <3>1, <1>t DEF BatchWork
    <3>3. AllOver(b)
      BY <3>1, <3>2, Shapes DEF UpToNext, AllOver
    <3>4. AnyError(b) <=> SomeFailed(b)
      <4>1. \A j : j \in Children(b) <=> \E i \in 1 .. Videos : j = <<b, i>>
        BY DEF Children
      <4> QED
        BY <4>1 DEF AnyError, SomeFailed
    <3>5. thread'[b] = "end" /\ phase'[b] = IF SomeFailed(b) THEN "error" ELSE "done"
      BY <2>7, <3>4, <1>t, Shapes DEF BatchEnds, SetPhase, PhaseType, ThreadType
    <3> QED
      BY <3>3, <3>5, <2>1, <2>2, <2>3, <2>4, <1>t DEF BatchWork
  <2> QED
    BY <1>5, <2>5, <2>6, <2>7
<1> QED
  BY <1>1, <1>2, <1>3, <1>4, <1>5 DEF Next, Handlers, Threads

LEMMA ServingStep == Inv /\ Next => Serving'
<1> SUFFICES ASSUME Inv, Next PROVE Serving'
  OBVIOUS
<1>t. ServeType /\ ThreadType /\ Serving
  BY DEF Inv, Typed
<1> USE DEF serveVars, listVars, workVars, diskVars
<1>1. ASSUME NEW i \in Items, Serve(i) PROVE Serving'
  BY <1>1, <1>t, Shapes DEF Serve, Serving
<1>2. CASE CleanupCollects \/ CleanupForgets \/ CleanupWipes \/ SavesUploads \/ Prewarm
  BY <1>2, <1>t DEF CleanupCollects, CleanupForgets, CleanupWipes, SavesUploads, Prewarm, Serving
<1>3. CASE Detects \/ DetectCrashes
  <2>1. \/ step' = "register" /\ UNCHANGED <<serving, request, dirs>>
        \/ serving' = NoItem /\ step' = "idle" /\ request' = [request EXCEPT ![serving] = "refused"]
    BY <1>3 DEF Detects, DetectCrashes, DetectSourceFaces, EnsureModels, Answer
  <2>2. step = "detect" /\ serving \in Items /\ serving # NoItem /\ UNCHANGED thread
    BY <1>3, <1>t DEF Detects, DetectCrashes, Serving, ServeType
  <2> QED
    BY <2>1, <2>2, <1>t DEF Serving, ServeType
<1>4. CASE RegistersJob \/ RegistersBatch
  <2>1. /\ serving \in Items /\ serving' = NoItem /\ step' = "idle"
        /\ request' = [request EXCEPT ![serving] = "accepted"]
        /\ \E t \in {"run", "prepare"} : thread' = [thread EXCEPT ![serving] = t]
    BY <1>4 DEF RegistersJob, RegistersBatch, Answer, Items
  <2> QED
    BY <2>1, <1>t DEF Serving, ServeType, ThreadType
<1>5. CASE Threads
  <2>1. /\ UNCHANGED <<serving, step, request, dirs>>
        /\ thread' = thread
           \/ \E i \in Items : thread[i] # "off" /\ \E t \in {"run", "end"} :
                                 thread' = [thread EXCEPT ![i] = t]
    <3>1. ASSUME NEW j \in Jobs, JobStarts(j) \/ JobDone(j) \/ JobFails(j) PROVE <2>1!:
      <4>1. PICK p \in {"working", "done", "error"} : JobMoves(j, p)
        BY <3>1, JobSteps
      <4>2. \/ thread' = thread
            \/ j \in Singles /\ thread[j] = "run" /\ thread' = [thread EXCEPT ![j] = "end"]
        BY <4>1 DEF JobMoves, HandsOn, Due
      <4>3. j \in Singles => j \in Items
        BY Shapes
      <4>4. UNCHANGED <<serving, step, request, dirs>>
        BY <3>1 DEF JobStarts, JobDone, JobFails
      <4> QED
        BY <4>2, <4>3, <4>4
    <3>2. ASSUME NEW b \in Batches, BatchStarts(b) \/ BatchPrepares(b) \/ BatchEnds(b) PROVE <2>1!:
      BY <3>2, Shapes DEF BatchStarts, BatchPrepares, BatchEnds, DetectSourceFaces, EnsureModels
    <3> QED
      BY <1>5, <3>1, <3>2 DEF Threads
  <2> QED
    BY <2>1, <1>t DEF Serving, ThreadType
<1> QED
  BY <1>1, <1>2, <1>3, <1>4, <1>5 DEF Next, Handlers

-------------------------------------------------------------------------------
(* The registry and the disk *)

\* Outside a registration work only becomes less: nothing comes back, and what is stranded
\* stays so.
Wanes ==
  /\ \A x \in Jobs \cup Batches : Active(x)' => Active(x)
  /\ \A x \in Jobs \cup Batches : Working(x)' => Working(x)
  /\ \A j \in Jobs : Stranded(j) => Stranded(j)'
  /\ \A i \in Items : thread'[i] = "off" <=> thread[i] = "off"
  /\ \A j \in Jobs : phase[j] = "done" => phase'[j] = "done"

LEMMA WorkWanes == Inv /\ Threads => Wanes
<1> SUFFICES ASSUME Inv, Threads PROVE Wanes
  OBVIOUS
<1>t. PhaseType /\ ThreadType /\ SingleWork /\ BatchWork
  BY DEF Inv, Typed
<1>s. \A k \in Jobs : Stranded(k) => /\ Top(k) \in Batches /\ thread[Top(k)] = "end"
                                    /\ phase[k] = "queued" /\ phase[Top(k)] = "error"
  BY <1>t, Shapes DEF Stranded, BatchWork, ThreadType
<1>1. ASSUME NEW x \in Jobs \cup Batches, NEW i \in Items, NEW q, NEW r \in {"prepare", "run", "end"},
             phase' = [phase EXCEPT ![x] = q], thread' = [thread EXCEPT ![i] = r],
             Active(x), thread[i] \in {"prepare", "run"}, IF x \in Batches THEN x = i ELSE Top(x) = i
      PROVE  Wanes
  <2>1. \A y \in Jobs \cup Batches : Active(y)' => Active(y)
    BY <1>1, <1>t DEF Active, PhaseType
  <2>2. \A k \in Items : thread'[k] \in {"prepare", "run"} => thread[k] \in {"prepare", "run"}
    BY <1>1, <1>t DEF ThreadType
  <2>3. \A k \in Items : thread'[k] = "off" <=> thread[k] = "off"
    BY <1>1, <1>t DEF ThreadType
  <2>4. \A y \in Jobs \cup Batches : Working(y)' => Working(y)
    BY <2>1, <2>2, Shapes DEF Working
  <2>5. ASSUME NEW k \in Jobs, Stranded(k) PROVE Stranded(k)'
    <3>1. Top(k) # i /\ Top(k) \in Batches /\ k \notin Singles
      BY <2>5, <1>1, <1>s DEF Stranded
    <3>2. k # x /\ Top(k) # x
      BY <3>1, <1>1, Shapes
    <3> QED
      BY <3>1, <3>2, <2>5, <1>1, <1>t DEF Stranded, PhaseType
  <2>6. \A k \in Jobs : phase[k] = "done" => phase'[k] = "done"
    BY <1>1, <1>t DEF Active, PhaseType
  <2> QED
    BY <2>1, <2>3, <2>4, <2>5, <2>6 DEF Wanes
<1>2. ASSUME NEW j \in Jobs, JobStarts(j) \/ JobDone(j) \/ JobFails(j) PROVE Wanes
  <2>1. PICK p \in {"working", "done", "error"} : JobMoves(j, p)
    BY <1>2, JobSteps
  <2>2. thread[Top(j)] = "run" /\ Top(j) \in Items /\ j \notin Batches
    BY <2>1, Shapes DEF JobMoves, Due
  <2>3. Active(j) /\ phase' = [phase EXCEPT ![j] = p]
    BY <2>1 DEF JobMoves, SetPhase, Active
  <2>4. thread' = thread \/ thread' = [thread EXCEPT ![Top(j)] = "end"]
    BY <2>1, Shapes DEF JobMoves, HandsOn
  <2>5. \E r \in {"run", "end"} : thread' = [thread EXCEPT ![Top(j)] = r]
    BY <2>2, <2>4, <1>t DEF ThreadType
  <2> QED
    BY <2>2, <2>3, <2>5, <1>1
<1>3. ASSUME NEW b \in Batches, BatchStarts(b) \/ BatchPrepares(b) \/ BatchEnds(b) PROVE Wanes
  <2>1. /\ \E q : phase' = [phase EXCEPT ![b] = q]
        /\ \E r \in {"prepare", "run", "end"} : thread' = [thread EXCEPT ![b] = r]
    BY <1>3, <1>t, Shapes DEF BatchStarts, BatchPrepares, BatchEnds, DetectSourceFaces, EnsureModels,
       SetPhase, PhaseType, ThreadType
  <2>2. thread[b] \in {"prepare", "run"} /\ b \in Items
    BY <1>3, Shapes DEF BatchStarts, BatchPrepares, BatchEnds
  <2>3. Active(b)
    BY <2>2, <1>t DEF BatchWork, Active
  <2> QED
    BY <2>1, <2>2, <2>3, <1>1
<1> QED
  BY <1>2, <1>3 DEF Threads

LEMMA Unmoved ==
  UNCHANGED workVars => Wanes /\ \A x \in Jobs \cup Batches : Working(x) <=> Working(x)'
  BY DEF workVars, Wanes, Active, Working, Stranded

LEMMA ListedStep == Inv /\ Next => Listed'
<1> SUFFICES ASSUME Inv, Next PROVE Listed'
  OBVIOUS
<1>t. ListType /\ DiskType /\ ThreadType /\ PhaseType /\ Serving /\ Listed
  BY DEF Inv, Typed
<1> USE DEF serveVars, listVars, workVars, diskVars
<1>r. /\ \A j \in jobs \cup files : j \in Jobs /\ Top(j) \in Items
      /\ \A b \in batches : b \in Batches /\ b \in Items
  BY <1>t, Shapes DEF ListType, DiskType
<1>rests. ASSUME UNCHANGED workVars, jobs' \subseteq jobs, batches' \subseteq batches, files' \subseteq files,
                 \A j \in jobs : Active(j) => j \in jobs', \A b \in batches : Active(b) => b \in batches'
          PROVE  Listed'
  <2>1. \A x \in Jobs \cup Batches : Working(x)' <=> Working(x)
    BY <1>rests, Unmoved
  <2>2. \A x : Working(x) => Active(x)
    BY DEF Working
  <2> QED
    BY <1>rests, <2>1, <2>2, <1>t DEF Listed
<1>1. CASE (\E i \in Items : Serve(i)) \/ CleanupCollects \/ SavesUploads \/ Prewarm \/ Detects
           \/ DetectCrashes
  BY <1>1, <1>rests DEF Serve, CleanupCollects, SavesUploads, Prewarm, Detects, DetectCrashes
<1>2. CASE CleanupForgets \/ CleanupWipes
  BY <1>2, <1>rests DEF CleanupForgets, CleanupWipes
<1>3. CASE RegistersJob \/ RegistersBatch
  <2>1. /\ serving \in Items /\ thread[serving] = "off" /\ UNCHANGED <<phase, files>>
        /\ \E t \in {"run", "prepare"} : thread' = [thread EXCEPT ![serving] = t]
        /\ jobs \subseteq jobs' /\ batches \subseteq batches'
    BY <1>3, <1>t DEF RegistersJob, RegistersBatch, Items, Serving
  <2>2. /\ serving \in Batches => serving \in batches'
        /\ \A j \in Jobs : Top(j) = serving => j \in jobs'
    BY <1>3, Shapes, JobServerAssumption DEF RegistersJob, RegistersBatch, Children
  <2>3. /\ \A j \in jobs' : j \in jobs \/ Top(j) = serving
        /\ \A b \in batches' : b \in batches \/ b = serving
    BY <1>3, Shapes DEF RegistersJob, RegistersBatch, Children
  <2>4. \A i \in Items : i # serving => thread'[i] = thread[i]
    BY <2>1, <1>t DEF ThreadType
  <2>5. thread'[serving] # "off"
    BY <2>1, <1>t DEF ThreadType
  <2>6. \A j \in Jobs : Working(j)' => j \in jobs'
    <3>1. \A j \in Jobs : Top(j) # serving /\ Working(j)' => Working(j)
      BY <2>1, <2>4, Shapes DEF Working, Active
    <3> QED
      BY <3>1, <2>1, <2>2, <1>t DEF Listed
  <2>7. \A b \in Batches : Working(b)' => b \in batches'
    <3>1. \A b \in Batches : b # serving /\ Working(b)' => Working(b)
      BY <2>1, <2>4, Shapes DEF Working, Active
    <3> QED
      BY <3>1, <2>1, <2>2, <1>t DEF Listed
  <2>8. \A j \in jobs' \cup files' : thread'[Top(j)] # "off"
    BY <2>1, <2>3, <2>4, <2>5, <1>t, <1>r DEF Listed
  <2>9. \A b \in batches' : thread'[b] # "off"
    BY <2>3, <2>4, <2>5, <1>t, <1>r DEF Listed
  <2> QED
    BY <2>6, <2>7, <2>8, <2>9 DEF Listed
<1>4. CASE Threads
  <2>1. Wanes
    BY <1>4, WorkWanes
  <2>2. /\ UNCHANGED <<jobs, batches>>
        /\ \A j \in files' : j \in files \/ (j \in Jobs /\ thread[Top(j)] # "off")
    <3>1. ASSUME NEW j \in Jobs, JobStarts(j) \/ JobDone(j) \/ JobFails(j) PROVE <2>2!:
      BY <3>1, Shapes DEF JobStarts, JobDone, JobFails, Due
    <3>2. ASSUME NEW b \in Batches, BatchStarts(b) \/ BatchPrepares(b) \/ BatchEnds(b) PROVE <2>2!:
      BY <3>2 DEF BatchStarts, BatchPrepares, BatchEnds
    <3> QED
      BY <1>4, <3>1, <3>2 DEF Threads
  <2>3. /\ \A j \in Jobs : Working(j)' => j \in jobs'
        /\ \A b \in Batches : Working(b)' => b \in batches'
    BY <2>1, <2>2, <1>t DEF Wanes, Listed
  <2>4. /\ \A j \in jobs' \cup files' : thread'[Top(j)] # "off"
        /\ \A b \in batches' : thread'[b] # "off"
    BY <2>1, <2>2, <1>t, <1>r, Shapes DEF Wanes, Listed
  <2> QED
    BY <2>3, <2>4 DEF Listed
<1> QED
  BY <1>1, <1>2, <1>3, <1>4 DEF Next, Handlers

\* An active job that is listed belongs to an upload that is worked on, or it is stranded.
LEMMA ActiveOrStranded ==
  ASSUME Inv, NEW j \in jobs, Active(j)
  PROVE  Stranded(j) \/ (Top(j) \in jobs \cup batches /\ Active(Top(j)))
<1>t. ListType /\ SingleWork /\ BatchWork /\ ThreadType /\ Listed
  BY DEF Inv, Typed
<1>1. j \in Jobs /\ thread[Top(j)] # "off"
  BY <1>t DEF ListType, Listed
<1>2. CASE j \in Singles
  BY <1>2, Shapes
<1>3. CASE j \notin Singles
  <2>1. PICK b \in Batches, n \in 1 .. Videos : j = <<b, n>> /\ Top(j) = b
    BY <1>1, <1>3, Shapes
  <2>2. CASE thread[b] = "end"
    <3>1. phase[b] = "error" /\ AllQueued(b)
      BY <2>1, <2>2, <1>t DEF BatchWork, AllOver, Active, Over
    <3> QED
      BY <3>1, <2>1, <1>3 DEF Stranded, AllQueued
  <2>3. CASE thread[b] \in {"prepare", "run"}
    <3>1. Active(b)
      BY <2>3, <1>t DEF BatchWork, Active
    <3>2. b \in batches
      BY <2>3, <3>1, <1>t DEF Listed, Working
    <3> QED
      BY <3>1, <3>2, <2>1
  <2> QED
    BY <2>1, <2>2, <2>3, <1>1, <1>t, Shapes DEF ThreadType
<1> QED
  BY <1>2, <1>3

LEMMA KeepsStep == Inv /\ Next => Keeps'
<1> SUFFICES ASSUME Inv, Next PROVE Keeps'
  OBVIOUS
<1>t. ServeType /\ ListType /\ DiskType /\ ThreadType /\ Serving /\ Listed /\ Keeps
  BY DEF Inv, Typed
<1> USE DEF serveVars, listVars, workVars, diskVars
<1>r. \A j \in jobs : j \in Jobs
  BY <1>t DEF ListType
<1>1. CASE (\E i \in Items : Serve(i)) \/ SavesUploads \/ Prewarm
  <2>1. /\ UNCHANGED <<jobs, batches, files, phase>>
        /\ \/ dirs \subseteq dirs' /\ step' \notin {"forget", "wipe"}
           \/ UNCHANGED <<dirs, keep, step>>
    BY <1>1 DEF Serve, SavesUploads, Prewarm
  <2> QED
    BY <2>1, <1>t DEF Keeps, Backed, Stranded, Active
<1>2. CASE CleanupCollects
  <2>1. /\ keep' = NamesInUse /\ step' = "forget" /\ UNCHANGED <<jobs, batches, files, dirs, phase>>
    BY <1>2 DEF CleanupCollects
  <2>2. \A j \in jobs : Active(j) => Stranded(j) \/ Top(j) \in keep'
    BY <2>1, ActiveOrStranded DEF NamesInUse
  <2>3. \A b \in batches : Active(b) => b \in keep'
    BY <2>1 DEF NamesInUse
  <2> QED
    BY <2>1, <2>2, <2>3, <1>t DEF Keeps, Backed, Stranded, Active
<1>3. CASE CleanupForgets
  <2>1. /\ step = "forget" /\ step' = "wipe" /\ UNCHANGED <<keep, files, dirs, phase>>
        /\ jobs' = {j \in jobs : Active(j)} /\ batches' = {b \in batches : Active(b)}
    BY <1>3 DEF CleanupForgets
  <2> QED
    BY <2>1, <1>t DEF Keeps, Backed, Stranded
<1>4. CASE CleanupWipes
  <2>1. /\ step = "wipe" /\ step' = "save" /\ UNCHANGED <<jobs, batches, phase>>
        /\ dirs' = dirs \cap keep /\ files' = {j \in files : Top(j) \in keep}
    BY <1>4 DEF CleanupWipes
  <2> QED
    BY <2>1, <1>t DEF Keeps, Backed, Stranded
<1>5. CASE Detects \/ DetectCrashes
  <2>1. /\ step = "detect" /\ step' \notin {"forget", "wipe"} /\ UNCHANGED <<jobs, batches, files, phase>>
        /\ dirs' = dirs \/ dirs' = dirs \ {serving}
    BY <1>5 DEF Detects, DetectCrashes, DetectSourceFaces, EnsureModels, Answer
  <2>2. serving \in Items /\ thread[serving] = "off"
    BY <2>1, <1>t DEF ServeType, ThreadType, Serving
  <2>3. (\A j \in jobs \cup files : Top(j) # serving) /\ serving \notin batches
    BY <2>2, <1>t DEF Listed
  <2> QED
    BY <2>1, <2>3, <1>t DEF Keeps, Backed, Stranded
<1>6. CASE RegistersJob \/ RegistersBatch
  <2>1. step = "register" /\ step' = "idle" /\ UNCHANGED <<dirs, files, phase>> /\ serving \in dirs
    BY <1>6, <1>t DEF RegistersJob, RegistersBatch, Answer, Serving
  <2>2. /\ \A j \in jobs' : j \in jobs \/ Top(j) = serving
        /\ \A b \in batches' : b \in batches \/ b = serving
    BY <1>6, Shapes DEF RegistersJob, RegistersBatch, Children
  <2> QED
    BY <2>1, <2>2, <1>t DEF Keeps, Backed, Stranded
<1>7. CASE Threads
  <2>1. Wanes
    BY <1>7, WorkWanes
  <2>2. /\ UNCHANGED <<jobs, batches, dirs, keep, step>>
        /\ \A j \in files' : j \in files \/ (j \in Jobs /\ Due(j) /\ Active(j))
    <3>1. ASSUME NEW j \in Jobs, JobStarts(j) \/ JobDone(j) \/ JobFails(j) PROVE <2>2!:
      BY <3>1 DEF JobStarts, JobDone, JobFails, Active
    <3>2. ASSUME NEW b \in Batches, BatchStarts(b) \/ BatchPrepares(b) \/ BatchEnds(b) PROVE <2>2!:
      BY <3>2 DEF BatchStarts, BatchPrepares, BatchEnds
    <3> QED
      BY <1>7, <3>1, <3>2 DEF Threads
  <2>3. /\ \A j \in jobs : Stranded(j) => Stranded(j)'
        /\ \A x \in jobs \cup batches : Active(x)' => Active(x)
    BY <2>1, <1>t DEF Wanes, ListType
  <2>4. \A j \in files' : Top(j) \in dirs
    <3>1. ASSUME NEW j \in Jobs, Due(j), Active(j) PROVE Top(j) \in dirs
      <4>1. CASE j \in Singles
        <5>1. j \in jobs
          BY <3>1, <4>1, <1>t, Shapes DEF Due, Working, Listed
        <5> QED
          BY <4>1, <5>1, <1>t DEF Keeps, Backed, Stranded
      <4>2. CASE j \notin Singles
        <5>1. Top(j) \in Batches /\ thread[Top(j)] = "run"
          BY <3>1, <4>2, Shapes DEF Due
        <5>2. Active(Top(j))
          BY <5>1 DEF Inv, BatchWork, Active
        <5> QED
          BY <5>1, <5>2, <1>t DEF Working, Listed, Keeps
      <4> QED
        BY <4>1, <4>2
    <3> QED
      BY <3>1, <2>2, <1>t DEF Keeps
  <2> QED
    BY <2>2, <2>3, <2>4, <1>t DEF Keeps, Backed
<1> QED
  BY <1>1, <1>2, <1>3, <1>4, <1>5, <1>6, <1>7 DEF Next, Handlers

LEMMA MuxedStep == Inv /\ Next => Muxed'
<1> SUFFICES ASSUME Inv, Next PROVE Muxed'
  OBVIOUS
<1>t. ListType /\ DiskType /\ PhaseType /\ ThreadType /\ Serving /\ Listed /\ Keeps /\ Muxed
  BY DEF Inv, Typed
<1> USE DEF serveVars, listVars, workVars, diskVars
<1>1. CASE (\E i \in Items : Serve(i)) \/ SavesUploads \/ Prewarm \/ CleanupCollects
           \/ CleanupForgets \/ Detects \/ DetectCrashes
  <2>1. jobs' \subseteq jobs /\ batches' \subseteq batches /\ UNCHANGED <<files, unmuxed, phase>>
    BY <1>1 DEF Serve, SavesUploads, Prewarm, CleanupCollects, CleanupForgets, Detects, DetectCrashes
  <2> QED
    BY <2>1, <1>t DEF Muxed
<1>2. CASE CleanupWipes
  <2>1. /\ step = "wipe" /\ UNCHANGED <<jobs, batches, phase, unmuxed>>
        /\ files' = {j \in files : Top(j) \in keep}
    BY <1>2 DEF CleanupWipes
  <2>2. \A j \in Jobs : phase[j] = "done" /\ (j \in jobs \/ Top(j) \in batches) => Top(j) \in keep
    BY <2>1, <1>t DEF Keeps, Backed, Stranded
  <2> QED
    BY <2>1, <2>2, <1>t DEF Muxed
<1>3. CASE RegistersJob \/ RegistersBatch
  <2>1. serving \in Items /\ thread[serving] = "off" /\ UNCHANGED <<phase, files, unmuxed>>
    BY <1>3, <1>t DEF RegistersJob, RegistersBatch, Items, Serving
  <2>2. \A j \in Jobs : j \in jobs' \/ Top(j) \in batches'
                        => j \in jobs \/ Top(j) \in batches \/ Top(j) = serving
    BY <1>3, Shapes DEF RegistersJob, RegistersBatch, Children
  <2>3. \A j \in Jobs : Top(j) = serving => phase[j] = "queued"
    BY <2>1, Shapes DEF Inv, SingleWork, BatchWork, AllQueued
  <2> QED
    BY <2>1, <2>2, <2>3, <1>t DEF Muxed
<1>4. ASSUME NEW j \in Jobs, JobStarts(j) \/ JobDone(j) \/ JobFails(j) PROVE Muxed'
  <2>1. PICK p \in {"working", "done", "error"} : JobMoves(j, p)
    BY <1>4, JobSteps
  <2>2. /\ UNCHANGED <<jobs, batches>> /\ phase[j] \in {"queued", "working"}
        /\ phase' = [phase EXCEPT ![j] = p]
    BY <1>4, <2>1 DEF JobStarts, JobDone, JobFails, JobMoves, SetPhase
  <2>3. j \notin files \cup unmuxed
    BY <2>2, <1>t DEF Muxed
  <2>4. \/ p = "done" /\ files' = files \cup {j} /\ UNCHANGED unmuxed
        \/ p = "done" /\ unmuxed' = unmuxed \cup {j} /\ UNCHANGED files
        \/ p # "done" /\ UNCHANGED <<files, unmuxed>>
    <3>1. phase'[j] = p
      BY <2>2, <1>t DEF PhaseType
    <3>2. CASE JobDone(j)
      BY <3>1, <3>2, <1>t DEF JobDone, SetPhase, PhaseType
    <3>3. CASE JobStarts(j) \/ JobFails(j)
      <4>1. phase'[j] # "done"
        BY <3>3, <1>t DEF JobStarts, JobFails, EnsureModels, SetPhase, PhaseType
      <4> QED
        BY <3>1, <3>3, <4>1 DEF JobStarts, JobFails
    <3> QED
      BY <1>4, <3>2, <3>3
  <2>5. \A k \in Jobs : phase'[k] = IF k = j THEN p ELSE phase[k]
    BY <2>2, <1>t DEF PhaseType
  <2>6. files \subseteq Jobs /\ unmuxed \subseteq Jobs
    BY <1>t DEF DiskType
  <2> QED
    BY <2>2, <2>3, <2>4, <2>5, <2>6, <1>t DEF Muxed
<1>5. ASSUME NEW b \in Batches, BatchStarts(b) \/ BatchPrepares(b) \/ BatchEnds(b) PROVE Muxed'
  <2>1. UNCHANGED <<jobs, batches, files, unmuxed>> /\ \A j \in Jobs : UNCHANGED phase[j]
    BY <1>5, <1>t, Shapes DEF BatchStarts, BatchPrepares, BatchEnds, DetectSourceFaces, EnsureModels,
       SetPhase, PhaseType
  <2> QED
    BY <2>1, <1>t DEF Muxed, DiskType
<1> QED
  BY <1>1, <1>2, <1>3, <1>4, <1>5 DEF Next, Handlers, Threads

-------------------------------------------------------------------------------
(* Theorems *)

LEMMA InitInv == Init => Inv
<1> SUFFICES ASSUME Init PROVE Inv
  OBVIOUS
<1>1. Typed
  BY JobServerAssumption DEF Init, Typed, ServeType, ListType, PhaseType, ThreadType, NextType, DiskType,
     ModelType
<1>2. Serving
  BY Shapes DEF Init, Serving
<1>3. SingleWork /\ BatchWork
  BY Shapes DEF Init, SingleWork, BatchWork, AllQueued
<1>4. Listed
  BY Shapes DEF Init, Listed, Working
<1>5. Keeps /\ Muxed
  BY DEF Init, Keeps, Muxed
<1> QED
  BY <1>1, <1>2, <1>3, <1>4, <1>5 DEF Inv

LEMMA InvStep == Inv /\ [Next]_vars => Inv'
<1>1. Inv /\ UNCHANGED vars => Inv'
  <2> SUFFICES ASSUME Inv, UNCHANGED vars PROVE Inv'
    OBVIOUS
  <2> USE DEF vars, serveVars, listVars, workVars, diskVars
  <2>1. Typed' /\ Serving'
    BY DEF Inv, Typed, ServeType, ListType, PhaseType, ThreadType, NextType, DiskType, ModelType, Serving
  <2>2. SingleWork' /\ BatchWork'
    BY DEF Inv, SingleWork, BatchWork, AllQueued, AllOver, SomeFailed, UpToNext
  <2>3. Listed' /\ Keeps' /\ Muxed'
    BY DEF Inv, Listed, Working, Keeps, Backed, Stranded, Active, Muxed
  <2> QED
    BY <2>1, <2>2, <2>3 DEF Inv
<1> QED
  BY <1>1, TypedStep, ServingStep, WorkStep, ListedStep, KeepsStep, MuxedStep DEF Inv

\* Every variable of the registry keeps its type, and no MP4 is left below a directory that
\* has gone, for any number of uploads.
THEOREM TypeCorrect == Spec => []TypeOK
<1>1. Inv => TypeOK
  BY DEF Inv, Typed, ServeType, ListType, PhaseType, ThreadType, NextType, DiskType, ModelType, Keeps, TypeOK
<1> QED
  BY <1>1, InitInv, InvStep, PTL DEF Spec

\* What a thread works on is listed and on disk, and what is listed is on disk, wherever the
\* three steps of a cleanup fall between the steps of the threads.
THEOREM RegistryAndDisk == Spec => []RegistryMatchesDisk
<1>1. ASSUME Inv PROVE RegistryMatchesDisk
  <2>t. ListType /\ ThreadType /\ SingleWork /\ BatchWork /\ Listed /\ Keeps /\ Muxed
    BY <1>1 DEF Inv, Typed
  <2>1. ASSUME NEW j \in Jobs, Working(j) PROVE Status(j) = phase[j] /\ OnDisk(j)
    <3>1. j \in jobs /\ thread[Top(j)] \in {"prepare", "run"}
      BY <2>1, <2>t, Shapes DEF Listed, Working
    <3>2. ~Stranded(j)
      BY <3>1, <2>t, Shapes DEF Stranded, BatchWork
    <3> QED
      BY <3>1, <3>2, <2>t DEF Status, OnDisk, Keeps, Backed
  <2>2. \A j \in jobs : Status(j) = "done" => FileServed(j) \/ j \in unmuxed
    BY <2>t DEF Status, FileServed, Muxed, ListType
  <2>3. \A j \in jobs : OnDisk(j) \/ Stranded(j)
    BY <2>t DEF OnDisk, Keeps, Backed
  <2> QED
    BY <2>1, <2>2, <2>3, <2>t DEF RegistryMatchesDisk, Listed, Keeps
<1> QED
  BY <1>1, InitInv, InvStep, PTL DEF Spec

\* A batch that is done has every video done, and while it is listed its archive holds each
\* that has an MP4; one that ended with an error had a video that failed, or began with none.
THEOREM Verdict == Spec => []BatchVerdict
<1>1. ASSUME Inv PROVE BatchVerdict
  <2> SUFFICES ASSUME NEW b \in Batches
               PROVE  /\ phase[b] = "done" =>
                           /\ \A j \in Children(b) : BatchStatus(b)[j] = "done"
                           /\ b \in batches => Zip(b) = Children(b) \ unmuxed
                      /\ phase[b] = "error" =>
                           \/ \E j \in Children(b) : BatchStatus(b)[j] = "error"
                           \/ \A j \in Children(b) : BatchStatus(b)[j] = "queued"
    BY DEF BatchVerdict
  <2>t. ThreadType /\ BatchWork /\ Muxed
    BY <1>1 DEF Inv, Typed
  <2>1. /\ \A j : j \in Children(b) <=> \E i \in 1 .. Videos : j = <<b, i>>
        /\ \A j \in Children(b) : j \in Jobs /\ Top(j) = b /\ BatchStatus(b)[j] = phase[j]
    BY Shapes DEF Children, BatchStatus
  <2>2. phase[b] \in Over => thread[b] = "end"
    BY <2>t, Shapes DEF BatchWork, ThreadType, Over
  <2>3. CASE phase[b] = "done"
    <3>1. \A j \in Children(b) : phase[j] = "done"
      BY <2>1, <2>2, <2>3, <2>t DEF BatchWork, AllOver, SomeFailed, Over
    <3>2. b \in batches => Zip(b) = Children(b) \ unmuxed
      BY <3>1, <2>1, <2>t DEF Zip, Muxed
    <3> QED
      BY <2>1, <2>3, <3>1, <3>2
  <2>4. CASE phase[b] = "error"
    <3>1. (\E j \in Children(b) : phase[j] = "error") \/ (\A j \in Children(b) : phase[j] = "queued")
      <4>1. AllQueued(b) \/ SomeFailed(b)
        BY <2>2, <2>4, <2>t DEF BatchWork, Over
      <4> QED
        BY <4>1, <2>1 DEF AllQueued, SomeFailed
    <3> QED
      BY <2>1, <2>4, <3>1
  <2> QED
    BY <2>3, <2>4
<1> QED
  BY <1>1, InitInv, InvStep, PTL DEF Spec
================================================================================
