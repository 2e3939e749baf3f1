------------------------------- MODULE JobServer -------------------------------
(***************************************************************************)
(* The registry of server/main.py: POST /api/jobs and /api/batches wipe    *)
(* what is finished, save the uploads, look for the faces and register the *)
(* jobs; a thread for every job or batch then works through its videos     *)
(* (run_single_job and run_batch of server/worker.py).                     *)
(*                                                                         *)
(* The two handlers await nothing, so the event loop serves one request at *)
(* a time; the threads run on meanwhile, and a request reads their phases  *)
(* more than once. A video's stream itself is ThreadPipeline.              *)
(***************************************************************************)
EXTENDS Naturals, FiniteSets

CONSTANTS
  Singles, Batches,    \* the uploads: of one video, of several
  Videos,              \* videos in a batch
  NoItem,              \* not an upload
  Events               \* what may happen in this instance, see AllEvents

AllEvents == {"load",      \* the models cannot be loaded
              "cpu",       \* the swapper loads, but without CUDA
              "face",      \* no face in a picture
              "crash",     \* an exception that is no RuntimeError
              "job",       \* a video fails
              "remux"}     \* the MP4 cannot be built

ASSUME JobServerAssumption ==
  /\ IsFiniteSet(Singles) /\ IsFiniteSet(Batches) /\ Singles \cap Batches = {}
  /\ NoItem \notin Singles \cup Batches
  /\ (Singles \cup Batches) \cap (Batches \X (1 .. Videos)) = {}    \* ids are no pairs
  /\ Videos \in Nat \ {0}
  /\ Events \subseteq AllEvents

Items == Singles \cup Batches
ChildrenFromZero(b) == {b} \X (0 .. Videos)
Children(b) == {b} \X (1 .. Videos)
Jobs == Singles \cup (Batches \X (1 .. Videos))

\* The entry of server/jobs that a job's files are in; a child's own directory is below.
Top(j) == IF j \in Singles THEN j ELSE j[1]

VARIABLES
  serving, step, keep,     \* the request being handled, how far, and what its cleanup keeps
  request,                 \* what has become of the requests
  jobs, batches,           \* _jobs and _batches
  phase,
  thread, next,            \* an upload's thread, and the video a batch has come to
  dirs, files,             \* the entries of server/jobs, and the jobs with an MP4
  models,                  \* what _swapper holds
  unmuxed                  \* auxiliary: the jobs done without an MP4

serveVars == <<serving, step, keep, request>>
listVars  == <<jobs, batches>>
workVars  == <<phase, thread, next>>
diskVars  == <<dirs, files>>
vars == <<serveVars, listVars, workVars, diskVars, models, unmuxed>>

Init ==
  /\ serving = NoItem /\ step = "idle" /\ keep = {}
  /\ request = [i \in Items |-> "open"]
  /\ jobs = {} /\ batches = {}
  /\ phase = [x \in Jobs \cup Batches |-> "queued"]
  /\ thread = [i \in Items |-> "off"] /\ next = [b \in Batches |-> 1]
  /\ dirs = {} /\ files = {}
  /\ models = "none" /\ unmuxed = {}

Active(x) == phase[x] \notin {"done", "error"}

\* _models_lock is held throughout. A swapper without CUDA is kept although its load raises.
EnsureModels(Then, Raises) ==
  \/ models # "none" /\ Then /\ UNCHANGED models
  \/ models = "none" /\ models' = "cuda" /\ Then
  \/ models = "none" /\ "cpu" \in Events /\ models' = "cpu" /\ Raises
  \/ models = "none" /\ "load" \in Events /\ UNCHANGED models /\ Raises

\* get_face_analyser finds the models there; a picture may show no face.
DetectSourceFaces(Then, Raises) ==
  \/ EnsureModels(Then, Raises)
  \/ "face" \in Events /\ UNCHANGED models /\ Raises

Prewarm ==
  /\ models = "none" /\ EnsureModels(TRUE, TRUE)
  /\ UNCHANGED <<serveVars, listVars, workVars, diskVars, unmuxed>>

-------------------------------------------------------------------------------
(* The handlers of the two POST requests *)

Serve(i) ==
  /\ serving = NoItem /\ request[i] = "open"
  /\ serving' = i /\ step' = "collect"
  /\ UNCHANGED <<keep, request, listVars, workVars, diskVars, models, unmuxed>>

\* The names of the directories in use: of a child the name below its batch's directory.
NamesOfJobs == {j \in jobs : Active(j)}
NamesInUse == {j \in jobs : Active(j)} \cup {b \in batches : Active(b)}

\* The cleanup, under _registry_lock: what is in use, and then, reading the phases once
\* more, what is finished.
CleanupCollects ==
  /\ step = "collect"
  /\ keep' = NamesInUse
  /\ step' = "forget"
  /\ UNCHANGED <<serving, request, listVars, workVars, diskVars, models, unmuxed>>

CleanupForgets ==
  /\ step = "forget"
  /\ jobs' = {j \in jobs : Active(j)}
  /\ batches' = {b \in batches : Active(b)}
  /\ step' = "wipe"
  /\ UNCHANGED <<serving, keep, request, workVars, diskVars, models, unmuxed>>

CleanupWipes ==
  /\ step = "wipe"
  /\ dirs' = dirs \cap keep
  /\ files' = {j \in files : Top(j) \in keep}
  /\ step' = "save"
  /\ UNCHANGED <<serving, keep, request, listVars, workVars, models, unmuxed>>

SavesUploads ==
  /\ step = "save"
  /\ dirs' = dirs \cup {serving}
  /\ step' = "detect"
  /\ UNCHANGED <<serving, keep, request, listVars, workVars, files, models, unmuxed>>

Answer(what) ==
  /\ request' = [request EXCEPT ![serving] = what]
  /\ serving' = NoItem /\ step' = "idle"

\* The faces are looked for before anything is registered: 400, and the directory goes.
Detects ==
  /\ step = "detect"
  /\ DetectSourceFaces(
       step' = "register" /\ UNCHANGED <<serving, request, dirs>>,
       Answer("refused") /\ dirs' = dirs \ {serving})
  /\ UNCHANGED <<keep, listVars, workVars, files, unmuxed>>

\* Any other exception is a 500 and leaves the directory to the next cleanup.
DetectCrashes ==
  /\ "crash" \in Events
  /\ step = "detect"
  /\ Answer("refused")
  /\ UNCHANGED <<keep, listVars, workVars, diskVars, models, unmuxed>>

\* The end of create_job.
RegistersJob ==
  /\ step = "register" /\ serving \in Singles
  /\ jobs' = jobs \cup {serving}
  /\ thread' = [thread EXCEPT ![serving] = "run"]
  /\ Answer("accepted")
  /\ UNCHANGED <<keep, batches, phase, next, diskVars, models, unmuxed>>

\* The end of create_batch: the batch and its children are listed together.
RegistersBatch ==
  /\ step = "register" /\ serving \in Batches
  /\ batches' = batches \cup {serving}
  /\ jobs' = jobs \cup Children(serving)
  /\ thread' = [thread EXCEPT ![serving] = "prepare"]
  /\ Answer("accepted")
  /\ UNCHANGED <<keep, phase, next, diskVars, models, unmuxed>>

-------------------------------------------------------------------------------
(* The threads *)

SetPhase(x, p) == phase' = [phase EXCEPT ![x] = p]

\* The video whose turn it is.
Due(j) == \/ j \in Singles /\ thread[j] = "run"
          \/ j \notin Singles /\ thread[j[1]] = "run" /\ next[j[1]] = j[2]

\* After a video: a single job's thread ends, a batch goes on to the next one.
HandsOn(j) ==
  IF j \in Singles THEN thread' = [thread EXCEPT ![j] = "end"] /\ UNCHANGED next
                   ELSE next' = [next EXCEPT ![j[1]] = @ + 1] /\ UNCHANGED thread

\* run_single_job begins: it makes sure of the models once more.
JobStarts(j) ==
  /\ Due(j) /\ phase[j] = "queued"
  /\ EnsureModels(SetPhase(j, "working") /\ UNCHANGED <<thread, next>>,
                  SetPhase(j, "error") /\ HandsOn(j))
  /\ UNCHANGED <<serveVars, listVars, diskVars, unmuxed>>

\* The stream is over; a remux that fails is logged.
JobDone(j) ==
  /\ Due(j) /\ phase[j] = "working"
  /\ SetPhase(j, "done") /\ HandsOn(j)
  /\ \/ files' = files \cup {j} /\ UNCHANGED unmuxed
     \/ "remux" \in Events /\ unmuxed' = unmuxed \cup {j} /\ UNCHANGED files
  /\ UNCHANGED <<serveVars, listVars, dirs, models>>

JobFails(j) ==
  /\ "job" \in Events
  /\ Due(j) /\ phase[j] = "working"
  /\ SetPhase(j, "error") /\ HandsOn(j)
  /\ UNCHANGED <<serveVars, listVars, diskVars, models, unmuxed>>

BatchStarts(b) ==
  /\ thread[b] = "prepare" /\ phase[b] = "queued"
  /\ SetPhase(b, "processing")
  /\ UNCHANGED <<serveVars, listVars, thread, next, diskVars, models, unmuxed>>

\* The models and the pictures again; what goes wrong here ends the batch, and its
\* children stay queued.
BatchPrepares(b) ==
  /\ thread[b] = "prepare" /\ phase[b] = "processing"
  /\ DetectSourceFaces(
       thread' = [thread EXCEPT ![b] = "run"] /\ UNCHANGED phase,
       SetPhase(b, "error") /\ thread' = [thread EXCEPT ![b] = "end"])
  /\ UNCHANGED <<serveVars, listVars, next, diskVars, unmuxed>>

LastChildFailed(b) == phase[<<b, Videos>>] = "error"
AnyError(b) == \E j \in Children(b) : phase[j] = "error"

BatchEnds(b) ==
  /\ thread[b] = "run" /\ next[b] > Videos
  /\ SetPhase(b, IF AnyError(b) THEN "error" ELSE "done")
  /\ thread' = [thread EXCEPT ![b] = "end"]
  /\ UNCHANGED <<serveVars, listVars, next, diskVars, models, unmuxed>>

-------------------------------------------------------------------------------
(* What the routes answer *)

Status(j) == IF j \in jobs THEN phase[j] ELSE "404"
FileServed(j) == j \in jobs /\ j \in files
BatchStatus(b) == [j \in Children(b) |-> phase[j]]
Zip(b) == {j \in Children(b) : phase[j] = "done" /\ j \in files}

-------------------------------------------------------------------------------
Handlers ==
  \/ \E i \in Items : Serve(i)
  \/ CleanupCollects \/ CleanupForgets \/ CleanupWipes \/ SavesUploads
  \/ Detects \/ DetectCrashes \/ RegistersJob \/ RegistersBatch

Threads ==
  \/ \E j \in Jobs : JobStarts(j) \/ JobDone(j) \/ JobFails(j)
  \/ \E b \in Batches : BatchStarts(b) \/ BatchPrepares(b) \/ BatchEnds(b)

Next == Handlers \/ Threads \/ Prewarm

Spec == Init /\ [][Next]_vars

-------------------------------------------------------------------------------
(* Properties *)

\* Every variable has its type, and the MP4s are below the directories that exist.
TypeOK ==
  /\ serving \in Items \cup {NoItem}
  /\ step \in {"idle", "collect", "forget", "wipe", "save", "detect", "register"}
  /\ keep \subseteq Jobs \cup Batches
  /\ request \in [Items -> {"open", "accepted", "refused"}]
  /\ jobs \subseteq Jobs /\ batches \subseteq Batches
  /\ phase \in [Jobs \cup Batches -> {"queued", "working", "processing", "done", "error"}]
  /\ thread \in [Items -> {"off", "prepare", "run", "end"}]
  /\ next \in [Batches -> 1 .. Videos + 1]
  /\ dirs \subseteq Items /\ files \subseteq Jobs
  /\ \A j \in files : Top(j) \in dirs
  /\ models \in {"none", "cuda", "cpu"} /\ unmuxed \subseteq Jobs

\* What a thread still works on is listed and on disk, however the cleanups of other
\* requests fall between its steps (main.py:214-241); and what is listed as a job or a
\* batch is on disk, so that its links do not fail, except for the children of a batch
\* that ended before it began with them: they are listed for ever.
Working(x) == Active(x) /\ thread[IF x \in Batches THEN x ELSE Top(x)] \in {"prepare", "run"}
OnDisk(j) == j \in jobs /\ Top(j) \in dirs
Stranded(j) == j \notin Singles /\ phase[Top(j)] = "error" /\ phase[j] = "queued"
RegistryMatchesDisk ==
  /\ \A j \in Jobs : Working(j) => Status(j) = phase[j] /\ OnDisk(j)
  /\ \A b \in Batches : Working(b) => b \in batches
  /\ \A j \in jobs : OnDisk(j) \/ Stranded(j)
  /\ \A j \in jobs : Status(j) = "done" => FileServed(j) \/ j \in unmuxed
  /\ batches \subseteq dirs

\* What a batch says of its videos (worker.py:619-626): done, and then all of them are
\* done and its archive holds each, but for those whose MP4 failed; an error, and then one of them
\* failed or none was begun.
BatchVerdict ==
  \A b \in Batches :
    /\ phase[b] = "done" =>
         /\ \A j \in Children(b) : BatchStatus(b)[j] = "done"
         /\ b \in batches => Zip(b) = Children(b) \ unmuxed
    /\ phase[b] = "error" =>
         \/ \E j \in Children(b) : BatchStatus(b)[j] = "error"
         \/ \A j \in Children(b) : BatchStatus(b)[j] = "queued"
================================================================================
