------------------------------- MODULE ResumeRun -------------------------------
(***************************************************************************)
(* A run of the offline engine (src/face_swap) and what is left of it on   *)
(* disk when its process is interrupted, fails or is killed: pipeline.run, *)
(* pipeline.resume, StageRunner.execute and the two files of a checkpoint. *)
(* The operator may resume the run as often as he likes, and may have      *)
(* changed the inputs in the meantime.                                     *)
(*                                                                         *)
(* Detection, swapping and the retries of one frame are one step, with the *)
(* outcome that the frame needs a manual review or not.                    *)
(***************************************************************************)
EXTENDS Integers, Sequences, FiniteSets

CONSTANTS
  NumFrames,      \* frames of the video
  CkptEvery,      \* checkpoint_every_n_frames
  MaxFaults,      \* bound: how often a process ends before its time
  Faults,         \* which kinds of it happen in this instance
  Changes         \* which inputs the operator changes in this instance

AllFaults == {"interrupted",     \* Ctrl+C: with and finally clauses are executed
              "error",           \* an exception, likewise
              "killed"}          \* what the process has in memory is lost

\* What the pictures of a run depend on: the source video, the configuration without its
\* paths, the reference pictures, the files of the three models, and the thresholds that
\* are read from the environment.
Roles == {"swap", "detector", "restoration"}
Parts == {"video", "config", "refs", "env"} \cup Roles

ASSUME EngineAssumption ==
  /\ NumFrames \in Nat /\ CkptEvery \in Nat \ {0} /\ MaxFaults \in Nat
  /\ Faults \subseteq AllFaults /\ Changes \subseteq Parts

Frames == 0 .. NumFrames - 1
Inputs == [Parts -> {0, 1}]       \* versions
None == [none |-> TRUE]
Absent == -1

VARIABLES
  pc, cursor, review,       \* the process: where it is, its frame, had_manual_review
  gen,                      \* processes so far
  exit,                     \* how the last one ended
  inputs,                   \* the input files
  store,                    \* the extracted frames
  rows, buf,                \* quality.jsonl, and what the file object has not written yet
  made,                     \* the swapped pictures: the inputs each was made from
  json, npz,                \* state.json, with the fingerprints of its inputs, and state.npz
  rendered, final,          \* final.mp4, and the pictures it was made of
  manifest,                 \* the exit code in processing_log.json
  done,                     \* auxiliary: a process has come to its end
  lost, faults              \* auxiliary: frames whose rows were lost; faults so far

procVars == <<pc, cursor, review, gen, exit>>
logVars  == <<rows, buf>>
ckptVars == <<json, npz>>
outVars  == <<rendered, final, manifest>>
auxVars  == <<done, lost, faults>>
vars == <<procVars, inputs, store, logVars, made, ckptVars, outVars, auxVars>>

Init ==
  /\ pc = "off" /\ cursor = 0 /\ review = FALSE /\ gen = 0 /\ exit = "none"
  /\ inputs = [p \in Parts |-> 0]
  /\ store = "none"
  /\ rows = <<>> /\ buf = <<>>
  /\ made = [f \in Frames |-> None]
  /\ json = None /\ npz = Absent
  /\ rendered = FALSE /\ final = made /\ manifest = "absent"
  /\ done = FALSE /\ lost = {} /\ faults = 0

-------------------------------------------------------------------------------
(* The start of a process *)

\* pipeline.run, with a manifest that has no exit code yet
Run ==
  /\ pc = "off" /\ gen = 0
  /\ pc' = "extract" /\ gen' = 1
  /\ cursor' = 0 /\ review' = FALSE /\ exit' = "none"
  /\ manifest' = "none"
  /\ UNCHANGED <<inputs, store, logVars, made, ckptVars, rendered, final, auxVars>>

LoadableWhenPaired == json # None /\ npz = json.next
Loadable == json # None /\ npz # Absent

\* Of a model a fingerprint is taken when it is given by a path, which is so for the swapper
\* only: the others say "absent", whatever file is loaded.
ModelVersions(in) == [r \in Roles |-> IF r = "swap" THEN in[r] ELSE Absent]

\* What a checkpoint keeps of its inputs. (The model versions are those of the manifest, which
\* a resumed run has found to be its own.)
Stored == Parts \ {"env"}
Prints(in) == [p \in Stored |-> IF p \in Roles THEN ModelVersions(in)[p] ELSE in[p]]

\* verify_resumable: the fingerprints of the reference pictures are kept and not compared.
VerifiedButModels == \A p \in {"video", "config"} : json.prints[p] = Prints(inputs)[p]
Verified == \A p \in Stored \ {"refs"} : json.prints[p] = Prints(inputs)[p]

\* pipeline.resume: the counter of manual reviews starts anew.
Resume ==
  /\ pc = "off" /\ gen > 0
  /\ Loadable /\ Verified
  /\ pc' = "open" /\ gen' = gen + 1
  /\ cursor' = json.next /\ review' = FALSE /\ exit' = "none"
  /\ UNCHANGED <<inputs, store, logVars, made, ckptVars, outVars, auxVars>>

ResumeRefused ==
  /\ pc = "off" /\ gen > 0
  /\ ~(Loadable /\ Verified)
  /\ exit' = "refused"
  /\ UNCHANGED <<pc, cursor, review, gen, inputs, store, logVars, made, ckptVars, outVars, auxVars>>

-------------------------------------------------------------------------------
(* StageRunner.execute *)

\* The frame store is only written from frame 0 on.
Extract ==
  /\ pc = "extract"
  /\ IF store # "partial" THEN store' = "partial" /\ UNCHANGED pc
                          ELSE store' = "full" /\ pc' = "open"
  /\ UNCHANGED <<cursor, review, gen, exit, inputs, logVars, made, ckptVars, outVars, auxVars>>

\* "w" for a fresh run, "a" for a resumed one.
OpenedFresh(log) == <<>>
Opened(log) == IF cursor > 0 THEN log ELSE <<>>

OpenLog ==
  /\ pc = "open"
  /\ rows' = Opened(rows) /\ buf' = <<>>
  /\ pc' = "frame"
  /\ UNCHANGED <<cursor, review, gen, exit, inputs, store, made, ckptVars, outVars, auxVars>>

ReviewOfLast(outcome) == outcome
ReviewSoFar(outcome) == review \/ outcome

\* A frame is swapped and its row written to the file object, which may write out what it
\* held before.
ProcessFrame ==
  /\ pc = "frame" /\ cursor < NumFrames
  /\ \E outcome \in BOOLEAN :
       LET row == [frame |-> cursor, review |-> outcome, gen |-> gen]
       IN  /\ review' = ReviewSoFar(outcome)
           /\ \/ buf' = Append(buf, row) /\ UNCHANGED rows
              \/ buf # <<>> /\ rows' = rows \o buf /\ buf' = <<row>>
  /\ pc' = "png"
  /\ UNCHANGED <<cursor, gen, exit, inputs, store, made, ckptVars, outVars, auxVars>>

\* The picture, and whether a checkpoint is due.
SavePicture ==
  /\ pc = "png"
  /\ made' = [made EXCEPT ![cursor] = inputs]
  /\ IF (cursor + 1) % CkptEvery = 0
     THEN pc' = "json" /\ UNCHANGED cursor
     ELSE pc' = "frame" /\ cursor' = cursor + 1
  /\ UNCHANGED <<review, gen, exit, inputs, store, logVars, ckptVars, outVars, auxVars>>

\* write_checkpoint replaces one file after the other. (The fsync before it is of another
\* descriptor and leaves the file object's buffer alone.)
FrameAfterNext(f) == f + 2
FrameAfter(f) == f + 1

ReplaceJson ==
  /\ pc = "json"
  /\ json' = [next |-> FrameAfter(cursor), prints |-> Prints(inputs)]
  /\ pc' = "npz"
  /\ UNCHANGED <<cursor, review, gen, exit, inputs, store, logVars, made, npz, outVars, auxVars>>

ReplaceNpz ==
  /\ pc = "npz"
  /\ npz' = FrameAfter(cursor)
  /\ pc' = "frame" /\ cursor' = cursor + 1
  /\ UNCHANGED <<review, gen, exit, inputs, store, logVars, made, json, outVars, auxVars>>

CloseLog ==
  /\ pc = "frame" /\ cursor >= NumFrames
  /\ rows' = rows \o buf /\ buf' = <<>>
  /\ pc' = "render"
  /\ UNCHANGED <<cursor, review, gen, exit, inputs, store, made, ckptVars, outVars, auxVars>>

Render ==
  /\ pc = "render"
  /\ rendered' = TRUE /\ final' = made
  /\ pc' = "clearJson"
  /\ UNCHANGED <<manifest, cursor, review, gen, exit, inputs, store, logVars, made, ckptVars, auxVars>>

\* clear_checkpoint, one file after the other.
ClearJson ==
  /\ pc = "clearJson"
  /\ json' = None
  /\ pc' = "clearNpz"
  /\ UNCHANGED <<cursor, review, gen, exit, inputs, store, logVars, made, npz, outVars, auxVars>>

ClearNpz ==
  /\ pc = "clearNpz"
  /\ npz' = Absent
  /\ pc' = "exit"
  /\ UNCHANGED <<cursor, review, gen, exit, inputs, store, logVars, made, json, outVars, auxVars>>

\* The finally clause of pipeline.run follows; pipeline.resume has none.
Ends == pc' = IF gen = 1 /\ pc # "finally" THEN "finally" ELSE "off"

\* _exit_code_from_kpis
Finish ==
  /\ pc = "exit"
  /\ \E code \in {"ok", "kpi", "review"} :
       (code = "review") = review /\ exit' = code
  /\ Ends /\ done' = (gen > 1)
  /\ UNCHANGED <<cursor, review, gen, inputs, store, logVars, made, ckptVars, outVars, lost, faults>>

\* Only a FaceSwapError sets exit_code; anything else raised leaves it at OK.
WriteManifest ==
  /\ pc = "finally"
  /\ manifest' \in CASE exit = "interrupted" -> {"ok"}
                      [] exit = "error" -> {"ok", "error"}
                      [] OTHER -> {exit}
  /\ pc' = "off" /\ done' = (exit \in {"ok", "kpi", "review"})
  /\ UNCHANGED <<cursor, review, gen, exit, inputs, store, logVars, made, ckptVars, rendered, final,
                 lost, faults>>

-------------------------------------------------------------------------------
(* The end of a process before its time *)

LogIsOpen == pc \in {"frame", "png", "json", "npz"}

\* The log is closed on the way out.
Stops ==
  /\ pc # "off" /\ faults < MaxFaults
  /\ exit' \in Faults \ {"killed"}
  /\ IF LogIsOpen THEN rows' = rows \o buf /\ buf' = <<>> ELSE UNCHANGED logVars
  /\ Ends /\ faults' = faults + 1
  /\ UNCHANGED <<cursor, review, gen, inputs, store, made, ckptVars, outVars, done, lost>>

\* A picture that was being written is unusable.
Killed ==
  /\ pc # "off" /\ faults < MaxFaults
  /\ "killed" \in Faults
  /\ exit' = "killed"
  /\ \/ UNCHANGED made
     \/ pc = "png" /\ made' = [made EXCEPT ![cursor] = None]
  /\ lost' = lost \cup {buf[i].frame : i \in DOMAIN buf}
  /\ buf' = <<>>
  /\ pc' = "off" /\ faults' = faults + 1
  /\ UNCHANGED <<cursor, review, gen, inputs, store, rows, ckptVars, outVars, done>>

\* While no process runs the operator exchanges an input file, or puts it back.
ChangeInput ==
  /\ pc = "off" /\ gen > 0
  /\ \E p \in Changes : inputs' = [inputs EXCEPT ![p] = 1 - @]
  /\ UNCHANGED <<procVars, store, logVars, made, ckptVars, outVars, auxVars>>

-------------------------------------------------------------------------------
Step == \/ Extract \/ OpenLog \/ ProcessFrame \/ SavePicture \/ ReplaceJson \/ ReplaceNpz
        \/ CloseLog \/ Render \/ ClearJson \/ ClearNpz \/ Finish \/ WriteManifest

Next == Run \/ Resume \/ ResumeRefused \/ Step \/ Stops \/ Killed \/ ChangeInput

Spec == Init /\ [][Next]_vars

\* A process gets on with its work, and the operator resumes a run that can be resumed.
FairSpec == Spec /\ WF_vars(Run \/ Step) /\ SF_vars(Resume)

-------------------------------------------------------------------------------
(* Properties *)

Rows == [frame : Frames, review : BOOLEAN, gen : Nat]

\* Every variable has its type; in particular a checkpoint never points beyond the end of
\* the video (runner.py:579).
TypeOK ==
  /\ pc \in {"off", "extract", "open", "frame", "png", "json", "npz",
             "render", "clearJson", "clearNpz", "exit", "finally"}
  /\ cursor \in 0 .. NumFrames /\ review \in BOOLEAN /\ gen \in Nat
  /\ exit \in AllFaults \cup {"none", "ok", "kpi", "review", "refused"}
  /\ inputs \in Inputs
  /\ store \in {"none", "partial", "full"}
  /\ rows \in Seq(Rows) /\ buf \in Seq(Rows)
  /\ made \in [Frames -> Inputs \cup {None}]
  /\ json \in [next : 1 .. NumFrames, prints : [Stored -> {Absent, 0, 1}]] \cup {None}
  /\ npz \in {Absent} \cup 1 .. NumFrames
  /\ rendered \in BOOLEAN /\ final \in [Frames -> Inputs \cup {None}]
  /\ manifest \in {"absent", "none", "ok", "kpi", "review", "error"}
  /\ done \in BOOLEAN /\ lost \subseteq Frames /\ faults \in 0 .. MaxFaults

\* Whatever happened before, the rendered video has every frame of the source, none of them
\* a picture that a kill left half written (runner.py:171, 567).
OutputComplete == rendered => \A f \in Frames : final[f] # None

\* The rendered video was made from one version of the source video, of the configuration
\* and of the swapper: a resume with another one is refused (checkpoint.py:156), however
\* often an input is exchanged and put back between the processes of a run. Of no other
\* input this is so: a video may show two pairs of reference pictures.
Guarded == {"video", "config", "swap"}
OutputOfOneInput ==
  rendered =>
    \A f, g \in Frames :
      final[f] # None /\ final[g] # None => \A p \in Guarded : final[f][p] = final[g][p]

\* Every frame the process has passed, or was told by the checkpoint to skip, has a row in
\* quality.jsonl, or lost it in the buffer of a process that was killed: no resumed run
\* starts the log anew (runner.py:163).
InLoop == pc \in {"frame", "png", "json", "npz", "render"}
RowsKept ==
  InLoop => \A f \in 0 .. cursor - 1 :
              f \in lost \/ \E log \in {rows, buf} : \E i \in DOMAIN log : log[i].frame = f

\* What is reported of a run: the exit code tells of every frame of the last process that
\* needs a review (of the frames of earlier ones it does not: had_manual_review is not part
\* of a checkpoint). The manifest is written by the first process only (pipeline.py:184):
\* a verdict in it is that of a run which was never resumed and has its video, and at its
\* end no frame needs a review unless the manifest says so.
VerdictOfOneProcess ==
  /\ exit \in {"ok", "kpi"} => \A i \in DOMAIN rows : rows[i].review => rows[i].gen < gen
  /\ manifest \in {"kpi", "review"} => rendered /\ gen = 1
  /\ done /\ gen = 1 => (manifest = "review" <=> \E i \in DOMAIN rows : rows[i].review)

\* Once a process has come to its end, a resume is refused and nothing is written any more
\* (checkpoint.py:178).
FinishedIsFinal == [][done => UNCHANGED <<pc, store, logVars, made, outVars>>]_vars

\* A run that has a checkpoint can be brought to its end, whatever is killed and when, as
\* long as its inputs are left alone.
Recovers == (Loadable /\ Verified) ~> (done \/ rendered \/ (json # None /\ ~Verified))
================================================================================
