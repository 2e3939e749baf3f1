---------------------------- MODULE ResumeRunProofs ----------------------------
(***************************************************************************)
(* Proofs about ResumeRun, for any length of the video, any checkpoint     *)
(* interval and any number of faults: what the rendered video is made of,  *)
(* what the quality log keeps, what the exit code and the manifest may     *)
(* say, and that a finished run stays as it is.                            *)
(***************************************************************************)
EXTENDS ResumeRun, TLAPS

\* Where a process is when it passes a frame, and what a run ends with.
Codes == {"ok", "kpi", "review"}

Places ==
  /\ pc \in {"png", "json", "npz"} => cursor < NumFrames
  /\ pc = "render" => cursor = NumFrames
  /\ gen = 0 => pc = "off" /\ json = None /\ rows = <<>>
  /\ pc = "extract" => json = None /\ rows = <<>> /\ cursor = 0
  /\ pc = "finally" => exit \in {"interrupted", "error"} \cup Codes
  /\ ~LogIsOpen => buf = <<>>

TypeInv == TypeOK /\ Places

\* The first n frames have pictures made from this version of what a resume checks.
Agree(a, b) == \A p \in Guarded : a[p] = b[p]
Sound(n, in) == \A f \in 0 .. n - 1 : made[f] # None /\ Agree(made[f], in)

\* A checkpoint, and the process that goes on from it, vouch for the frames before them; a
\* process never touches a picture the checkpoint vouches for.
Ahead ==
  json # None =>
    /\ pc \in {"open", "frame", "png", "json"} => json.next <= cursor
    /\ pc = "npz" => json.next <= cursor + 1
Pictures ==
  /\ json # None => Sound(json.next, json.prints)
  /\ pc \in {"open", "frame", "png", "json", "npz", "render"} => Sound(cursor, inputs)
  /\ pc \in {"json", "npz"} => Sound(cursor + 1, inputs)

\* The frames with a row, or whose row a kill has taken.
FramesIn(log) == {log[i].frame : i \in DOMAIN log}
Logged == FramesIn(rows) \cup FramesIn(buf) \cup lost
Log ==
  /\ json # None => 0 .. json.next - 1 \subseteq Logged
  /\ pc \in {"open", "frame", "png", "json", "npz", "render"} => 0 .. cursor - 1 \subseteq Logged
  /\ pc \in {"png", "json", "npz"} => cursor \in Logged

\* The flag of the process tells of its own rows.
Reviewed(log) == \E i \in DOMAIN log : log[i].review
Flag ==
  /\ \A i \in DOMAIN rows : rows[i].gen <= gen
  /\ \A i \in DOMAIN buf : buf[i].gen = gen
  /\ pc \notin {"off", "finally"} =>
       /\ exit = "none"
       /\ \A i \in DOMAIN rows : rows[i].gen = gen /\ rows[i].review => review
       /\ \A i \in DOMAIN buf : buf[i].review => review
       /\ pc \in {"extract", "open"} => ~review
       /\ gen = 1 /\ review => Reviewed(rows) \/ Reviewed(buf)
       /\ gen = 1 => \A i \in DOMAIN rows : rows[i].gen = 1

\* A process that has rendered clears the checkpoint before it ends, so nobody resumes.
Ended ==
  /\ pc \in {"clearJson", "clearNpz", "exit"} => rendered
  /\ pc \in {"clearNpz", "exit"} => json = None
  /\ pc = "finally" => gen = 1
  /\ pc = "finally" /\ exit \in Codes =>
       /\ rendered /\ json = None
       /\ exit = "review" <=> Reviewed(rows)
  /\ manifest \in {"kpi", "review"} => pc = "off" /\ gen = 1 /\ rendered /\ json = None
  /\ done => pc = "off" /\ gen > 0 /\ json = None


-------------------------------------------------------------------------------
(* Types *)

\* The logs after a row is added, or after one is written out to the other.
LEMMA RowAdded ==
  ASSUME NEW log \in Seq(Rows), NEW row \in Rows
  PROVE  /\ Append(log, row) \in Seq(Rows) /\ <<row>> \in Seq(Rows)
         /\ FramesIn(Append(log, row)) = FramesIn(log) \cup {row.frame}
         /\ FramesIn(<<row>>) = {row.frame}
         /\ \A i \in DOMAIN Append(log, row) :
              Append(log, row)[i] = row \/ (i \in DOMAIN log /\ Append(log, row)[i] = log[i])
         /\ Reviewed(Append(log, row)) <=> Reviewed(log) \/ row.review
         /\ Reviewed(<<row>>) <=> row.review
<1>1. /\ DOMAIN Append(log, row) = DOMAIN log \cup {Len(log) + 1}
      /\ Append(log, row)[Len(log) + 1] = row /\ Len(log) + 1 \notin DOMAIN log
      /\ \A i \in DOMAIN log : Append(log, row)[i] = log[i]
  OBVIOUS
<1>2. DOMAIN <<row>> = {1} /\ <<row>>[1] = row
  OBVIOUS
<1>3. Append(log, row) \in Seq(Rows) /\ <<row>> \in Seq(Rows)
  OBVIOUS
<1> DEFINE app == Append(log, row)
           one == <<row>>
<1> HIDE DEF app, one
<1>4. FramesIn(app) = FramesIn(log) \cup {row.frame}
  BY <1>1 DEF FramesIn, app
<1>5. FramesIn(one) = {row.frame} /\ (Reviewed(one) <=> row.review)
  BY <1>2 DEF FramesIn, Reviewed, one
<1>6. Reviewed(app) <=> Reviewed(log) \/ row.review
  BY <1>1 DEF Reviewed, app
<1> QED
  BY <1>1, <1>3, <1>4, <1>5, <1>6 DEF app, one

LEMMA LogsJoined ==
  ASSUME NEW a \in Seq(Rows), NEW b \in Seq(Rows)
  PROVE  /\ a \o b \in Seq(Rows)
         /\ FramesIn(a \o b) = FramesIn(a) \cup FramesIn(b)
         /\ \A i \in DOMAIN (a \o b) :
              \/ i \in DOMAIN a /\ (a \o b)[i] = a[i]
              \/ \E j \in DOMAIN b : (a \o b)[i] = b[j]
         /\ Reviewed(a \o b) <=> Reviewed(a) \/ Reviewed(b)
<1>1. /\ \A i \in DOMAIN a : i \in DOMAIN (a \o b) /\ (a \o b)[i] = a[i]
      /\ \A j \in DOMAIN b : Len(a) + j \in DOMAIN (a \o b) /\ (a \o b)[Len(a) + j] = b[j]
  OBVIOUS
<1>2. \A i \in DOMAIN (a \o b) : \/ i \in DOMAIN a
                                 \/ i - Len(a) \in DOMAIN b /\ (a \o b)[i] = b[i - Len(a)]
  OBVIOUS
<1>3. a \o b \in Seq(Rows)
  OBVIOUS
<1> DEFINE ab == a \o b
<1> HIDE DEF ab
<1>4. \A i \in DOMAIN ab : (i \in DOMAIN a /\ ab[i] = a[i]) \/ \E j \in DOMAIN b : ab[i] = b[j]
  BY <1>1, <1>2 DEF ab
<1>5. FramesIn(ab) = FramesIn(a) \cup FramesIn(b)
  <2>1. FramesIn(ab) \subseteq FramesIn(a) \cup FramesIn(b)
    BY <1>4 DEF FramesIn
  <2>2. FramesIn(a) \subseteq FramesIn(ab) /\ FramesIn(b) \subseteq FramesIn(ab)
    BY <1>1 DEF FramesIn, ab
  <2> QED
    BY <2>1, <2>2
<1>6. Reviewed(ab) <=> Reviewed(a) \/ Reviewed(b)
  <2>1. Reviewed(ab) => Reviewed(a) \/ Reviewed(b)
    BY <1>4 DEF Reviewed
  <2>2. Reviewed(a) \/ Reviewed(b) => Reviewed(ab)
    BY <1>1 DEF Reviewed, ab
  <2> QED
    BY <2>1, <2>2
<1> QED
  BY <1>3, <1>4, <1>5, <1>6 DEF ab

LEMMA InitTypeInv == Init => TypeInv
<1> SUFFICES ASSUME Init PROVE TypeInv
  OBVIOUS
<1>1. inputs \in Inputs /\ 0 \in 0 .. NumFrames /\ 0 \in 0 .. MaxFaults
  BY EngineAssumption DEF Init, Inputs
<1>2. made \in [Frames -> Inputs \cup {None}] /\ final \in [Frames -> Inputs \cup {None}]
  BY DEF Init
<1>3. rows \in Seq(Rows) /\ buf \in Seq(Rows)
  BY DEF Init
<1>4. Places
  BY DEF Init, Places, Codes, LogIsOpen
<1> QED
  BY <1>1, <1>2, <1>3, <1>4 DEF Init, TypeInv, TypeOK, Absent, AllFaults

\* A checkpoint can hold the fingerprints of any inputs. Of what is guarded they tell the
\* version, so what a resume accepts is the version they were taken of.
LEMMA PrintsOfInputs ==
  ASSUME NEW in \in Inputs
  PROVE  /\ Prints(in) \in [Stored -> {Absent, 0, 1}]
         /\ Agree(Prints(in), in)
         /\ Verified /\ in = inputs => Agree(json.prints, inputs)
<1>1. \A p \in Stored : p \in Parts /\ in[p] \in {0, 1}
  BY DEF Inputs, Stored
<1>2. \A r \in Roles : ModelVersions(in)[r] \in {Absent, in[r]} /\ r \in Stored
  BY DEF ModelVersions, Roles, Stored, Parts
<1>3. Prints(in) \in [Stored -> {Absent, 0, 1}]
  BY <1>1, <1>2 DEF Prints
<1>4. \A p \in Guarded : p \in Stored \ {"refs"} /\ Prints(in)[p] = in[p]
  BY DEF Guarded, Stored, Parts, Roles, Prints, ModelVersions
<1> QED
  BY <1>3, <1>4 DEF Agree, Verified

\* The conjuncts of TypeOK, by what changes together.
ProcType ==
  /\ pc \in {"off", "extract", "open", "frame", "png", "json", "npz",
             "render", "clearJson", "clearNpz", "exit", "finally"}
  /\ cursor \in 0 .. NumFrames /\ review \in BOOLEAN /\ gen \in Nat
  /\ exit \in AllFaults \cup {"none", "ok", "kpi", "review", "refused"}
LogType == rows \in Seq(Rows) /\ buf \in Seq(Rows)
CkptType == /\ json \in [next : 1 .. NumFrames, prints : [Stored -> {Absent, 0, 1}]] \cup {None}
            /\ npz \in {Absent} \cup 1 .. NumFrames
PictureType == /\ made \in [Frames -> Inputs \cup {None}]
               /\ final \in [Frames -> Inputs \cup {None}]
RestType == /\ store \in {"none", "partial", "full"} /\ rendered \in BOOLEAN
            /\ manifest \in {"absent", "none", "ok", "kpi", "review", "error"}
            /\ done \in BOOLEAN
LostType == lost \subseteq Frames /\ faults \in 0 .. MaxFaults

TypeParted == /\ ProcType /\ LogType /\ CkptType /\ PictureType /\ RestType /\ LostType
              /\ inputs \in Inputs /\ Places

LEMMA TypeParts == (TypeInv <=> TypeParted) /\ (TypeInv <=> TypeParted)'
  BY DEF TypeInv, TypeParted, TypeOK, ProcType, LogType, CkptType, PictureType, RestType, LostType

LEMMA TypeInvStep == TypeInv /\ [Next]_vars => TypeInv'
<1> SUFFICES ASSUME TypeInv, [Next]_vars PROVE TypeParted'
  BY TypeParts
<1> USE DEF procVars, logVars, ckptVars, outVars, auxVars, TypeParted
<1>t. ProcType /\ LogType /\ CkptType /\ PictureType /\ RestType /\ LostType /\ inputs \in Inputs
      /\ Places
  BY TypeParts DEF TypeParted
<1>same. /\ UNCHANGED <<rows, buf>> => LogType'
         /\ UNCHANGED <<json, npz>> => CkptType'
         /\ UNCHANGED <<made, final>> => PictureType'
         /\ UNCHANGED <<store, rendered, manifest, done>> => RestType'
         /\ UNCHANGED <<lost, faults>> => LostType'
         /\ UNCHANGED inputs => (inputs \in Inputs)'
         /\ UNCHANGED <<pc, cursor, review, gen, exit>> => ProcType'
         /\ UNCHANGED <<pc, cursor, gen, exit, json, rows, buf>> => Places'
  BY <1>t DEF LogType, CkptType, PictureType, RestType, LostType, ProcType, Places, Codes, LogIsOpen
<1>1. CASE Run
  <2>1. ProcType' /\ RestType'
    <3>1. review' \in BOOLEAN
      BY <1>1 DEF Run
    <3>2. cursor' \in 0 .. NumFrames /\ gen' \in Nat
      BY <1>1, EngineAssumption DEF Run
    <3> QED
      BY <1>1, <1>t, <3>1, <3>2 DEF Run, ProcType, RestType
  <2>2. Places'
    BY <1>1, <1>t DEF Run, Places, Codes, LogIsOpen
  <2> QED
    BY <1>1, <1>same, <2>1, <2>2 DEF Run
<1>2. CASE Resume
  <2>1. json.next \in 1 .. NumFrames
    BY <1>2, <1>t DEF Resume, Loadable, CkptType
  <2>2. ProcType' /\ gen' # 0
    <3>1. review' \in BOOLEAN
      BY <1>2 DEF Resume
    <3>2. cursor' \in 0 .. NumFrames /\ gen' \in Nat /\ gen' # 0
      BY <1>2, <2>1, <1>t DEF Resume, ProcType
    <3> QED
      BY <1>2, <3>1, <3>2 DEF Resume, ProcType
  <2>3. Places'
    BY <1>2, <2>2, <1>t DEF Resume, Places, Codes, LogIsOpen
  <2> QED
    BY <1>2, <2>2, <2>3, <1>same DEF Resume
<1>3. CASE ResumeRefused
  <2>1. ProcType' /\ Places'
    BY <1>3, <1>t DEF ResumeRefused, ProcType, Places, Codes, LogIsOpen
  <2> QED
    BY <1>3, <2>1, <1>same DEF ResumeRefused
<1>4. CASE Extract
  <2>1. ProcType' /\ Places' /\ RestType'
    BY <1>4, <1>t DEF Extract, ProcType, Places, Codes, LogIsOpen, RestType
  <2> QED
    BY <1>4, <2>1, <1>same DEF Extract
<1>5. CASE OpenLog
  <2>1. ProcType' /\ Places' /\ LogType'
    BY <1>5, <1>t DEF OpenLog, Opened, ProcType, Places, Codes, LogIsOpen, LogType
  <2> QED
    BY <1>5, <2>1, <1>same DEF OpenLog
<1>6. CASE ProcessFrame
  <2>1. PICK outcome \in BOOLEAN :
          /\ review' = (review \/ outcome)
          /\ \/ /\ buf' = Append(buf, [frame |-> cursor, review |-> outcome, gen |-> gen])
                /\ UNCHANGED rows
             \/ /\ rows' = rows \o buf
                /\ buf' = <<[frame |-> cursor, review |-> outcome, gen |-> gen]>>
    BY <1>6 DEF ProcessFrame, ReviewSoFar
  <2> DEFINE row == [frame |-> cursor, review |-> outcome, gen |-> gen]
  <2>2. row \in Rows
    BY <1>6, <1>t, EngineAssumption DEF ProcessFrame, ProcType, Rows, Frames
  <2> HIDE DEF row
  <2>3. (buf' = Append(buf, row) /\ UNCHANGED rows) \/ (rows' = rows \o buf /\ buf' = <<row>>)
    BY <2>1 DEF row
  <2>4. LogType'
    <3>1. rows \in Seq(Rows) /\ buf \in Seq(Rows)
      BY <1>t DEF LogType
    <3>2. Append(buf, row) \in Seq(Rows)
      BY <2>2, <3>1, RowAdded
    <3>3. rows \o buf \in Seq(Rows) /\ <<row>> \in Seq(Rows)
      BY <2>2, <3>1, LogsJoined
    <3> QED
      BY <2>3, <3>1, <3>2, <3>3 DEF LogType
  <2>5. ProcType' /\ Places'
    BY <1>6, <2>1, <1>t DEF ProcessFrame, ProcType, Places, Codes, LogIsOpen
  <2> QED
    BY <1>6, <2>4, <2>5, <1>same DEF ProcessFrame
<1>7. CASE SavePicture
  <2>1. PictureType'
    BY <1>7, <1>t DEF SavePicture, PictureType
  <2>2. ProcType' /\ Places'
    BY <1>7, <1>t, EngineAssumption DEF SavePicture, ProcType, Places, Codes, LogIsOpen
  <2> QED
    BY <1>7, <2>1, <2>2, <1>same DEF SavePicture
<1>8. CASE ReplaceJson
  <2>1. cursor + 1 \in 1 .. NumFrames
    BY <1>8, <1>t, EngineAssumption DEF ReplaceJson, ProcType, Places
  <2>2. CkptType'
    <3>1. Prints(inputs) \in [Stored -> {Absent, 0, 1}]
      BY <1>t, PrintsOfInputs
    <3> QED
      BY <1>8, <2>1, <3>1, <1>t DEF ReplaceJson, FrameAfter, CkptType
  <2>3. ProcType' /\ Places'
    BY <1>8, <1>t DEF ReplaceJson, ProcType, Places, Codes, LogIsOpen
  <2> QED
    BY <1>8, <2>2, <2>3, <1>same DEF ReplaceJson
<1>9. CASE ReplaceNpz
  <2>1. cursor + 1 \in 1 .. NumFrames
    BY <1>9, <1>t, EngineAssumption DEF ReplaceNpz, ProcType, Places
  <2>2. CkptType' /\ ProcType' /\ Places'
    BY <1>9, <2>1, <1>t, EngineAssumption
    DEF ReplaceNpz, FrameAfter, CkptType, ProcType, Places, Codes, LogIsOpen
  <2> QED
    BY <1>9, <2>2, <1>same DEF ReplaceNpz
<1>10. CASE CloseLog
  <2>1. LogType'
    BY <1>10, <1>t, LogsJoined DEF CloseLog, LogType
  <2>2. ProcType' /\ Places'
    BY <1>10, <1>t, EngineAssumption DEF CloseLog, ProcType, Places, Codes, LogIsOpen
  <2> QED
    BY <1>10, <2>1, <2>2, <1>same DEF CloseLog
<1>11. CASE Render
  <2>1. ProcType' /\ Places' /\ PictureType' /\ RestType'
    BY <1>11, <1>t DEF Render, ProcType, Places, Codes, LogIsOpen, PictureType, RestType
  <2> QED
    BY <1>11, <2>1, <1>same DEF Render
<1>12. CASE ClearJson \/ ClearNpz
  <2>1. ProcType' /\ Places' /\ CkptType'
    BY <1>12, <1>t DEF ClearJson, ClearNpz, ProcType, Places, Codes, LogIsOpen, CkptType
  <2> QED
    BY <1>12, <2>1, <1>same DEF ClearJson, ClearNpz
<1>13. CASE Finish
  <2>1. ProcType' /\ Places' /\ RestType'
    BY <1>13, <1>t DEF Finish, Ends, ProcType, Places, Codes, LogIsOpen, RestType
  <2> QED
    BY <1>13, <2>1, <1>same DEF Finish
<1>14. CASE WriteManifest
  <2>1. exit \in {"interrupted", "error", "ok", "kpi", "review"}
    BY <1>14, <1>t DEF WriteManifest, Places, Codes
  <2>2. manifest' \in {"ok", "error", "kpi", "review"}
    BY <1>14, <2>1 DEF WriteManifest
  <2>3. ProcType' /\ Places'
    BY <1>14, <1>t DEF WriteManifest, ProcType, Places, Codes, LogIsOpen
  <2>4. RestType'
    BY <1>14, <1>t, <2>2 DEF WriteManifest, RestType
  <2> QED
    BY <1>14, <2>3, <2>4, <1>same DEF WriteManifest
<1>15. CASE Stops
  <2>1. LogType' /\ buf' = <<>>
    <3>1. CASE LogIsOpen
      <4>1. rows' = rows \o buf /\ buf' = <<>>
        BY <1>15, <3>1 DEF Stops
      <4> QED
        BY <4>1, <1>t, LogsJoined DEF LogType
    <3>2. CASE ~LogIsOpen
      BY <1>15, <1>t, <3>2 DEF Stops, LogType, Places
    <3> QED
      BY <3>1, <3>2
  <2>2. exit' \in {"interrupted", "error"} /\ pc' \in {"off", "finally"} /\ (gen # 1 => pc' = "off")
        /\ UNCHANGED <<cursor, review, gen, lost, json>> /\ faults' = faults + 1 /\ faults < MaxFaults
        /\ gen # 0
    BY <1>15, <1>t, EngineAssumption DEF Stops, Ends, AllFaults, Places
  <2>3. ProcType' /\ LostType'
    BY <2>2, <1>t, EngineAssumption DEF ProcType, LostType, AllFaults
  <2>4. Places'
    BY <1>t, <2>1, <2>2 DEF Places, Codes, LogIsOpen
  <2> QED
    BY <1>15, <2>1, <2>3, <2>4, <1>same DEF Stops
<1>16. CASE Killed
  <2>1. LostType'
    <3>1. \A i \in DOMAIN buf : buf[i] \in Rows
      BY <1>t DEF LogType
    <3>2. \A i \in DOMAIN buf : buf[i].frame \in Frames
      BY <3>1 DEF Rows
    <3> QED
      BY <1>16, <1>t, <3>2, EngineAssumption DEF Killed, LostType
  <2>2. PictureType'
    BY <1>16, <1>t DEF Killed, PictureType
  <2>3. ProcType' /\ LogType' /\ Places'
    BY <1>16, <1>t DEF Killed, ProcType, LogType, Places, Codes, LogIsOpen, AllFaults
  <2> QED
    BY <1>16, <2>1, <2>2, <2>3, <1>same DEF Killed
<1>17. CASE ChangeInput
  <2>1. PICK p \in Changes : inputs' = [inputs EXCEPT ![p] = 1 - @]
    BY <1>17 DEF ChangeInput
  <2>2. inputs' \in Inputs
    <3>1. \A q \in Parts : inputs[q] \in {0, 1} /\ 1 - inputs[q] \in {0, 1}
      BY <1>t DEF Inputs
    <3> QED
      BY <2>1, <3>1, <1>t DEF Inputs
  <2> QED
    BY <1>17, <2>2, <1>same DEF ChangeInput
<1>18. CASE UNCHANGED vars
  BY <1>18, <1>same DEF vars
<1> QED
  BY <1>1, <1>2, <1>3, <1>4, <1>5, <1>6, <1>7, <1>8, <1>9, <1>10, <1>11, <1>12, <1>13, <1>14, <1>15,
     <1>16, <1>17, <1>18 DEF Next, Step

\* Every variable keeps its type; a checkpoint never points beyond the end of the video.
THEOREM TypeCorrect == Spec => []TypeOK
<1>1. TypeInv => TypeOK
  BY DEF TypeInv
<1> QED
  BY <1>1, InitTypeInv, TypeInvStep, PTL DEF Spec

-------------------------------------------------------------------------------
(* What the rendered video is made of *)

PictureInv == Ahead /\ Pictures /\ OutputComplete /\ OutputOfOneInput

\* A step that leaves pictures, checkpoint and process alone, or just ends the process.
LEMMA PicturesKept ==
  ASSUME PictureInv, UNCHANGED <<made, json, rendered, final>>,
         UNCHANGED <<pc, cursor, inputs>> \/ pc' \in {"off", "finally", "extract", "exit"}
  PROVE  PictureInv'
<1>1. OutputComplete' /\ OutputOfOneInput'
  BY DEF PictureInv, OutputComplete, OutputOfOneInput
<1>2. \A n, in : Sound(n, in)' <=> Sound(n, in)
  BY DEF Sound
<1>3. CASE UNCHANGED <<pc, cursor, inputs>>
  BY <1>1, <1>3 DEF PictureInv, Ahead, Pictures, Sound
<1>4. CASE pc' \in {"off", "finally", "extract", "exit"}
  BY <1>1, <1>4 DEF PictureInv, Ahead, Pictures, Sound
<1> QED
  BY <1>3, <1>4

LEMMA PictureStep == TypeInv /\ PictureInv /\ [Next]_vars => PictureInv'
<1> SUFFICES ASSUME TypeInv, PictureInv, [Next]_vars PROVE PictureInv'
  OBVIOUS
<1> USE DEF procVars, logVars, ckptVars, outVars, auxVars
<1>t. /\ cursor \in Nat /\ cursor <= NumFrames /\ NumFrames \in Nat /\ inputs \in Inputs
      /\ made \in [Frames -> Inputs \cup {None}]
      /\ json # None => json.next \in 1 .. NumFrames
      /\ pc \in {"png", "json", "npz"} => cursor \in Frames
      /\ Frames = 0 .. NumFrames - 1
  BY TypeParts, EngineAssumption DEF TypeParted, ProcType, PictureType, CkptType, Places, Frames
<1>out. UNCHANGED <<rendered, final>> => OutputComplete' /\ OutputOfOneInput'
  BY DEF PictureInv, OutputComplete, OutputOfOneInput
<1>none. inputs # None
  BY <1>t DEF Inputs, None, Parts
<1>1. CASE Run \/ ResumeRefused \/ Finish \/ WriteManifest \/ Stops \/ UNCHANGED vars
  BY <1>1, PicturesKept DEF Run, ResumeRefused, Finish, WriteManifest, Stops, Ends, vars
<1>2. CASE Resume
  <2>1. /\ json # None /\ Agree(json.prints, inputs) /\ cursor' = json.next
        /\ pc' = "open" /\ UNCHANGED <<inputs, made, json, rendered, final>>
    BY <1>2, <1>t, PrintsOfInputs DEF Resume, Loadable
  <2>2. Sound(json.next, json.prints)
    BY <2>1 DEF PictureInv, Pictures
  <2>3. Sound(json.next, inputs)
    BY <2>1, <2>2 DEF Sound, Agree
  <2> QED
    BY <2>1, <2>2, <2>3, <1>out, <1>t DEF PictureInv, Ahead, Pictures, Sound
<1>3. CASE Extract
  <2>1. json = None /\ cursor = 0 /\ UNCHANGED <<cursor, inputs, made, json, rendered, final>>
        /\ pc' \in {"extract", "open"}
    BY <1>3, TypeParts DEF Extract, TypeParted, Places
  <2> QED
    BY <2>1, <1>out DEF PictureInv, Ahead, Pictures, Sound
<1>4. CASE OpenLog \/ ProcessFrame \/ CloseLog
  <2>1. /\ UNCHANGED <<cursor, inputs, made, json, rendered, final>>
        /\ pc \in {"open", "frame"} /\ pc' \in {"frame", "png", "render"}
    BY <1>4 DEF OpenLog, ProcessFrame, CloseLog
  <2> QED
    BY <2>1, <1>out DEF PictureInv, Ahead, Pictures, Sound
<1>5. CASE SavePicture
  <2>1. /\ cursor \in Frames /\ made' = [made EXCEPT ![cursor] = inputs]
        /\ \/ pc' = "json" /\ cursor' = cursor
           \/ pc' = "frame" /\ cursor' = cursor + 1
        /\ UNCHANGED <<inputs, json, rendered, final>>
    BY <1>5, <1>t DEF SavePicture
  <2>2. made'[cursor] = inputs /\ \A f \in Frames : f # cursor => made'[f] = made[f]
    BY <2>1, <1>t
  <2>3. Sound(cursor, inputs) /\ (json # None => json.next <= cursor /\ Sound(json.next, json.prints))
    BY <1>5 DEF PictureInv, Ahead, Pictures, SavePicture
  <2>4. \A f \in 0 .. cursor : made'[f] # None /\ Agree(made'[f], inputs)
    <3>1. Agree(inputs, inputs)
      BY DEF Agree
    <3> QED
      BY <2>1, <2>2, <2>3, <3>1, <1>none, <1>t DEF Sound
  <2>5. json # None => \A f \in 0 .. json.next - 1 : f \in Frames /\ f # cursor
    BY <2>3, <1>t
  <2>6. Ahead' /\ (json' # None => Sound(json.next, json.prints)')
    BY <2>1, <2>2, <2>3, <2>5, <1>t DEF Ahead, Sound
  <2>7. ASSUME NEW n \in Nat, n <= cursor + 1
        PROVE  \A f \in 0 .. n - 1 : made'[f] # None /\ Agree(made'[f], inputs)
    BY <2>4, <2>7, <1>t
  <2>8. UNCHANGED inputs /\ cursor' \in Nat /\ cursor' <= cursor + 1
        /\ (pc' = "json" => cursor' + 1 \in Nat /\ cursor' + 1 <= cursor + 1)
    BY <2>1, <1>t
  <2>9. Pictures'
    BY <2>1, <2>6, <2>7, <2>8 DEF Pictures, Sound
  <2> QED
    BY <2>1, <2>6, <2>9, <1>out DEF PictureInv
<1>6. CASE ReplaceJson
  <2>1. /\ json'.next = cursor + 1 /\ json'.prints = Prints(inputs) /\ pc = "json" /\ pc' = "npz"
        /\ UNCHANGED <<cursor, inputs, made, rendered, final>>
    BY <1>6 DEF ReplaceJson, FrameAfter
  <2>2. Sound(cursor, inputs) /\ Sound(cursor + 1, inputs)
    BY <2>1 DEF PictureInv, Pictures
  <2>3. Sound(json.next, json.prints)' /\ Sound(cursor, inputs)' /\ Sound(cursor + 1, inputs)'
    <3>1. Agree(inputs, Prints(inputs))
      BY <1>t, PrintsOfInputs DEF Agree
    <3> QED
      BY <2>1, <2>2, <3>1 DEF Sound, Agree
  <2>4. Ahead' /\ Pictures'
    BY <2>1, <2>3, <1>t DEF Ahead, Pictures
  <2> QED
    BY <2>1, <2>4, <1>out DEF PictureInv
<1>7. CASE ReplaceNpz
  <2>1. /\ pc = "npz" /\ pc' = "frame" /\ cursor' = cursor + 1
        /\ UNCHANGED <<inputs, json, made, rendered, final>>
    BY <1>7 DEF ReplaceNpz
  <2> QED
    BY <2>1, <1>out, <1>t DEF PictureInv, Ahead, Pictures, Sound
<1>8. CASE Render
  <2>1. /\ cursor = NumFrames /\ Sound(cursor, inputs) /\ final' = made /\ pc' = "clearJson"
        /\ UNCHANGED <<cursor, inputs, json, made>>
    BY <1>8, TypeParts DEF Render, TypeParted, Places, PictureInv, Pictures
  <2>2. \A f \in Frames : made[f] # None /\ Agree(made[f], inputs)
    BY <2>1, <1>t DEF Sound
  <2>3. OutputComplete' /\ OutputOfOneInput'
    BY <2>1, <2>2 DEF OutputComplete, OutputOfOneInput, Agree
  <2> QED
    BY <2>1, <2>3 DEF PictureInv, Ahead, Pictures, Sound
<1>9. CASE ClearJson \/ ClearNpz
  <2>1. /\ pc' \in {"clearNpz", "exit"} /\ (json' = None \/ UNCHANGED json)
        /\ UNCHANGED <<made, rendered, final>>
    BY <1>9 DEF ClearJson, ClearNpz
  <2> QED
    BY <2>1, <1>out DEF PictureInv, Ahead, Pictures, Sound
<1>10. CASE Killed
  <2>1. /\ pc' = "off" /\ UNCHANGED <<json, rendered, final>>
        /\ UNCHANGED made \/ (pc = "png" /\ made' = [made EXCEPT ![cursor] = None])
    BY <1>10 DEF Killed
  <2>2. json # None => Sound(json.next, json.prints)'
    <3>1. CASE UNCHANGED made
      BY <2>1, <3>1 DEF PictureInv, Pictures, Sound
    <3>2. CASE pc = "png" /\ made' = [made EXCEPT ![cursor] = None]
      <4>1. json # None => json.next <= cursor /\ Sound(json.next, json.prints)
        BY <3>2 DEF PictureInv, Ahead, Pictures
      <4>2. json # None => \A f \in 0 .. json.next - 1 : f \in Frames /\ f # cursor
        BY <4>1, <1>t
      <4>3. json # None => \A f \in 0 .. json.next - 1 : made'[f] = made[f]
        BY <4>2, <3>2, <1>t
      <4> QED
        BY <2>1, <4>1, <4>3 DEF Sound
    <3> QED
      BY <2>1, <3>1, <3>2
  <2> QED
    BY <2>1, <2>2, <1>out DEF PictureInv, Ahead, Pictures
<1>11. CASE ChangeInput
  <2>1. pc = "off" /\ UNCHANGED <<pc, made, json, rendered, final>>
    BY <1>11 DEF ChangeInput
  <2> QED
    BY <2>1, PicturesKept
<1> QED
  BY <1>1, <1>2, <1>3, <1>4, <1>5, <1>6, <1>7, <1>8, <1>9, <1>10, <1>11 DEF Next, Step

LEMMA InitPictures == Init => PictureInv
  BY DEF Init, PictureInv, Ahead, Pictures, OutputComplete, OutputOfOneInput

\* The rendered video has every frame of the source, and none of them is a picture that a
\* kill left half written, however often the run was killed and resumed.
THEOREM CompleteVideo == Spec => []OutputComplete
<1>1. PictureInv => OutputComplete
  BY DEF PictureInv
<1> QED
  BY <1>1, InitTypeInv, TypeInvStep, InitPictures, PictureStep, PTL DEF Spec

\* The rendered video was made from one version of the source video, the configuration and
\* the swapper, though the operator may change any input between any two processes.
THEOREM OneInput == Spec => []OutputOfOneInput
<1>1. PictureInv => OutputOfOneInput
  BY DEF PictureInv
<1> QED
  BY <1>1, InitTypeInv, TypeInvStep, InitPictures, PictureStep, PTL DEF Spec

-------------------------------------------------------------------------------
(* What the quality log keeps *)

LEMMA LogStep == TypeInv /\ Ahead /\ Log /\ [Next]_vars => Log'
<1> SUFFICES ASSUME TypeInv, Ahead, Log, [Next]_vars PROVE Log'
  OBVIOUS
<1> USE DEF procVars, logVars, ckptVars, outVars, auxVars
<1>t. /\ rows \in Seq(Rows) /\ buf \in Seq(Rows) /\ cursor \in Nat
      /\ json # None => json.next \in 1 .. NumFrames
      /\ ~LogIsOpen => buf = <<>>
  BY TypeParts, EngineAssumption DEF TypeParted, ProcType, LogType, CkptType, Places
<1>empty. FramesIn(<<>>) = {}
  BY DEF FramesIn
<1>same. /\ UNCHANGED <<rows, buf, lost>> => UNCHANGED Logged
         /\ UNCHANGED lost /\ rows' = rows \o buf /\ buf' = <<>> => UNCHANGED Logged
  <2>1. UNCHANGED <<rows, buf, lost>> => UNCHANGED Logged
    BY DEF Logged, FramesIn
  <2>2. ASSUME UNCHANGED lost, rows' = rows \o buf, buf' = <<>> PROVE UNCHANGED Logged
    <3>1. FramesIn(rows') = FramesIn(rows) \cup FramesIn(buf) /\ FramesIn(buf') = {}
      BY <2>2, <1>t, <1>empty, LogsJoined
    <3> QED
      BY <2>2, <3>1 DEF Logged, FramesIn
  <2> QED
    BY <2>1, <2>2
<1>kept. ASSUME Logged \subseteq Logged', UNCHANGED json,
                UNCHANGED <<pc, cursor>> \/ pc' \in {"off", "finally", "extract", "exit", "clearNpz", "clearJson"}
         PROVE  Log'
  BY <1>kept DEF Log
<1>1. CASE Run \/ ResumeRefused \/ Render \/ Finish \/ WriteManifest \/ UNCHANGED vars \/ ChangeInput
           \/ ClearNpz
  BY <1>1, <1>same, <1>kept DEF Run, ResumeRefused, Render, Finish, WriteManifest, ChangeInput, Ends,
     ClearNpz, vars
<1>2. CASE Resume
  <2>1. /\ json # None /\ cursor' = json.next /\ pc' = "open" /\ UNCHANGED <<json, rows, buf, lost>>
    BY <1>2 DEF Resume, Loadable
  <2> QED
    BY <2>1, <1>same DEF Log
<1>3. CASE Extract
  <2>1. /\ json = None /\ cursor = 0 /\ UNCHANGED <<cursor, json, rows, buf, lost>>
        /\ pc' \in {"extract", "open"}
    BY <1>3, TypeParts DEF Extract, TypeParted, Places
  <2>2. 0 .. cursor - 1 = {}
    BY <2>1
  <2> QED
    BY <2>1, <2>2 DEF Log
<1>4. CASE OpenLog
  <2>1. /\ pc = "open" /\ pc' = "frame" /\ buf' = <<>> /\ UNCHANGED <<cursor, json, lost>>
        /\ IF cursor > 0 THEN UNCHANGED rows ELSE rows' = <<>>
    BY <1>4 DEF OpenLog, Opened
  <2>2. buf = <<>>
    BY <2>1, <1>t DEF LogIsOpen
  <2>3. CASE cursor > 0
    BY <2>1, <2>2, <2>3, <1>same DEF Log
  <2>4. CASE cursor = 0
    <3>1. json = None /\ 0 .. cursor - 1 = {}
      BY <2>1, <2>4, <1>t DEF Ahead
    <3> QED
      BY <2>1, <3>1 DEF Log
  <2> QED
    BY <2>3, <2>4, <1>t
<1>5. CASE ProcessFrame
  <2>1. PICK row \in Rows : /\ row.frame = cursor
                            /\ \/ buf' = Append(buf, row) /\ UNCHANGED rows
                               \/ rows' = rows \o buf /\ buf' = <<row>>
    <3>1. PICK outcome \in BOOLEAN :
             \/ /\ buf' = Append(buf, [frame |-> cursor, review |-> outcome, gen |-> gen])
                /\ UNCHANGED rows
             \/ /\ rows' = rows \o buf
                /\ buf' = <<[frame |-> cursor, review |-> outcome, gen |-> gen]>>
      BY <1>5 DEF ProcessFrame
    <3>2. [frame |-> cursor, review |-> outcome, gen |-> gen] \in Rows
      BY <1>5, TypeParts, EngineAssumption DEF ProcessFrame, TypeParted, ProcType, Rows, Frames
    <3> QED
      BY <3>1, <3>2
  <2>2. /\ pc = "frame" /\ pc' = "png" /\ UNCHANGED <<cursor, json, lost>>
    BY <1>5 DEF ProcessFrame
  <2>3. FramesIn(rows') \cup FramesIn(buf') = FramesIn(rows) \cup FramesIn(buf) \cup {cursor}
    <3>1. CASE buf' = Append(buf, row) /\ UNCHANGED rows
      <4>1. FramesIn(buf') = FramesIn(buf) \cup {cursor} /\ FramesIn(rows') = FramesIn(rows)
        BY <2>1, <3>1, <1>t, RowAdded
      <4> QED
        BY <4>1
    <3>2. CASE rows' = rows \o buf /\ buf' = <<row>>
      <4>1. FramesIn(rows') = FramesIn(rows) \cup FramesIn(buf) /\ FramesIn(buf') = {cursor}
        BY <2>1, <3>2, <1>t, RowAdded, LogsJoined
      <4> QED
        BY <4>1
    <3> QED
      BY <2>1, <3>1, <3>2
  <2>4. Logged' = Logged \cup {cursor}
    BY <2>2, <2>3 DEF Logged, FramesIn
  <2> QED
    BY <2>2, <2>4 DEF Log
<1>6. CASE SavePicture
  <2>1. /\ pc = "png" /\ UNCHANGED <<json, rows, buf, lost>>
        /\ \/ pc' = "json" /\ cursor' = cursor
           \/ pc' = "frame" /\ cursor' = cursor + 1
    BY <1>6 DEF SavePicture
  <2>2. 0 .. cursor + 1 - 1 = 0 .. cursor - 1 \cup {cursor}
    BY <1>t
  <2> QED
    BY <2>1, <2>2, <1>same DEF Log
<1>7. CASE ReplaceJson
  <2>1. /\ pc = "json" /\ pc' = "npz" /\ UNCHANGED <<cursor, rows, buf, lost>>
        /\ json'.next = cursor + 1
    BY <1>7 DEF ReplaceJson, FrameAfter
  <2>2. 0 .. cursor + 1 - 1 = 0 .. cursor - 1 \cup {cursor}
    BY <1>t
  <2> QED
    BY <2>1, <2>2, <1>same DEF Log
<1>8. CASE ReplaceNpz
  <2>1. /\ pc = "npz" /\ pc' = "frame" /\ UNCHANGED <<json, rows, buf, lost>>
        /\ cursor' = cursor + 1
    BY <1>8 DEF ReplaceNpz
  <2>2. 0 .. cursor + 1 - 1 = 0 .. cursor - 1 \cup {cursor}
    BY <1>t
  <2> QED
    BY <2>1, <2>2, <1>same DEF Log
<1>9. CASE CloseLog
  <2>1. /\ pc = "frame" /\ pc' = "render" /\ UNCHANGED <<cursor, json, lost>>
        /\ rows' = rows \o buf /\ buf' = <<>>
    BY <1>9 DEF CloseLog
  <2> QED
    BY <2>1, <1>same DEF Log
<1>10. CASE ClearJson
  <2>1. pc' = "clearNpz" /\ json' = None
    BY <1>10 DEF ClearJson
  <2> QED
    BY <2>1 DEF Log
<1>11. CASE Stops
  <2>1. pc' \in {"off", "finally"} /\ UNCHANGED <<json, lost>>
    BY <1>11 DEF Stops, Ends
  <2>2. UNCHANGED Logged
    BY <1>11, <1>same DEF Stops
  <2> QED
    BY <2>1, <2>2, <1>kept
<1>12. CASE Killed
  <2>1. /\ pc' = "off" /\ UNCHANGED <<json, rows>> /\ buf' = <<>>
        /\ lost' = lost \cup FramesIn(buf)
    BY <1>12 DEF Killed, FramesIn
  <2>2. Logged \subseteq Logged'
    BY <2>1 DEF Logged, FramesIn
  <2> QED
    BY <2>1, <2>2, <1>kept
<1> QED
  BY <1>1, <1>2, <1>3, <1>4, <1>5, <1>6, <1>7, <1>8, <1>9, <1>10, <1>11, <1>12 DEF Next, Step

\* A frame the process has passed, or that the checkpoint told it to skip, has its row in the
\* quality log unless a kill took the row: no resumed run starts the log anew.
THEOREM NoRowForgotten == Spec => []RowsKept
<1>1. Init => Log
  BY DEF Init, Log
<1>2. TypeInv /\ Log => RowsKept
  BY DEF Log, RowsKept, InLoop, Logged, FramesIn
<1>3. PictureInv => Ahead
  BY DEF PictureInv
<1> QED
  BY <1>1, <1>2, <1>3, InitTypeInv, TypeInvStep, InitPictures, PictureStep, LogStep, PTL DEF Spec

-------------------------------------------------------------------------------
(* What is reported of a run *)

LEMMA FlagStep == TypeInv /\ Flag /\ [Next]_vars => Flag'
<1> SUFFICES ASSUME TypeInv, Flag, [Next]_vars PROVE Flag'
  OBVIOUS
<1> USE DEF procVars, logVars, ckptVars, outVars, auxVars
<1>t. /\ rows \in Seq(Rows) /\ buf \in Seq(Rows) /\ gen \in Nat /\ review \in BOOLEAN
      /\ ~LogIsOpen => buf = <<>>
      /\ gen = 0 => rows = <<>> /\ pc = "off"
  BY TypeParts DEF TypeParted, ProcType, LogType, Places
<1>none. ~Reviewed(<<>>)
  BY DEF Reviewed
<1>over. ASSUME pc' \in {"off", "finally"}, UNCHANGED <<rows, gen>>, UNCHANGED buf \/ buf' = <<>>
         PROVE  Flag'
  BY <1>over DEF Flag
<1>goes. ASSUME UNCHANGED <<rows, buf, gen, review, exit>>, pc \notin {"off", "finally"},
                pc' \in {"extract", "open"} => pc \in {"extract", "open"}
         PROVE  Flag'
  BY <1>goes DEF Flag, Reviewed
<1>1. CASE ResumeRefused \/ ChangeInput \/ UNCHANGED vars
  <2>1. UNCHANGED <<rows, buf, gen, review, pc>> /\ (pc \notin {"off", "finally"} => UNCHANGED exit)
    BY <1>1 DEF ResumeRefused, ChangeInput, vars
  <2> QED
    BY <2>1 DEF Flag, Reviewed
<1>2. CASE WriteManifest \/ Finish \/ Killed
  BY <1>2, <1>over DEF WriteManifest, Finish, Ends, Killed
<1>3. CASE Extract \/ SavePicture \/ ReplaceJson \/ ReplaceNpz \/ Render \/ ClearJson \/ ClearNpz
  BY <1>3, <1>goes DEF Extract, SavePicture, ReplaceJson, ReplaceNpz, Render, ClearJson, ClearNpz
<1>4. CASE Run
  <2>1. rows' = <<>> /\ buf' = <<>> /\ gen' = 1 /\ exit' = "none" /\ ~review'
    BY <1>4, <1>t DEF Run, LogIsOpen
  <2> QED
    BY <2>1 DEF Flag
<1>5. CASE Resume
  <2>1. /\ UNCHANGED rows /\ buf' = <<>> /\ gen' = gen + 1 /\ exit' = "none" /\ ~review'
        /\ gen' # 1
    BY <1>5, <1>t DEF Resume, LogIsOpen
  <2>2. \A i \in DOMAIN rows : rows[i].gen \in Nat /\ rows[i].gen <= gen
    <3>1. \A i \in DOMAIN rows : rows[i] \in Rows
      BY <1>t
    <3> QED
      BY <3>1 DEF Flag, Rows
  <2>3. \A i \in DOMAIN rows' : rows'[i].gen <= gen' /\ rows'[i].gen # gen'
    BY <2>1, <2>2, <1>t
  <2> QED
    BY <2>1, <2>3 DEF Flag
<1>6. CASE OpenLog
  <2>1. /\ UNCHANGED rows \/ rows' = <<>>
        /\ buf = <<>> /\ buf' = <<>> /\ pc = "open" /\ UNCHANGED <<gen, review, exit>> /\ pc' = "frame"
    BY <1>6, <1>t DEF OpenLog, Opened, LogIsOpen
  <2> QED
    BY <2>1 DEF Flag
<1>7. CASE ProcessFrame
  <2>1. PICK outcome \in BOOLEAN :
          /\ review' = (review \/ outcome)
          /\ \/ /\ buf' = Append(buf, [frame |-> cursor, review |-> outcome, gen |-> gen])
                /\ UNCHANGED rows
             \/ /\ rows' = rows \o buf
                /\ buf' = <<[frame |-> cursor, review |-> outcome, gen |-> gen]>>
    BY <1>7 DEF ProcessFrame, ReviewSoFar
  <2> DEFINE row == [frame |-> cursor, review |-> outcome, gen |-> gen]
  <2>2. row \in Rows /\ row.gen = gen /\ row.review = outcome
    BY <1>7, TypeParts, EngineAssumption DEF ProcessFrame, TypeParted, ProcType, Rows, Frames
  <2> HIDE DEF row
  <2>3. \/ buf' = Append(buf, row) /\ UNCHANGED rows
        \/ rows' = rows \o buf /\ buf' = <<row>>
    BY <2>1 DEF row
  <2>4. /\ pc = "frame" /\ pc' = "png" /\ UNCHANGED <<gen, exit>>
    BY <1>7 DEF ProcessFrame
  <2>5. /\ exit = "none" /\ (gen = 1 => \A i \in DOMAIN rows : rows[i].gen = 1)
        /\ \A i \in DOMAIN rows : rows[i].gen <= gen /\ (rows[i].gen = gen /\ rows[i].review => review)
        /\ \A i \in DOMAIN buf : buf[i].gen = gen /\ (buf[i].review => review)
        /\ gen = 1 /\ review => Reviewed(rows) \/ Reviewed(buf)
    BY <2>4 DEF Flag
  <2>6. CASE buf' = Append(buf, row) /\ UNCHANGED rows
    <3>1. \A i \in DOMAIN buf' : buf'[i] = row \/ (i \in DOMAIN buf /\ buf'[i] = buf[i])
      BY <2>2, <2>6, <1>t, RowAdded
    <3>2. Reviewed(buf') <=> Reviewed(buf) \/ row.review
      BY <2>2, <2>6, <1>t, RowAdded
    <3>3. \A i \in DOMAIN buf' : buf'[i].gen = gen /\ (buf'[i].review => review \/ outcome)
      BY <2>2, <2>5, <3>1
    <3>4. gen = 1 /\ (review \/ outcome) => Reviewed(rows) \/ Reviewed(buf')
      BY <2>2, <2>5, <3>2
    <3> QED
      BY <2>1, <2>4, <2>5, <2>6, <3>3, <3>4 DEF Flag, Reviewed
  <2>7. CASE rows' = rows \o buf /\ buf' = <<row>>
    <3>1. \A i \in DOMAIN rows' : \/ i \in DOMAIN rows /\ rows'[i] = rows[i]
                                  \/ \E j \in DOMAIN buf : rows'[i] = buf[j]
      BY <2>7, <1>t, LogsJoined
    <3>2. (Reviewed(rows') <=> Reviewed(rows) \/ Reviewed(buf)) /\ (Reviewed(buf') <=> row.review)
      BY <2>2, <2>7, <1>t, LogsJoined, RowAdded
    <3>3. DOMAIN buf' = {1} /\ buf'[1] = row
      BY <2>7
    <3>4. /\ \A i \in DOMAIN rows' : /\ rows'[i].gen <= gen
                                     /\ rows'[i].gen = gen /\ rows'[i].review => review \/ outcome
          /\ gen = 1 => \A i \in DOMAIN rows' : rows'[i].gen = 1
      BY <2>5, <3>1, <1>t
    <3>5. \A i \in DOMAIN buf' : buf'[i].gen = gen /\ (buf'[i].review => review \/ outcome)
      BY <2>2, <3>3
    <3>6. gen = 1 /\ (review \/ outcome) => Reviewed(rows') \/ Reviewed(buf')
      BY <2>2, <2>5, <3>2
    <3> QED
      BY <2>1, <2>4, <2>5, <3>4, <3>5, <3>6 DEF Flag, Reviewed
  <2> QED
    BY <2>3, <2>6, <2>7
<1>8. ASSUME rows' = rows \o buf, buf' = <<>>, UNCHANGED <<gen, review>>
      PROVE  /\ \A i \in DOMAIN rows' : rows'[i].gen <= gen'
             /\ pc \notin {"off", "finally"} =>
                  /\ \A i \in DOMAIN rows' : rows'[i].gen = gen' /\ rows'[i].review => review'
                  /\ gen' = 1 /\ review' => Reviewed(rows')
                  /\ gen' = 1 => \A i \in DOMAIN rows' : rows'[i].gen = 1
  <2>1. \A i \in DOMAIN rows' : \/ i \in DOMAIN rows /\ rows'[i] = rows[i]
                                \/ \E j \in DOMAIN buf : rows'[i] = buf[j]
    BY <1>8, <1>t, LogsJoined
  <2>2. Reviewed(rows') <=> Reviewed(rows) \/ Reviewed(buf)
    BY <1>8, <1>t, LogsJoined
  <2>3. \A i \in DOMAIN rows' : rows'[i].gen <= gen
    BY <2>1, <1>t DEF Flag
  <2> QED
    BY <1>8, <2>1, <2>2, <2>3 DEF Flag
<1>9. CASE CloseLog
  <2>1. /\ rows' = rows \o buf /\ buf' = <<>> /\ UNCHANGED <<gen, review, exit>>
        /\ pc = "frame" /\ pc' = "render"
    BY <1>9 DEF CloseLog
  <2>2. exit' = "none"
    BY <2>1 DEF Flag
  <2> QED
    BY <2>1, <2>2, <1>8 DEF Flag, Reviewed
<1>10. CASE Stops
  <2>1. pc' \in {"off", "finally"} /\ UNCHANGED <<gen, review>>
    BY <1>10 DEF Stops, Ends
  <2>2. CASE LogIsOpen
    <3>1. rows' = rows \o buf /\ buf' = <<>>
      BY <1>10, <2>2 DEF Stops
    <3> QED
      BY <2>1, <3>1, <1>8 DEF Flag
  <2>3. CASE ~LogIsOpen
    BY <1>10, <2>1, <2>3, <1>over DEF Stops
  <2> QED
    BY <2>2, <2>3
<1> QED
  BY <1>1, <1>2, <1>3, <1>4, <1>5, <1>6, <1>7, <1>9, <1>10 DEF Next, Step

EndedInv == Ended /\ VerdictOfOneProcess

LEMMA EndedStep == TypeInv /\ Flag /\ EndedInv /\ [Next]_vars => EndedInv'
<1> SUFFICES ASSUME TypeInv, Flag, EndedInv, [Next]_vars PROVE EndedInv'
  OBVIOUS
<1> USE DEF procVars, logVars, ckptVars, outVars, auxVars
<1>t. /\ rows \in Seq(Rows) /\ gen \in Nat /\ review \in BOOLEAN /\ done \in BOOLEAN
      /\ ~LogIsOpen => buf = <<>>
      /\ gen = 0 => pc = "off" /\ json = None
      /\ pc = "finally" => exit \in {"interrupted", "error", "ok", "kpi", "review"}
      /\ \A i \in DOMAIN rows : rows[i].gen \in Nat
  <2>1. /\ rows \in Seq(Rows) /\ gen \in Nat /\ review \in BOOLEAN /\ done \in BOOLEAN
        /\ ~LogIsOpen => buf = <<>>
        /\ gen = 0 => pc = "off" /\ json = None
        /\ pc = "finally" => exit \in {"interrupted", "error", "ok", "kpi", "review"}
    BY TypeParts DEF TypeParted, ProcType, LogType, RestType, Places, Codes
  <2>2. \A i \in DOMAIN rows : rows[i] \in Rows
    BY <2>1
  <2> QED
    BY <2>1, <2>2 DEF Rows
<1>1. CASE UNCHANGED vars
  BY <1>1 DEF vars, EndedInv, Ended, VerdictOfOneProcess, Reviewed
<1>2. CASE Run
  <2>1. pc' = "extract" /\ gen' = 1 /\ exit' = "none" /\ manifest' = "none" /\ ~done'
    BY <1>2 DEF Run, EndedInv, Ended
  <2> QED
    BY <2>1 DEF EndedInv, Ended, VerdictOfOneProcess
<1>3. CASE Resume
  <2>1. /\ pc' = "open" /\ exit' = "none" /\ json # None /\ UNCHANGED <<manifest, done, json, rendered>>
    BY <1>3 DEF Resume, Loadable
  <2>2. ~done /\ manifest \notin {"kpi", "review"}
    BY <2>1 DEF EndedInv, Ended
  <2> QED
    BY <2>1, <2>2 DEF EndedInv, Ended, VerdictOfOneProcess
<1>4. CASE ResumeRefused \/ ChangeInput
  <2>1. /\ pc = "off" /\ UNCHANGED <<pc, gen, rows, json, rendered, manifest, done>>
        /\ UNCHANGED exit \/ exit' = "refused"
    BY <1>4 DEF ResumeRefused, ChangeInput
  <2> QED
    BY <2>1 DEF EndedInv, Ended, VerdictOfOneProcess
<1>run. ASSUME pc \notin {"off", "finally"}, pc' \notin {"off", "finally"}, UNCHANGED <<exit, manifest, done>>,
               pc' \in {"clearJson", "clearNpz", "exit"} => rendered',
               pc' \in {"clearNpz", "exit"} => json' = None
        PROVE  EndedInv'
  <2>1. exit' = "none" /\ ~done' /\ manifest' \notin {"kpi", "review"}
    BY <1>run DEF Flag, EndedInv, Ended
  <2> QED
    BY <1>run, <2>1 DEF EndedInv, Ended, VerdictOfOneProcess
<1>5. CASE Extract \/ OpenLog \/ ProcessFrame \/ SavePicture \/ ReplaceJson \/ ReplaceNpz \/ CloseLog
  BY <1>5, <1>run DEF Extract, OpenLog, ProcessFrame, SavePicture, ReplaceJson, ReplaceNpz, CloseLog
<1>6. CASE Render \/ ClearJson \/ ClearNpz
  BY <1>6, <1>run DEF Render, ClearJson, ClearNpz, EndedInv, Ended
<1>7. CASE Finish
  <2>1. PICK code \in {"ok", "kpi", "review"} : (code = "review") = review /\ exit' = code
    BY <1>7 DEF Finish
  <2>2. /\ pc = "exit" /\ UNCHANGED <<gen, rows, json, rendered, manifest>>
        /\ done' => gen > 1
        /\ pc' = IF gen = 1 THEN "finally" ELSE "off"
    BY <1>7 DEF Finish, Ends
  <2>3. /\ rendered /\ json = None /\ buf = <<>> /\ gen > 0 /\ manifest \notin {"kpi", "review"}
    BY <2>2, <1>t DEF EndedInv, Ended, LogIsOpen
  <2>4. /\ \A i \in DOMAIN rows : rows[i].gen <= gen /\ (rows[i].gen = gen /\ rows[i].review => review)
        /\ gen = 1 => (review <=> Reviewed(rows))
    <3>1. ~Reviewed(buf)
      BY <2>3 DEF Reviewed
    <3> QED
      BY <2>2, <3>1 DEF Flag, Reviewed
  <2>5. exit' \in {"ok", "kpi"} => \A i \in DOMAIN rows : rows[i].review => rows[i].gen < gen
    BY <2>1, <2>4, <1>t
  <2>6. gen = 1 => (exit' = "review" <=> Reviewed(rows))
    BY <2>1, <2>4
  <2>8. done' => gen' # 1 /\ gen' > 0
    BY <2>2, <1>t
  <2>7. VerdictOfOneProcess'
    BY <2>2, <2>3, <2>5, <2>8 DEF VerdictOfOneProcess
  <2>9. Ended'
    BY <2>1, <2>2, <2>3, <2>6, <2>8, <1>t DEF Ended, Reviewed
  <2> QED
    BY <2>7, <2>9 DEF EndedInv
<1>8. CASE WriteManifest
  <2>1. /\ pc = "finally" /\ pc' = "off" /\ UNCHANGED <<gen, rows, json, rendered, exit>>
        /\ (done' => exit \in {"ok", "kpi", "review"}) /\ gen = 1
    BY <1>8 DEF WriteManifest, EndedInv, Ended
  <2>2. /\ exit \in {"ok", "kpi", "review"} => manifest' = exit
        /\ exit \notin {"ok", "kpi", "review"} => manifest' \in {"ok", "error"}
    BY <1>8, <2>1, <1>t DEF WriteManifest
  <2>3. exit \in {"ok", "kpi", "review"} =>
          rendered /\ json = None /\ (exit = "review" <=> Reviewed(rows))
    BY <2>1 DEF EndedInv, Ended, Codes
  <2>4. Ended'
    <3>1. manifest' \in {"kpi", "review"} => rendered' /\ json' = None
      BY <2>1, <2>2, <2>3
    <3>2. done' => json' = None
      BY <2>1, <2>3
    <3> QED
      BY <2>1, <3>1, <3>2 DEF Ended
  <2>5. VerdictOfOneProcess'
    <3>1. exit' \in {"ok", "kpi"} => \A i \in DOMAIN rows' : rows'[i].review => rows'[i].gen < gen'
      BY <2>1 DEF EndedInv, VerdictOfOneProcess
    <3>2. manifest' \in {"kpi", "review"} => rendered' /\ gen' = 1
      BY <2>1, <2>2, <2>3
    <3>3. done' => (manifest' = "review" <=> \E i \in DOMAIN rows' : rows'[i].review)
      <4>1. done' => (manifest' = "review" <=> exit = "review")
        BY <2>1, <2>2
      <4>2. done' => (exit = "review" <=> \E i \in DOMAIN rows : rows[i].review)
        BY <2>1, <2>3 DEF Reviewed
      <4> QED
        BY <4>1, <4>2, <2>1
    <3> QED
      BY <3>1, <3>2, <3>3 DEF VerdictOfOneProcess
  <2> QED
    BY <2>4, <2>5 DEF EndedInv
<1>9. CASE Stops \/ Killed
  <2>1. /\ pc # "off" /\ exit' \in {"interrupted", "error", "killed"} /\ UNCHANGED <<manifest, done, gen>>
        /\ pc' = "off" \/ (pc' = "finally" /\ gen = 1)
    BY <1>9, EngineAssumption DEF Stops, Killed, Ends, AllFaults
  <2>2. ~done /\ manifest \notin {"kpi", "review"}
    BY <2>1 DEF EndedInv, Ended
  <2> QED
    BY <2>1, <2>2 DEF EndedInv, Ended, Codes, VerdictOfOneProcess
<1> QED
  BY <1>1, <1>2, <1>3, <1>4, <1>5, <1>6, <1>7, <1>8, <1>9 DEF Next, Step

LEMMA InitEnded == Init => Flag /\ EndedInv
  BY DEF Init, Flag, EndedInv, Ended, VerdictOfOneProcess

\* The exit code tells of every frame of the last process that needs a review, and a verdict
\* in the manifest is that of a run which was never resumed and has its video.
THEOREM Verdicts == Spec => []VerdictOfOneProcess
<1>1. EndedInv => VerdictOfOneProcess
  BY DEF EndedInv
<1> QED
  BY <1>1, InitTypeInv, TypeInvStep, InitEnded, FlagStep, EndedStep, PTL DEF Spec

\* A process that has come to its end has cleared the checkpoint, so a resume is refused and
\* nothing of the run is written any more.
THEOREM NothingAfterTheEnd == Spec => FinishedIsFinal
<1>1. EndedInv /\ [Next]_vars => [done => UNCHANGED <<pc, store, logVars, made, outVars>>]_vars
  <2> SUFFICES ASSUME EndedInv, [Next]_vars, done
               PROVE  UNCHANGED <<pc, store, logVars, made, outVars>>
    OBVIOUS
  <2>1. pc = "off" /\ gen > 0 /\ json = None
    BY DEF EndedInv, Ended
  <2>2. ~Run /\ ~Resume /\ ~Step /\ ~Stops /\ ~Killed
    <3>1. ~Resume /\ ~Stops /\ ~Killed
      BY <2>1 DEF Resume, Loadable, Stops, Killed
    <3>2. ~Run
      BY <2>1 DEF Run
    <3>3. ~Step
      BY <2>1 DEF Step, Extract, OpenLog, ProcessFrame, SavePicture, ReplaceJson, ReplaceNpz,
         CloseLog, Render, ClearJson, ClearNpz, Finish, WriteManifest
    <3> QED
      BY <3>1, <3>2, <3>3
  <2>3. ResumeRefused \/ ChangeInput \/ UNCHANGED vars
    BY <2>2 DEF Next
  <2> QED
    BY <2>3 DEF ResumeRefused, ChangeInput, vars, procVars, logVars, outVars
<1> QED
  BY <1>1, InitTypeInv, TypeInvStep, InitEnded, FlagStep, EndedStep, PTL DEF Spec, FinishedIsFinal
================================================================================
