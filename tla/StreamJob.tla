------------------------------- MODULE StreamJob -------------------------------
(***************************************************************************)
(* What a streaming job promises to the person watching it: the encoder    *)
(* receives the frames of the target video in order, each once, each after *)
(* the swap; nothing is added once the stream is sealed; and a job that    *)
(* ends as "done" without having been cut short has delivered every frame. *)
(* Which hands and queues the frames go through is left to the detailed    *)
(* specifications: SwapPipeline, ThreadPipeline with WebappJob, and, for   *)
(* each video of a batch, CppPipeline.                                     *)
(***************************************************************************)
EXTENDS Naturals, Sequences

CONSTANT NumFrames      \* frames of the target video

VARIABLES
  out,                  \* the frames the encoder has received
  status,               \* "open", "sealed" (the encoder's input is closed), "done", "error"
  cut                   \* the stream was cut short: nothing obliges it to be complete

vars == <<out, status, cut>>

Swapped(f) == [frame |-> f, swapped |-> TRUE]

Init == out = <<>> /\ status = "open" /\ cut = FALSE

\* The next frame of the video reaches the encoder.
Emit == /\ status = "open"
        /\ Len(out) < NumFrames
        /\ out' = Append(out, Swapped(Len(out)))
        /\ UNCHANGED <<status, cut>>

\* A viewer stops the job, a worker or the encoder fails, the input cannot be read.
Cut == cut' = TRUE /\ UNCHANGED <<out, status>>

\* The encoder's input is closed; only a cut stream may be incomplete.
Seal == /\ status = "open"
        /\ cut \/ Len(out) = NumFrames
        /\ status' = "sealed"
        /\ UNCHANGED <<out, cut>>

Finish == status = "sealed" /\ status' = "done" /\ UNCHANGED <<out, cut>>

Fail == /\ status \in {"open", "sealed"}
        /\ status' = "error"
        /\ UNCHANGED <<out, cut>>

Next == Emit \/ Cut \/ Seal \/ Finish \/ Fail

Spec == Init /\ [][Next]_vars
================================================================================
