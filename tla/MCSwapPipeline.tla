----------------------------- MODULE MCSwapPipeline -----------------------------
(* Small instances of SwapPipeline for TLC. *)
EXTENDS SwapPipeline, TLC

CONSTANTS w1, w2, s1, s2, s3, s4

\* Slots and workers are interchangeable: no step depends on which one it is.
Symmetry == Permutations(Slots) \cup Permutations(Workers)
================================================================================
