----------------------------- MODULE MCKafkaSink -----------------------------
(***************************************************************************)
(* Instances of the sink for TLC.                                          *)
(***************************************************************************)
EXTENDS KafkaSink, TLC

\* Alert ids are interchangeable.
AlertIdSymmetry == Permutations(AlertIds)
=============================================================================
