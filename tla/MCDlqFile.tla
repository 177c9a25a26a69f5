----------------------------- MODULE MCDlqFile -----------------------------
(***************************************************************************)
(* An instance of the dead-letter file for TLC.                            *)
(***************************************************************************)
EXTENDS DlqFile, TLC

WriterSymmetry == Permutations(Writers)
=============================================================================
