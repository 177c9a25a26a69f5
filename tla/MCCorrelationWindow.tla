------------------------ MODULE MCCorrelationWindow -------------------------
(***************************************************************************)
(* Instances of the correlation window for TLC.                            *)
(***************************************************************************)
EXTENDS CorrelationWindow

MCIds == 1 .. 3
MCSeverities == {25, 75}
=============================================================================
