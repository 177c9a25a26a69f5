------------------------------ MODULE MCTailer ------------------------------
(***************************************************************************)
(* An instance of the tailer for TLC: one log that goes on after a line    *)
(* that failed, and another one that must not suffer from it.              *)
(***************************************************************************)
EXTENDS Tailer, TLC

CONSTANTS conn, dns

BothLogs == {conn, dns}
TwoAndOne == (conn :> 2) @@ (dns :> 1)
=============================================================================
