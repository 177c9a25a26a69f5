----------------------------- MODULE MCPcapFlows -----------------------------
(***************************************************************************)
(* An instance of the capture reader for TLC.                              *)
(***************************************************************************)
EXTENDS PcapFlows, TLC

CONSTANTS a, b, c

EndpointSymmetry == Permutations({a, b, c})
=============================================================================
