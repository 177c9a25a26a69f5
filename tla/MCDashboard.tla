----------------------------- MODULE MCDashboard -----------------------------
(***************************************************************************)
(* An instance of the API and its readers for TLC.                         *)
(***************************************************************************)
EXTENDS Dashboard

NoProxy == {}
=============================================================================
