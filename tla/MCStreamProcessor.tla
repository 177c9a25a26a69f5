------------------------- MODULE MCStreamProcessor --------------------------
(***************************************************************************)
(* Instances of the stream processor for TLC.                              *)
(***************************************************************************)
EXTENDS StreamProcessor

\* Three detections of one source address: two of a class, the third of
\* another class and more severe.
MCAlertOf ==
    [t \in Tasks |-> [id |-> t, threat |-> IF t = 3 THEN "scan" ELSE "dga",
                      sev |-> IF t = 3 THEN 75 ELSE 50, replay |-> FALSE]]
=============================================================================
