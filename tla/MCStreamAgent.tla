---------------------------- MODULE MCStreamAgent ----------------------------
(***************************************************************************)
(* An instance of the agent for TLC.                                       *)
(***************************************************************************)
EXTENDS StreamAgent

Query(qtype, ip) ==
    [event_type |-> "dns", query |-> "string", length |-> 61, qtype |-> qtype, random |-> FALSE,
     label |-> 20, infra |-> FALSE, orig_h |-> "private", resp_h |-> "public", ip |-> ip]

\* An event whose query is no string, a flood, a tunnelling
\* query of the same peer, and a query without any rule hit.
MCEvent ==
    <<[Query("A", "b") EXCEPT !.query = "odd"],
      [event_type |-> "conn", conn_state |-> "SF", orig_pkts |-> 10001, orig_bytes |-> 0,
       resp_bytes |-> 0, resp_p |-> 443, ja4 |-> "common", orig_h |-> "public",
       resp_h |-> "private", ip |-> "a", null |-> {}, odd |-> {}],
      Query("TXT", "a"),
      Query("A", "b")>>
=============================================================================
