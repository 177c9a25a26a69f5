----------------------------- MODULE MCFunctions -----------------------------
(***************************************************************************)
(* The detection functions and the API's address resolution on bounded     *)
(* inputs.  A state is one input, a step makes it larger: a connection     *)
(* with more packets, a domain with one more label, an incident with one   *)
(* more alert, a request with one more forwarded hop on the left, so that  *)
(* a property can compare an input with the one it grew from.              *)
(***************************************************************************)
EXTENDS Detection, ApiGate

CONSTANTS
    PacketSteps,   \* packet counts around the thresholds, ascending
    ByteCounts,    \* payload sizes around the thresholds
    LabelLengths,  \* lengths of DNS labels
    MaxLabels,     \* bound: labels of a domain
    MaxAlerts,     \* bound: alerts of an incident
    MaxForwarded   \* bound: hops of X-Forwarded-For

ASSUME FunctionsAssumption ==
    /\ PacketSteps \in Seq(Nat) /\ PacketSteps # <<>>
    /\ \A k \in 1 .. (Len(PacketSteps) - 1) : PacketSteps[k] <= PacketSteps[k + 1]
    /\ ByteCounts \subseteq Nat /\ LabelLengths \subseteq Nat

\* 4 and 5, 99 and 100, 10000 and 10001 are the thresholds of the rules.
Packets == <<0, 4, 5, 99, 100, 10000, 10001>>

VARIABLE input

Conn == [event_type : {"conn"}, conn_state : {"SF", "REJ", "S0"}, orig_pkts : {PacketSteps[1]},
         orig_bytes : ByteCounts, resp_bytes : ByteCounts, resp_p : {443, 4444},
         ja4 : {"common", "listed"}, orig_h : {"public", "bad"}, resp_h : {"absent"},
         null : {{}, {"orig_bytes"}, {"orig_pkts"}}, odd : {{}, {"duration"}, {"orig_pkts"}}]

Dns == [event_type : {"dns"}, query : {"absent", "string", "falsy", "odd"},
        length : {0, 60, 61, 253, 254}, qtype : {"A", "TXT"}, random : BOOLEAN,
        label : {15, 16}, infra : BOOLEAN, orig_h : {"absent", "private", "bad"}, resp_h : {"public"}]

Addresses == {"proxy1", "proxy2", "client1", "client2"}

Request == [peer : Addresses, hops : {<<>>}, long : BOOLEAN, real : {"absent", "junk", "client2"}]

Init ==
    \/ \E ev \in Conn : input = [kind |-> "conn", ev |-> ev]
    \/ \E ev \in Dns : input = [kind |-> "dns", ev |-> ev]
    \/ \E n \in LabelLengths : input = [kind |-> "domain", labels |-> <<n>>]
    \/ input = [kind |-> "incident", severities |-> <<>>]
    \/ \E request \in Request : input = [kind |-> "request", request |-> request]

MorePackets ==
    /\ input.kind = "conn"
    /\ \E k \in 1 .. (Len(PacketSteps) - 1) :
          /\ input.ev.orig_pkts = PacketSteps[k]
          /\ input' = [input EXCEPT !.ev.orig_pkts = PacketSteps[k + 1]]

MoreLabels ==
    /\ input.kind = "domain" /\ Len(input.labels) < MaxLabels
    /\ \E n \in LabelLengths : input' = [input EXCEPT !.labels = Append(@, n)]
    /\ DomainLength(input'.labels) <= 253

MoreAlerts ==
    /\ input.kind = "incident" /\ Len(input.severities) < MaxAlerts
    /\ \E s \in {"low", "medium", "high", "critical", "other"} :
          input' = [input EXCEPT !.severities = Append(@, s)]

MoreHops ==
    /\ input.kind = "request" /\ Len(input.request.hops) < MaxForwarded
    /\ \E ip \in Addresses \cup {"junk"} : input' = [input EXCEPT !.request.hops = <<ip>> \o @]

Next == MorePackets \/ MoreLabels \/ MoreAlerts \/ MoreHops

Spec == Init /\ [][Next]_input

-----------------------------------------------------------------------------
DdosWeight(ev) ==
    Max({0} \cup {SeverityWeight(d.severity) : d \in {e \in EvaluateRules(ev) : e.threat_class = "DDoS"}})

(***************************************************************************)
(* A flood never looks milder as it grows: with more packets, everything   *)
(* else equal, the severity of the volumetric rule does not fall, through  *)
(* both of its branches and for counts that cannot be parsed.              *)
(***************************************************************************)
FloodsEscalate ==
    [][MorePackets => DdosWeight(input.ev) <= DdosWeight(input'.ev)]_input

(***************************************************************************)
(* Whatever the rules or the model detect can be delivered and acted upon: *)
(* the alert built from it passes the schema gate, unless the event itself *)
(* carries a malformed address, and its threat class selects the playbook  *)
(* written for it, not the default of generate_playbook.                   *)
(***************************************************************************)
DetectionsAreActionable ==
    input.kind \in {"conn", "dns"} /\ ~FeaturesRaise(input.ev) =>
        \A d \in EvaluateRules(input.ev) \cup {DlDetection} :
            /\ ValidateAlert(RawAlert(input.ev, d)) <=> "bad" \notin {input.ev.orig_h, input.ev.resp_h}
            /\ Playbook(d.threat_class) = "DATA_EXFILTRATION" => d.rule = "RULE_CONN_EXFIL"

(***************************************************************************)
(* "Each domain variant gets its OWN fair share of the 32-slice budget":   *)
(* the cut at 32 windows never takes the last window of a variant, so that *)
(* the labels at the end of a long name are looked at too.                 *)
(***************************************************************************)
EveryVariantInspected ==
    input.kind = "domain" =>
        LET subset == DomainsSubset(input.labels)
        IN  {w[1] : w \in AllSlices(subset)} = DOMAIN subset

(***************************************************************************)
(* No blind spot: of a name of up to 80 characters every character is in   *)
(* some window, and so is every character of each label among the eight    *)
(* variants, the ends that are no multiple of the step included.           *)
(***************************************************************************)
WindowsCover ==
    input.kind = "domain" =>
        LET subset == DomainsSubset(input.labels)
            seen == Inspected(subset, AllSlices(subset))
        IN  \A i \in DOMAIN subset : subset[i].len <= 80 =>
                subset[i].from .. (subset[i].from + subset[i].len - 1) \subseteq seen

(***************************************************************************)
(* An incident never becomes less risky by one more alert, of whatever     *)
(* severity, and the score stays within 100.                               *)
(***************************************************************************)
RiskNeverFalls ==
    [][MoreAlerts => /\ CalculateRiskScore(input.severities) <= CalculateRiskScore(input'.severities)
                     /\ CalculateRiskScore(input'.severities) <= 100]_input

(***************************************************************************)
(* A request is counted under the address our own proxies vouch for: what  *)
(* a caller writes to the left of it in X-Forwarded-For never changes the  *)
(* rate-limit bucket, and headers sent past the proxies change nothing.    *)
(***************************************************************************)
VouchedAddressCounts ==
    [][MoreHops =>
         LET request == input.request
             vouched == ToSet(LastHops(request.hops)) \ (Trusted \cup {"junk"})
         IN  (request.peer \notin Trusted \/ request.long \/ vouched # {}) =>
                 RemoteAddress(request) = RemoteAddress(input'.request)]_input
=============================================================================
