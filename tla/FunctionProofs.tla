--------------------------- MODULE FunctionProofs ---------------------------
(***************************************************************************)
(* Proofs about the detection functions and the API's address resolution,  *)
(* for connections with any packet and byte counts, domains of any labels, *)
(* incidents of any length and any number of forwarded hops.               *)
(***************************************************************************)
EXTENDS MCFunctions, FiniteSums, FunctionTheorems, SequenceTheorems

-----------------------------------------------------------------------------
(***************************************************************************)
(* The inputs.                                                             *)
(***************************************************************************)
Severities == {"low", "medium", "high", "critical", "other"}

ConnOf(packets, bytes, ports) ==
    [event_type : {"conn"}, conn_state : {"SF", "REJ", "S0"}, orig_pkts : packets,
     orig_bytes : bytes, resp_bytes : bytes, resp_p : ports,
     ja4 : {"common", "listed"}, orig_h : {"public", "bad"}, resp_h : {"absent"},
     null : {{}, {"orig_bytes"}, {"orig_pkts"}}, odd : {{}, {"duration"}, {"orig_pkts"}}]
AnyConn == ConnOf(Nat, Nat, Nat)

AnyRequest == [peer : Addresses, hops : Seq(Addresses \cup {"junk"}), long : BOOLEAN,
               real : {"absent", "junk", "client2"}]

ConnInput == [kind : {"conn"}, ev : AnyConn]
DnsInput == [kind : {"dns"}, ev : Dns]
DomainInput == [kind : {"domain"}, labels : Seq(Nat) \ {<<>>}]
IncidentInput == [kind : {"incident"}, severities : Seq(Severities)]
RequestInput == [kind : {"request"}, request : AnyRequest]

InputOK == input \in UNION {ConnInput, DnsInput, DomainInput, IncidentInput, RequestInput}

LEMMA InputCases ==
    ASSUME InputOK
    PROVE  /\ input.kind = "conn" => input \in ConnInput
           /\ input.kind = "dns" => input \in DnsInput
           /\ input.kind = "domain" => input \in DomainInput
           /\ input.kind = "incident" => input \in IncidentInput
           /\ input.kind = "request" => input \in RequestInput
  <1> USE DEF ConnInput, DnsInput, DomainInput, IncidentInput, RequestInput
  <1>1. CASE input \in ConnInput
    BY <1>1
  <1>2. CASE input \in DnsInput
    BY <1>2
  <1>3. CASE input \in DomainInput
    BY <1>3
  <1>4. CASE input \in IncidentInput
    BY <1>4
  <1>5. CASE input \in RequestInput
    BY <1>5
  <1> HIDE DEF ConnInput, DnsInput, DomainInput, IncidentInput, RequestInput
  <1> QED
    BY <1>1, <1>2, <1>3, <1>4, <1>5 DEF InputOK

LEMMA MorePacketsFacts ==
    ASSUME InputOK, MorePackets
    PROVE  /\ input \in ConnInput
           /\ \E n \in Nat : /\ n >= input.ev.orig_pkts
                             /\ input' = [kind |-> "conn", ev |-> [input.ev EXCEPT !.orig_pkts = n]]
  <1>1. input \in ConnInput
    BY InputCases DEF MorePackets
  <1>2. PICK k \in 1 .. (Len(PacketSteps) - 1) :
          /\ input.ev.orig_pkts = PacketSteps[k]
          /\ input' = [input EXCEPT !.ev.orig_pkts = PacketSteps[k + 1]]
    BY DEF MorePackets
  <1> DEFINE n == PacketSteps[k + 1]
  <1>3. k + 1 \in 1 .. Len(PacketSteps) /\ PacketSteps[k] <= n
    BY FunctionsAssumption
  <1>4. n \in Nat
    BY <1>3, FunctionsAssumption
  <1> HIDE DEF n
  <1>5. input' = [kind |-> "conn", ev |-> [input.ev EXCEPT !.orig_pkts = n]]
    BY <1>1, <1>2 DEF ConnInput, n
  <1> QED
    BY <1>1, <1>2, <1>3, <1>4, <1>5

LEMMA ConnWidens ==
    ASSUME NEW P \in SUBSET Nat, NEW B \in SUBSET Nat, NEW R \in SUBSET Nat
    PROVE  ConnOf(P, B, R) \subseteq ConnOf(Nat, Nat, Nat)
  BY Zenon DEF ConnOf

LEMMA InputInit == Init => InputOK
  <1> SUFFICES ASSUME Init PROVE InputOK
    OBVIOUS
  <1>1. ASSUME NEW ev \in Conn, input = [kind |-> "conn", ev |-> ev] PROVE InputOK
    <2>1. PacketSteps[1] \in Nat
      BY FunctionsAssumption
    <2>2. ByteCounts \subseteq Nat /\ {443, 4444} \subseteq Nat /\ {PacketSteps[1]} \subseteq Nat
      BY <2>1, FunctionsAssumption, SMT
    <2>3. Conn = ConnOf({PacketSteps[1]}, ByteCounts, {443, 4444})
      BY SMT DEF Conn, ConnOf
    <2>4. ev \in AnyConn
      BY <2>2, <2>3, ConnWidens DEF AnyConn
    <2> QED
      BY <1>1, <2>4 DEF InputOK, ConnInput
  <1>2. ASSUME NEW ev \in Dns, input = [kind |-> "dns", ev |-> ev] PROVE InputOK
    BY <1>2 DEF InputOK, DnsInput
  <1>3. ASSUME NEW n \in LabelLengths, input = [kind |-> "domain", labels |-> <<n>>] PROVE InputOK
    <2>1. <<n>> \in Seq(Nat) \ {<<>>}
      BY FunctionsAssumption
    <2> QED
      BY <1>3, <2>1 DEF InputOK, DomainInput
  <1>4. CASE input = [kind |-> "incident", severities |-> <<>>]
    BY <1>4 DEF InputOK, IncidentInput
  <1>5. ASSUME NEW request \in Request, input = [kind |-> "request", request |-> request] PROVE InputOK
    <2>0. <<>> \in Seq(Addresses \cup {"junk"})
      OBVIOUS
    <2>1. request \in AnyRequest
      BY <2>0, Zenon DEF Request, AnyRequest
    <2> QED
      BY <1>5, <2>1 DEF InputOK, RequestInput
  <1> QED
    BY <1>1, <1>2, <1>3, <1>4, <1>5 DEF Init

LEMMA InputNext == InputOK /\ [Next]_input => InputOK'
  <1> SUFFICES ASSUME InputOK, [Next]_input PROVE InputOK'
    OBVIOUS
  <1>1. CASE MorePackets
    <2>1. PICK n \in Nat : input' = [kind |-> "conn", ev |-> [input.ev EXCEPT !.orig_pkts = n]]
      BY <1>1, MorePacketsFacts
    <2>2. [input.ev EXCEPT !.orig_pkts = n] \in AnyConn
      BY <1>1, MorePacketsFacts DEF ConnInput, AnyConn, ConnOf
    <2> QED
      BY <2>1, <2>2 DEF InputOK, ConnInput
  <1>2. CASE MoreLabels
    <2>1. PICK n \in LabelLengths : input' = [input EXCEPT !.labels = Append(@, n)]
      BY <1>2 DEF MoreLabels
    <2>2. input \in DomainInput
      BY <1>2, InputCases DEF MoreLabels
    <2>3. input.labels \in Seq(Nat) /\ n \in Nat
      BY <2>2, FunctionsAssumption DEF DomainInput
    <2>4. Append(input.labels, n) \in Seq(Nat) \ {<<>>}
      BY <2>3
    <2>5. input' \in DomainInput
      BY <2>1, <2>2, <2>4 DEF DomainInput
    <2> QED
      BY <2>5 DEF InputOK
  <1>3. CASE MoreAlerts
    <2>1. PICK s \in Severities : input' = [input EXCEPT !.severities = Append(@, s)]
      BY <1>3 DEF MoreAlerts, Severities
    <2>2. input \in IncidentInput
      BY <1>3, InputCases DEF MoreAlerts
    <2>3. input' \in IncidentInput
      BY <2>1, <2>2, SMTT(30) DEF IncidentInput
    <2> QED
      BY <2>3 DEF InputOK
  <1>4. CASE MoreHops
    <2>1. PICK ip \in Addresses \cup {"junk"} : input' = [input EXCEPT !.request.hops = <<ip>> \o @]
      BY <1>4 DEF MoreHops
    <2>2. input \in RequestInput
      BY <1>4, InputCases DEF MoreHops
    <2>3. input.request \in AnyRequest /\ input.request.hops \in Seq(Addresses \cup {"junk"})
      BY <2>2 DEF RequestInput, AnyRequest
    <2>4. <<ip>> \o input.request.hops \in Seq(Addresses \cup {"junk"})
      BY <2>3, ConcatProperties
    <2>5. input' = [input EXCEPT !.request = [input.request EXCEPT !.hops = <<ip>> \o input.request.hops]]
      BY <2>1, <2>2 DEF RequestInput
    <2>6. input' \in RequestInput
      BY <2>2, <2>3, <2>4, <2>5 DEF RequestInput, AnyRequest
    <2> QED
      BY <2>6 DEF InputOK
  <1>5. CASE input' = input
    BY <1>5 DEF InputOK
  <1> QED
    BY <1>1, <1>2, <1>3, <1>4, <1>5 DEF Next

LEMMA InputInvariant == Spec => []InputOK
  BY InputInit, InputNext, PTL DEF Spec

-----------------------------------------------------------------------------
(***************************************************************************)
(* The rules.                                                              *)
(***************************************************************************)
LEMMA DdosDetections ==
    ASSUME NEW ev, NEW d \in VolumetricDdos(ev)
    PROVE  d \in {Detected("RULE_DDOS_VOLUMETRIC", "DDoS", "critical"),
                  Detected("RULE_DDOS_VOLUMETRIC", "DDoS", "high")}
  BY SMT DEF When, VolumetricDdos

LEMMA C2Detections ==
    ASSUME NEW ev, NEW d \in C2Heartbeat(ev)
    PROVE  d = Detected("RULE_C2_HEARTBEAT", "C2 Beaconing", "high")
  BY Zenon DEF When, C2Heartbeat

LEMMA Ja4Detections ==
    ASSUME NEW ev, NEW d \in Ja4Malware(ev)
    PROVE  d = Detected("RULE_TLS_JA4_MALWARE", "Encrypted-Traffic Malware", "critical")
  BY Zenon DEF When, Ja4Malware

LEMMA ReconDetections ==
    ASSUME NEW ev, NEW d \in ReconPortScan(ev)
    PROVE  d = Detected("RULE_RECON_PORT_SCAN", "Reconnaissance", "low")
  BY Zenon DEF When, ReconPortScan

LEMMA ExfilDetections ==
    ASSUME NEW ev, NEW d \in ConnExfil(ev)
    PROVE  d = Detected("RULE_CONN_EXFIL", "Data Exfiltration", "high")
  BY Zenon DEF When, ConnExfil

LEMMA ConnDetections ==
    ASSUME NEW ev, ev.event_type = "conn", NEW d \in EvaluateRules(ev)
    PROVE  \/ d \in VolumetricDdos(ev)
           \/ d = Detected("RULE_C2_HEARTBEAT", "C2 Beaconing", "high")
           \/ d = Detected("RULE_TLS_JA4_MALWARE", "Encrypted-Traffic Malware", "critical")
           \/ d = Detected("RULE_RECON_PORT_SCAN", "Reconnaissance", "low")
           \/ d = Detected("RULE_CONN_EXFIL", "Data Exfiltration", "high")
  <1>1. d \in UNION {VolumetricDdos(ev), C2Heartbeat(ev), Ja4Malware(ev), ReconPortScan(ev), ConnExfil(ev)}
    BY DEF EvaluateRules
  <1>2. \/ d \in VolumetricDdos(ev) \/ d \in C2Heartbeat(ev) \/ d \in Ja4Malware(ev)
        \/ d \in ReconPortScan(ev) \/ d \in ConnExfil(ev)
    BY <1>1
  <1> QED
    BY <1>2, C2Detections, Ja4Detections, ReconDetections, ExfilDetections

LEMMA DnsDetections ==
    ASSUME NEW ev, ev.event_type = "dns", NEW d \in EvaluateRules(ev)
    PROVE  d \in {Detected("RULE_DNS_TUNNELLING", "DGA / DNS Tunnelling", "high"),
                  Detected("RULE_DNS_DGA_FALLBACK", "DGA / DNS Tunnelling", "medium")}
  <1>1. d \in DnsTunnelling(ev) \cup DgaFallback(ev)
    BY DEF EvaluateRules
  <1> QED
    BY <1>1, Zenon DEF When, DnsTunnelling, DgaFallback

\* What a detection must have for its alert to be delivered and acted upon.
Actionable(d) ==
    /\ d.severity \in {"low", "medium", "high", "critical"}
    /\ Playbook(d.threat_class) = "DATA_EXFILTRATION" => d.rule = "RULE_CONN_EXFIL"

LEMMA DetectedFacts ==
    ASSUME NEW rule, NEW class, NEW severity \in {"low", "medium", "high", "critical"},
           Playbook(class) = "DATA_EXFILTRATION" => rule = "RULE_CONN_EXFIL"
    PROVE  Actionable(Detected(rule, class, severity))
  BY DEF Actionable, Detected

LEMMA PlaybookFacts ==
    /\ Playbook("DDoS") = "VOLUMETRIC_PROTOCOL_DDOS"
    /\ Playbook("C2 Beaconing") = "BOTNET_C2_BEACONING"
    /\ Playbook("DGA / DNS Tunnelling") = "DGA_DOMAIN"
    /\ Playbook("Encrypted-Traffic Malware") = "ENCRYPTED_MALWARE_TLS"
    /\ Playbook("Reconnaissance") = "RECON_PORT_SCAN"
  <1> USE DEF Playbook, ThreatClassMap, PlaybookTemplates
  <1>1. Playbook("DDoS") = "VOLUMETRIC_PROTOCOL_DDOS"
    OBVIOUS
  <1>2. Playbook("C2 Beaconing") = "BOTNET_C2_BEACONING"
    OBVIOUS
  <1>3. Playbook("DGA / DNS Tunnelling") = "DGA_DOMAIN"
    OBVIOUS
  <1>4. Playbook("Encrypted-Traffic Malware") = "ENCRYPTED_MALWARE_TLS"
    OBVIOUS
  <1>5. Playbook("Reconnaissance") = "RECON_PORT_SCAN"
    OBVIOUS
  <1> HIDE DEF Playbook, ThreatClassMap, PlaybookTemplates
  <1> QED
    BY <1>1, <1>2, <1>3, <1>4, <1>5

LEMMA DetectionsActionable ==
    ASSUME NEW ev, ev.event_type \in {"conn", "dns"}, NEW d \in EvaluateRules(ev) \cup {DlDetection}
    PROVE  Actionable(d)
  <1>0. /\ \A rule : \A severity \in {"low", "medium", "high", "critical"} :
              /\ Actionable(Detected(rule, "DDoS", severity))
              /\ Actionable(Detected(rule, "C2 Beaconing", severity))
              /\ Actionable(Detected(rule, "DGA / DNS Tunnelling", severity))
              /\ Actionable(Detected(rule, "Encrypted-Traffic Malware", severity))
              /\ Actionable(Detected(rule, "Reconnaissance", severity))
        /\ Actionable(Detected("RULE_CONN_EXFIL", "Data Exfiltration", "high"))
    BY PlaybookFacts, DetectedFacts
  <1>1. Actionable(DlDetection)
    BY <1>0 DEF DlDetection
  <1>2. CASE ev.event_type = "conn" /\ d \in EvaluateRules(ev)
    <2>1. \/ d \in VolumetricDdos(ev)
          \/ d = Detected("RULE_C2_HEARTBEAT", "C2 Beaconing", "high")
          \/ d = Detected("RULE_TLS_JA4_MALWARE", "Encrypted-Traffic Malware", "critical")
          \/ d = Detected("RULE_RECON_PORT_SCAN", "Reconnaissance", "low")
          \/ d = Detected("RULE_CONN_EXFIL", "Data Exfiltration", "high")
      BY <1>2, ConnDetections
    <2>2. CASE d \in VolumetricDdos(ev)
      <3>1. \/ d = Detected("RULE_DDOS_VOLUMETRIC", "DDoS", "critical")
            \/ d = Detected("RULE_DDOS_VOLUMETRIC", "DDoS", "high")
        BY <2>2, DdosDetections
      <3> QED
        BY <1>0, <3>1
    <2> QED
      BY <1>0, <2>1, <2>2
  <1>3. CASE ev.event_type = "dns" /\ d \in EvaluateRules(ev)
    <2>1. d \in {Detected("RULE_DNS_TUNNELLING", "DGA / DNS Tunnelling", "high"),
                 Detected("RULE_DNS_DGA_FALLBACK", "DGA / DNS Tunnelling", "medium")}
      BY <1>3, DnsDetections
    <2> QED
      BY <1>0, <2>1
  <1> QED
    BY <1>1, <1>2, <1>3

LEMMA GateFacts ==
    ASSUME NEW ev, NEW d, Actionable(d),
           ev.orig_h \in {"public", "private", "bad", "absent"},
           ev.resp_h \in {"public", "private", "bad", "absent"}
    PROVE  ValidateAlert(RawAlert(ev, d)) <=> "bad" \notin {ev.orig_h, ev.resp_h}
  <1> DEFINE alert == RawAlert(ev, d)
  <1>1. /\ alert.severity = d.severity /\ alert.schema_version = "1.0"
        /\ alert.source_ip = (IF ev.orig_h = "absent" THEN "private" ELSE ev.orig_h)
        /\ alert.destination_ip = (IF ev.resp_h = "absent" THEN "private" ELSE ev.resp_h)
    BY DEF RawAlert
  <1> HIDE DEF alert
  <1>2. IsIpAddress(alert.source_ip) <=> ev.orig_h # "bad"
    BY <1>1 DEF IsIpAddress
  <1>3. IsIpAddress(alert.destination_ip) <=> ev.resp_h # "bad"
    BY <1>1 DEF IsIpAddress
  <1>4. ValidateAlert(alert) <=> IsIpAddress(alert.source_ip) /\ IsIpAddress(alert.destination_ip)
    BY <1>1 DEF ValidateAlert, Actionable
  <1> QED
    BY <1>2, <1>3, <1>4 DEF alert

(***************************************************************************)
(* Every detection of evaluate_rules or of the model can be delivered and  *)
(* acted upon: its alert passes the schema gate exactly when the event's   *)
(* addresses are ones, and generate_playbook does not fall back on its     *)
(* default for it.                                                         *)
(***************************************************************************)
THEOREM FunctionsDetectionsAreActionable == Spec => []DetectionsAreActionable
  <1>1. InputOK => DetectionsAreActionable
    <2> SUFFICES ASSUME InputOK, input.kind \in {"conn", "dns"},
                        NEW d \in EvaluateRules(input.ev) \cup {DlDetection}
                 PROVE  /\ ValidateAlert(RawAlert(input.ev, d)) <=> "bad" \notin {input.ev.orig_h, input.ev.resp_h}
                        /\ Playbook(d.threat_class) = "DATA_EXFILTRATION" => d.rule = "RULE_CONN_EXFIL"
      BY DEF DetectionsAreActionable
    <2>1. /\ input.ev.event_type \in {"conn", "dns"}
          /\ input.ev.orig_h \in {"public", "private", "bad", "absent"}
          /\ input.ev.resp_h \in {"public", "private", "bad", "absent"}
      <3>1. CASE input.kind = "conn"
        BY <3>1, InputCases DEF ConnInput, AnyConn, ConnOf
      <3>2. CASE input.kind = "dns"
        BY <3>2, InputCases DEF DnsInput, Dns
      <3> QED
        BY <3>1, <3>2
    <2>2. Actionable(d)
      BY <2>1, DetectionsActionable
    <2>3. ValidateAlert(RawAlert(input.ev, d)) <=> "bad" \notin {input.ev.orig_h, input.ev.resp_h}
      BY <2>1, <2>2, GateFacts
    <2> QED
      BY <2>2, <2>3 DEF Actionable
  <1> QED
    BY <1>1, InputInvariant, PTL

\* No rule but the volumetric one detects a flood.
LEMMA DdosOnly ==
    ASSUME NEW ev, ev.event_type = "conn", ~RulesRaise(ev)
    PROVE  {e \in EvaluateRules(ev) : e.threat_class = "DDoS"} = VolumetricDdos(ev)
  <1>1. ASSUME NEW d \in VolumetricDdos(ev)
        PROVE  d \in EvaluateRules(ev) /\ d.threat_class = "DDoS"
    <2>1. EvaluateRules(ev) = UNION {VolumetricDdos(ev), C2Heartbeat(ev), Ja4Malware(ev), ReconPortScan(ev),
                                     ConnExfil(ev)}
      BY DEF EvaluateRules
    <2>2. d \in EvaluateRules(ev)
      BY <2>1
    <2>3. d.threat_class = "DDoS"
      BY DdosDetections DEF Detected
    <2> QED
      BY <2>2, <2>3
  <1>2. ASSUME NEW d \in EvaluateRules(ev), d.threat_class = "DDoS", d \notin VolumetricDdos(ev)
        PROVE  FALSE
    <2>1. \/ d = Detected("RULE_C2_HEARTBEAT", "C2 Beaconing", "high")
          \/ d = Detected("RULE_TLS_JA4_MALWARE", "Encrypted-Traffic Malware", "critical")
          \/ d = Detected("RULE_RECON_PORT_SCAN", "Reconnaissance", "low")
          \/ d = Detected("RULE_CONN_EXFIL", "Data Exfiltration", "high")
      BY <1>2, ConnDetections
    <2>2. ASSUME NEW r, NEW c, NEW s, d = Detected(r, c, s)
          PROVE  c = "DDoS"
      <3>1. Detected(r, c, s).threat_class = c
        BY Zenon DEF Detected
      <3> QED
        BY <1>2, <2>2, <3>1, Zenon
    <2>3. d # Detected("RULE_C2_HEARTBEAT", "C2 Beaconing", "high")
      BY <2>2, Zenon
    <2>4. d # Detected("RULE_TLS_JA4_MALWARE", "Encrypted-Traffic Malware", "critical")
      BY <2>2, Zenon
    <2>5. d # Detected("RULE_RECON_PORT_SCAN", "Reconnaissance", "low")
      BY <2>2, Zenon
    <2>6. d # Detected("RULE_CONN_EXFIL", "Data Exfiltration", "high")
      BY <2>2, Zenon
    <2> QED
      BY <2>1, <2>3, <2>4, <2>5, <2>6, Zenon
  <1> QED
    BY <1>1, <1>2

LEMMA DdosWeightFacts ==
    ASSUME NEW ev, ev.event_type = "conn", SafeInt(ev, "orig_pkts") \in Nat
    PROVE  DdosWeight(ev) = IF RulesRaise(ev) THEN 0
                            ELSE IF SafeInt(ev, "orig_pkts") > 10000 THEN 100
                            ELSE IF ev.conn_state = "REJ" /\ SafeInt(ev, "orig_pkts") >= 100 THEN 75 ELSE 0
  <1> DEFINE found == {e \in EvaluateRules(ev) : e.threat_class = "DDoS"}
             weights == {0} \cup {SeverityWeight(d.severity) : d \in found}
             n == SafeInt(ev, "orig_pkts")
             critical == Detected("RULE_DDOS_VOLUMETRIC", "DDoS", "critical")
             high == Detected("RULE_DDOS_VOLUMETRIC", "DDoS", "high")
  <1>1. DdosWeight(ev) = Max(weights)
    BY DEF DdosWeight
  <1>2. SeverityWeight(critical.severity) = 100 /\ SeverityWeight(high.severity) = 75
    BY DEF Detected, SeverityWeight
  <1>3. ASSUME RulesRaise(ev) PROVE found = {}
    BY <1>3 DEF EvaluateRules
  <1>4. ASSUME ~RulesRaise(ev) PROVE found = VolumetricDdos(ev)
    BY <1>4, DdosOnly
  <1>5. VolumetricDdos(ev) = IF n > 10000 THEN {critical}
                             ELSE IF ev.conn_state = "REJ" /\ n >= 100 THEN {high} ELSE {}
    BY SMT DEF VolumetricDdos, When
  <1> HIDE DEF found, critical, high, n
  <1>6. ASSUME found = {} PROVE Max(weights) = 0
    <2>1. weights = {0}
      BY <1>6
    <2> HIDE DEF weights
    <2>2. weights \in SUBSET Int /\ 0 \in weights /\ \A x \in weights : x <= 0
      BY <2>1
    <2> QED
      BY <2>2, LargestIsMax
  <1>7. ASSUME NEW d, found = {d}, SeverityWeight(d.severity) \in Nat
        PROVE  Max(weights) = SeverityWeight(d.severity)
    <2> DEFINE w == SeverityWeight(d.severity)
    <2>1. weights = {0, w}
      BY <1>7
    <2>2. w \in Nat
      BY <1>7
    <2> HIDE DEF weights, w
    <2>3. weights \in SUBSET Int /\ w \in weights /\ \A x \in weights : x <= w
      BY <2>1, <2>2
    <2>4. Max(weights) = w
      BY <2>3, LargestIsMax
    <2> QED
      BY <2>4 DEF w
  <1> HIDE DEF weights
  <1>8. CASE RulesRaise(ev)
    BY <1>1, <1>3, <1>6, <1>8
  <1>9. CASE ~RulesRaise(ev) /\ n > 10000
    <2>1. found = {critical} /\ SeverityWeight(critical.severity) \in Nat
      BY <1>2, <1>4, <1>5, <1>9, SMT
    <2>2. Max(weights) = SeverityWeight(critical.severity)
      BY <1>7, <2>1
    <2> QED
      BY <1>1, <1>2, <1>9, <2>2, SMT DEF n
  <1>10. CASE ~RulesRaise(ev) /\ ~(n > 10000) /\ ev.conn_state = "REJ" /\ n >= 100
    <2>1. found = {high} /\ SeverityWeight(high.severity) \in Nat
      BY <1>2, <1>4, <1>5, <1>10, SMT
    <2>2. Max(weights) = SeverityWeight(high.severity)
      BY <1>7, <2>1
    <2> QED
      BY <1>1, <1>2, <1>10, <2>2, SMT DEF n
  <1>11. CASE ~RulesRaise(ev) /\ ~(n > 10000) /\ ~(ev.conn_state = "REJ" /\ n >= 100)
    <2>1. found = {}
      BY <1>4, <1>5, <1>11, SMT
    <2> QED
      BY <1>1, <1>6, <1>11, <2>1, SMT DEF n
  <1> QED
    BY <1>8, <1>9, <1>10, <1>11, SMT

(***************************************************************************)
(* The volumetric rule never grades a flood as milder because it grew: for *)
(* any packet counts, its severity does not fall with them.                *)
(***************************************************************************)
THEOREM FunctionsFloodsEscalate == Spec => FloodsEscalate
  <1>1. ASSUME InputOK, MorePackets PROVE DdosWeight(input.ev) <= DdosWeight(input'.ev)
    <2>1. PICK n \in Nat : /\ n >= input.ev.orig_pkts
                           /\ input' = [kind |-> "conn", ev |-> [input.ev EXCEPT !.orig_pkts = n]]
      BY <1>1, MorePacketsFacts
    <2> DEFINE old == input.ev
               new == input'.ev
    <2>2. old \in AnyConn
      BY <1>1, MorePacketsFacts DEF ConnInput
    <2>3. new = [old EXCEPT !.orig_pkts = n]
      BY <2>1
    <2> HIDE DEF old, new
    <2>4. /\ old.event_type = "conn" /\ new.event_type = "conn" /\ new.conn_state = old.conn_state
          /\ new.null = old.null /\ new.odd = old.odd /\ new.orig_pkts = n /\ old.orig_pkts \in Nat
      BY <2>2, <2>3 DEF AnyConn, ConnOf
    <2>5. /\ SafeInt(old, "orig_pkts") = IF "orig_pkts" \in old.null THEN 0 ELSE old.orig_pkts
          /\ SafeInt(new, "orig_pkts") = IF "orig_pkts" \in new.null THEN 0 ELSE new.orig_pkts
      BY <2>2, <2>3 DEF SafeInt, AnyConn, ConnOf
    <2>6. RulesRaise(new) <=> RulesRaise(old)
      BY <2>4 DEF RulesRaise
    <2> DEFINE a == SafeInt(old, "orig_pkts")
               b == SafeInt(new, "orig_pkts")
    <2>7. a \in Nat /\ b \in Nat /\ a <= b
      BY <2>1, <2>4, <2>5 DEF old
    <2>8. DdosWeight(old) = IF RulesRaise(old) THEN 0 ELSE IF a > 10000 THEN 100
                            ELSE IF old.conn_state = "REJ" /\ a >= 100 THEN 75 ELSE 0
      BY <2>4, <2>7, DdosWeightFacts, SMT
    <2>9. DdosWeight(new) = IF RulesRaise(new) THEN 0 ELSE IF b > 10000 THEN 100
                            ELSE IF new.conn_state = "REJ" /\ b >= 100 THEN 75 ELSE 0
      BY <2>4, <2>7, DdosWeightFacts, SMT
    <2> HIDE DEF a, b
    <2>10. DdosWeight(old) <= DdosWeight(new)
      BY <2>4, <2>6, <2>7, <2>8, <2>9, SMT
    <2> QED
      BY <2>10 DEF old, new
  <1>2. InputOK /\ [Next]_input =>
            [MorePackets => DdosWeight(input.ev) <= DdosWeight(input'.ev)]_input
    BY <1>1
  <1> QED
    BY <1>2, InputInvariant, PTL DEF Spec, FloodsEscalate

-----------------------------------------------------------------------------
(***************************************************************************)
(* The risk score.                                                         *)
(***************************************************************************)
Weights(s) == {SeverityWeight(s[i]) : i \in DOMAIN s}

LEMMA WeightsFacts ==
    ASSUME NEW s, s # <<>>, s \in Seq(Severities)
    PROVE  /\ Max(Weights(s)) \in Weights(s) /\ Max(Weights(s)) \in 0 .. 100
           /\ \A x \in Weights(s) : x <= Max(Weights(s))
  <1>1. \A x : SeverityWeight(x) \in 0 .. 100
    BY SMT DEF SeverityWeight
  <1>2. Weights(s) \in SUBSET (0 .. 100)
    BY <1>1 DEF Weights
  <1>3. 1 \in DOMAIN s
    OBVIOUS
  <1>4. Weights(s) # {}
    BY <1>3 DEF Weights
  <1>5. Max(Weights(s)) \in Weights(s) /\ \A x \in Weights(s) : x <= Max(Weights(s))
    BY <1>2, <1>4, MaxFacts
  <1> QED
    BY <1>2, <1>5

(***************************************************************************)
(* calculate_risk_score never falls with one more alert of the incident,   *)
(* whatever its severity, and never exceeds 100.                           *)
(***************************************************************************)
THEOREM FunctionsRiskNeverFalls == Spec => RiskNeverFalls
  <1>1. ASSUME InputOK, MoreAlerts
        PROVE  /\ CalculateRiskScore(input.severities) <= CalculateRiskScore(input'.severities)
               /\ CalculateRiskScore(input'.severities) <= 100
    <2>1. PICK x \in Severities : input' = [input EXCEPT !.severities = Append(@, x)]
      BY <1>1 DEF MoreAlerts, Severities
    <2>2. input \in IncidentInput
      BY <1>1, InputCases DEF MoreAlerts
    <2> DEFINE s == input.severities
               t == input'.severities
    <2>3. s \in Seq(Severities) /\ t = Append(s, x)
      BY <2>1, <2>2 DEF IncidentInput
    <2> HIDE DEF s, t
    <2>4. /\ t \in Seq(Severities) /\ t # <<>> /\ Len(t) = Len(s) + 1 /\ Len(s) \in Nat
          /\ DOMAIN s = 1 .. Len(s) /\ DOMAIN t = 1 .. Len(t) /\ \A i \in DOMAIN s : t[i] = s[i]
      BY <2>3
    <2>5. Weights(s) \subseteq Weights(t)
      <3>1. \A i \in DOMAIN s : i \in DOMAIN t /\ t[i] = s[i]
        BY <2>4
      <3> QED
        BY <3>1 DEF Weights
    <2> DEFINE a == Max(Weights(s))
               b == Max(Weights(t))
               u == a + 5 * (Len(s) - 1)
               v == b + 5 * (Len(t) - 1)
    <2>6. b \in 0 .. 100 /\ \A w \in Weights(t) : w <= b
      BY <2>4, WeightsFacts
    <2>7. ASSUME s # <<>> PROVE a \in 0 .. 100 /\ a <= b
      <3>1. a \in 0 .. 100 /\ a \in Weights(s)
        BY <2>3, <2>7, WeightsFacts
      <3> QED
        BY <2>5, <2>6, <3>1
    <2>8. CalculateRiskScore(t) = Min({100, v}) /\ CalculateRiskScore(s) = IF s = <<>> THEN 0 ELSE Min({100, u})
      BY <2>4 DEF CalculateRiskScore, Weights
    <2> HIDE DEF a, b
    <2>9. v \in Int /\ v >= 0
      BY <2>4, <2>6
    <2>10. CalculateRiskScore(t) = IF 100 <= v THEN 100 ELSE v
      BY <2>8, <2>9, MinFacts
    <2>11. CASE s = <<>>
      <3>1. CalculateRiskScore(s) = 0
        BY <2>8, <2>11
      <3> HIDE DEF v
      <3> QED
        BY <2>9, <2>10, <3>1 DEF s, t
    <2>12. CASE s # <<>>
      <3>0. a \in 0 .. 100 /\ a <= b
        BY <2>7, <2>12, Zenon
      <3>1. u \in Int /\ u <= v
        <4>1. a \in Int /\ b \in Int /\ a <= b
          BY <2>6, <3>0
        <4>2. Len(s) \in Int /\ Len(t) = Len(s) + 1
          BY <2>4
        <4> QED
          BY <4>1, <4>2
      <3>2. CalculateRiskScore(s) = IF 100 <= u THEN 100 ELSE u
        BY <2>8, <2>12, <3>1, MinFacts
      <3> HIDE DEF u, v
      <3>3. CalculateRiskScore(s) <= CalculateRiskScore(t) /\ CalculateRiskScore(t) <= 100
        BY <2>9, <2>10, <3>1, <3>2
      <3> QED
        BY <3>3 DEF s, t
    <2> QED
      BY <2>11, <2>12
  <1>2. InputOK /\ [Next]_input =>
            [MoreAlerts => /\ CalculateRiskScore(input.severities) <= CalculateRiskScore(input'.severities)
                           /\ CalculateRiskScore(input'.severities) <= 100]_input
    BY <1>1
  <1> QED
    BY <1>2, InputInvariant, PTL DEF Spec, RiskNeverFalls

-----------------------------------------------------------------------------
(***************************************************************************)
(* The address a request is counted under.                                 *)
(***************************************************************************)
Hop == Addresses \cup {"junk"}

LEMMA LastHopsFacts ==
    ASSUME NEW hops \in Seq(Hop)
    PROVE  /\ LastHops(hops) \in Seq(Hop)
           /\ Len(hops) <= MaxHops => LastHops(hops) = hops
           /\ Len(hops) >= MaxHops =>
                 /\ Len(LastHops(hops)) = MaxHops
                 /\ \A i \in 1 .. MaxHops : LastHops(hops)[i] = hops[Len(hops) - MaxHops + i]
  <1> DEFINE n == Len(hops)
             m == IF n > MaxHops THEN n - MaxHops + 1 ELSE 1
  <1>1. n \in Nat /\ MaxHops \in Nat \ {0} /\ m \in 1 .. (n + 1) /\ \A i \in 1 .. n : hops[i] \in Hop
    BY GateAssumption
  <1>2. LastHops(hops) = SubSeq(hops, m, n)
    BY DEF LastHops
  <1>3. \A i \in m .. n : hops[i] \in Hop
    BY <1>1
  <1> HIDE DEF m
  <1>4. /\ SubSeq(hops, m, n) \in Seq(Hop)
        /\ Len(SubSeq(hops, m, n)) = IF m <= n THEN n - m + 1 ELSE 0
        /\ \A i \in 1 .. (n - m + 1) : SubSeq(hops, m, n)[i] = hops[m + i - 1]
    BY <1>1, <1>3, SubSeqProperties
  <1>5. ASSUME n <= MaxHops PROVE SubSeq(hops, m, n) = hops
    <2>1. m = 1
      BY <1>1, <1>5 DEF m
    <2>2. Len(SubSeq(hops, m, n)) = n /\ \A i \in 1 .. n : SubSeq(hops, m, n)[i] = hops[i]
      BY <1>1, <1>4, <2>1
    <2> QED
      BY <1>4, <2>2, SeqEqual
  <1>6. ASSUME n >= MaxHops
        PROVE  /\ Len(SubSeq(hops, m, n)) = MaxHops
               /\ \A i \in 1 .. MaxHops : SubSeq(hops, m, n)[i] = hops[n - MaxHops + i]
    <2>1. m = n - MaxHops + 1
      BY <1>1, <1>6 DEF m
    <2>2. n - m + 1 = MaxHops /\ m <= n /\ \A i \in 1 .. MaxHops : m + i - 1 = n - MaxHops + i
      BY <1>1, <2>1
    <2> QED
      BY <1>1, <1>4, <2>2
  <1> QED
    BY <1>2, <1>4, <1>5, <1>6

LEMMA MoreHopsFacts ==
    ASSUME InputOK, MoreHops
    PROVE  /\ input \in RequestInput
           /\ \E ip \in Hop : input' = [kind |-> "request",
                                        request |-> [input.request EXCEPT !.hops = <<ip>> \o input.request.hops]]
  <1>1. input \in RequestInput
    BY InputCases DEF MoreHops
  <1>2. PICK ip \in Hop : input' = [input EXCEPT !.request.hops = <<ip>> \o @]
    BY DEF MoreHops, Hop
  <1>3. input' = [kind |-> "request", request |-> [input.request EXCEPT !.hops = <<ip>> \o input.request.hops]]
    BY <1>1, <1>2 DEF RequestInput
  <1> QED
    BY <1>1, <1>3

\* One more hop on the left moves the entry that counts, if there is one, by
\* one place, or pushes a hop out of the ones that are looked at.
LEMMA OneMoreHop ==
    ASSUME NEW hops \in Seq(Hop), NEW ip \in Hop, NEW client,
           ToSet(LastHops(hops)) \ (Trusted \cup {"junk"}) # {}
    PROVE  ForwardedFor(<<ip>> \o hops, client) = ForwardedFor(hops, client) /\ hops # <<>>
  <1> DEFINE more == <<ip>> \o hops
             n == Len(hops)
  <1>1. /\ more \in Seq(Hop) /\ n \in Nat /\ Len(more) = n + 1 /\ MaxHops \in Nat \ {0}
        /\ \A i \in 1 .. n : more[i + 1] = hops[i]
    BY GateAssumption
  <1> HIDE DEF more
  <1>2. PICK i \in DOMAIN LastHops(hops) : LastHops(hops)[i] \notin Trusted \cup {"junk"}
    BY DEF ToSet
  <1>3. hops # <<>>
    BY <1>2, LastHopsFacts, <1>1
  <1>4. CASE n >= MaxHops
    <2>1. /\ LastHops(hops) \in Seq(Hop) /\ Len(LastHops(hops)) = MaxHops
          /\ \A k \in 1 .. MaxHops : LastHops(hops)[k] = hops[n - MaxHops + k]
      BY <1>4, LastHopsFacts
    <2>2. /\ LastHops(more) \in Seq(Hop) /\ Len(LastHops(more)) = MaxHops
          /\ \A k \in 1 .. MaxHops : LastHops(more)[k] = more[n + 1 - MaxHops + k]
      <3>1. Len(more) >= MaxHops
        BY <1>1, <1>4
      <3>2. /\ LastHops(more) \in Seq(Hop) /\ Len(LastHops(more)) = MaxHops
            /\ \A k \in 1 .. MaxHops : LastHops(more)[k] = more[Len(more) - MaxHops + k]
        BY <1>1, <3>1, LastHopsFacts
      <3> QED
        BY <1>1, <3>2
    <2>3. ASSUME NEW k \in 1 .. MaxHops PROVE LastHops(hops)[k] = LastHops(more)[k]
      <3>1. n - MaxHops + k \in 1 .. n /\ n + 1 - MaxHops + k = (n - MaxHops + k) + 1
        BY <1>1, <1>4
      <3> QED
        BY <1>1, <2>1, <2>2, <3>1
    <2>4. LastHops(hops) = LastHops(more)
      BY <2>1, <2>2, <2>3, SeqEqual
    <2> QED
      BY <1>3, <2>4 DEF ForwardedFor, more
  <1>5. CASE n < MaxHops
    <2>1. LastHops(hops) = hops /\ LastHops(more) = more
      BY <1>1, <1>5, LastHopsFacts
    <2>2. hops[i] \in Hop /\ hops[i] # "absent" /\ i \in 1 .. n
      BY <1>2, <2>1 DEF Hop, Addresses
    <2>3. i \in Foreign(hops)
      BY <1>2, <2>1, <2>2 DEF Foreign, Valid, ValidateIp
    <2>4. Foreign(hops) \in SUBSET (0 .. n)
      BY DEF Foreign, Valid
    <2> DEFINE m == Max(Foreign(hops))
    <2>5. m \in Foreign(hops) /\ \A x \in Foreign(hops) : x <= m
      BY <1>1, <2>3, <2>4, MaxFacts
    <2> HIDE DEF m
    <2>6. m \in 1 .. n
      BY <2>5 DEF Foreign, Valid
    <2>7. m + 1 \in Foreign(more)
      BY <1>1, <2>5, <2>6 DEF Foreign, Valid
    <2>8. Foreign(more) \in SUBSET Int
      BY <1>1 DEF Foreign, Valid
    <2>9. ASSUME NEW x \in Foreign(more) PROVE x <= m + 1
      <3>1. x \in 1 .. (n + 1)
        BY <1>1 DEF Foreign, Valid
      <3>2. CASE x = 1
        BY <2>6, <3>2
      <3>3. CASE x # 1
        <4>1. x - 1 \in 1 .. n /\ more[x] = hops[x - 1]
          <5>1. x - 1 \in 1 .. n /\ (x - 1) + 1 = x
            BY <1>1, <3>1, <3>3
          <5> QED
            BY <1>1, <5>1
        <4>2. x - 1 \in Foreign(hops)
          BY <4>1 DEF Foreign, Valid
        <4> QED
          BY <2>5, <2>6, <3>1, <4>2
      <3> QED
        BY <3>2, <3>3
    <2>10. Max(Foreign(more)) = m + 1
      BY <2>7, <2>8, <2>9, LargestIsMax
    <2>11. more[m + 1] = hops[m]
      BY <1>1, <2>6
    <2>12. ForwardedFor(hops, client) = hops[m]
      BY <2>1, <2>3 DEF ForwardedFor, m
    <2>13. ForwardedFor(more, client) = more[m + 1]
      BY <2>1, <2>7, <2>10 DEF ForwardedFor
    <2> QED
      BY <1>3, <2>11, <2>12, <2>13 DEF more
  <1> QED
    BY <1>1, <1>4, <1>5

(***************************************************************************)
(* get_remote_address counts a request under the address nearest to us     *)
(* that is no proxy of ours, however many hops a caller writes to the left *)
(* of it and whichever of them _MAX_XFF_HOPS cuts off.                     *)
(***************************************************************************)
THEOREM FunctionsVouchedAddressCounts == Spec => VouchedAddressCounts
  <1> DEFINE request == input.request
             vouched == ToSet(LastHops(request.hops)) \ (Trusted \cup {"junk"})
             Same == (request.peer \notin Trusted \/ request.long \/ vouched # {}) =>
                         RemoteAddress(request) = RemoteAddress(input'.request)
  <1>1. ASSUME InputOK, MoreHops PROVE Same
    <2>1. PICK ip \in Hop :
            input' = [kind |-> "request", request |-> [request EXCEPT !.hops = <<ip>> \o request.hops]]
      BY <1>1, MoreHopsFacts
    <2>2. request \in AnyRequest
      BY <1>1, MoreHopsFacts DEF RequestInput
    <2> DEFINE more == input'.request
    <2>3. /\ request.peer \in Addresses /\ request.hops \in Seq(Hop) /\ more.hops = <<ip>> \o request.hops
          /\ more.peer = request.peer /\ more.long = request.long /\ more.real = request.real
      BY <2>1, <2>2 DEF AnyRequest, Hop
    <2> HIDE DEF request, more
    <2>4. ValidateIp(request.peer)
      BY <2>3 DEF Addresses, ValidateIp
    <2>5. CASE request.peer \notin Trusted
      BY <2>3, <2>4, <2>5 DEF RemoteAddress, more
    <2>6. CASE request.long
      BY <2>3, <2>4, <2>6 DEF RemoteAddress, more
    <2>7. CASE vouched # {}
      <3>1. /\ ForwardedFor(more.hops, request.peer) = ForwardedFor(request.hops, request.peer)
            /\ request.hops # <<>>
        BY <2>3, <2>7, OneMoreHop
      <3>2. more.hops # <<>>
        BY <2>3
      <3> QED
        BY <2>3, <2>4, <3>1, <3>2 DEF RemoteAddress, more
    <2> QED
      BY <2>5, <2>6, <2>7
  <1>2. InputOK /\ [Next]_input => [MoreHops => Same]_input
    BY <1>1
  <1> QED
    BY <1>2, InputInvariant, PTL DEF Spec, VouchedAddressCounts

-----------------------------------------------------------------------------
(***************************************************************************)
(* The variants of a domain.                                               *)
(***************************************************************************)
Variant == [from : Nat, len : Int]

LEMMA LabelsFacts ==
    ASSUME NEW labels \in Seq(Nat), labels # <<>>
    PROVE  /\ DomainLength(labels) \in Int
           /\ \A i \in DOMAIN labels : LabelStart(labels, i) \in Nat
  <1> DEFINE f == [j \in DOMAIN labels |-> labels[j] + 1]
  <1>1. Len(labels) \in Nat /\ DOMAIN labels = 1 .. Len(labels) /\ IsFiniteSet(DOMAIN labels)
    BY FS_Interval
  <1>2. \A j \in DOMAIN labels : labels[j] \in Nat /\ f[j] \in Nat
    OBVIOUS
  <1>3. SumFunction(labels) \in Nat
    BY <1>1, <1>2, SumType DEF SumFunction
  <1>4. ASSUME NEW i \in DOMAIN labels PROVE LabelStart(labels, i) \in Nat
    <2>0. i \in Int /\ i <= Len(labels) /\ 1 \in Int /\ i - 1 \in Int
      BY <1>1
    <2>1. IsFiniteSet(1 .. (i - 1)) /\ 1 .. (i - 1) \subseteq DOMAIN labels
      <3>1. IsFiniteSet(1 .. (i - 1))
        BY <2>0, FS_Interval
      <3> QED
        BY <1>1, <2>0, <3>1
    <2> HIDE DEF f
    <2>2. SumFunctionOnSet(f, 1 .. (i - 1)) \in Nat
      BY <1>2, <2>1, SumType
    <2> QED
      BY <2>2 DEF LabelStart, f
  <1> QED
    BY <1>1, <1>3, <1>4 DEF DomainLength

\* The long labels are numbered from left to right without a gap.
LongAt(labels) == {i \in DOMAIN labels : labels[i] >= 4}
LongUpTo(labels, i) == {j \in 1 .. i : labels[j] >= 4}

LEMMA LongRank ==
    ASSUME NEW labels \in Seq(Nat)
    PROVE  /\ Cardinality(LongAt(labels)) \in Nat
           /\ \A k \in 1 .. Cardinality(LongAt(labels)) :
                 \E i \in LongAt(labels) : Cardinality(LongUpTo(labels, i)) = k
  <1> DEFINE set == LongAt(labels)
             n == Cardinality(set)
             f == [i \in set |-> Cardinality(LongUpTo(labels, i))]
  <1>0. DOMAIN labels = 1 .. Len(labels) /\ Len(labels) \in Nat
    OBVIOUS
  <1>1. IsFiniteSet(set) /\ n \in Nat /\ set \in SUBSET (1 .. Len(labels))
    <2>1. set \in SUBSET (1 .. Len(labels)) /\ IsFiniteSet(1 .. Len(labels))
      BY <1>0, FS_Interval DEF LongAt
    <2> QED
      BY <2>1, FS_Subset, FS_CardinalityType
  <1>2. ASSUME NEW i \in set
        PROVE  /\ LongUpTo(labels, i) \in SUBSET set /\ i \in LongUpTo(labels, i)
               /\ IsFiniteSet(LongUpTo(labels, i)) /\ Cardinality(LongUpTo(labels, i)) \in 1 .. n
    <2>1. LongUpTo(labels, i) \in SUBSET set /\ i \in LongUpTo(labels, i)
      BY <1>0 DEF LongAt, LongUpTo
    <2>2. /\ IsFiniteSet(LongUpTo(labels, i)) /\ Cardinality(LongUpTo(labels, i)) <= n
          /\ Cardinality(LongUpTo(labels, i)) \in Nat
      BY <1>1, <2>1, FS_Subset, FS_CardinalityType
    <2>3. Cardinality(LongUpTo(labels, i)) # 0
      BY <2>1, <2>2, FS_EmptySet
    <2> HIDE DEF n
    <2> QED
      BY <1>1, <2>1, <2>2, <2>3
  <1>3. ASSUME NEW i \in set, NEW j \in set, i < j
        PROVE  Cardinality(LongUpTo(labels, i)) # Cardinality(LongUpTo(labels, j))
    <2>1. LongUpTo(labels, i) \in SUBSET LongUpTo(labels, j) /\ j \notin LongUpTo(labels, i)
      BY <1>1, <1>3 DEF LongUpTo
    <2> QED
      BY <1>2, <2>1, FS_Subset
  <1>4. f \in [set -> 1 .. n]
    BY <1>2
  <1>5. \A i, j \in set : f[i] = f[j] => i = j
    <2> SUFFICES ASSUME NEW i \in set, NEW j \in set,
                        Cardinality(LongUpTo(labels, i)) = Cardinality(LongUpTo(labels, j))
                 PROVE  i = j
      OBVIOUS
    <2>1. ~(i < j) /\ ~(j < i) /\ i \in Int /\ j \in Int
      BY <1>1, <1>3
    <2> QED
      BY <2>1
  <1>6. f \in Injection(set, 1 .. n)
    BY <1>4, <1>5, Fun_IsInj
  <1>7. IsFiniteSet(1 .. n) /\ Cardinality(1 .. n) = n
    BY <1>1, FS_Interval
  <1>8. f \in Surjection(set, 1 .. n)
    BY <1>6, <1>7, FS_Injection
  <1> QED
    BY <1>1, <1>8 DEF Surjection

LEMMA LongLabelsType ==
    ASSUME NEW labels \in Seq(Nat), labels # <<>>
    PROVE  LongLabels(labels) \in Seq(Variant)
  <1> DEFINE n == Cardinality(LongAt(labels))
             At(k) == CHOOSE i \in DOMAIN labels : labels[i] >= 4 /\ Cardinality(LongUpTo(labels, i)) = k
             Stretch(k) == [from |-> LabelStart(labels, At(k)), len |-> labels[At(k)]]
  <1>1. n \in Nat
    BY LongRank
  <1>2. ASSUME NEW k \in 1 .. n PROVE At(k) \in DOMAIN labels
    <2>1. \E i \in DOMAIN labels : labels[i] >= 4 /\ Cardinality(LongUpTo(labels, i)) = k
      BY LongRank DEF LongAt
    <2> QED
      BY <2>1
  <1>3. ASSUME NEW k \in 1 .. n PROVE Stretch(k) \in Variant
    <2> HIDE DEF At
    <2>1. At(k) \in DOMAIN labels /\ labels[At(k)] \in Nat
      BY <1>2
    <2>2. LabelStart(labels, At(k)) \in Nat
      BY <2>1, LabelsFacts
    <2> QED
      BY <2>1, <2>2 DEF Variant
  <1>4. LongLabels(labels) = [k \in 1 .. n |-> Stretch(k)]
    BY DEF LongLabels, LongAt, LongUpTo
  <1> HIDE DEF n, Stretch
  <1> QED
    BY <1>1, <1>3, <1>4

LEMMA DomainsSubsetType ==
    ASSUME NEW labels \in Seq(Nat), labels # <<>>
    PROVE  DomainsSubset(labels) \in Seq(Variant) /\ Len(DomainsSubset(labels)) \in 1 .. 8
  <1> DEFINE all == DomainsToCheck(labels)
             m == Min({8, Len(all)})
  <1>1. Whole(labels) \in Variant
    BY LabelsFacts DEF Whole, Variant
  <1>2. ASSUME Len(labels) > 2 PROVE LastTwo(labels) \in Variant
    <2>1. Len(labels) - 1 \in DOMAIN labels
      BY <1>2
    <2>2. LabelStart(labels, Len(labels) - 1) \in Nat /\ DomainLength(labels) \in Int
      BY <2>1, LabelsFacts
    <2> QED
      BY <2>2 DEF LastTwo, Variant
  <1>3. all \in Seq(Variant) /\ all # <<>>
    <2>1. CASE Len(labels) < 2
      BY <1>1, <2>1 DEF DomainsToCheck
    <2>2. CASE Len(labels) = 2
      BY <1>1, <2>2, LongLabelsType DEF DomainsToCheck
    <2>3. CASE Len(labels) > 2
      BY <1>1, <1>2, <2>3, LongLabelsType DEF DomainsToCheck
    <2>4. Len(labels) < 2 \/ Len(labels) = 2 \/ Len(labels) > 2
      <3>1. Len(labels) \in Nat
        BY LenProperties
      <3>2. \A n \in Nat : n < 2 \/ n = 2 \/ n > 2
        OBVIOUS
      <3> QED
        BY <3>1, <3>2, Zenon
    <2> HIDE DEF all
    <2> QED
      BY <2>1, <2>2, <2>3, <2>4, Zenon
  <1> HIDE DEF all
  <1>4. Len(all) \in Nat \ {0} /\ \A i \in 1 .. Len(all) : all[i] \in Variant
    BY <1>3
  <1>5. m \in 1 .. 8 /\ m <= Len(all)
    <2> DEFINE l == Len(all)
    <2>1. l \in Nat \ {0}
      BY <1>4
    <2> HIDE DEF l
    <2>2. Min({8, l}) = IF 8 <= l THEN 8 ELSE l
      BY <2>1, MinFacts
    <2>3. Min({8, l}) \in 1 .. 8 /\ Min({8, l}) <= l
      BY <2>1, <2>2
    <2> QED
      BY <2>3 DEF l
  <1> HIDE DEF m
  <1>6. \A i \in 1 .. m : all[i] \in Variant
    BY <1>4, <1>5
  <1>7. SubSeq(all, 1, m) \in Seq(Variant) /\ Len(SubSeq(all, 1, m)) = m
    BY <1>5, <1>6, SubSeqProperties
  <1> QED
    BY <1>5, <1>7 DEF DomainsSubset, all, m

-----------------------------------------------------------------------------
(***************************************************************************)
(* The windows.                                                            *)
(***************************************************************************)
LEMMA BudgetFacts ==
    ASSUME NEW subset \in Seq(Variant), Len(subset) \in 1 .. 8
    PROVE  /\ BudgetPerDomain(subset) \in 4 .. 32
           /\ \A i \in DOMAIN subset : BudgetPerDomain(subset) * (i - 1) + BudgetPerDomain(subset) <= 32
  <1> DEFINE m == Len(subset)
             q == 32 \div m
  <1>1. DOMAIN subset = 1 .. m
    OBVIOUS
  <1> HIDE DEF m
  <1>2. m \in 1 .. 8
    BY DEF m
  <1>3. q \in 4 .. 32 /\ \A i \in 1 .. m : q * (i - 1) + q <= 32
    <2>1. CASE m = 1
      BY <2>1
    <2>2. CASE m = 2
      BY <2>2
    <2>3. CASE m = 3
      BY <2>3
    <2>4. CASE m = 4
      BY <2>4
    <2>5. CASE m = 5
      BY <2>5
    <2>6. CASE m = 6
      BY <2>6
    <2>7. CASE m = 7
      BY <2>7
    <2>8. CASE m = 8
      BY <2>8
    <2> QED
      BY <1>2, <2>1, <2>2, <2>3, <2>4, <2>5, <2>6, <2>7, <2>8
  <1> HIDE DEF q
  <1>4. Max({1, q}) = q
    <2>1. {1, q} \in SUBSET Int /\ q \in {1, q} /\ \A x \in {1, q} : x <= q
      BY <1>3
    <2> QED
      BY <2>1, LargestIsMax
  <1>5. BudgetPerDomain(subset) = q
    BY <1>4 DEF BudgetPerDomain, MaxSlices, m, q
  <1> QED
    BY <1>1, <1>3, <1>5

Steps(p) == {15 * k : k \in 0 .. p}

LEMMA StepsFacts ==
    ASSUME NEW p \in Nat
    PROVE  IsFiniteSet(Steps(p)) /\ Cardinality(Steps(p)) = p + 1 /\ Steps(p) \subseteq Nat /\ 0 \in Steps(p)
  <1> DEFINE f == [k \in 0 .. p |-> 15 * k]
  <1>1. IsFiniteSet(0 .. p) /\ Cardinality(0 .. p) = p + 1
    BY FS_Interval
  <1>2. f \in [0 .. p -> Steps(p)]
    BY DEF Steps
  <1>3. \A i, j \in 0 .. p : f[i] = f[j] => i = j
    OBVIOUS
  <1>4. \A s \in Steps(p) : \E k \in 0 .. p : f[k] = s
    BY DEF Steps
  <1>5. f \in Injection(0 .. p, Steps(p)) /\ f \in Surjection(0 .. p, Steps(p))
    <2>1. f \in Injection(0 .. p, Steps(p))
      BY <1>2, <1>3, Fun_IsInj
    <2>2. f \in Surjection(0 .. p, Steps(p))
      BY <1>2, <1>4, Fun_IsSurj
    <2> QED
      BY <2>1, <2>2
  <1> HIDE DEF f
  <1>6. IsFiniteSet(Steps(p))
    BY <1>1, <1>5, FS_Surjection
  <1>7. Cardinality(0 .. p) = Cardinality(Steps(p))
    BY <1>5, <1>6, FS_Injection
  <1>8. Steps(p) \subseteq Nat
    BY DEF Steps
  <1>9. 0 \in Steps(p)
    <2>1. 0 \in 0 .. p /\ 0 = 15 * 0
      OBVIOUS
    <2> QED
      BY <2>1 DEF Steps
  <1> QED
    BY <1>1, <1>6, <1>7, <1>8, <1>9

\* The number of whole steps that fit.
StepsTaken(len, budget) == Min({budget - 1, (len - 35) \div 15})

LEMMA StepsTakenFacts ==
    ASSUME NEW len \in Int, NEW budget \in 4 .. 32, len > 35
    PROVE  /\ (len - 35) \div 15 \in Nat /\ (len - 35) % 15 \in 0 .. 14
           /\ len - 35 = 15 * ((len - 35) \div 15) + ((len - 35) % 15)
           /\ StepsTaken(len, budget) \in 0 .. (budget - 1)
           /\ len <= 80 => /\ StepsTaken(len, budget) = (len - 35) \div 15
                           /\ (len - 35) % 15 # 0 => StepsTaken(len, budget) + 1 < budget
  <1> DEFINE q == (len - 35) \div 15
             r == (len - 35) % 15
  <1>1. q \in Nat /\ r \in 0 .. 14 /\ len - 35 = 15 * q + r
    OBVIOUS
  <1> HIDE DEF q, r
  <1>2. Min({budget - 1, q}) = IF budget - 1 <= q THEN budget - 1 ELSE q
    BY <1>1, MinFacts
  <1>3. Min({budget - 1, q}) \in 0 .. (budget - 1)
    BY <1>1, <1>2
  <1>4. ASSUME len <= 80
        PROVE  Min({budget - 1, q}) = q /\ (r # 0 => Min({budget - 1, q}) + 1 < budget)
    <2>1. q <= 3 /\ (r # 0 => q <= 2)
      BY <1>1, <1>4
    <2> QED
      BY <1>1, <1>2, <2>1
  <1> QED
    BY <1>1, <1>3, <1>4 DEF StepsTaken, q, r

\* A variant's windows keep to its budget and begin at its beginning.
LEMMA WindowStartsFacts ==
    ASSUME NEW len \in Int, NEW budget \in 4 .. 32
    PROVE  /\ IsFiniteSet(WindowStarts(len, budget)) /\ WindowStarts(len, budget) \subseteq Nat
           /\ 0 \in WindowStarts(len, budget) /\ Cardinality(WindowStarts(len, budget)) \in 0 .. budget
  <1>1. CASE len <= 35
    <2>1. WindowStarts(len, budget) = {0}
      BY <1>1 DEF WindowStarts
    <2>2. IsFiniteSet({0}) /\ Cardinality({0}) = 1
      BY FS_Singleton
    <2> QED
      BY <2>1, <2>2
  <1>2. CASE len > 35
    <2> DEFINE p == StepsTaken(len, budget)
               cut == Cardinality(Steps(p)) < budget /\ (len - 35) % 15 # 0
    <2>1. p \in 0 .. (budget - 1)
      BY <1>2, StepsTakenFacts
    <2>2. WindowStarts(len, budget) = IF cut THEN Steps(p) \cup {len - 35} ELSE Steps(p)
      BY <1>2 DEF WindowStarts, Steps, StepsTaken
    <2> HIDE DEF p
    <2>3. IsFiniteSet(Steps(p)) /\ Cardinality(Steps(p)) = p + 1 /\ Steps(p) \subseteq Nat /\ 0 \in Steps(p)
      BY <2>1, StepsFacts
    <2>4. CASE cut
      <3>1. /\ IsFiniteSet(Steps(p) \cup {len - 35})
            /\ \/ Cardinality(Steps(p) \cup {len - 35}) = Cardinality(Steps(p))
               \/ Cardinality(Steps(p) \cup {len - 35}) = Cardinality(Steps(p)) + 1
        BY <2>3, FS_AddElement
      <3>2. Cardinality(Steps(p) \cup {len - 35}) \in 0 .. budget
        BY <2>1, <2>3, <2>4, <3>1
      <3>3. Steps(p) \cup {len - 35} \subseteq Nat
        BY <1>2, <2>3
      <3> QED
        BY <2>2, <2>3, <2>4, <3>1, <3>2, <3>3
    <2>5. CASE ~cut
      <3>1. Cardinality(Steps(p)) \in 0 .. budget
        BY <2>1, <2>3
      <3> QED
        BY <2>2, <2>3, <2>5, <3>1
    <2> QED
      BY <2>4, <2>5
  <1> QED
    BY <1>1, <1>2

\* Up to 80 characters leave no gap between the windows.
LEMMA WindowsNoGap ==
    ASSUME NEW len \in Int, len <= 80, NEW budget \in 4 .. 32, NEW c \in 0 .. (len - 1)
    PROVE  \E s \in WindowStarts(len, budget) : s <= c /\ c < s + 35
  <1>1. CASE len <= 35
    <2>1. 0 \in WindowStarts(len, budget)
      BY WindowStartsFacts
    <2> QED
      BY <1>1, <2>1
  <1>2. CASE len > 35
    <2> DEFINE q == (len - 35) \div 15
               r == (len - 35) % 15
               p == StepsTaken(len, budget)
    <2>1. /\ q \in Nat /\ r \in 0 .. 14 /\ len - 35 = 15 * q + r
          /\ p = q /\ p \in Nat /\ (r # 0 => p + 1 < budget)
      BY <1>2, StepsTakenFacts
    <2>2. WindowStarts(len, budget) = IF Cardinality(Steps(p)) < budget /\ r # 0
                                      THEN Steps(p) \cup {len - 35} ELSE Steps(p)
      BY <1>2 DEF WindowStarts, Steps, StepsTaken
    <2> HIDE DEF p, q, r
    <2>3. Cardinality(Steps(p)) = p + 1
      BY <2>1, StepsFacts
    <2>4. Steps(p) \subseteq WindowStarts(len, budget)
      BY <2>2
    <2>5. CASE c >= len - 35
      <3>1. len - 35 \in WindowStarts(len, budget)
        <4>1. CASE r = 0
          <5>1. q \in 0 .. p /\ len - 35 = 15 * q
            BY <2>1, <4>1
          <5>2. len - 35 \in Steps(p)
            BY <5>1 DEF Steps
          <5> QED
            BY <2>4, <5>2
        <4>2. CASE r # 0
          BY <2>1, <2>2, <2>3, <4>2
        <4> QED
          BY <4>1, <4>2
      <3>2. len - 35 <= c /\ c < len - 35 + 35
        BY <2>5
      <3> QED
        BY <3>1, <3>2
    <2>6. CASE c < len - 35
      <3> DEFINE k == c \div 15
      <3>1. k \in Nat /\ 15 * k <= c /\ c < 15 * k + 15
        OBVIOUS
      <3> HIDE DEF k
      <3>2. k \in 0 .. p
        BY <2>1, <2>6, <3>1
      <3>3. 15 * k \in WindowStarts(len, budget)
        BY <2>4, <3>2 DEF Steps
      <3>4. 15 * k <= c /\ c < 15 * k + 35
        BY <3>1
      <3> QED
        BY <3>3, <3>4
    <2> QED
      BY <2>5, <2>6
  <1> QED
    BY <1>1, <1>2

LEMMA VariantFields ==
    ASSUME NEW subset \in Seq(Variant), NEW i \in DOMAIN subset
    PROVE  subset[i].from \in Nat /\ subset[i].len \in Int
  <1>1. DOMAIN subset = 1 .. Len(subset)
    BY LenProperties
  <1>2. subset[i] \in Variant
    BY <1>1, ElementOfSeq
  <1> QED
    BY <1>2 DEF Variant

\* The shares add up to no more than the batch: nothing is cut off.
LEMMA NothingCut ==
    ASSUME NEW subset \in Seq(Variant), Len(subset) \in 1 .. 8
    PROVE  AllSlices(subset) =
             UNION {{i} \X WindowStarts(subset[i].len, BudgetPerDomain(subset)) : i \in DOMAIN subset}
  <1> DEFINE B == BudgetPerDomain(subset)
             starts == [i \in DOMAIN subset |-> WindowStarts(subset[i].len, B)]
             sizes == [i \in DOMAIN subset |-> Cardinality(starts[i])]
             Before(i) == SumFunctionOnSet(sizes, 1 .. (i - 1))
             Kept(i) == {s \in starts[i] : Cardinality({t \in starts[i] : t < s}) < 32 - Before(i)}
  <1>1. AllSlices(subset) = UNION {{i} \X Kept(i) : i \in DOMAIN subset}
    BY DEF AllSlices, MaxSlices
  <1>2. B \in 4 .. 32 /\ \A i \in DOMAIN subset : B * (i - 1) + B <= 32
    BY BudgetFacts
  <1>3. \A i \in DOMAIN subset : starts[i] = WindowStarts(subset[i].len, B)
    OBVIOUS
  <1>4. \A i \in DOMAIN subset : subset[i].len \in Int
    BY VariantFields
  <1> HIDE DEF B, starts
  <1>5. ASSUME NEW i \in DOMAIN subset
        PROVE  /\ IsFiniteSet(starts[i]) /\ starts[i] \subseteq Nat /\ Cardinality(starts[i]) \in 0 .. B
               /\ sizes[i] \in 0 .. B
    <2>1. IsFiniteSet(starts[i]) /\ starts[i] \subseteq Nat /\ Cardinality(starts[i]) \in 0 .. B
      BY <1>2, <1>3, <1>4, WindowStartsFacts
    <2> QED
      BY <2>1
  <1> HIDE DEF sizes
  <1>6. ASSUME NEW i \in DOMAIN subset PROVE Kept(i) = starts[i]
    <2>1. i \in Nat \ {0} /\ i <= Len(subset) /\ DOMAIN subset = 1 .. Len(subset) /\ Len(subset) \in Nat
      OBVIOUS
    <2>2. IsFiniteSet(1 .. (i - 1)) /\ Cardinality(1 .. (i - 1)) = i - 1
      <3>1. 1 \in Int /\ i - 1 \in Int
        BY <2>1
      <3>2. /\ IsFiniteSet(1 .. (i - 1))
            /\ Cardinality(1 .. (i - 1)) = IF 1 > i - 1 THEN 0 ELSE (i - 1) - 1 + 1
        BY <3>1, FS_Interval
      <3> QED
        BY <2>1, <3>2
    <2>3. 1 .. (i - 1) \subseteq DOMAIN subset
      BY <2>1
    <2>4. Before(i) \in Nat /\ Before(i) <= B * (i - 1)
      <3>1. \A x \in 1 .. (i - 1) : sizes[x] \in 0 .. B /\ sizes[x] \in Nat
        BY <1>2, <1>5, <2>3
      <3>2. Before(i) \in Nat
        BY <2>2, <3>1, SumType
      <3>3. Before(i) <= B * Cardinality(1 .. (i - 1))
        <4>1. B \in Nat
          BY <1>2
        <4> QED
          BY <2>2, <3>1, <4>1, SumBound
      <3> QED
        BY <2>2, <3>2, <3>3
    <2> DEFINE before == Before(i)
               share == B * (i - 1)
    <2>5. share \in Int /\ share + B <= 32
      BY <1>2, <2>1
    <2>6. before \in Nat /\ before <= share
      BY <2>4
    <2> HIDE DEF before, share
    <2>7. B <= 32 - before
      BY <1>2, <2>5, <2>6
    <2>8. ASSUME NEW s \in starts[i] PROVE Cardinality({t \in starts[i] : t < s}) < 32 - before
      <3> DEFINE S == {t \in starts[i] : t < s}
      <3>1. S \in SUBSET starts[i] /\ s \notin S
        BY <1>5
      <3> HIDE DEF S
      <3>2. IsFiniteSet(S) /\ Cardinality(S) <= Cardinality(starts[i]) /\ Cardinality(S) # Cardinality(starts[i])
        BY <1>5, <3>1, FS_Subset
      <3>3. Cardinality(S) \in Nat
        BY <3>2, FS_CardinalityType
      <3>4. Cardinality(S) < 32 - before
        BY <1>2, <1>5, <2>6, <2>7, <3>2, <3>3
      <3> QED
        BY <3>4 DEF S
    <2> QED
      BY <2>8 DEF before
  <1> HIDE DEF Kept
  <1>7. {{i} \X Kept(i) : i \in DOMAIN subset} = {{i} \X WindowStarts(subset[i].len, B) : i \in DOMAIN subset}
    BY <1>3, <1>6
  <1> QED
    BY <1>1, <1>7 DEF B

LEMMA DomainInputFacts ==
    ASSUME InputOK, input.kind = "domain"
    PROVE  /\ DomainsSubset(input.labels) \in Seq(Variant)
           /\ Len(DomainsSubset(input.labels)) \in 1 .. 8
  <1>1. input.labels \in Seq(Nat) /\ input.labels # <<>>
    BY InputCases DEF DomainInput
  <1> QED
    BY <1>1, DomainsSubsetType

(***************************************************************************)
(* predict shows the model a window of every variant of a domain, however  *)
(* many labels it has and however long they are.                           *)
(***************************************************************************)
THEOREM FunctionsEveryVariantInspected == Spec => []EveryVariantInspected
  <1>1. InputOK => EveryVariantInspected
    <2> SUFFICES ASSUME InputOK, input.kind = "domain"
                 PROVE  {w[1] : w \in AllSlices(DomainsSubset(input.labels))} = DOMAIN DomainsSubset(input.labels)
      BY DEF EveryVariantInspected
    <2> DEFINE subset == DomainsSubset(input.labels)
               W(i) == WindowStarts(subset[i].len, BudgetPerDomain(subset))
    <2>1. subset \in Seq(Variant) /\ Len(subset) \in 1 .. 8
      BY DomainInputFacts
    <2> HIDE DEF subset
    <2>2. AllSlices(subset) = UNION {{i} \X W(i) : i \in DOMAIN subset}
      BY <2>1, NothingCut
    <2>3. ASSUME NEW i \in DOMAIN subset PROVE 0 \in W(i)
      <3>1. subset[i].len \in Int /\ BudgetPerDomain(subset) \in 4 .. 32
        BY <2>1, BudgetFacts, VariantFields
      <3> QED
        BY <3>1, WindowStartsFacts
    <2> HIDE DEF W
    <2>4. ASSUME NEW i \in DOMAIN subset PROVE i \in {w[1] : w \in AllSlices(subset)}
      <3>1. <<i, 0>> \in AllSlices(subset) /\ <<i, 0>>[1] = i
        BY <2>2, <2>3
      <3> QED
        BY <3>1
    <2>5. ASSUME NEW w \in AllSlices(subset) PROVE w[1] \in DOMAIN subset
      BY <2>2
    <2>6. {w[1] : w \in AllSlices(subset)} = DOMAIN subset
      BY <2>4, <2>5
    <2> QED
      BY <2>6 DEF subset
  <1> QED
    BY <1>1, InputInvariant, PTL

(***************************************************************************)
(* predict leaves no blind spot in a variant of up to 80 characters.       *)
(***************************************************************************)
THEOREM FunctionsWindowsCover == Spec => []WindowsCover
  <1>1. InputOK => WindowsCover
    <2> DEFINE subset == DomainsSubset(input.labels)
               slices == AllSlices(subset)
    <2> SUFFICES ASSUME InputOK, input.kind = "domain", NEW i \in DOMAIN subset, subset[i].len <= 80,
                        NEW c \in subset[i].from .. (subset[i].from + subset[i].len - 1)
                 PROVE  c \in Inspected(subset, slices)
      BY DEF WindowsCover
    <2>1. subset \in Seq(Variant) /\ Len(subset) \in 1 .. 8
      BY DomainInputFacts
    <2> HIDE DEF subset
    <2> DEFINE v == subset[i]
               B == BudgetPerDomain(subset)
    <2>2. v.from \in Nat /\ v.len \in Int /\ v.len <= 80 /\ B \in 4 .. 32
      BY <2>1, BudgetFacts, VariantFields
    <2>3. c \in Int /\ c - v.from \in 0 .. (v.len - 1)
      BY <2>2
    <2>4. slices = UNION {{j} \X WindowStarts(subset[j].len, B) : j \in DOMAIN subset}
      BY <2>1, NothingCut
    <2> HIDE DEF slices, B
    <2>5. PICK s \in WindowStarts(v.len, B) : s <= c - v.from /\ c - v.from < s + 35
      BY <2>2, <2>3, WindowsNoGap
    <2>6. s \in Nat
      BY <2>2, WindowStartsFacts
    <2>7. <<i, s>> \in slices
      BY <2>4, <2>5
    <2>8. Min({s + 35, v.len}) = IF s + 35 <= v.len THEN s + 35 ELSE v.len
      BY <2>2, <2>6, MinFacts
    <2>9. c \in (v.from + s) .. (v.from + Min({s + 35, v.len}) - 1)
      BY <2>2, <2>3, <2>5, <2>6, <2>8
    <2>10. Inspected(subset, slices) =
             UNION {(subset[w[1]].from + w[2])
                       .. (subset[w[1]].from + Min({w[2] + 35, subset[w[1]].len}) - 1) : w \in slices}
      BY DEF Inspected
    <2>11. <<i, s>>[1] = i /\ <<i, s>>[2] = s
      OBVIOUS
    <2> QED
      BY <2>7, <2>9, <2>10, <2>11
  <1> QED
    BY <1>1, InputInvariant, PTL
=============================================================================
