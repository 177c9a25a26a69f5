----------------------------- MODULE Detection ------------------------------
(***************************************************************************)
(* The pure functions an event passes on its way to an alert:              *)
(* inference/features.py, inference/rules.py, the windows of               *)
(* DeepLearningEngine.predict, the alert schema, the playbook selection    *)
(* and the risk score of an incident.                                      *)
(*                                                                         *)
(* An event is a record.  A numeric field that holds a Zeek null or text   *)
(* that is no number is in ev.null, one that holds a list or an object is  *)
(* in ev.odd.  A query is "absent", a "string", "falsy" (0, false, an      *)
(* empty list or object) or "odd" (any other JSON value); its text is      *)
(* abstracted to its length, the length of its first label, whether that   *)
(* label's entropy exceeds 3.8, and its suffix.                            *)
(***************************************************************************)
EXTENDS Integers, Sequences, FiniteSets, FiniteSetsExt, Functions

-----------------------------------------------------------------------------
(***************************************************************************)
(* features.py.  int() of a list raises TypeError, which safe_int and      *)
(* safe_float do not catch; len() or isdigit() of a query that is no       *)
(* string raises as well, unless it is falsy and taken for none.           *)
(***************************************************************************)
SafeInt(ev, field) == IF field \in ev.null THEN 0 ELSE ev[field]

FeaturesRaise(ev) ==
    \/ ev.event_type = "dns" /\ ev.query = "odd"
    \/ ev.event_type = "conn" /\ ev.odd \cap {"duration", "orig_bytes", "resp_bytes"} # {}

-----------------------------------------------------------------------------
(***************************************************************************)
(* rules.py.  A rule yields the detections it appends.                     *)
(***************************************************************************)
Detected(rule, class, severity) == [rule |-> rule, threat_class |-> class, severity |-> severity]

When(condition, detection) == IF condition THEN {detection} ELSE {}

RulesRaise(ev) == ev.event_type = "conn" /\ ev.odd \cap {"orig_pkts", "resp_p"} # {}

CriticalOnlyRejected(ev) ==
    LET n == SafeInt(ev, "orig_pkts")
    IN  When(n \in 100 .. 10000, Detected("RULE_DDOS_VOLUMETRIC", "DDoS", "high"))
        \cup When(n > 10000 /\ ev.conn_state = "REJ",
                  Detected("RULE_DDOS_VOLUMETRIC", "DDoS", "critical"))

VolumetricDdos(ev) ==
    LET n == SafeInt(ev, "orig_pkts")
    IN  When(n > 10000, Detected("RULE_DDOS_VOLUMETRIC", "DDoS", "critical"))
        \cup When(n <= 10000 /\ ev.conn_state = "REJ" /\ n >= 100,
                  Detected("RULE_DDOS_VOLUMETRIC", "DDoS", "high"))

C2Heartbeat(ev) ==
    When(/\ SafeInt(ev, "orig_bytes") \in 51 .. 149
         /\ SafeInt(ev, "resp_bytes") \in 51 .. 149
         /\ SafeInt(ev, "resp_p") \notin {80, 443, 53},
         Detected("RULE_C2_HEARTBEAT", "C2 Beaconing", "high"))

Ja4Malware(ev) ==
    When(ev.ja4 = "listed", Detected("RULE_TLS_JA4_MALWARE", "Encrypted-Traffic Malware", "critical"))

ReconInfo(ev) ==
    When(ev.conn_state = "S0" /\ SafeInt(ev, "orig_pkts") < 5,
         Detected("RULE_RECON_PORT_SCAN", "Reconnaissance", "info"))

ReconPortScan(ev) ==
    When(ev.conn_state = "S0" /\ SafeInt(ev, "orig_pkts") < 5,
         Detected("RULE_RECON_PORT_SCAN", "Reconnaissance", "low"))

SendsFarMore(ev) == SafeInt(ev, "orig_bytes") > 5000000 /\ SafeInt(ev, "resp_bytes") < 10000

ConnExfil(ev) ==
    When(SendsFarMore(ev), Detected("RULE_CONN_EXFIL", "Data Exfiltration", "high"))

DnsTunnelling(ev) ==
    When(ev.query \notin {"absent", "falsy"} /\ ev.length > 60 /\ ev.qtype = "TXT",
         Detected("RULE_DNS_TUNNELLING", "DGA / DNS Tunnelling", "high"))

DgaFallback(ev) ==
    When(ev.query = "string" /\ ev.random /\ ev.label >= 16 /\ ~ev.infra,
         Detected("RULE_DNS_DGA_FALLBACK", "DGA / DNS Tunnelling", "medium"))

\* evaluate_rules, called only when the features did not raise; an exception in
\* it leaves the event without any rule detection.
EvaluateRules(ev) ==
    IF RulesRaise(ev) THEN {}
    ELSE CASE ev.event_type = "conn" -> UNION {VolumetricDdos(ev), C2Heartbeat(ev), Ja4Malware(ev),
                                               ReconPortScan(ev), ConnExfil(ev)}
           [] ev.event_type = "dns" -> DnsTunnelling(ev) \cup DgaFallback(ev)
           [] OTHER -> {}

\* What inference adds, and when it is asked: the query's length is checked
\* before a thread is taken.  The text of a falsy query is short, not empty.
DlDetection == Detected("DL_CNN_DGA", "DGA / DNS Tunnelling", "high")

NeedsInference(ev) ==
    /\ ev.event_type = "dns"
    /\ ev.query = "falsy" \/ (ev.query = "string" /\ ev.length \in 1 .. 253)

-----------------------------------------------------------------------------
(***************************************************************************)
(* The alert built from a detection, the schema gate and the playbook.     *)
(* Addresses are "public", "private", "bad" (no address at all: Zeek's     *)
(* null, a leading zero) or "absent", which the processor replaces.        *)
(***************************************************************************)
RawAlert(ev, d) ==
    [threat_class |-> d.threat_class, severity |-> d.severity, model_name |-> d.rule,
     event_type |-> ev.event_type, schema_version |-> "1.0",
     source_ip |-> IF ev.orig_h = "absent" THEN "private" ELSE ev.orig_h,
     destination_ip |-> IF ev.resp_h = "absent" THEN "private" ELSE ev.resp_h]

IsIpAddress(a) == a \in {"public", "private"}

ValidateAlert(alert) ==
    /\ alert.severity \in {"low", "medium", "high", "critical"}
    /\ alert.schema_version = "1.0"
    /\ IsIpAddress(alert.source_ip)
    /\ IsIpAddress(alert.destination_ip)

\* The entries for the classes of this pipeline.
ThreatClassMap ==
    [c \in {"DDoS", "C2 Beaconing", "DGA / DNS Tunnelling", "Encrypted-Traffic Malware",
            "Reconnaissance", "Data Exfiltration"} |->
        CASE c = "DDoS" -> "VOLUMETRIC_PROTOCOL_DDOS"
          [] c = "C2 Beaconing" -> "BOTNET_C2_BEACONING"
          [] c = "DGA / DNS Tunnelling" -> "DGA_DOMAIN"
          [] c = "Encrypted-Traffic Malware" -> "ENCRYPTED_MALWARE_TLS"
          [] c = "Reconnaissance" -> "RECON_PORT_SCAN"
          [] c = "Data Exfiltration" -> "DATA_EXFILTRATION"]

PlaybookTemplates ==
    {"VOLUMETRIC_PROTOCOL_DDOS", "BOTNET_C2_BEACONING", "DGA_DOMAIN", "DNS_TUNNELING_EXFIL",
     "MALICIOUS_JA3_FINGERPRINT", "ENCRYPTED_MALWARE_TLS", "RECON_PORT_SCAN", "DATA_EXFILTRATION"}

\* generate_playbook's choice: the default hides a class nobody mapped and a
\* mapping to a template nobody wrote.
Playbook(class) ==
    LET key == IF class \in DOMAIN ThreatClassMap THEN ThreatClassMap[class] ELSE "DATA_EXFILTRATION"
    IN  IF key \in PlaybookTemplates THEN key ELSE "DATA_EXFILTRATION"

-----------------------------------------------------------------------------
(***************************************************************************)
(* DeepLearningEngine.predict: which parts of a domain the model sees.     *)
(* A domain is the sequence of its label lengths; labels differ from one   *)
(* another.  A variant is a stretch [from, len] of the domain: the whole,  *)
(* the last two labels, and every label of four characters or more.  Names *)
(* are ASCII: the second whole-name variant of an IDN is left out.         *)
(***************************************************************************)
DomainLength(labels) == Len(labels) - 1 + SumFunction(labels)

LabelStart(labels, i) == SumFunctionOnSet([j \in DOMAIN labels |-> labels[j] + 1], 1 .. (i - 1))

Whole(labels) == [from |-> 0, len |-> DomainLength(labels)]

LastTwo(labels) ==
    LET from == LabelStart(labels, Len(labels) - 1)
    IN  [from |-> from, len |-> DomainLength(labels) - from]

LongLabels(labels) ==
    LET Long(i) == labels[i] >= 4
        Stretch(i) == [from |-> LabelStart(labels, i), len |-> labels[i]]
    IN  [k \in 1 .. Cardinality({i \in DOMAIN labels : Long(i)}) |->
            Stretch(CHOOSE i \in DOMAIN labels :
                        Long(i) /\ Cardinality({j \in 1 .. i : Long(j)}) = k)]

\* A name of two labels is its own last two labels and is listed once.
DomainsToCheck(labels) ==
    IF Len(labels) < 2 THEN <<Whole(labels)>>
    ELSE <<Whole(labels)>>
         \o (IF Len(labels) = 2 THEN <<>> ELSE <<LastTwo(labels)>>)
         \o LongLabels(labels)

MaxSlices == 32
DomainsSubset(labels) ==
    LET variants == DomainsToCheck(labels)
    IN  SubSeq(variants, 1, Min({8, Len(variants)}))

SharedPool(subset) == MaxSlices
BudgetPerDomain(subset) == Max({1, MaxSlices \div Len(subset)})

WholeStepsOnly(len, budget) ==
    IF len <= 35 THEN {0} ELSE {15 * k : k \in 0 .. Min({budget - 1, (len - 35) \div 15})}

\* Where the windows of 35 characters start: every 15, then one at the end.
WindowStarts(len, budget) ==
    LET steps == {15 * k : k \in 0 .. Min({budget - 1, (len - 35) \div 15})}
    IN  IF len <= 35 THEN {0}
        ELSE IF Cardinality(steps) < budget /\ (len - 35) % 15 # 0 THEN steps \cup {len - 35}
        ELSE steps

\* The batch handed to the model: <<variant, start>>, cut off at MaxSlices.
AllSlices(subset) ==
    LET starts == [i \in DOMAIN subset |-> WindowStarts(subset[i].len, BudgetPerDomain(subset))]
        sizes == [i \in DOMAIN subset |-> Cardinality(starts[i])]
        Before(i) == SumFunctionOnSet(sizes, 1 .. (i - 1))
        Kept(i) == {s \in starts[i] : Cardinality({t \in starts[i] : t < s}) < MaxSlices - Before(i)}
    IN  UNION {{i} \X Kept(i) : i \in DOMAIN subset}

\* The characters of the domain that a batch shows to the model.
Inspected(subset, slices) ==
    UNION {LET v == subset[w[1]]
           IN  (v.from + w[2]) .. (v.from + Min({w[2] + 35, v.len}) - 1) : w \in slices}

-----------------------------------------------------------------------------
(***************************************************************************)
(* risk.py: the score of an incident from the severities of its alerts.    *)
(***************************************************************************)
SeverityWeight(severity) ==
    CASE severity = "critical" -> 100
      [] severity = "high" -> 75
      [] severity = "medium" -> 50
      [] severity = "low" -> 25
      [] OTHER -> 10

AverageScore(severities) ==
    IF severities = <<>> THEN 0
    ELSE MapThenSumSet(LAMBDA i : SeverityWeight(severities[i]), DOMAIN severities) \div Len(severities)

CalculateRiskScore(severities) ==
    IF severities = <<>> THEN 0
    ELSE Min({100, Max({SeverityWeight(severities[i]) : i \in DOMAIN severities})
                   + 5 * (Len(severities) - 1)})
=============================================================================
