------------------------------ MODULE Dashboard ------------------------------
(***************************************************************************)
(* From the alerts table to the analyst: the two routes of the API         *)
(* (api/routes/alerts.py, get_stats of api/main.py), the poller and the    *)
(* incidents of shared/data_access.py, the console of                      *)
(* terminal/tsoc_console.py, and a client that pages through the alerts.   *)
(*                                                                         *)
(* The table is written by the sink (KafkaSink): rows appear in any order  *)
(* of ids and are updated in place.  Severities are those ALERT_SCHEMA     *)
(* lets through.  A list of alerts is a sequence of rows, newest first.    *)
(***************************************************************************)
EXTENDS ApiGate, FiniteSets, FiniteSetsExt

CONSTANTS
    Source,        \* source addresses of alerts
    Severity,      \* severities in the table
    Limit,         \* alerts of a poll (100)
    PageLimit,     \* alerts of a page of the paging client
    MaxWrites,     \* bound: rows stored or updated
    MaxOutages,    \* bound: times the API becomes unreachable
    Together       \* bound: whether the paging client runs beside a dashboard

ASSUME DashboardAssumption ==
    /\ Limit \in Nat \ {0} /\ PageLimit \in Nat \ {0}
    /\ MaxWrites \in Nat /\ MaxOutages \in Nat /\ Together \in BOOLEAN
    /\ Severity \subseteq {"low", "medium", "high", "critical"}

VARIABLES
    rows, writes,                      \* the table and how often it was written
    api, outages,                      \* "up" or "down"
    configured, poller,                \* ~config_error; the thread: "off" or its next step
    alerts, stats, healthy, answered,  \* what the poller holds; answers of this poll
    live, queued,                      \* the console; queued: the alerts its rows are made from
    token, pager                       \* the paging client

db == <<rows, writes, api, outages>>
held == <<alerts, stats, healthy, answered>>
console == <<live, queued>>
client == <<token, pager>>
vars == <<db, configured, poller, held, console, client>>

-----------------------------------------------------------------------------
\* order_by(id.desc()): the k-th row from the newest.
Nth(set, k) == CHOOSE r \in set : Cardinality({q \in set : q.id >= r.id}) = k

\* get_alerts: the rows before the cursor (0: all), the latest first.
AtCursor(cursor, limit) ==
    LET match == {r \in rows : cursor = 0 \/ r.id <= cursor}
    IN  [k \in 1 .. Min({limit, Cardinality(match)}) |-> Nth(match, k)]
GetAlerts(cursor, limit) ==
    LET match == {r \in rows : cursor = 0 \/ r.id < cursor}
    IN  [k \in 1 .. Min({limit, Cardinality(match)}) |-> Nth(match, k)]

\* get_stats: counts by severity and their sum.
SevereOnly(table) ==
    LET count == [s \in Severity |-> Cardinality({r \in table : r.sev = s})]
    IN  [total |-> SumFunctionOnSet(count, Severity \ {"low"}), count |-> count]
GetStats(table) ==
    LET count == [s \in Severity |-> Cardinality({r \in table : r.sev = s})]
    IN  [total |-> SumFunction(count), count |-> count]

\* Both clients send their token as a Bearer credential.
Sent(t) == ExtractToken(t, NoToken, NoToken)
AlertsStatus(t) == GateStatus(Sent(t), {"alerts:read"})
StatsStatus(t) == GateStatus(Sent(t), {})

-----------------------------------------------------------------------------
\* get_incidents: one pass over the alerts, an incident per source.
SevScore(s) ==
    CASE s = "critical" -> 100 [] s = "high" -> 75 [] s = "medium" -> 50 [] OTHER -> 25

NewIncident(a) == [src |-> a.src, severity |-> a.sev, score |-> 0, ids |-> <<>>]

KeepFirst(inc, a) == [inc EXCEPT !.ids = Append(@, a.id)]
Absorb(inc, a) ==
    LET worse == SevScore(a.sev) > inc.score
    IN  [inc EXCEPT !.ids = Append(@, a.id),
                    !.score = IF worse THEN SevScore(a.sev) ELSE @,
                    !.severity = IF worse THEN a.sev ELSE @]

AddAlert(incidents, a) ==
    LET known == IF \E i \in DOMAIN incidents : incidents[i].src = a.src
                 THEN incidents ELSE Append(incidents, NewIncident(a))
    IN  [i \in DOMAIN known |-> IF known[i].src = a.src THEN Absorb(known[i], a) ELSE known[i]]

RiskScore(inc) == Min({100, inc.score + Min({20, (Len(inc.ids) - 1) * 5})})

Incident(inc) == [src |-> inc.src, severity |-> inc.severity, risk |-> RiskScore(inc), ids |-> inc.ids]

GetIncidents(list) ==
    LET incidents == FoldLeft(AddAlert, <<>>, list)
    IN  [i \in DOMAIN incidents |-> Incident(incidents[i])]

\* The console's stable sort by descending risk.
SortByRisk(incidents) ==
    LET Before(i, j) == \/ incidents[i].risk > incidents[j].risk
                        \/ incidents[i].risk = incidents[j].risk /\ i <= j
        Rank(j) == Cardinality({i \in DOMAIN incidents : Before(i, j)})
    IN  [k \in DOMAIN incidents |-> incidents[CHOOSE j \in DOMAIN incidents : Rank(j) = k]]

\* The rows of the console.
Queue == SortByRisk(GetIncidents(queued))

-----------------------------------------------------------------------------
\* _load_config.
LoadConfig(url, hasKey) == url # "http" /\ hasKey

Init ==
    /\ rows = {} /\ writes = 0 /\ api = "up" /\ outages = 0
    /\ \E url \in {"unset", "https", "http"}, hasKey \in BOOLEAN : configured = LoadConfig(url, hasKey)
    /\ poller = "off" /\ alerts = <<>> /\ stats = GetStats({}) /\ healthy = FALSE /\ answered = {}
    /\ live = TRUE /\ queued = <<>>
    /\ token = Jwt(TRUE, {"alerts:read"})
    /\ pager = [at |-> IF configured /\ ~Together THEN "done" ELSE "idle",
                cursor |-> 0, seen |-> <<>>, due |-> {}]

\* The sink commits a new row, or a newer version of one.
Store ==
    /\ writes < MaxWrites /\ writes' = writes + 1
    /\ \E id \in 1 .. MaxWrites, src \in Source, sev \in Severity :
          rows' = {r \in rows : r.id # id} \cup {[id |-> id, src |-> src, sev |-> sev]}
    /\ UNCHANGED <<api, outages, configured, poller, held, console, client>>

ApiFails ==
    /\ api = "up" /\ outages < MaxOutages
    /\ api' = "down" /\ outages' = outages + 1
    /\ UNCHANGED <<rows, writes, configured, poller, held, console, client>>

ApiRecovers ==
    /\ api = "down" /\ api' = "up"
    /\ UNCHANGED <<rows, writes, outages, configured, poller, held, console, client>>

\* start_listeners: every page and the console call it, the first one counts.
StartListeners ==
    /\ configured /\ poller = "off"
    /\ poller' = "alerts"
    /\ UNCHANGED <<db, configured, held, console, client>>

\* _poll_api.  The service key passes both routes.  An API that is down answers
\* with an error status, with JSON of another shape, or not at all.
AlertsAnswer ==
    \/ /\ api = "up" /\ AlertsStatus(ServiceKey) = 200
       /\ alerts' = GetAlerts(0, Limit) /\ healthy' = TRUE /\ answered' = {"alerts"}
       /\ poller' = "stats"
    \/ /\ api = "down" /\ healthy' = FALSE /\ poller' \in {"stats", "sleep"}
       /\ UNCHANGED <<alerts, answered>>
    \/ /\ api = "down" /\ poller' = "stats"
       /\ UNCHANGED <<alerts, healthy, answered>>

PollAlerts ==
    /\ poller = "alerts" /\ AlertsAnswer
    /\ UNCHANGED <<db, configured, stats, console, client>>

StatsAnswer ==
    \/ /\ api = "up" /\ StatsStatus(ServiceKey) = 200
       /\ stats' = GetStats(rows) /\ answered' = answered \cup {"stats"}
       /\ poller' = "sleep" /\ UNCHANGED healthy
    \/ api = "down" /\ poller' = "sleep" /\ UNCHANGED <<stats, healthy, answered>>
    \/ api = "down" /\ healthy' = FALSE /\ poller' = "sleep" /\ UNCHANGED <<stats, answered>>

PollStats ==
    /\ poller = "stats" /\ StatsAnswer
    /\ UNCHANGED <<db, configured, alerts, console, client>>

WhileHealthy ==
    /\ poller = "sleep" /\ healthy /\ poller' = "alerts" /\ answered' = {}
    /\ UNCHANGED <<db, configured, alerts, stats, healthy, console, client>>
Wake ==
    /\ poller = "sleep" /\ poller' = "alerts" /\ answered' = {}
    /\ UNCHANGED <<db, configured, alerts, stats, healthy, console, client>>

-----------------------------------------------------------------------------
\* The console's handlers run in one thread and do not overlap.
UpdateQueue(force) ==
    /\ live \/ force
    /\ queued' = alerts
    /\ UNCHANGED <<db, configured, poller, held, live, client>>

TogglePause ==
    /\ live' = ~live
    /\ UNCHANGED <<db, configured, poller, held, queued, client>>

\* The selected row's incident is looked up among the alerts of now; when it is
\* still there its details are shown and live mode is paused.  (Every alert of
\* the stream processor has evidence; the handler would raise on one without.)
SelectRow ==
    /\ \E k \in DOMAIN Queue : \E a \in ToSet(alerts) : a.src = Queue[k].src
    /\ live' = FALSE
    /\ UNCHANGED <<db, configured, poller, held, queued, client>>

-----------------------------------------------------------------------------
PagerStart ==
    /\ pager.at = "idle"
    /\ pager' = [pager EXCEPT !.at = "paging", !.due = {r.id : r \in rows}]
    /\ UNCHANGED <<db, configured, poller, held, console, token>>

\* The next page begins below the last id seen; an empty page is the end.
PagerNext ==
    LET page == GetAlerts(pager.cursor, PageLimit)
    IN  /\ pager.at = "paging" /\ api = "up" /\ AlertsStatus(token) = 200
        /\ pager' = IF page = <<>> THEN [pager EXCEPT !.at = "done"]
                    ELSE [pager EXCEPT !.cursor = Last(page).id,
                                       !.seen = @ \o [k \in DOMAIN page |-> page[k].id]]
        /\ UNCHANGED <<db, configured, poller, held, console, token>>

\* A JWT expires between two pages: 401, and a new one is minted.
TokenExpires ==
    /\ pager.at = "paging" /\ token.valid /\ token' = [token EXCEPT !.valid = FALSE]
    /\ UNCHANGED <<db, configured, poller, held, console, pager>>

CreateToken ==
    /\ AlertsStatus(token) = 401 /\ token' = Jwt(TRUE, token.scopes)
    /\ UNCHANGED <<db, configured, poller, held, console, pager>>

-----------------------------------------------------------------------------
Next ==
    \/ Store \/ ApiFails \/ ApiRecovers
    \/ StartListeners \/ PollAlerts \/ PollStats \/ Wake
    \/ UpdateQueue(FALSE) \/ UpdateQueue(TRUE) \/ TogglePause \/ SelectRow
    \/ PagerStart \/ PagerNext \/ TokenExpires \/ CreateToken

Spec == Init /\ [][Next]_vars

\* The poller's thread is scheduled and its requests time out after 3 s; the
\* console's timer fires; an outage of the API ends.
Fairness ==
    /\ WF_vars(PollAlerts) /\ WF_vars(PollStats) /\ WF_vars(Wake)
    /\ WF_vars(UpdateQueue(FALSE)) /\ WF_vars(ApiRecovers)

FairSpec == Spec /\ Fairness

-----------------------------------------------------------------------------
(***************************************************************************)
(* Type invariant of the dashboard: no list exceeds what a poll asks for.  *)
(***************************************************************************)
TypeOK ==
    /\ api \in {"up", "down"} /\ configured \in BOOLEAN /\ healthy \in BOOLEAN /\ live \in BOOLEAN
    /\ poller \in {"off", "alerts", "stats", "sleep"}
    /\ ~configured => poller = "off" /\ ~healthy
    /\ Len(alerts) <= Limit /\ Len(Queue) <= Cardinality(Source)
    /\ Cardinality({r.id : r \in rows}) = Cardinality(rows)
    /\ pager.at \in {"idle", "paging", "done"}

(***************************************************************************)
(* "Cursor-paginated listing": a client that follows the cursor to the end *)
(* has seen every row that was there when it began, and no row twice,      *)
(* while the sink adds and updates rows and its token expires on the way.  *)
(***************************************************************************)
PagerSeesAll ==
    /\ Cardinality(ToSet(pager.seen)) = Len(pager.seen)
    /\ pager.at = "done" => pager.due \subseteq ToSet(pager.seen)

(***************************************************************************)
(* When both requests of a poll were answered, the totals count at least   *)
(* the alerts listed, although the table changed between the two.          *)
(***************************************************************************)
StatsCoverAlerts ==
    answered = {"alerts", "stats"} => stats.total >= Len(alerts)

(***************************************************************************)
(* What the one pass of get_incidents accumulates, and the console ranks,  *)
(* is one incident per source with all its alerts and the highest of their *)
(* severities, whatever their order, the riskiest first.                   *)
(***************************************************************************)
IncidentsSummarise ==
    LET ranked == SortByRisk(GetIncidents(alerts))
        Of(src) == {a \in ToSet(alerts) : a.src = src}
    IN  /\ \A src \in Source : Cardinality({k \in DOMAIN ranked : ranked[k].src = src}) =
                                   IF Of(src) = {} THEN 0 ELSE 1
        /\ \A k \in DOMAIN ranked :
              /\ ToSet(ranked[k].ids) = {a.id : a \in Of(ranked[k].src)}
              /\ SevScore(ranked[k].severity) = Max({SevScore(a.sev) : a \in Of(ranked[k].src)})
              /\ \A j \in 1 .. k : ranked[j].risk >= ranked[k].risk

(***************************************************************************)
(* Once started, the poller survives every outage: when the API is back    *)
(* and the table rests, the dashboard is healthy and shows the newest      *)
(* alerts and the true totals, and a console that is not paused ranks      *)
(* their incidents.                                                        *)
(***************************************************************************)
DashboardCatchesUp ==
    []<>(\/ poller = "off"
         \/ /\ healthy /\ alerts = GetAlerts(0, Limit) /\ stats = GetStats(rows)
            /\ live => queued = alerts)
=============================================================================
