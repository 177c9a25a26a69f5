------------------------------- MODULE ApiGate -------------------------------
(***************************************************************************)
(* api/deps.py and api/auth.py: which address a request is counted under   *)
(* and which principal it acts for, as functions of the request.           *)
(*                                                                         *)
(* A request has the TCP peer, the hops of X-Forwarded-For from left to    *)
(* right ("junk" for what is no address), whether that header exceeds the  *)
(* length limit, X-Real-IP, and its credentials.                           *)
(***************************************************************************)
EXTENDS Integers, Sequences, SequencesExt, FiniteSetsExt

CONSTANTS
    Trusted,     \* addresses within TRUSTED_INGRESS_NETWORKS
    MaxHops      \* _MAX_XFF_HOPS (20)

ASSUME GateAssumption == MaxHops \in Nat \ {0}

ValidateIp(ip) == ip \notin {"junk", "absent"}

LastHops(hops) == SubSeq(hops, IF Len(hops) > MaxHops THEN Len(hops) - MaxHops + 1 ELSE 1, Len(hops))

\* Where there is an address, and where there is one that is no proxy of ours.
Valid(ips) == {i \in DOMAIN ips : ValidateIp(ips[i])}
Foreign(ips) == {i \in Valid(ips) : ips[i] \notin Trusted}

\* The entry nearest to us that is no proxy of ours, or the leftmost of them.
LeftToRight(hops, client) ==
    LET ips == LastHops(hops)
    IN  IF Valid(ips) # {} THEN ips[Min(IF Foreign(ips) # {} THEN Foreign(ips) ELSE Valid(ips))] ELSE client
ForwardedFor(hops, client) ==
    LET ips == LastHops(hops)
    IN  IF Foreign(ips) # {} THEN ips[Max(Foreign(ips))]
        ELSE IF Valid(ips) # {} THEN ips[Min(Valid(ips))] ELSE client

\* get_remote_address: an empty or overlong X-Forwarded-For is as good as none.
RemoteAddress(request) ==
    LET client == IF ValidateIp(request.peer) THEN request.peer ELSE "127.0.0.1"
    IN  IF client \notin Trusted THEN client
        ELSE IF request.hops # <<>> /\ ~request.long THEN ForwardedFor(request.hops, client)
        ELSE IF ValidateIp(request.real) THEN request.real
        ELSE client

-----------------------------------------------------------------------------
(***************************************************************************)
(* A token is "none", "service-key", or a JWT with its scopes, valid as    *)
(* long as its signature holds and it has not expired.                     *)
(***************************************************************************)
ServiceKey == [kind |-> "key"]
Jwt(valid, scopes) == [kind |-> "jwt", valid |-> valid, scopes |-> scopes]
NoToken == [kind |-> "none"]

\* _extract_token: a Bearer credential, else X-API-Key, else the bare header.
ExtractToken(bearer, apiKey, bare) ==
    IF bearer # NoToken THEN bearer ELSE IF apiKey # NoToken THEN apiKey ELSE bare

Authenticates(token) == token.kind = "key" \/ (token.kind = "jwt" /\ token.valid)

Scopes(token) == IF token.kind = "key" THEN {"*"} ELSE token.scopes

\* The status a route with a required scope answers with; no scope for {}.
GateStatus(token, required) ==
    IF ~Authenticates(token) THEN 401
    ELSE IF required # {} /\ Scopes(token) \cap (required \cup {"*"}) = {} THEN 403
    ELSE 200
=============================================================================
