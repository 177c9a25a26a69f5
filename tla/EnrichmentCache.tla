-------------------------- MODULE EnrichmentCache ---------------------------
(***************************************************************************)
(* ThreatEnricher of inference/enrichment.py: its cache, an OrderedDict    *)
(* from the least to the most recently used address, as functions of the   *)
(* cache.  An entry knows when its answer was obtained (got, a history     *)
(* field), until when it is served (exp), and whether it is the service's  *)
(* answer or the offline fallback (live).                                  *)
(***************************************************************************)
EXTENDS Integers, Sequences, SequencesExt

CONSTANTS
    CacheTtl,       \* cache_ttl_sec, in ticks
    MaxCacheSize    \* max_cache_size

ASSUME CacheAssumption == CacheTtl \in Nat \ {0} /\ MaxCacheSize \in Nat \ {0}

\* A dictionary holds a key once: popping it takes out its one entry.
Without(cache, ip) ==
    LET here == {i \in DOMAIN cache : cache[i].ip = ip}
    IN  IF here = {} THEN cache ELSE RemoveAt(cache, CHOOSE i \in here : TRUE)

Served(cache, ip, now) == {entry \in ToSet(cache) : entry.ip = ip /\ now < entry.exp}

\* _get_cached on a hit: move_to_end, which leaves the expiry alone.
TouchAndRenew(cache, entry, now) ==
    Append(Without(cache, entry.ip), [entry EXCEPT !.exp = now + CacheTtl])
Touch(cache, entry, now) == Append(Without(cache, entry.ip), entry)

\* _get_cached on a miss: an entry that has expired is dropped.
Dropped(cache, ip) == Without(cache, ip)

\* _set_cached: the newest end, then the oldest entries beyond the limit go.
Untrimmed(cache, ip, live, now) ==
    Append(Without(cache, ip), [ip |-> ip, live |-> live, got |-> now, exp |-> now + CacheTtl])
SetCached(cache, ip, live, now) ==
    LET full == Append(Without(cache, ip),
                       [ip |-> ip, live |-> live, got |-> now, exp |-> now + CacheTtl])
    IN  SubSeq(full, IF Len(full) > MaxCacheSize THEN Len(full) - MaxCacheSize + 1 ELSE 1, Len(full))

\* enrich: the source unless it is private or no address, then the destination;
\* _fetch_intel asks the service only about a public address.
FieldToCheck(ev) == IF ev.orig_h = "public" THEN ev.orig_h ELSE ev.resp_h
IsLookedUp(ev) == FieldToCheck(ev) = "public"
=============================================================================
