---------------------------- MODULE ClientCaches ----------------------------
(***************************************************************************)
(* The cache of the indexer client: a MemoryCache                          *)
(* (packages/ordinalsplus/src/indexer/cache/memory-cache.ts) under a       *)
(* CacheManager (indexer/cache-manager.ts), which cleans it up at          *)
(* intervals until it is shut down.  Nothing tells one value of an entry   *)
(* from another but the time it was stored.                                *)
(*                                                                         *)
(* An entry expires unnoticed: what notices it is the next get, has or     *)
(* clean-up, and each keeps books of its own.                              *)
(***************************************************************************)
EXTENDS Integers, FiniteSets, Functions

CONSTANTS
    CacheKeys,
    Tags,
    MaxEntries,       \* entries at most; 0 is no limit
    TTLs,           \* times to live callers ask for; 0 is for ever
    AccessWeight,   \* what one access weighs against a unit of time
    MaxClock,       \* bound: time
    MaxSets,        \* bound: entries stored
    MaxGets         \* bound: gets

ASSUME CachesAssumption ==
    /\ MaxEntries \in Nat /\ TTLs \subseteq Nat /\ AccessWeight \in Nat
    /\ MaxClock \in Nat \ {0} /\ MaxSets \in Nat /\ MaxGets \in Nat

VARIABLES
    clock,
    store,          \* key -> entry
    metrics,        \* size, hits, misses, expirations, evictions
    cleaning,       \* whether the interval of the manager runs
    added,          \* history: entries put under a key that had none
    removed         \* history: entries deleted, cleared or dropped by their tag

cacheVars == <<clock, store, metrics, cleaning, added, removed>>

Entries == [expiresAt : Nat, lastAccessedAt : 0..MaxClock, accessCount : Nat, tag : Tags]

CachesInit ==
    /\ clock = 1
    /\ store = [k \in {} |-> {}]
    /\ metrics = [size |-> 0, hits |-> 0, misses |-> 0, expirations |-> 0, evictions |-> 0]
    /\ cleaning = TRUE
    /\ added = 0 /\ removed = 0

Without(ks) == Restrict(store, DOMAIN store \ ks)

IsExpired(k) == store[k].expiresAt > 0 /\ store[k].expiresAt <= clock

Missed == [metrics EXCEPT !.misses = @ + 1]

\* What get finds expired it drops, and leaves the size as it was noted.
Get(k) ==
    /\ metrics.hits + metrics.misses < MaxGets
    /\ \/ /\ k \notin DOMAIN store
          /\ metrics' = Missed
          /\ UNCHANGED store
       \/ /\ k \in DOMAIN store /\ IsExpired(k)
          /\ store' = Without({k})
          /\ metrics' = [Missed EXCEPT !.expirations = @ + 1]
       \/ /\ k \in DOMAIN store /\ ~IsExpired(k)
          /\ store' = [store EXCEPT ![k].lastAccessedAt = clock, ![k].accessCount = @ + 1]
          /\ metrics' = [metrics EXCEPT !.hits = @ + 1]
    /\ UNCHANGED <<clock, cleaning, added, removed>>

\* The entry of the lowest score goes, expired or not; among equals the one
\* that was stored first, which is any of them here.
Score(e) == e.accessCount * AccessWeight + e.lastAccessedAt

Lowest(k) == \A other \in DOMAIN store : Score(store[k]) <= Score(store[other])

Set(k, ttl, tag) ==
    LET full   == MaxEntries > 0 /\ k \notin DOMAIN store /\ Cardinality(DOMAIN store) >= MaxEntries
        entry  == [expiresAt |-> IF ttl > 0 THEN clock + ttl ELSE 0,
                   lastAccessedAt |-> clock, accessCount |-> 0, tag |-> tag]
    IN  /\ added < MaxSets
        /\ \E out \in SUBSET DOMAIN store :
             /\ IF full THEN \E o \in DOMAIN store : Lowest(o) /\ out = {o} ELSE out = {}
             /\ store' = [x \in (DOMAIN store \ out) \cup {k} |-> IF x = k THEN entry ELSE store[x]]
             /\ metrics' = [metrics EXCEPT !.evictions = @ + Cardinality(out),
                                           !.size = Cardinality(DOMAIN store')]
        /\ added' = IF k \in DOMAIN store THEN added ELSE added + 1
        /\ UNCHANGED <<clock, cleaning, removed>>

Drop(ks) ==
    /\ store' = Without(ks)
    /\ metrics' = [metrics EXCEPT !.size = Cardinality(DOMAIN store')]
    /\ removed' = removed + Cardinality(ks)
    /\ UNCHANGED <<clock, cleaning, added>>

Expired(ks) ==
    /\ ks # {}
    /\ store' = Without(ks)
    /\ metrics' = [metrics EXCEPT !.expirations = @ + Cardinality(ks),
                                  !.size = Cardinality(DOMAIN store')]
    /\ UNCHANGED <<clock, cleaning, added, removed>>

\* (mutant of Has) what has finds expired is dropped without being counted
HasUncounted(k) ==
    /\ k \in DOMAIN store /\ IsExpired(k)
    /\ store' = Without({k})
    /\ UNCHANGED <<clock, metrics, cleaning, added, removed>>

Has(k) ==
    /\ k \in DOMAIN store /\ IsExpired(k)
    /\ Expired({k})

Delete(k) == k \in DOMAIN store /\ Drop({k})

\* The size is noted again only when an entry had the tag.
DeleteByTag(tag) ==
    LET tagged == {k \in DOMAIN store : store[k].tag = tag}
    IN  tagged # {} /\ Drop(tagged)

Clear == Drop(DOMAIN store)

Cleanup ==
    /\ cleaning
    /\ Expired({k \in DOMAIN store : IsExpired(k)})

\* The interval ends and the entries go; the cache still answers and stores.
Shutdown ==
    /\ cleaning
    /\ cleaning' = FALSE
    /\ store' = Without(DOMAIN store)
    /\ metrics' = [metrics EXCEPT !.size = 0]
    /\ removed' = removed + Cardinality(DOMAIN store)
    /\ UNCHANGED <<clock, added>>

PassTime ==
    /\ clock < MaxClock
    /\ clock' = clock + 1
    /\ UNCHANGED <<store, metrics, cleaning, added, removed>>

CachesNext ==
    \/ \E k \in CacheKeys : Get(k) \/ Has(k) \/ Delete(k)
    \/ \E k \in CacheKeys, ttl \in TTLs, tag \in Tags : Set(k, ttl, tag)
    \/ \E tag \in Tags : DeleteByTag(tag)
    \/ Clear \/ Cleanup \/ Shutdown \/ PassTime

CachesSpec == CachesInit /\ [][CachesNext]_cacheVars

-----------------------------------------------------------------------------
CachesTypeOK ==
    /\ clock \in 1..MaxClock /\ cleaning \in BOOLEAN
    /\ DOMAIN store \subseteq CacheKeys /\ \A k \in DOMAIN store : store[k] \in Entries
    /\ added \in 0..MaxSets /\ removed \in Nat
    /\ metrics \in [{"size", "hits", "misses", "expirations", "evictions"} -> Nat]

\* The books balance whoever notices that an entry expired: every entry that
\* was ever put in is still there or is counted once as expired or evicted, or
\* was deleted on request; the store never outgrows its limit, and the size
\* noted is never below the true one (memory-cache.ts:48-300).
EntriesAccounted ==
    LET held == Cardinality(DOMAIN store) IN
    /\ added = held + removed + metrics.expirations + metrics.evictions
    /\ MaxEntries > 0 => held <= MaxEntries
    /\ held <= metrics.size
=============================================================================
