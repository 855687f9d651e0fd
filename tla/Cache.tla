------------------------------- MODULE Cache --------------------------------
(***************************************************************************)
(* The in-memory DNS response cache of src/core/cache/mod.rs: a map of     *)
(* entries, the vector that orders them for eviction, and the two hit and  *)
(* miss counters, next to the global Prometheus counters that the lookup   *)
(* path bumps.                                                             *)
(*                                                                         *)
(* Every operation takes the write lock of the `SharedCache` for its whole *)
(* duration, so each is one atomic action.  Instant::now() is the variable *)
(* now, one tick being one second; a TTL is a whole number of seconds.     *)
(***************************************************************************)
EXTENDS Integers, Sequences, FiniteSets, VecOps

CONSTANTS
  Keys,        \* cache keys: (qname, qtype, client subnet)
  Bytes,       \* encoded responses
  TTLs,        \* TTLs an answer may carry, in seconds
  Config,      \* the CacheConfig the server starts with
  MaxTime,     \* bound: the clock stops here
  MaxLookups   \* bound: lookups counted by the global metrics

CacheConfig == [size : Nat, serve_stale : Nat, prefetch : Nat]

\* Config::validate refuses a cache of size 0.
ASSUME ConfigAssumption == Config \in CacheConfig /\ Config.size > 0
ASSUME TTLsAssumption == TTLs \subseteq Nat
ASSUME BoundsAssumption == MaxTime \in Nat /\ MaxLookups \in Nat

VARIABLES
  config,        \* Cache::config
  entries,       \* Cache::entries, a function on the keys present
  access_order,  \* Cache::access_order, the next entry to evict first
  hits,          \* Cache::hits
  misses,        \* Cache::misses
  hits_total,    \* the global metric cache_hits_total
  misses_total,  \* the global metric cache_misses_total
  now            \* the clock

cacheVars == <<config, entries, access_order, hits, misses>>
metricVars == <<hits_total, misses_total>>
vars == <<cacheVars, metricVars, now>>

CacheEntry == [response_bytes : Bytes, inserted_at : Nat, original_ttl : TTLs,
               hit_count : Nat, last_access : Nat]

-----------------------------------------------------------------------------
(* What an entry says about itself.                                        *)

Elapsed(e) == now - e.inserted_at

TtlRemaining(e) ==
  IF Elapsed(e) >= e.original_ttl THEN 0 ELSE e.original_ttl - Elapsed(e)

IsExpired(e) == TtlRemaining(e) = 0

IsStale(e) ==
  IsExpired(e) /\ Elapsed(e) <= e.original_ttl + config.serve_stale

\* Expired, and past the serve-stale window too.
IsDead(e) == IsExpired(e) /\ ~IsStale(e)

\* Mutant: the hit being served is not counted.
ShouldPrefetch_BeforeHit(e) ==
  /\ config.prefetch # 0
  /\ TtlRemaining(e) < config.prefetch * (e.hit_count - 1)

ShouldPrefetch(e) ==
  /\ config.prefetch # 0
  /\ TtlRemaining(e) < config.prefetch * e.hit_count

-----------------------------------------------------------------------------
(* Operations.                                                             *)

\* Mutant: the field holds the instant of expiry instead of that of insertion.
NewEntry_ExpiryInstant(bytes, ttl) ==
  [response_bytes |-> bytes, inserted_at |-> now + ttl, original_ttl |-> ttl,
   hit_count |-> 0, last_access |-> now]

NewEntry(bytes, ttl) ==
  [response_bytes |-> bytes, inserted_at |-> now, original_ttl |-> ttl,
   hit_count |-> 0, last_access |-> now]

\* The entry a hit leaves behind.
Touched(e) == [e EXCEPT !.hit_count = @ + 1, !.last_access = now]

LookupHit(key) ==
  /\ hits_total + misses_total < MaxLookups
  /\ key \in DOMAIN entries
  /\ entries' = [entries EXCEPT ![key] = Touched(@)]
  /\ hits' = hits + 1
  /\ hits_total' = hits_total + 1
  /\ UNCHANGED <<config, access_order, misses, misses_total, now>>

LookupMiss(key) ==
  /\ hits_total + misses_total < MaxLookups
  /\ key \notin DOMAIN entries
  /\ misses' = misses + 1
  /\ misses_total' = misses_total + 1
  /\ UNCHANGED <<config, entries, access_order, hits, hits_total, now>>

\* The keys left after evict_lru has run m times.
Survivors(m) == DOMAIN entries \ {access_order[i] : i \in 1 .. m}

\* Mutant: the loop condition is > instead of >=.
EvictsExactly_OffByOne(m) ==
  /\ Cardinality(Survivors(m)) <= config.size
  /\ \A j \in 0 .. (m - 1) : Cardinality(Survivors(j)) > config.size

\* The eviction loop of insert leaves after exactly m evictions.
EvictsExactly(m) ==
  /\ Cardinality(Survivors(m)) < config.size
  /\ \A j \in 0 .. (m - 1) : Cardinality(Survivors(j)) >= config.size

\* Mutant: a refresh pushes the key without first removing it from the order.
Insert_NoRetain(key, bytes, ttl) ==
  \E m \in 0 .. Len(access_order) :
    /\ EvictsExactly(m)
    /\ entries' = [k \in Survivors(m) \cup {key} |->
                     IF k = key THEN NewEntry(bytes, ttl) ELSE entries[k]]
    /\ access_order' =
         Append(SubSeq(access_order, m + 1, Len(access_order)), key)
    /\ UNCHANGED <<config, hits, misses, metricVars, now>>

\* Mutant: a refresh leaves the key at its old place in the order.
Insert_RefreshInPlace(key, bytes, ttl) ==
  \E m \in 0 .. Len(access_order) :
    LET rest == SubSeq(access_order, m + 1, Len(access_order))
    IN /\ EvictsExactly(m)
       /\ entries' = [k \in Survivors(m) \cup {key} |->
                        IF k = key THEN NewEntry(bytes, ttl) ELSE entries[k]]
       /\ access_order' = IF key \in Survivors(m) THEN rest ELSE Append(rest, key)
       /\ UNCHANGED <<config, hits, misses, metricVars, now>>

Insert(key, bytes, ttl) ==
  \E m \in 0 .. Len(access_order) :
    LET kept == Survivors(m)
        rest == SubSeq(access_order, m + 1, Len(access_order))
    IN /\ EvictsExactly(m)
       /\ entries' = [k \in kept \cup {key} |->
                        IF k = key THEN NewEntry(bytes, ttl) ELSE entries[k]]
       /\ access_order' =
            Append(IF key \in kept THEN Retain(rest, Keys \ {key}) ELSE rest, key)
       /\ UNCHANGED <<config, hits, misses, metricVars, now>>

\* Mutant: the serve-stale window is ignored.
ReapExpired_IgnoresWindow ==
  LET dead == {k \in DOMAIN entries : IsExpired(entries[k])}
  IN /\ entries' = [k \in DOMAIN entries \ dead |-> entries[k]]
     /\ access_order' = Retain(access_order, Keys \ dead)
     /\ UNCHANGED <<config, hits, misses, metricVars, now>>

\* Mutant: the dead keys leave the order but not the map.
ReapExpired_OrderOnly ==
  LET dead == {k \in DOMAIN entries : IsDead(entries[k])}
  IN /\ access_order' = Retain(access_order, Keys \ dead)
     /\ UNCHANGED <<config, entries, hits, misses, metricVars, now>>

ReapExpired ==
  LET dead == {k \in DOMAIN entries : IsDead(entries[k])}
  IN /\ entries' = [k \in DOMAIN entries \ dead |-> entries[k]]
     /\ access_order' = Retain(access_order, Keys \ dead)
     /\ UNCHANGED <<config, hits, misses, metricVars, now>>

Clear ==
  /\ entries' = << >>
  /\ access_order' = << >>
  /\ hits' = 0
  /\ misses' = 0
  /\ UNCHANGED <<config, metricVars, now>>

\* Time passes.
Tick ==
  /\ now < MaxTime
  /\ now' = now + 1
  /\ UNCHANGED <<cacheVars, metricVars>>

-----------------------------------------------------------------------------
Init ==
  /\ config = Config
  /\ entries = << >>
  /\ access_order = << >>
  /\ hits = 0 /\ misses = 0
  /\ hits_total = 0 /\ misses_total = 0
  /\ now = 0

Next ==
  \/ \E key \in Keys : LookupHit(key)
  \/ \E key \in Keys : LookupMiss(key)
  \/ \E key \in Keys, bytes \in Bytes, ttl \in TTLs : Insert(key, bytes, ttl)
  \/ ReapExpired
  \/ Clear
  \/ Tick

Spec == Init /\ [][Next]_vars

-----------------------------------------------------------------------------
(* Properties.                                                             *)

\* Type invariant of the Cache struct; no recorded instant lies in the future.
TypeOK ==
  /\ config \in CacheConfig /\ config.size > 0
  /\ DOMAIN entries \subseteq Keys
  /\ entries \in [DOMAIN entries -> CacheEntry]
  /\ \A k \in DOMAIN entries :
       entries[k].inserted_at <= now /\ entries[k].last_access <= now
  /\ access_order \in Seq(Keys)
  /\ hits \in Nat /\ misses \in Nat
  /\ hits_total \in Nat /\ misses_total \in Nat
  /\ now \in Nat

\* The map and the eviction vector never drift apart: access_order lists every
\* cached key exactly once.  insert, evict_lru, reap_expired and clear each
\* update the two by separate statements.
OrderMatchesEntries ==
  /\ Distinct(access_order)
  /\ Elements(access_order) = DOMAIN entries

\* The cache never holds more entries than it was configured for, after any
\* sequence of inserts and refreshes (the invariant fuzzed by the unit tests).
WithinCapacity == Cardinality(DOMAIN entries) <= config.size

\* access_order is sorted by insertion time, whatever lookups happen: a refresh
\* moves a key to the back, so its front is always the oldest insertion.
InsertionSorted ==
  \A i, j \in 1 .. Len(access_order) :
    i < j => entries[access_order[i]].inserted_at
               <= entries[access_order[j]].inserted_at

\* `while len >= size { evict_lru() }` runs under the write lock and does
\* nothing once access_order is empty: it must be able to get below size.
EvictionTerminates ==
  \E m \in 0 .. Len(access_order) : Cardinality(Survivors(m)) < config.size

\* Entry k may leave in this step: the cache is cleared, k is past its
\* serve-stale window, or the cache is full and nothing that stays is older.
MayLeave(k) ==
  \/ Clear
  \/ now > entries[k].inserted_at + entries[k].original_ttl + config.serve_stale
  \/ /\ Cardinality(DOMAIN entries) = config.size
     /\ \A j \in DOMAIN entries' :
          entries[k].inserted_at <= entries'[j].inserted_at

\* An entry leaves the cache only for one of those reasons: reap_expired spares
\* what may still be served stale, and insert evicts nothing while there is room
\* and never a younger entry before an older one.
LeavesOnlyDeadOrOldest ==
  [][\A k \in DOMAIN entries \ DOMAIN entries' : MayLeave(k)]_vars

\* The comment on evict_lru, "Evict the least recently used entry": an insert
\* displaces no entry that was used later than one it keeps.  The code breaks
\* it, since lookup never moves a key in access_order.
EvictsLeastRecentlyUsed ==
  [][(\E key \in Keys, bytes \in Bytes, ttl \in TTLs : Insert(key, bytes, ttl))
       => \A k \in DOMAIN entries \ DOMAIN entries',
             j \in DOMAIN entries \cap DOMAIN entries' :
            entries'[j] = entries[j]
              => entries[k].last_access <= entries[j].last_access]_vars
=============================================================================
