-------------------------- MODULE ForwarderProofs ---------------------------
(***************************************************************************)
(* Proofs about the cache and about the forwarder over it, for any keys,   *)
(* TTLs and requests, any upstream answers and any cache configuration     *)
(* with a positive size.                                                   *)
(*                                                                         *)
(* Of the cache: its invariants.  The capacity bound is not inductive      *)
(* alone: that an insert ends its eviction loop, and drops what it should, *)
(* rests on access_order listing the cached keys exactly once.  IInv adds  *)
(* that, and the order by insertion time from which the eviction order     *)
(* follows.                                                                *)
(*                                                                         *)
(* Of the forwarder: what a task holds at each of its steps; that every    *)
(* step is one of the cache's, so that what is shown of the cache holds    *)
(* under it; and that the right answers are cached and returned, however   *)
(* requests and prefetches overlap.                                        *)
(***************************************************************************)
EXTENDS Forwarder, VecProofs

\* A leaf is tried with SMT, then with Zenon and with Z3 alone, for up to 30
\* seconds each, unless it names another prover.
USE SMTT(30), ZenonT(30), Z3T(30)

-----------------------------------------------------------------------------
(* The cache.                                                              *)

\* The inductive invariant.
IInv == TypeOK /\ OrderMatchesEntries /\ WithinCapacity /\ InsertionSorted

\* An empty cache satisfies the invariant.
LEMMA InitIInv == Init => IInv
<1> SUFFICES ASSUME Init PROVE IInv
  OBVIOUS
<1>1. DOMAIN entries = {} /\ access_order \in Seq(Keys) /\ Len(access_order) = 0
  BY DEF Init
<1>2. entries \in [DOMAIN entries -> CacheEntry]
  BY <1>1 DEF Init
<1>3. TypeOK
  BY <1>1, <1>2, ConfigAssumption DEF Init, TypeOK
<1>4. OrderMatchesEntries
  BY <1>1 DEF OrderMatchesEntries, Distinct, Elements
<1>5. WithinCapacity
  BY <1>1, FS_EmptySet, ConfigAssumption DEF WithinCapacity, Init, CacheConfig
<1>6. InsertionSorted
  BY <1>1 DEF InsertionSorted
<1> QED
  BY <1>3, <1>4, <1>5, <1>6 DEF IInv

\* Touching an entry keeps it well typed and keeps its insertion time.
LEMMA TouchedEntry ==
  ASSUME NEW e \in CacheEntry, now \in Nat
  PROVE  /\ Touched(e) \in CacheEntry
         /\ Touched(e).inserted_at = e.inserted_at
         /\ Touched(e).original_ttl = e.original_ttl
         /\ Touched(e).last_access = now
<1> DEFINE d == [e EXCEPT !.hit_count = e.hit_count + 1]
<1>1. d \in CacheEntry /\ d.inserted_at = e.inserted_at
      /\ d.original_ttl = e.original_ttl
  BY DEF CacheEntry
<1>2. Touched(e) = [d EXCEPT !.last_access = now]
  BY DEF Touched
<1> HIDE DEF d
<1> QED
  BY <1>1, <1>2 DEF CacheEntry

\* A hit touches one entry and leaves the order alone.
LEMMA LookupHitIInv ==
  ASSUME IInv, NEW key \in Keys, LookupHit(key)
  PROVE  IInv'
<1> USE DEF IInv
<1>1. /\ key \in DOMAIN entries
      /\ entries[key] \in CacheEntry
      /\ DOMAIN entries' = DOMAIN entries
      /\ entries'[key] = Touched(entries[key])
      /\ \A k \in DOMAIN entries : k # key => entries'[k] = entries[k]
  BY DEF LookupHit, TypeOK
<1>2. /\ Touched(entries[key]) \in CacheEntry
      /\ Touched(entries[key]).inserted_at = entries[key].inserted_at
      /\ Touched(entries[key]).last_access = now
  BY <1>1, TouchedEntry DEF TypeOK
<1>3. \A k \in DOMAIN entries : entries'[k].inserted_at = entries[k].inserted_at
  BY <1>1, <1>2, ZenonT(30)
<1>4. TypeOK'
  <2>1. entries' \in [DOMAIN entries' -> CacheEntry]
    BY <1>1, <1>2 DEF LookupHit, TypeOK
  <2>2. \A k \in DOMAIN entries' :
          entries'[k].inserted_at <= now /\ entries'[k].last_access <= now
    BY <1>1, <1>2, <1>3 DEF TypeOK
  <2> QED
    BY <1>1, <2>1, <2>2 DEF LookupHit, TypeOK
<1>5. OrderMatchesEntries'
  BY <1>1 DEF LookupHit, OrderMatchesEntries, Distinct, Elements
<1>6. WithinCapacity'
  BY <1>1, ZenonT(30) DEF LookupHit, WithinCapacity
<1>7. InsertionSorted'
  <2>1. \A i \in 1 .. Len(access_order) : access_order[i] \in DOMAIN entries
    BY DEF OrderMatchesEntries, Elements
  <2> QED
    BY <1>3, <2>1, ZenonT(30) DEF LookupHit, InsertionSorted
<1> QED
  BY <1>4, <1>5, <1>6, <1>7, ZenonT(30)

\* A step that leaves the cache alone and does not turn the clock back.
LEMMA QuietIInv ==
  ASSUME IInv, UNCHANGED <<config, entries, access_order>>,
         hits' \in Nat, misses' \in Nat, hits_total' \in Nat, misses_total' \in Nat,
         now' \in Nat, now <= now'
  PROVE  IInv'
<1> USE DEF IInv
<1>1. TypeOK'
  <2>1. \A k \in DOMAIN entries :
          entries[k].inserted_at <= now' /\ entries[k].last_access <= now'
    BY DEF TypeOK, CacheEntry
  <2> QED
    BY <2>1, Zenon DEF TypeOK
<1>2. OrderMatchesEntries' /\ WithinCapacity' /\ InsertionSorted'
  BY DEF OrderMatchesEntries, WithinCapacity, InsertionSorted, Distinct, Elements
<1> QED
  BY <1>1, <1>2

\* An insert: the eviction loop drops a prefix of access_order, a refresh drops
\* the key's old place, and the key goes to the back with the present instant.
LEMMA InsertIInv ==
  ASSUME IInv, NEW key \in Keys, NEW bytes \in Bytes, NEW ttl \in TTLs,
         Insert(key, bytes, ttl)
  PROVE  IInv'
<1> USE DEF IInv
<1>1. PICK m \in 0 .. Len(access_order) :
        LET kept == Survivors(m)
            rest == SubSeq(access_order, m + 1, Len(access_order))
        IN /\ EvictsExactly(m)
           /\ entries' = [k \in kept \cup {key} |->
                            IF k = key THEN NewEntry(bytes, ttl) ELSE entries[k]]
           /\ access_order' =
                Append(IF key \in kept THEN Retain(rest, Keys \ {key}) ELSE rest, key)
           /\ UNCHANGED <<config, hits, misses, metricVars, now>>
  BY ZenonT(30) DEF Insert
<1> DEFINE kept == Survivors(m)
           rest == SubSeq(access_order, m + 1, Len(access_order))
           base == IF key \in kept THEN Retain(rest, Keys \ {key}) ELSE rest
<1>2. /\ access_order \in Seq(Keys)
      /\ Distinct(access_order)
      /\ Elements(access_order) = DOMAIN entries
  BY DEF TypeOK, OrderMatchesEntries
<1>3. /\ rest \in Seq(Keys)
      /\ Elements(rest) = kept
      /\ Distinct(rest)
      /\ Len(rest) = Len(access_order) - m
      /\ \A i \in 1 .. Len(rest) : rest[i] = access_order[m + i]
  <2>1. /\ rest \in Seq(Keys)
        /\ Elements(rest) = Elements(access_order) \ {access_order[i] : i \in 1 .. m}
        /\ Distinct(rest)
        /\ Len(rest) = Len(access_order) - m
        /\ \A i \in 1 .. Len(rest) : rest[i] = access_order[m + i]
    <3> HIDE DEF IInv
    <3> QED
      BY <1>2, SuffixFacts, ZenonT(30)
  <2>2. kept = Elements(access_order) \ {access_order[i] : i \in 1 .. m}
    BY <1>2, Zenon DEF Survivors
  <2> HIDE DEF kept, rest
  <2> QED
    BY <2>1, <2>2, ZenonT(30)
<1>4. kept \subseteq DOMAIN entries /\ IsFiniteSet(kept)
  BY <1>3, ElementsFinite, ZenonT(30) DEF Survivors
<1> HIDE DEF kept, rest
<1>5. /\ base \in Seq(Keys)
      /\ Elements(base) = kept \ {key}
      /\ Distinct(base)
      /\ \A i, j \in 1 .. Len(base) : i < j =>
           \E a, b \in 1 .. Len(rest) : a < b /\ base[i] = rest[a] /\ base[j] = rest[b]
  <2>1. CASE key \in kept
    <3>1. kept \cap (Keys \ {key}) = kept \ {key}
      BY <1>4 DEF TypeOK
    <3>2. base = Retain(rest, Keys \ {key})
      BY <2>1
    <3> HIDE DEF base
    <3>3. base \in Seq(Keys) /\ IsFiltered(base, rest, Keys \ {key})
      BY <1>3, <3>2, RetainFacts
    <3> QED
      BY <1>3, <3>1, <3>3, ZenonT(30) DEF IsFiltered
  <2>2. CASE key \notin kept
    BY <1>3, <2>2, ZenonT(30)
  <2> QED
    BY <2>1, <2>2, Zenon
<1>6. access_order' = Append(base, key)
  BY <1>1 DEF kept, rest
<1>7. /\ DOMAIN entries' = kept \cup {key}
      /\ entries'[key] = NewEntry(bytes, ttl)
      /\ \A k \in kept \ {key} : entries'[k] = entries[k]
      /\ entries' = [k \in kept \cup {key} |->
                       IF k = key THEN NewEntry(bytes, ttl) ELSE entries[k]]
  BY <1>1 DEF kept
<1>8. UNCHANGED <<config, hits, misses, hits_total, misses_total, now>>
  BY <1>1 DEF metricVars
<1> HIDE DEF base
<1>9. NewEntry(bytes, ttl) \in CacheEntry /\ NewEntry(bytes, ttl).inserted_at = now
      /\ NewEntry(bytes, ttl).last_access = now
  BY DEF NewEntry, CacheEntry, TypeOK
<1>10. TypeOK'
  <2>1. entries' \in [DOMAIN entries' -> CacheEntry]
    BY <1>4, <1>7, <1>9 DEF TypeOK
  <2>2. \A k \in DOMAIN entries' :
          entries'[k].inserted_at <= now /\ entries'[k].last_access <= now
    BY <1>4, <1>7, <1>9 DEF TypeOK
  <2>3. DOMAIN entries' \subseteq Keys
    BY <1>4, <1>7 DEF TypeOK
  <2>4. access_order' \in Seq(Keys)
    BY <1>5, <1>6, PushFacts, ZenonT(30)
  <2> QED
    BY <1>8, <2>1, <2>2, <2>3, <2>4, ZenonT(30) DEF TypeOK
<1>11. OrderMatchesEntries'
  BY <1>5, <1>6, <1>7, PushFacts DEF OrderMatchesEntries
<1>12. WithinCapacity'
  <2>1. Cardinality(kept) < config.size
    BY <1>1 DEF EvictsExactly, kept
  <2>2. Cardinality(kept) \in Nat /\ config.size \in Nat
    BY <1>4, FS_CardinalityType DEF TypeOK, CacheConfig
  <2>3. Cardinality(kept \cup {key}) <= Cardinality(kept) + 1
    <3>1. Cardinality(kept \cup {key}) =
            IF key \in kept THEN Cardinality(kept) ELSE Cardinality(kept) + 1
      BY <1>4, FS_AddElement, ZenonT(30)
    <3> QED
      BY <2>2, <3>1
  <2>4. Cardinality(kept \cup {key}) \in Nat
    BY <1>4, FS_AddElement, FS_CardinalityType, ZenonT(30)
  <2> QED
    BY <1>7, <1>8, <2>1, <2>2, <2>3, <2>4 DEF WithinCapacity
<1>13. InsertionSorted'
  <2>0. /\ Len(base) \in Nat /\ Len(access_order') = Len(base) + 1
        /\ access_order'[Len(base) + 1] = key
        /\ \A i \in 1 .. Len(base) : access_order'[i] = base[i]
    BY <1>5, <1>6, PushedAt
  <2> SUFFICES ASSUME NEW i \in 1 .. Len(access_order'),
                      NEW j \in 1 .. Len(access_order'), i < j
               PROVE  entries'[access_order'[i]].inserted_at
                        <= entries'[access_order'[j]].inserted_at
    BY DEF InsertionSorted
  <2>1. i \in 1 .. Len(base) /\ access_order'[i] = base[i]
    BY <2>0
  <2>2. base[i] \in kept \ {key}
    BY <1>5, <2>1, Zenon DEF Elements
  <2>3. CASE j \in 1 .. Len(base)
    <3>1. PICK a \in 1 .. Len(rest), b \in 1 .. Len(rest) :
            a < b /\ base[i] = rest[a] /\ base[j] = rest[b]
      BY <1>5, <2>1, <2>3, ZenonT(30)
    <3>2. /\ m + a \in 1 .. Len(access_order) /\ m + b \in 1 .. Len(access_order)
          /\ m + a < m + b
          /\ rest[a] = access_order[m + a] /\ rest[b] = access_order[m + b]
      BY <1>2, <1>3, <3>1
    <3>3. entries[base[i]].inserted_at <= entries[base[j]].inserted_at
      BY <3>1, <3>2, Zenon DEF InsertionSorted
    <3>4. base[j] \in kept \ {key}
      BY <1>5, <2>3, Zenon DEF Elements
    <3> QED
      BY <1>7, <2>0, <2>1, <2>2, <2>3, <3>3, <3>4, ZenonT(30)
  <2>4. CASE j = Len(base) + 1
    <3>1. entries[base[i]].inserted_at <= now
      BY <1>4, <2>2 DEF TypeOK
    <3> QED
      BY <1>7, <1>9, <2>0, <2>1, <2>2, <2>4, <3>1, ZenonT(30)
  <2> QED
    BY <2>0, <2>3, <2>4
<1> QED
  BY <1>10, <1>11, <1>12, <1>13

\* Reaping filters the map and the order by the same set of keys.
LEMMA ReapExpiredIInv ==
  ASSUME IInv, ReapExpired
  PROVE  IInv'
<1> USE DEF IInv
<1> DEFINE dead == {k \in DOMAIN entries : IsDead(entries[k])}
           live == DOMAIN entries \ dead
<1>1. /\ entries' = [k \in live |-> entries[k]]
      /\ access_order' = Retain(access_order, Keys \ dead)
      /\ UNCHANGED <<config, hits, misses, hits_total, misses_total, now>>
  BY DEF ReapExpired, metricVars
<1>2. dead \subseteq DOMAIN entries
  OBVIOUS
<1> HIDE DEF dead
<1>3. /\ access_order \in Seq(Keys)
      /\ Distinct(access_order)
      /\ Elements(access_order) = DOMAIN entries
  BY DEF TypeOK, OrderMatchesEntries
<1>4. /\ access_order' \in Seq(Keys)
      /\ Elements(access_order') = Elements(access_order) \cap (Keys \ dead)
      /\ Distinct(access_order')
      /\ \A i, j \in 1 .. Len(access_order') : i < j =>
           \E a, b \in 1 .. Len(access_order) :
             /\ a < b
             /\ access_order'[i] = access_order[a]
             /\ access_order'[j] = access_order[b]
  <2>1. /\ access_order' \in Seq(Keys)
        /\ IsFiltered(access_order', access_order, Keys \ dead)
    BY <1>1, <1>3, RetainFacts
  <2> QED
    BY <1>3, <2>1 DEF IsFiltered
<1>5. /\ DOMAIN entries' = live
      /\ \A k \in live : entries'[k] = entries[k]
      /\ live \subseteq DOMAIN entries
  BY <1>1
<1>6. Elements(access_order') = live
  BY <1>3, <1>4, ZenonT(30) DEF TypeOK
<1>7. TypeOK'
  <2>1. entries' \in [DOMAIN entries' -> CacheEntry]
    BY <1>1, <1>5 DEF TypeOK
  <2>2. \A k \in DOMAIN entries' :
          entries'[k].inserted_at <= now /\ entries'[k].last_access <= now
    BY <1>5, ZenonT(30) DEF TypeOK
  <2> QED
    BY <1>1, <1>4, <1>5, <2>1, <2>2 DEF TypeOK
<1>8. OrderMatchesEntries'
  BY <1>4, <1>5, <1>6 DEF OrderMatchesEntries
<1>9. WithinCapacity'
  <2>1. IsFiniteSet(DOMAIN entries)
    BY <1>3, ElementsFinite
  <2>2. IsFiniteSet(live) /\ Cardinality(live) <= Cardinality(DOMAIN entries)
    BY <1>5, <2>1, FS_Subset
  <2>3. Cardinality(live) \in Nat /\ Cardinality(DOMAIN entries) \in Nat
    BY <2>1, <2>2, FS_CardinalityType
  <2>4. config.size \in Nat
    BY DEF TypeOK, CacheConfig
  <2> QED
    BY <1>1, <1>5, <2>2, <2>3, <2>4 DEF WithinCapacity
<1>10. InsertionSorted'
  <2> SUFFICES ASSUME NEW i \in 1 .. Len(access_order'),
                      NEW j \in 1 .. Len(access_order'), i < j
               PROVE  entries'[access_order'[i]].inserted_at
                        <= entries'[access_order'[j]].inserted_at
    BY DEF InsertionSorted
  <2>1. access_order'[i] \in live /\ access_order'[j] \in live
    BY <1>6 DEF Elements
  <2>2. entries[access_order'[i]].inserted_at <= entries[access_order'[j]].inserted_at
    BY <1>4 DEF InsertionSorted
  <2> QED
    BY <1>5, <2>1, <2>2
<1> QED
  BY <1>7, <1>8, <1>9, <1>10, ZenonT(30)

\* A cleared cache is an empty one.
LEMMA ClearIInv ==
  ASSUME IInv, Clear
  PROVE  IInv'
<1>1. DOMAIN entries' = {} /\ access_order' \in Seq(Keys) /\ Len(access_order') = 0
  BY DEF Clear
<1>2. entries' \in [DOMAIN entries' -> CacheEntry]
  BY <1>1 DEF Clear
<1>3. TypeOK'
  BY <1>1, <1>2 DEF Clear, TypeOK, IInv, metricVars
<1>4. OrderMatchesEntries'
  BY <1>1 DEF OrderMatchesEntries, Distinct, Elements
<1>5. WithinCapacity'
  BY <1>1, FS_EmptySet DEF WithinCapacity, Clear, IInv, TypeOK, CacheConfig
<1>6. InsertionSorted'
  BY <1>1 DEF InsertionSorted
<1> QED
  BY <1>3, <1>4, <1>5, <1>6 DEF IInv

\* Every step of the cache preserves the invariant.
LEMMA NextIInv == IInv /\ [Next]_vars => IInv'
<1> SUFFICES ASSUME IInv, [Next]_vars PROVE IInv'
  OBVIOUS
<1>0. /\ hits \in Nat /\ misses \in Nat /\ hits_total \in Nat
      /\ misses_total \in Nat /\ now \in Nat
  BY DEF IInv, TypeOK
<1>1. ASSUME NEW key \in Keys, LookupHit(key) PROVE IInv'
  BY <1>1, LookupHitIInv
<1>2. ASSUME NEW key \in Keys, LookupMiss(key) PROVE IInv'
  BY <1>0, <1>2, QuietIInv DEF LookupMiss
<1>3. ASSUME NEW key \in Keys, NEW bytes \in Bytes, NEW ttl \in TTLs,
             Insert(key, bytes, ttl)
      PROVE  IInv'
  BY <1>3, InsertIInv
<1>4. CASE ReapExpired
  BY <1>4, ReapExpiredIInv
<1>5. CASE Clear
  BY <1>5, ClearIInv
<1>6. CASE Tick
  BY <1>0, <1>6, QuietIInv DEF Tick, cacheVars, metricVars
<1>7. CASE UNCHANGED vars
  BY <1>0, <1>7, QuietIInv DEF vars, cacheVars, metricVars
<1> QED
  BY <1>1, <1>2, <1>3, <1>4, <1>5, <1>6, <1>7, ZenonT(30) DEF Next

\* The invariant holds in every reachable state.
THEOREM CacheInvariant == Spec => []IInv
<1> QED
  BY InitIInv, NextIInv, PTL DEF Spec

\* The cache's state is always well typed (new, lookup, insert, reap_expired
\* and clear in src/core/cache/mod.rs).
THEOREM CacheTypeCorrect == Spec => []TypeOK
<1>1. IInv => TypeOK
  BY DEF IInv
<1> QED
  BY <1>1, CacheInvariant, PTL

\* The map and the eviction vector of the cache never drift apart.
THEOREM CacheOrderInSync == Spec => []OrderMatchesEntries
<1>1. IInv => OrderMatchesEntries
  BY DEF IInv
<1> QED
  BY <1>1, CacheInvariant, PTL

\* No sequence of operations makes the cache exceed its configured size.
THEOREM CacheWithinCapacity == Spec => []WithinCapacity
<1>1. IInv => WithinCapacity
  BY DEF IInv
<1> QED
  BY <1>1, CacheInvariant, PTL

\* The front of access_order is always the oldest insertion: eviction is
\* first-in first-out.
THEOREM CacheEvictsInInsertionOrder == Spec => []InsertionSorted
<1>1. IInv => InsertionSorted
  BY DEF IInv
<1> QED
  BY <1>1, CacheInvariant, PTL

\* The loop `while len >= size { evict_lru() }` in insert always ends: emptying
\* access_order empties the map.
THEOREM CacheEvictionTerminates == Spec => []EvictionTerminates
<1>1. IInv => EvictionTerminates
  <2> SUFFICES ASSUME IInv PROVE EvictionTerminates
    OBVIOUS
  <2>1. Len(access_order) \in 0 .. Len(access_order)
    BY DEF IInv, TypeOK
  <2>2. Survivors(Len(access_order)) = {}
    BY DEF Survivors, IInv, OrderMatchesEntries, Elements
  <2>3. Cardinality(Survivors(Len(access_order))) < config.size
    BY <2>2, FS_EmptySet DEF IInv, TypeOK
  <2> QED
    BY <2>1, <2>3 DEF EvictionTerminates
<1> QED
  BY <1>1, CacheInvariant, PTL

\* What an insert drops is older than everything it keeps, and it drops
\* something only from a full cache.
LEMMA InsertLeaves ==
  ASSUME IInv, NEW key \in Keys, NEW bytes \in Bytes, NEW ttl \in TTLs,
         Insert(key, bytes, ttl), NEW k \in DOMAIN entries \ DOMAIN entries'
  PROVE  MayLeave(k)
<1>1. PICK m \in 0 .. Len(access_order) :
        /\ EvictsExactly(m)
        /\ entries' = [x \in Survivors(m) \cup {key} |->
                         IF x = key THEN NewEntry(bytes, ttl) ELSE entries[x]]
  BY Zenon DEF Insert
<1>2. /\ access_order \in Seq(Keys) /\ Len(access_order) \in Nat
      /\ Elements(access_order) = DOMAIN entries
      /\ Distinct(access_order)
      /\ entries \in [DOMAIN entries -> CacheEntry]
      /\ config.size \in Nat
  BY DEF IInv, TypeOK, OrderMatchesEntries, CacheConfig
<1>3. DOMAIN entries' = Survivors(m) \cup {key}
  BY <1>1
<1>4. PICK i \in 1 .. m : k = access_order[i]
  BY <1>3 DEF Survivors
<1>5. Cardinality(DOMAIN entries) = config.size
  <2>1. 0 \in 0 .. (m - 1) /\ Survivors(0) = DOMAIN entries
    <3>1. 0 \in 0 .. (m - 1)
      BY <1>2
    <3>2. 1 .. 0 = {}
      OBVIOUS
    <3> QED
      BY <3>1, <3>2, ZenonT(30) DEF Survivors
  <2>2. Cardinality(DOMAIN entries) >= config.size
    BY <1>1, <2>1, ZenonT(30) DEF EvictsExactly
  <2>3. Cardinality(DOMAIN entries) \in Nat
    BY <1>2, ElementsFinite, FS_CardinalityType
  <2> QED
    BY <1>2, <2>2, <2>3 DEF IInv, WithinCapacity
<1>6. ASSUME NEW j \in DOMAIN entries'
      PROVE  entries[k].inserted_at <= entries'[j].inserted_at
  <2>1. CASE j = key
    <3>1. entries'[j].inserted_at = now
      BY <1>1, <2>1 DEF NewEntry
    <3> QED
      BY <3>1 DEF IInv, TypeOK
  <2>2. CASE j # key
    <3>1. j \in Survivors(m) /\ entries'[j] = entries[j]
      BY <1>1, <1>3, <2>2
    <3>2. PICK b \in 1 .. Len(access_order) : j = access_order[b]
      BY <1>2, <3>1 DEF Survivors, Elements
    <3>3. b \notin 1 .. m
      BY <3>1, <3>2 DEF Survivors
    <3>4. i \in 1 .. Len(access_order) /\ i < b
      BY <1>2, <3>3
    <3> QED
      BY <1>4, <3>1, <3>2, <3>4 DEF IInv, InsertionSorted
  <2> QED
    BY <2>1, <2>2
<1> QED
  BY <1>5, <1>6 DEF MayLeave

\* What reap_expired drops is past its serve-stale window.
LEMMA ReapLeaves ==
  ASSUME IInv, ReapExpired, NEW k \in DOMAIN entries \ DOMAIN entries'
  PROVE  MayLeave(k)
<1>1. IsDead(entries[k])
  BY DEF ReapExpired
<1>2. /\ entries[k].inserted_at \in Int /\ entries[k].original_ttl \in Int
      /\ config.serve_stale \in Int /\ now \in Int
  BY TTLsAssumption DEF IInv, TypeOK, CacheEntry, CacheConfig
<1>3. now > entries[k].inserted_at + entries[k].original_ttl + config.serve_stale
  BY <1>1, <1>2 DEF IsDead, IsStale, IsExpired, TtlRemaining, Elapsed
<1> QED
  BY <1>3 DEF MayLeave

\* No step drops an entry for any other reason than those of MayLeave.
THEOREM CacheLeavesOnlyDeadOrOldest == Spec => LeavesOnlyDeadOrOldest
<1> DEFINE Leaving == \A k \in DOMAIN entries \ DOMAIN entries' : MayLeave(k)
<1>1. IInv /\ [Next]_vars => [Leaving]_vars
  <2> SUFFICES ASSUME IInv, Next, NEW k \in DOMAIN entries \ DOMAIN entries'
               PROVE  MayLeave(k)
    OBVIOUS
  <2>1. ASSUME NEW key \in Keys, LookupHit(key) PROVE FALSE
    BY <2>1 DEF LookupHit
  <2>2. ASSUME NEW key \in Keys, LookupMiss(key) PROVE FALSE
    BY <2>2 DEF LookupMiss
  <2>3. ASSUME NEW key \in Keys, NEW bytes \in Bytes, NEW ttl \in TTLs,
               Insert(key, bytes, ttl)
        PROVE  MayLeave(k)
    BY <2>3, InsertLeaves
  <2>4. CASE ReapExpired
    BY <2>4, ReapLeaves
  <2>5. CASE Clear
    BY <2>5 DEF Clear, MayLeave
  <2>6. CASE Tick
    BY <2>6 DEF Tick, cacheVars
  <2> QED
    BY <2>1, <2>2, <2>3, <2>4, <2>5, <2>6, ZenonT(30) DEF Next
<1>2. Spec => [][Leaving]_vars
  BY <1>1, CacheInvariant, PTL DEF Spec
<1> QED
  BY <1>2 DEF LeavesOnlyDeadOrOldest

-----------------------------------------------------------------------------
(* The forwarder: the inductive invariant.                                 *)

AnyPcs == {"any_check", "any_upstream", "any_store"}
Direct == {"store", "flatten_a", "flatten_aaaa"}

\* An answer to key k as lookup is to give it: within the chain limit, and with
\* AAAA records where DNS64 can provide them.
Usable(k, a) ==
  /\ CnameCloaking => a.cnames <= ChainLimit
  /\ Dns64 /\ NoRecords \notin ChainedA /\ k[2] = "AAAA" => HasAaaa(a)

\* A prefetch or an ANY request may have stored under k.
Tainted(k) ==
  \E u \in Tasks : qkey[u] = k /\ (pf[u] = "stored" \/ (asked[u] = "ANY" /\ pc[u] = "done"))

\* Every array has an element per task.
Arrays ==
  /\ DOMAIN pc = Tasks /\ DOMAIN asked = Tasks /\ DOMAIN qkey = Tasks /\ DOMAIN raw = Tasks
  /\ DOMAIN work = Tasks /\ DOMAIN reply = Tasks /\ DOMAIN pf = Tasks /\ DOMAIN pfwork = Tasks

\* What a request and its prefetch hold where they are.
Holds(t) ==
  /\ pc[t] \in UnderWay \cup {"idle", "done"}
  /\ pc[t] # "idle" => qkey[t] \in Keys /\ asked[t] \in {"ANY", qkey[t][2]}
  /\ pc[t] \in AnyPcs => asked[t] = "ANY"
  /\ pf[t] # "none" => pc[t] # "idle" /\ pc[t] \notin AnyPcs
  /\ pc[t] = "dns64" => raw[t] \in UpstreamAnswers(qkey[t]) /\ WantsDns64(raw[t])
  /\ pc[t] \in Direct => raw[t] \in Answer /\ raw[t].key = qkey[t]
  /\ pc[t] \in Direct \cup {"any_store"} => work[t] \in Answer /\ work[t].key = qkey[t]
  /\ pc[t] \in {"store", "any_store"} => work[t] \in Bytes
  /\ pc[t] \in Direct => Usable(qkey[t], work[t]) /\ (~ work[t].synth => Usable(qkey[t], raw[t]))
  /\ pf[t] = "store" => pfwork[t] \in Answer \cap Bytes /\ pfwork[t].key = qkey[t]
  /\ Replied(t) => pc[t] = "done"

TasksInv == Arrays /\ \A t \in Tasks : Holds(t)

-----------------------------------------------------------------------------
(* Answers.                                                                *)

\* A key is a name and a record type.
LEMMA KeyParts ==
  ASSUME NEW k \in Keys
  PROVE  k = <<k[1], k[2]>> /\ k[1] \in Names /\ k[2] \in RecordTypes
BY KeysAssumption

\* The key of the AAAA records of the same name.
LEMMA ToAaaa ==
  ASSUME NEW k \in Keys
  PROVE  [k EXCEPT ![2] = "AAAA"] = <<k[1], "AAAA">> /\ <<k[1], "AAAA">> \in Keys
BY KeyParts, KeysAssumption DEF RecordTypes

\* What the resolver returns is an answer to the key, and can be stored.
LEMMA ReceivedFacts ==
  ASSUME NEW k \in Keys, NEW a \in UpstreamAnswers(k)
  PROVE  a \in Answer /\ a.key = k /\ ~ a.synth /\ a \in Bytes /\ WithDnameCnames(a) \in Bytes
<1>1. k[2] \in RecordTypes
  BY KeysAssumption
<1>2. PICK u \in Upstream[k[2]] :
        a = [key |-> k, direct |-> u.direct, cnames |-> u.cnames, aname |-> u.aname,
             synth |-> FALSE, flat |-> FALSE, ttl |-> u.ttl]
  BY DEF UpstreamAnswers
<1>3. a \in Answer /\ a.key = k /\ ~ a.synth
  BY <1>1, <1>2, UpstreamAssumption DEF Answer
<1> QED
  BY <1>3, StorableAssumption

\* DNAME synthesis keeps an answer an answer to its key, and only adds CNAMEs.
LEMMA DnameFacts ==
  ASSUME NEW a \in Answer
  PROVE  LET p == WithDnameCnames(a)
         IN /\ p \in Answer /\ p.key = a.key /\ p.cnames >= a.cnames
            /\ p.synth = a.synth /\ p.direct = a.direct
BY DEF Answer, WithDnameCnames

\* So does DNS64, which marks what it added.
LEMMA Dns64Facts ==
  ASSUME NEW a \in Answer, NEW ttl \in TTLs
  PROVE  LET p == WithDns64(a, ttl)
         IN p \in Answer /\ p.key = a.key /\ p.synth
BY Zenon DEF Answer, WithDns64

\* The TTL a store gives is one an answer may carry.
LEMMA StoreTtlType ==
  ASSUME NEW a \in Answer
  PROVE  StoreTtl(a) \in TTLs
BY EmptyTTLAssumption, ZenonT(30) DEF Answer, StoreTtl

\* What passes post-processing is usable, and so is the answer as received unless
\* DNS64 has taken its place.
LEMMA PostprocessFacts ==
  ASSUME NEW k \in Keys, NEW r \in UpstreamAnswers(k), NEW a \in Answer, a.key = k,
         \/ a = r /\ ~ WantsDns64(r)
         \/ a = r /\ NoRecords \in ChainedA
         \/ a.synth /\ a.cnames = r.cnames,
         ~ ChainTruncated(WithDnameCnames(a))
  PROVE  Usable(k, WithDnameCnames(a)) /\ (~ WithDnameCnames(a).synth => Usable(k, r))
<1> DEFINE p == WithDnameCnames(a)
<1>1. p \in Answer /\ p.cnames >= a.cnames /\ p.synth = a.synth /\ p.direct = a.direct
  BY DnameFacts
<1>2. r \in Answer /\ r.key = k
  BY ReceivedFacts
<1>3. a.cnames \in Nat /\ p.cnames \in Nat /\ r.cnames \in Nat /\ ChainLimit \in Nat
  BY <1>1, <1>2, ChainLimitAssumption DEF Answer
<1>4. CnameCloaking => p.cnames <= ChainLimit
  BY <1>3 DEF ChainTruncated
<1>5. a.cnames = r.cnames
  OBVIOUS
<1>6. CnameCloaking => r.cnames <= ChainLimit
  BY <1>1, <1>3, <1>4, <1>5
<1>7. Dns64 /\ NoRecords \notin ChainedA /\ k[2] = "AAAA" => a.synth \/ (a = r /\ r.direct)
  BY <1>2 DEF WantsDns64
<1> HIDE DEF p
<1> QED
  BY <1>1, <1>4, <1>6, <1>7 DEF Usable, HasAaaa, p

-----------------------------------------------------------------------------
(* The steps of a request and of its prefetch.                             *)

\* Only task t moves.
Only(t) ==
  \A u \in Tasks \ {t} :
    /\ pc'[u] = pc[u] /\ asked'[u] = asked[u] /\ qkey'[u] = qkey[u] /\ raw'[u] = raw[u]
    /\ work'[u] = work[u] /\ reply'[u] = reply[u] /\ pf'[u] = pf[u] /\ pfwork'[u] = pfwork[u]

\* What task t has finished stays as it is.
Keeps(t) ==
  /\ pf[t] = "stored" => pf'[t] = "stored" /\ qkey'[t] = qkey[t]
  /\ pc[t] = "done" => /\ pc'[t] = "done" /\ asked'[t] = asked[t] /\ qkey'[t] = qkey[t]
                       /\ reply'[t] = reply[t]

Moves(t) == Arrays' /\ Only(t) /\ Keeps(t) /\ Holds(t)'

\* A request reaches the cache.
LEMMA ArriveMoves ==
  ASSUME TasksInv, NEW t \in Tasks, Arrive(t)
  PROVE  Moves(t)
<1>0. Holds(t)
  BY DEF TasksInv
<1>a. Arrays
  BY DEF TasksInv
<1> USE <1>a DEF Arrays
<1>1. CASE \E n \in Names, ty \in QueryTypes \cap RecordTypes :
             CheckHit(t, <<n, ty>>) \/ CheckMiss(t, <<n, ty>>)
  <2>1. PICK n \in Names, ty \in QueryTypes \cap RecordTypes :
          CheckHit(t, <<n, ty>>) \/ CheckMiss(t, <<n, ty>>)
    BY <1>1
  <2> DEFINE k == <<n, ty>>
  <2>2. k \in Keys /\ k[2] = ty
    BY KeysAssumption
  <2> HIDE DEF k
  <2>3. CheckHit(t, k) \/ CheckMiss(t, k)
    BY <2>1, Zenon DEF k
  <2>4. Arrays' /\ Only(t)
    BY <2>3, ZenonT(30) DEF Only, CheckHit, CheckMiss, Ask, Respond, Goto, prefetchVars
  <2>5. /\ pc[t] = "idle" /\ pc'[t] \in {"done", "upstream"}
        /\ asked'[t] = k[2] /\ qkey'[t] = k
        /\ pf'[t] \in {pf[t], "fetch"}
        /\ pc'[t] = "upstream" => reply'[t] = reply[t]
    BY <2>3 DEF CheckHit, CheckMiss, Ask, Respond, Goto, prefetchVars
  <2>6. Keeps(t)
    BY <1>0, <2>5, Zenon DEF Keeps, Holds
  <2>7. Holds(t)'
    BY <1>0, <2>2, <2>5, Zenon DEF Holds, UnderWay, AnyPcs, Direct, Replied
  <2> QED
    BY <2>4, <2>6, <2>7, ZenonT(30) DEF Moves
<1>2. CASE \E k \in Keys : AnyCheckHit(t, k) \/ AnyCheckMiss(t, k)
  <2>1. PICK k \in Keys : AnyCheckHit(t, k) \/ AnyCheckMiss(t, k)
    BY <1>2, Zenon
  <2>2. Arrays' /\ Only(t)
    BY <2>1, ZenonT(30) DEF Only, AnyCheckHit, AnyCheckMiss, Ask, Respond, Goto, prefetchVars
  <2>3. /\ pc[t] \in {"idle", "any_check"} /\ pc'[t] \in {"done", "any_upstream"}
        /\ asked'[t] = "ANY" /\ qkey'[t] = k /\ pf'[t] = pf[t]
        /\ pc'[t] = "any_upstream" => reply'[t] = reply[t]
    BY <2>1 DEF AnyCheckHit, AnyCheckMiss, AtAnyCheck, Ask, Respond, Goto, prefetchVars
  <2>4. Keeps(t)
    BY <1>0, <2>3, Zenon DEF Keeps, Holds, AnyPcs
  <2>5. Holds(t)'
    BY <1>0, <2>3, Zenon DEF Holds, UnderWay, AnyPcs, Direct, Replied
  <2> QED
    BY <2>2, <2>4, <2>5, ZenonT(30) DEF Moves
<1> QED
  BY <1>1, <1>2 DEF Arrive

\* The steps of lookup after the cache check.
LEMMA LookupMoves ==
  ASSUME TasksInv, NEW t \in Tasks,
         UpstreamOk(t) \/ UpstreamErr(t) \/ ChainedAReply(t) \/ Store(t) \/ FlattenA(t) \/ FlattenAaaa(t)
  PROVE  Moves(t)
<1>0. Holds(t)
  BY DEF TasksInv
<1>a. Arrays
  BY DEF TasksInv
<1> USE <1>a DEF Arrays
<1>k. qkey[t] \in Keys
  BY <1>0 DEF Holds, UpstreamOk, UpstreamErr, ChainedAReply, Store, FlattenA, FlattenAaaa
<1>1. CASE UpstreamOk(t)
  <2>1. PICK a \in UpstreamAnswers(qkey[t]) :
          /\ raw' = [raw EXCEPT ![t] = a]
          /\ \/ WantsDns64(a) /\ Goto(t, "dns64") /\ UNCHANGED <<work, reply>>
             \/ ~WantsDns64(a) /\ Postprocess(t, a)
    BY <1>1, Zenon DEF UpstreamOk
  <2>2. UNCHANGED <<asked, qkey, pf, pfwork>> /\ pc[t] = "upstream"
    BY <1>1, Zenon DEF UpstreamOk, prefetchVars
  <2>3. a \in Answer /\ a.key = qkey[t] /\ WithDnameCnames(a) \in Bytes
    BY <1>k, ReceivedFacts, Zenon
  <2>4. CASE WantsDns64(a)
    BY <1>0, <2>1, <2>2, <2>4, Zenon
    DEF Moves, Only, Keeps, Goto, Holds, UnderWay, AnyPcs, Direct, Replied
  <2>5. CASE ~ WantsDns64(a)
    <3> DEFINE p == WithDnameCnames(a)
    <3>1. p \in Answer /\ p.key = a.key
      BY <2>3, DnameFacts, Zenon
    <3>2. ~ ChainTruncated(p) => Usable(qkey[t], p) /\ (~ p.synth => Usable(qkey[t], a))
      BY <1>k, <2>3, <2>5, PostprocessFacts, Zenon
    <3>3. /\ work' = [work EXCEPT ![t] = p]
          /\ \/ Respond(t, Failure)
             \/ ~ ChainTruncated(p) /\ Goto(t, "store") /\ UNCHANGED reply
      BY <2>1, <2>5, Zenon DEF Postprocess
    <3>4. p \in Bytes
      BY <2>3, Zenon
    <3> HIDE DEF p
    <3>5. Arrays' /\ Only(t) /\ Keeps(t)
      BY <1>0, <2>1, <2>2, <3>3, Zenon DEF Only, Keeps, Respond, Goto
    <3>6. Holds(t)'
      BY <1>0, <1>k, <2>1, <2>2, <2>3, <3>1, <3>2, <3>3, <3>4, ZenonT(30)
      DEF Holds, Respond, Goto, UnderWay, AnyPcs, Direct, Replied
    <3> QED
      BY <3>5, <3>6, Zenon DEF Moves
  <2> QED
    BY <2>4, <2>5
<1>2. CASE UpstreamErr(t)
  BY <1>0, <1>2, Zenon
  DEF UpstreamErr, prefetchVars, Moves, Only, Keeps, Respond, Goto, Holds, UnderWay, AnyPcs, Direct, Replied
<1>3. CASE ChainedAReply(t)
  <2>1. PICK found \in ChainedA :
          Postprocess(t, IF found = NoRecords THEN raw[t] ELSE WithDns64(raw[t], found))
    BY <1>3, Zenon DEF ChainedAReply
  <2>2. UNCHANGED <<asked, qkey, raw, pf, pfwork>> /\ pc[t] = "dns64"
    BY <1>3, Zenon DEF ChainedAReply, prefetchVars
  <2>3. raw[t] \in UpstreamAnswers(qkey[t]) /\ WantsDns64(raw[t])
    BY <1>0, <2>2, ZenonT(30) DEF Holds
  <2>4. raw[t] \in Answer /\ raw[t].key = qkey[t] /\ WithDnameCnames(raw[t]) \in Bytes
    BY <1>k, <2>3, ReceivedFacts
  <2> DEFINE a == IF found = NoRecords THEN raw[t] ELSE WithDns64(raw[t], found)
             p == WithDnameCnames(a)
  <2>5. /\ a \in Answer /\ a.key = qkey[t] /\ p \in Bytes
        /\ \/ a = raw[t] /\ NoRecords \in ChainedA
           \/ a.synth /\ a.cnames = raw[t].cnames
    <3>1. CASE found = NoRecords
      BY <2>4, <3>1, Zenon
    <3>2. CASE found # NoRecords
      <4>1. found \in TTLs
        BY <3>2, ChainedAAssumption
      <4>2. WithDns64(raw[t], found) \in Answer /\ WithDns64(raw[t], found).key = qkey[t]
        BY <2>4, <4>1, Dns64Facts
      <4>3. WithDns64(raw[t], found).synth /\ WithDns64(raw[t], found).cnames = raw[t].cnames
        BY <2>4 DEF Answer, WithDns64
      <4>4. WithDnameCnames(WithDns64(raw[t], found)) \in Bytes
        BY <1>k, <2>3, <3>2, StorableAssumption
      <4> QED
        BY <3>2, <4>2, <4>3, <4>4, ZenonT(30)
    <3> QED
      BY <3>1, <3>2, Zenon
  <2> HIDE DEF a
  <2>6. p \in Answer /\ p.key = a.key
    BY <2>5, DnameFacts, ZenonT(30)
  <2>7. ~ ChainTruncated(p) => Usable(qkey[t], p) /\ (~ p.synth => Usable(qkey[t], raw[t]))
    BY <1>k, <2>3, <2>5, PostprocessFacts
  <2>8. /\ work' = [work EXCEPT ![t] = p]
        /\ \/ Respond(t, Failure)
           \/ ~ ChainTruncated(p) /\ Goto(t, "store") /\ UNCHANGED reply
    BY <2>1, Zenon DEF Postprocess, a
  <2> HIDE DEF p
  <2>9. Arrays' /\ Only(t) /\ Keeps(t)
    BY <1>0, <2>2, <2>8, Zenon DEF Only, Keeps, Respond, Goto
  <2>10. Holds(t)'
    BY <1>0, <1>k, <2>2, <2>4, <2>5, <2>6, <2>7, <2>8, ZenonT(30)
    DEF Holds, Respond, Goto, UnderWay, AnyPcs, Direct, Replied
  <2> QED
    BY <2>9, <2>10, Zenon DEF Moves
<1>4. CASE Store(t)
  <2>1. /\ pc[t] = "store" /\ UNCHANGED <<asked, qkey, raw, work, pf, pfwork>>
        /\ \/ Goto(t, "flatten_a") /\ UNCHANGED reply
           \/ Respond(t, LookupResult(t, work[t]))
    BY <1>4, Zenon DEF Store, prefetchVars
  <2> QED
    BY <1>0, <2>1, Zenon
    DEF Moves, Only, Keeps, Respond, Goto, Holds, UnderWay, AnyPcs, Direct, Replied
<1>5. CASE FlattenA(t) \/ FlattenAaaa(t)
  <2>1. PICK flat \in BOOLEAN : work' = [work EXCEPT ![t] = [work[t] EXCEPT !.flat = flat]]
    BY <1>0, <1>5, Zenon DEF FlattenA, FlattenAaaa, Holds, Direct, Answer
  <2>2. /\ pc[t] \in {"flatten_a", "flatten_aaaa"} /\ UNCHANGED <<asked, qkey, raw, pf, pfwork>>
        /\ \/ Goto(t, "flatten_aaaa") /\ UNCHANGED reply
           \/ \E r : Respond(t, r)
    BY <1>5, Zenon DEF FlattenA, FlattenAaaa, prefetchVars
  <2>3. work[t] \in Answer
    BY <1>0, <2>2, Zenon DEF Holds, Direct
  <2> DEFINE w == [work[t] EXCEPT !.flat = flat]
  <2>4. /\ w \in Answer /\ w.key = work[t].key /\ w.cnames = work[t].cnames
        /\ w.synth = work[t].synth /\ w.direct = work[t].direct
    BY <2>3 DEF Answer
  <2>5. work' = [work EXCEPT ![t] = w]
    BY <2>1
  <2> HIDE DEF w
  <2>6. Arrays' /\ Only(t) /\ Keeps(t)
    BY <1>0, <2>2, <2>5, Zenon DEF Only, Keeps, Respond, Goto
  <2>7. Usable(qkey[t], work[t]) => Usable(qkey[t], w)
    BY <2>4, Zenon DEF Usable, HasAaaa
  <2>8. Holds(t)'
    BY <1>0, <2>2, <2>4, <2>5, <2>7, ZenonT(30) DEF Holds, Respond, Goto, UnderWay, AnyPcs, Direct, Replied
  <2> QED
    BY <2>6, <2>8, Zenon DEF Moves
<1> QED
  BY <1>1, <1>2, <1>3, <1>4, <1>5, Zenon

\* The steps of lookup_any after the cache check.
LEMMA AnyMoves ==
  ASSUME TasksInv, NEW t \in Tasks, AnyUpstreamOk(t) \/ AnyUpstreamNone(t) \/ AnyStore(t)
  PROVE  Moves(t)
<1>0. Holds(t)
  BY DEF TasksInv
<1>a. Arrays
  BY ZenonT(30) DEF TasksInv
<1> USE <1>a DEF Arrays
<1>k. qkey[t] \in Keys /\ pc[t] \in AnyPcs
  BY <1>0 DEF Holds, AnyUpstreamOk, AnyUpstreamNone, AnyStore, AnyPcs
<1>1. CASE AnyUpstreamOk(t)
  <2>1. PICK a \in UpstreamAnswers(qkey[t]) : work' = [work EXCEPT ![t] = a]
    BY <1>1, Zenon DEF AnyUpstreamOk
  <2>2. a \in Answer /\ a.key = qkey[t] /\ a \in Bytes
    BY <1>k, ReceivedFacts
  <2>3. Goto(t, "any_store") /\ UNCHANGED <<asked, qkey, raw, reply, pf, pfwork>>
    BY <1>1, Zenon DEF AnyUpstreamOk, prefetchVars
  <2>4. Arrays' /\ Only(t) /\ Keeps(t)
    BY <1>k, <2>1, <2>3, ZenonT(30) DEF Only, Keeps, Goto, AnyPcs
  <2>5. Holds(t)'
    BY <1>0, <1>k, <2>1, <2>2, <2>3, ZenonT(30) DEF Holds, Goto, UnderWay, AnyPcs, Direct, Replied
  <2> QED
    BY <2>4, <2>5, Zenon DEF Moves
<1>2. CASE AnyUpstreamNone(t)
  <2>1. CASE qkey[t][2] = "A"
    <3> DEFINE k == <<qkey[t][1], "AAAA">>
    <3>1. [qkey[t] EXCEPT ![2] = "AAAA"] = k /\ k \in Keys /\ k[2] = "AAAA"
      BY <1>k, ToAaaa
    <3>2. qkey' = [qkey EXCEPT ![t] = [qkey[t] EXCEPT ![2] = "AAAA"]]
      BY <1>2, <2>1 DEF AnyUpstreamNone
    <3>3. qkey' = [qkey EXCEPT ![t] = k]
      BY <3>1, <3>2, Zenon
    <3> HIDE DEF k
    <3>4. Goto(t, "any_check") /\ UNCHANGED <<asked, raw, work, reply, pf, pfwork>>
      BY <1>2, <2>1 DEF AnyUpstreamNone, prefetchVars
    <3>5. Arrays' /\ Only(t) /\ Keeps(t)
      BY <1>0, <1>k, <3>3, <3>4, Zenon DEF Only, Keeps, Goto, AnyPcs, Holds
    <3>6. Holds(t)'
      BY <1>0, <1>k, <3>1, <3>3, <3>4, Zenon DEF Holds, Goto, UnderWay, AnyPcs, Direct, Replied
    <3> QED
      BY <3>5, <3>6, Zenon DEF Moves
  <2>2. CASE qkey[t][2] # "A"
    <3>1. Respond(t, Failure) /\ UNCHANGED <<asked, qkey, raw, work, pf, pfwork>>
      BY <1>2, <2>2 DEF AnyUpstreamNone, prefetchVars
    <3> QED
      BY <1>0, <1>k, <3>1, ZenonT(30)
      DEF Moves, Only, Keeps, Respond, Goto, Holds, UnderWay, AnyPcs, Direct, Replied
  <2> QED
    BY <2>1, <2>2, Zenon
<1>3. CASE AnyStore(t)
  <2>1. /\ Respond(t, FromUpstream(work[t]))
        /\ UNCHANGED <<asked, qkey, raw, work, pf, pfwork>>
    BY <1>3, Zenon DEF AnyStore, prefetchVars
  <2> QED
    BY <1>0, <1>k, <2>1, Zenon
    DEF Moves, Only, Keeps, Respond, Goto, Holds, UnderWay, AnyPcs, Direct, Replied
<1> QED
  BY <1>1, <1>2, <1>3, Zenon

\* The steps of a prefetch.
LEMMA PrefetchMoves ==
  ASSUME TasksInv, NEW t \in Tasks, Prefetch(t)
  PROVE  Moves(t)
<1>0. Holds(t)
  BY DEF TasksInv
<1>a. Arrays
  BY DEF TasksInv
<1> USE <1>a DEF Arrays
<1>1. CASE PrefetchOk(t)
  <2>1. PICK a \in UpstreamAnswers(qkey[t]) : pfwork' = [pfwork EXCEPT ![t] = a]
    BY <1>1, Zenon DEF PrefetchOk
  <2>2. pf[t] = "fetch" /\ pf' = [pf EXCEPT ![t] = "store"] /\ UNCHANGED taskVars
    BY <1>1, Zenon DEF PrefetchOk
  <2>3. qkey[t] \in Keys
    BY <1>0, <2>2, Zenon DEF Holds
  <2>4. a \in Answer /\ a.key = qkey[t] /\ a \in Bytes
    BY <2>3, ReceivedFacts, ZenonT(30)
  <2>5. Arrays' /\ Only(t) /\ Keeps(t)
    BY <2>1, <2>2 DEF Only, Keeps, taskVars
  <2>6. Holds(t)'
    BY <1>0, <2>1, <2>2, <2>4, ZenonT(30) DEF Holds, taskVars, Replied
  <2> QED
    BY <2>5, <2>6, Zenon DEF Moves
<1>2. CASE PrefetchErr(t) \/ PrefetchStore(t)
  <2>1. /\ pf[t] \in {"fetch", "store"} /\ UNCHANGED <<taskVars, pfwork>>
        /\ pf' = [pf EXCEPT ![t] = "failed"] \/ pf' = [pf EXCEPT ![t] = "stored"]
    BY <1>2, ZenonT(30) DEF PrefetchErr, PrefetchStore
  <2>2. Arrays' /\ Only(t) /\ Keeps(t)
    BY <2>1 DEF Only, Keeps, taskVars
  <2>3. Holds(t)'
    BY <1>0, <2>1, ZenonT(30) DEF Holds, taskVars, Replied
  <2> QED
    BY <2>2, <2>3, Zenon DEF Moves
<1> QED
  BY <1>1, <1>2 DEF Prefetch

\* All steps of a task.
LEMMA TaskMoves ==
  ASSUME TasksInv, NEW t \in Tasks, Arrive(t) \/ Proceed(t) \/ Prefetch(t)
  PROVE  Moves(t)
BY ArriveMoves, LookupMoves, AnyMoves, PrefetchMoves DEF Proceed

\* No step breaks what tasks hold.
LEMMA TasksInvStep == TasksInv /\ [ForwardNext]_forwardVars => TasksInv'
<1> SUFFICES ASSUME TasksInv, [ForwardNext]_forwardVars
             PROVE  TasksInv'
  OBVIOUS
<1>1. CASE \E t \in Tasks : Arrive(t) \/ Proceed(t) \/ Prefetch(t)
  <2>1. PICK t \in Tasks : Moves(t)
    BY <1>1, TaskMoves
  <2>2. ASSUME NEW u \in Tasks, u # t
        PROVE  Holds(u)'
    <3>1. Holds(u)
      BY DEF TasksInv
    <3>2. /\ pc'[u] = pc[u] /\ asked'[u] = asked[u] /\ qkey'[u] = qkey[u] /\ raw'[u] = raw[u]
          /\ work'[u] = work[u] /\ reply'[u] = reply[u] /\ pf'[u] = pf[u] /\ pfwork'[u] = pfwork[u]
      BY <2>1, <2>2, Zenon DEF Moves, Only
    <3> QED
      BY <3>1, <3>2, ZenonT(30) DEF Holds, Replied
  <2> QED
    BY <2>1, <2>2 DEF Moves, TasksInv
<1>2. CASE UNCHANGED <<taskVars, prefetchVars>>
  <2>1. UNCHANGED <<pc, asked, qkey, raw, work, reply, pf, pfwork>>
    BY <1>2 DEF taskVars, prefetchVars
  <2>2. ASSUME NEW u \in Tasks
        PROVE  Holds(u)'
    BY <2>1, ZenonT(30) DEF TasksInv, Holds, Replied
  <2> QED
    BY <2>1, <2>2, ZenonT(30) DEF TasksInv, Arrays
<1> QED
  BY <1>1, <1>2 DEF ForwardNext, ForwardTick, forwardVars

\* Requests that have not come yet hold nothing.
LEMMA TasksInvInit == ForwardInit => TasksInv
BY DEF ForwardInit, TasksInv, Arrays, Holds, AnyPcs, Direct, Replied

-----------------------------------------------------------------------------
(* The cache.                                                              *)

\* Every step is one of the cache's, or leaves the cache alone.
LEMMA CacheStep == TasksInv /\ [ForwardNext]_forwardVars => [Next]_vars
<1> SUFFICES ASSUME TasksInv, [ForwardNext]_forwardVars
             PROVE  [Next]_vars
  OBVIOUS
<1>1. ASSUME NEW t \in Tasks, Arrive(t)
      PROVE  Next
  <2>1. PICK k \in Keys : LookupHit(k) \/ LookupMiss(k)
    BY <1>1, KeysAssumption, ZenonT(30) DEF Arrive, CheckHit, CheckMiss, AnyCheckHit, AnyCheckMiss
  <2> QED
    BY <2>1 DEF Next
<1>2. ASSUME NEW t \in Tasks, Proceed(t)
      PROVE  [Next]_vars
  <2>1. CASE Store(t) \/ AnyStore(t)
    <3>1. Insert(qkey[t], work[t], StoreTtl(work[t])) /\ pc[t] \in {"store", "any_store"}
      BY <2>1, Zenon DEF Store, AnyStore
    <3>2. qkey[t] \in Keys /\ work[t] \in Bytes /\ work[t] \in Answer
      BY <3>1, Zenon DEF TasksInv, Holds, Direct
    <3>3. StoreTtl(work[t]) \in TTLs
      BY <3>2, StoreTtlType
    <3> QED
      BY <3>1, <3>2, <3>3 DEF Next
  <2>2. CASE UNCHANGED vars
    BY <2>2
  <2> QED
    BY <1>2, <2>1, <2>2
    DEF Proceed, UpstreamOk, UpstreamErr, ChainedAReply, FlattenA, FlattenAaaa,
        AnyUpstreamOk, AnyUpstreamNone
<1>3. ASSUME NEW t \in Tasks, Prefetch(t)
      PROVE  [Next]_vars
  <2>1. CASE PrefetchStore(t)
    <3>1. Insert(qkey[t], pfwork[t], StoreTtl(pfwork[t])) /\ pf[t] = "store"
      BY <2>1 DEF PrefetchStore
    <3>2. qkey[t] \in Keys /\ pfwork[t] \in Bytes /\ pfwork[t] \in Answer
      BY <3>1, Zenon DEF TasksInv, Holds
    <3>3. StoreTtl(pfwork[t]) \in TTLs
      BY <3>2, StoreTtlType
    <3> QED
      BY <3>1, <3>2, <3>3 DEF Next
  <2> QED
    BY <1>3, <2>1, ZenonT(30) DEF Prefetch, PrefetchOk, PrefetchErr
<1>4. ForwardTick => Next
  BY DEF ForwardTick, Next
<1>5. UNCHANGED forwardVars => UNCHANGED vars
  BY DEF forwardVars
<1> QED
  BY <1>1, <1>2, <1>3, <1>4, <1>5 DEF ForwardNext

\* The forwarder implements the cache's specification, for any requests, upstream
\* answers and overlapping prefetches.
THEOREM ForwarderImplementsCache == ForwardSpec => ImplementsCache
<1>1. ForwardInit => Init
  BY DEF ForwardInit
<1> QED
  BY <1>1, TasksInvInit, TasksInvStep, CacheStep, PTL DEF ForwardSpec, ImplementsCache, Spec

\* The cache stays well typed under the forwarder.
LEMMA ForwarderTypes == ForwardSpec => [](TasksInv /\ TypeOK)
<1>1. ForwardSpec => []TasksInv
  BY TasksInvInit, TasksInvStep, PTL DEF ForwardSpec
<1>2. ForwardSpec => []TypeOK
  BY ForwarderImplementsCache, CacheTypeCorrect, PTL DEF ImplementsCache
<1> QED
  BY <1>1, <1>2, PTL

-----------------------------------------------------------------------------
(* What is right to cache and to reply.                                    *)

\* Answer a is one to key k, and usable unless a store without post-processing came
\* in between.
Right(k, a) == a.key = k /\ (Tainted(k) \/ Usable(k, a))

\* Whatever is cached under a key, and whatever was replied, is right.
AnswersInv ==
  /\ \A k \in DOMAIN entries :
       entries[k].response_bytes = Garbled \/ Right(k, entries[k].response_bytes)
  /\ \A t \in Tasks : Replied(t) => Right(qkey[t], reply[t].answer)

-----------------------------------------------------------------------------
(* What is cached and replied.                                             *)

\* Every entry after a step of t is an earlier one's bytes, or those that t has just
\* stored; they are usable, or t's store is one without post-processing.
Caches(t) ==
  \A k \in DOMAIN entries' :
    \/ k \in DOMAIN entries /\ entries'[k].response_bytes = entries[k].response_bytes
    \/ /\ entries'[k].response_bytes.key = k
       /\ \/ Usable(k, entries'[k].response_bytes)
          \/ k = qkey'[t] /\ pf'[t] = "stored"
          \/ k = qkey'[t] /\ asked'[t] = "ANY" /\ pc'[t] = "done"

\* A reply of t in this step is right.
Replies(t) ==
  pc[t] # "done" /\ reply'[t] \notin {NoAnswer, Failure} =>
    /\ reply'[t].answer.key = qkey'[t]
    /\ \/ Tainted(qkey'[t])
       \/ asked'[t] = "ANY"
       \/ Usable(qkey'[t], reply'[t].answer)

\* A step that leaves the map alone.
LEMMA SameEntries ==
  ASSUME NEW t \in Tasks, UNCHANGED entries
  PROVE  Caches(t)
BY DEF Caches

\* A hit changes no response.
LEMMA HitCaches ==
  ASSUME TypeOK, NEW t \in Tasks, NEW k \in Keys, LookupHit(k)
  PROVE  Caches(t)
<1>1. entries[k] \in CacheEntry /\ k \in DOMAIN entries
  BY DEF TypeOK, LookupHit
<1>2. Touched(entries[k]).response_bytes = entries[k].response_bytes
  BY <1>1, ZenonT(30) DEF Touched, CacheEntry
<1> QED
  BY <1>1, <1>2 DEF LookupHit, Caches

\* An insert leaves the responses of the other keys.
LEMMA InsertCaches ==
  ASSUME NEW t \in Tasks, NEW k, NEW a, NEW ttl, Insert(k, a, ttl), a.key = k,
         \/ Usable(k, a)
         \/ k = qkey'[t] /\ pf'[t] = "stored"
         \/ k = qkey'[t] /\ asked'[t] = "ANY" /\ pc'[t] = "done"
  PROVE  Caches(t)
<1>1. PICK m \in 0 .. Len(access_order) :
        entries' = [j \in Survivors(m) \cup {k} |-> IF j = k THEN NewEntry(a, ttl) ELSE entries[j]]
  BY ZenonT(30) DEF Insert
<1>2. Survivors(m) \subseteq DOMAIN entries /\ NewEntry(a, ttl).response_bytes = a
  BY DEF Survivors, NewEntry
<1> QED
  BY <1>1, <1>2 DEF Caches

\* Arriving requests.
LEMMA ArriveAnswers ==
  ASSUME TasksInv, TypeOK, AnswersInv, NEW t \in Tasks, Arrive(t)
  PROVE  Caches(t) /\ Replies(t)
<1>0. Holds(t)
  BY DEF TasksInv
<1>a. Arrays
  BY Zenon DEF TasksInv
<1> USE <1>a DEF Arrays
<1>r. pc[t] # "done" => reply[t] \in {NoAnswer, Failure}
  BY <1>0, ZenonT(30) DEF Holds, Replied
<1>1. ASSUME NEW k \in Keys, CheckHit(t, k) \/ AnyCheckHit(t, k)
      PROVE  Caches(t) /\ Replies(t)
  <2>1. LookupHit(k) /\ pc[t] # "done" /\ qkey'[t] = k
    BY <1>1, Zenon DEF CheckHit, AnyCheckHit, AtAnyCheck, Ask
  <2>2. \/ UNCHANGED reply
        \/ /\ reply' = [reply EXCEPT ![t] = FromCache(entries[k])]
           /\ entries[k].response_bytes # Garbled
    BY <1>1, Zenon DEF CheckHit, AnyCheckHit, Respond, UsableForAny
  <2>3. k \in DOMAIN entries
    BY <2>1 DEF LookupHit
  <2>4. Replies(t)
    <3>1. CASE UNCHANGED reply
      BY <1>r, <3>1, Zenon DEF Replies
    <3>2. CASE /\ reply' = [reply EXCEPT ![t] = FromCache(entries[k])]
               /\ entries[k].response_bytes # Garbled
      <4>1. Right(k, entries[k].response_bytes)
        BY <2>3, <3>2, ZenonT(30) DEF AnswersInv
      <4>2. reply'[t].answer = entries[k].response_bytes
        BY <3>2, ZenonT(30) DEF FromCache
      <4> QED
        BY <2>1, <4>1, <4>2, ZenonT(30) DEF Replies, Right
    <3> QED
      BY <2>2, <3>1, <3>2, Zenon
  <2> QED
    BY <2>1, <2>4, HitCaches
<1>2. ASSUME NEW k \in Keys, CheckMiss(t, k) \/ AnyCheckMiss(t, k)
      PROVE  Caches(t) /\ Replies(t)
  <2>1. UNCHANGED <<entries, reply>>
    BY <1>2, ZenonT(30) DEF CheckMiss, AnyCheckMiss, LookupMiss
  <2> QED
    BY <1>0, <2>1, SameEntries DEF Replies, Holds, Replied
<1> QED
  BY <1>1, <1>2, KeysAssumption, Zenon DEF Arrive

\* Requests under way.
LEMMA ProceedAnswers ==
  ASSUME TasksInv, NEW t \in Tasks, Proceed(t)
  PROVE  Caches(t) /\ Replies(t)
<1>0. Holds(t)
  BY DEF TasksInv
<1>a. Arrays
  BY DEF TasksInv
<1> USE <1>a DEF Arrays
<1>r. pc[t] # "done" => reply[t] \in {NoAnswer, Failure}
  BY <1>0, Zenon DEF Holds, Replied
<1>1. CASE Store(t)
  <2>1. /\ pc[t] = "store" /\ Insert(qkey[t], work[t], StoreTtl(work[t])) /\ UNCHANGED qkey
        /\ UNCHANGED reply \/ reply' = [reply EXCEPT ![t] = LookupResult(t, work[t])]
    BY <1>1, Zenon DEF Store, Respond
  <2>2. /\ work[t].key = qkey[t] /\ Usable(qkey[t], work[t]) /\ raw[t].key = qkey[t]
        /\ ~ work[t].synth => Usable(qkey[t], raw[t])
    BY <1>0, <2>1, Zenon DEF Holds, Direct
  <2>3. Replies(t)
    <3>1. CASE UNCHANGED reply
      BY <1>r, <3>1, Zenon DEF Replies
    <3>2. CASE reply' = [reply EXCEPT ![t] = LookupResult(t, work[t])]
      <4>1. reply'[t].answer = IF work[t].synth THEN work[t] ELSE raw[t]
        BY <3>2, Zenon DEF LookupResult, FromUpstream
      <4>2. reply'[t].answer.key = qkey[t] /\ Usable(qkey[t], reply'[t].answer)
        BY <2>2, <4>1, ZenonT(30)
      <4> QED
        BY <2>1, <4>2, Zenon DEF Replies
    <3> QED
      BY <2>1, <3>1, <3>2, Zenon
  <2> QED
    BY <2>1, <2>2, <2>3, InsertCaches, Zenon
<1>2. CASE FlattenAaaa(t)
  <2>1. PICK found \in BOOLEAN :
          reply' = [reply EXCEPT ![t] = LookupResult(t, [work[t] EXCEPT !.flat = @ \/ found])]
    BY <1>2, Zenon DEF FlattenAaaa, Respond
  <2>2. pc[t] = "flatten_aaaa" /\ UNCHANGED <<entries, qkey>>
    BY <1>2 DEF FlattenAaaa, vars, cacheVars
  <2>3. /\ work[t] \in Answer /\ work[t].key = qkey[t] /\ Usable(qkey[t], work[t])
        /\ raw[t].key = qkey[t] /\ (~ work[t].synth => Usable(qkey[t], raw[t]))
    BY <1>0, <2>2, Zenon DEF Holds, Direct
  <2> DEFINE r == [work[t] EXCEPT !.flat = @ \/ found]
  <2>4. /\ r.key = work[t].key /\ r.synth = work[t].synth /\ r.cnames = work[t].cnames
        /\ r.direct = work[t].direct
    BY <2>3 DEF Answer
  <2>5. Usable(qkey[t], r)
    BY <2>3, <2>4 DEF Usable, HasAaaa
  <2>6. reply' = [reply EXCEPT ![t] = LookupResult(t, r)]
    BY <2>1
  <2> HIDE DEF r
  <2>7. Replies(t)
    BY <2>2, <2>3, <2>4, <2>5, <2>6, ZenonT(30) DEF Replies, LookupResult, FromUpstream
  <2> QED
    BY <2>2, <2>7, SameEntries
<1>3. CASE AnyStore(t)
  <2>1. /\ pc[t] = "any_store" /\ Insert(qkey[t], work[t], StoreTtl(work[t]))
        /\ UNCHANGED <<qkey, asked>> /\ reply' = [reply EXCEPT ![t] = FromUpstream(work[t])]
        /\ pc' = [pc EXCEPT ![t] = "done"]
    BY <1>3, Zenon DEF AnyStore, Respond, Goto
  <2>2. work[t].key = qkey[t] /\ asked[t] = "ANY"
    BY <1>0, <2>1, Zenon DEF Holds, AnyPcs
  <2>3. Caches(t)
    BY <2>1, <2>2, InsertCaches, ZenonT(30)
  <2> QED
    BY <2>1, <2>2, <2>3, ZenonT(30) DEF Replies, FromUpstream
<1>4. CASE \/ UpstreamOk(t) \/ UpstreamErr(t) \/ ChainedAReply(t) \/ FlattenA(t)
           \/ AnyUpstreamOk(t) \/ AnyUpstreamNone(t)
  <2>1. UNCHANGED entries
    BY <1>4 DEF UpstreamOk, UpstreamErr, ChainedAReply, FlattenA, AnyUpstreamOk,
                AnyUpstreamNone, vars, cacheVars
  <2>2. UNCHANGED reply \/ reply' = [reply EXCEPT ![t] = Failure]
    BY <1>4, Zenon DEF UpstreamOk, UpstreamErr, ChainedAReply, FlattenA, AnyUpstreamOk,
                AnyUpstreamNone, Postprocess, Respond
  <2> QED
    BY <1>0, <2>1, <2>2, SameEntries, ZenonT(30) DEF Replies, Holds, Replied
<1> QED
  BY <1>1, <1>2, <1>3, <1>4, ZenonT(30) DEF Proceed

\* Prefetches reply to nobody.
LEMMA PrefetchAnswers ==
  ASSUME TasksInv, NEW t \in Tasks, Prefetch(t)
  PROVE  Caches(t) /\ Replies(t)
<1>0. Holds(t)
  BY DEF TasksInv
<1>a. Arrays
  BY DEF TasksInv
<1> USE <1>a DEF Arrays
<1>1. UNCHANGED <<qkey, reply>>
  BY ZenonT(30) DEF Prefetch, PrefetchOk, PrefetchErr, PrefetchStore, taskVars
<1>2. Replies(t)
  BY <1>0, <1>1, Zenon DEF Replies, Holds, Replied
<1>3. CASE PrefetchStore(t)
  <2>1. /\ pf[t] = "store" /\ Insert(qkey[t], pfwork[t], StoreTtl(pfwork[t]))
        /\ pf' = [pf EXCEPT ![t] = "stored"]
    BY <1>3 DEF PrefetchStore
  <2>2. pfwork[t].key = qkey[t]
    BY <1>0, <2>1, Zenon DEF Holds
  <2>3. Caches(t)
    BY <1>1, <2>1, <2>2, InsertCaches, ZenonT(30)
  <2> QED
    BY <1>2, <2>3, ZenonT(30)
<1>4. CASE UNCHANGED entries
  BY <1>2, <1>4, SameEntries, ZenonT(30)
<1> QED
  BY <1>3, <1>4, Zenon DEF Prefetch, PrefetchOk, PrefetchErr, vars, cacheVars

\* A key that was stored under without post-processing remains one.
LEMMA TaintedStays ==
  ASSUME NEW t \in Tasks, Moves(t), NEW k, Tainted(k)
  PROVE  Tainted(k)'
<1>1. PICK u \in Tasks :
        qkey[u] = k /\ (pf[u] = "stored" \/ (asked[u] = "ANY" /\ pc[u] = "done"))
  BY DEF Tainted
<1>2. qkey'[u] = k /\ (pf'[u] = "stored" \/ (asked'[u] = "ANY" /\ pc'[u] = "done"))
  BY <1>1 DEF Moves, Only, Keeps
<1> QED
  BY <1>2 DEF Tainted

\* A step of a task keeps what is cached and replied right.
LEMMA AnswersMove ==
  ASSUME AnswersInv, NEW t \in Tasks, Moves(t), Caches(t), Replies(t)
  PROVE  AnswersInv'
<1>1. ASSUME NEW k \in DOMAIN entries', entries'[k].response_bytes # Garbled
      PROVE  Right(k, entries[k].response_bytes)'
  <2>1. CASE k \in DOMAIN entries /\ entries'[k].response_bytes = entries[k].response_bytes
    <3>1. /\ entries'[k].response_bytes.key = k
          /\ Tainted(k) \/ Usable(k, entries'[k].response_bytes)
      BY <1>1, <2>1, ZenonT(30) DEF AnswersInv, Right
    <3>2. Tainted(k) => Tainted(k)'
      BY TaintedStays
    <3> QED
      BY <3>1, <3>2 DEF Right, Usable
  <2>2. CASE /\ entries'[k].response_bytes.key = k
             /\ Usable(k, entries'[k].response_bytes)
    BY <2>2, Zenon DEF Right, Usable
  <2>3. CASE /\ entries'[k].response_bytes.key = k
             /\ k = qkey'[t]
             /\ pf'[t] = "stored" \/ (asked'[t] = "ANY" /\ pc'[t] = "done")
    BY <2>3, Zenon DEF Right, Tainted
  <2> QED
    BY <2>1, <2>2, <2>3, ZenonT(30) DEF Caches
<1>2. ASSUME NEW u \in Tasks, Replied(u)'
      PROVE  Right(qkey[u], reply[u].answer)'
  <2>1. \A k : Tainted(k) => \E w \in Tasks :
          qkey'[w] = k /\ (pf'[w] = "stored" \/ (asked'[w] = "ANY" /\ pc'[w] = "done"))
    BY TaintedStays, ZenonT(30) DEF Tainted
  <2>2. CASE u # t \/ pc[t] = "done"
    <3>1. reply'[u] = reply[u] /\ qkey'[u] = qkey[u]
      BY <2>2, Zenon DEF Moves, Only, Keeps
    <3>2. Right(qkey[u], reply[u].answer)
      BY <1>2, <3>1, ZenonT(30) DEF AnswersInv, Replied
    <3> QED
      BY <2>1, <3>1, <3>2 DEF Right, Tainted, Usable
  <2>3. CASE u = t /\ pc[t] # "done"
    <3>1. /\ reply'[t].answer.key = qkey'[t]
          /\ \/ Tainted(qkey'[t])
             \/ asked'[t] = "ANY"
             \/ Usable(qkey'[t], reply'[t].answer)
      BY <1>2, <2>3, Zenon DEF Replies, Replied
    <3>2. pc'[t] = "done"
      BY <1>2, <2>3, ZenonT(30) DEF Moves, Holds
    <3>3. CASE Tainted(qkey'[t])
      BY <2>1, <2>3, <3>1, <3>3, ZenonT(30) DEF Right, Tainted
    <3>4. CASE asked'[t] = "ANY"
      BY <2>3, <3>1, <3>2, <3>4, Zenon DEF Right, Tainted
    <3>5. CASE Usable(qkey'[t], reply'[t].answer)
      BY <2>3, <3>1, <3>5 DEF Right, Usable
    <3> QED
      BY <3>1, <3>3, <3>4, <3>5, ZenonT(30)
  <2> QED
    BY <2>2, <2>3, ZenonT(30)
<1> QED
  BY <1>1, <1>2, Zenon DEF AnswersInv

\* No step breaks what is cached and replied.
LEMMA AnswersInvStep ==
  TasksInv /\ TypeOK /\ AnswersInv /\ [ForwardNext]_forwardVars => AnswersInv'
<1> SUFFICES ASSUME TasksInv, TypeOK, AnswersInv, [ForwardNext]_forwardVars
             PROVE  AnswersInv'
  OBVIOUS
<1>1. ASSUME NEW t \in Tasks, Arrive(t) \/ Proceed(t) \/ Prefetch(t)
      PROVE  AnswersInv'
  <2>1. Caches(t) /\ Replies(t)
    BY <1>1, ArriveAnswers, ProceedAnswers, PrefetchAnswers
  <2>2. Moves(t)
    BY <1>1, TaskMoves, ZenonT(30)
  <2> QED
    BY <2>1, <2>2, AnswersMove
<1>2. CASE UNCHANGED <<entries, taskVars, prefetchVars>>
  BY <1>2, ZenonT(30) DEF AnswersInv, Right, Tainted, Usable, Replied, taskVars, prefetchVars
<1> QED
  BY <1>1, <1>2 DEF ForwardNext, ForwardTick, Tick, forwardVars, vars, cacheVars

\* The inductive invariant of what tasks hold, what is cached and what was replied.
THEOREM ForwarderInvariant == ForwardSpec => [](TasksInv /\ AnswersInv)
<1>1. ForwardInit => AnswersInv
  BY DEF ForwardInit, Init, AnswersInv, Replied
<1> QED
  BY <1>1, ForwarderTypes, AnswersInvStep, PTL DEF ForwardSpec

-----------------------------------------------------------------------------
(* What follows.                                                           *)

\* Neither the cache nor a client ever gets an answer to another key, however
\* lookups, ANY requests and prefetches overlap.
THEOREM AnswersMatch == ForwardSpec => []AnswersMatchKeys
<1>1. AnswersInv => AnswersMatchKeys
  BY ZenonT(30) DEF AnswersInv, Right, AnswersMatchKeys
<1> QED
  BY <1>1, ForwarderInvariant, PTL

\* No client gets a chain beyond the limit, from upstream or from the cache, unless
\* a prefetch or an ANY request worked on the key.
THEOREM ChainsWithinLimit == ForwardSpec => []ChainLimitHolds
<1>1. AnswersInv => ChainLimitHolds
  BY DEF AnswersInv, Right, Tainted, Unprocessed, Usable, ChainLimitHolds
<1> QED
  BY <1>1, ForwarderInvariant, PTL

\* A client that asks for AAAA gets AAAA records where DNS64 can provide them, unless
\* a prefetch or an ANY request worked on the key.
THEOREM AaaaUsable == ForwardSpec => []AaaaAnswersUsable
<1>1. TasksInv /\ AnswersInv => AaaaAnswersUsable
  <2> SUFFICES ASSUME TasksInv, AnswersInv, NEW t \in Tasks, Dns64, NoRecords \notin ChainedA,
                      Replied(t), asked[t] = "AAAA", ~ Unprocessed(qkey[t])
               PROVE  HasAaaa(reply[t].answer)
    BY DEF AaaaAnswersUsable
  <2>1. qkey[t][2] = "AAAA"
    BY Zenon DEF TasksInv, Holds
  <2>2. ~ Tainted(qkey[t])
    BY ZenonT(30) DEF Tainted, Unprocessed
  <2> QED
    BY <2>1, <2>2, ZenonT(30) DEF AnswersInv, Right, Usable
<1> QED
  BY <1>1, ForwarderInvariant, PTL

\* A hit on an expired entry leaves it due for a prefetch.
LEMMA ExpiredHitIsDue ==
  ASSUME TypeOK, NEW k \in DOMAIN entries, IsExpired(entries[k]), config.prefetch > 0
  PROVE  ShouldPrefetch(Touched(entries[k]))
<1> DEFINE e == entries[k]
           p == config.prefetch
           n == e.hit_count + 1
<1>1. e \in CacheEntry /\ p \in Nat /\ p > 0 /\ IsExpired(e)
  BY DEF TypeOK, CacheConfig
<1>2. n \in Nat /\ n > 0
  BY <1>1 DEF CacheEntry
<1>3. /\ Touched(e).hit_count = n
      /\ Touched(e).inserted_at = e.inserted_at /\ Touched(e).original_ttl = e.original_ttl
  BY <1>1, ZenonT(30) DEF Touched, CacheEntry
<1> HIDE DEF e, p, n
<1>4. TtlRemaining(Touched(e)) = 0
  BY <1>1, <1>3 DEF IsExpired, TtlRemaining, Elapsed
<1>5. p * n > 0
  BY <1>1, <1>2
<1> QED
  BY <1>1, <1>3, <1>4, <1>5 DEF ShouldPrefetch, e, p

\* Serving an expired entry starts a re-fetch, for every hit count and TTL and any
\* prefetch setting but 0.
THEOREM ExpiredHitsRefetch == ForwardSpec => ExpiredHitRefetches
<1> DEFINE Refetches ==
      \A t \in Tasks :
        (/\ config.prefetch > 0
         /\ pc[t] = "idle" /\ pc'[t] = "done"
         /\ asked'[t] # "ANY"
         /\ IsExpired(entries[qkey'[t]]))
          => pf'[t] = "fetch"
<1>1. TasksInv /\ TypeOK /\ [ForwardNext]_forwardVars => [Refetches]_forwardVars
  <2> SUFFICES ASSUME TasksInv, TypeOK, ForwardNext, NEW t \in Tasks,
                      config.prefetch > 0, pc[t] = "idle", pc'[t] = "done",
                      asked'[t] # "ANY", IsExpired(entries[qkey'[t]])
               PROVE  pf'[t] = "fetch"
    OBVIOUS
  <2>0. Arrays
    BY DEF TasksInv
  <2>1. Arrive(t)
    <3>1. PICK u \in Tasks : Arrive(u) \/ Proceed(u) \/ Prefetch(u)
      BY ZenonT(30) DEF ForwardNext, ForwardTick, taskVars
    <3>2. Moves(u)
      BY <3>1, TaskMoves, ZenonT(30)
    <3>3. u = t
      BY <3>2 DEF Moves, Only
    <3>4. ~ Proceed(t)
      BY DEF Proceed, UpstreamOk, UpstreamErr, ChainedAReply, Store, FlattenA, FlattenAaaa,
             AnyUpstreamOk, AnyUpstreamNone, AnyStore
    <3>5. ~ Prefetch(t)
      BY Zenon DEF Prefetch, PrefetchOk, PrefetchErr, PrefetchStore, taskVars
    <3> QED
      BY <3>1, <3>3, <3>4, <3>5
  <2>2. ASSUME NEW k \in Keys, AnyCheckHit(t, k) \/ AnyCheckMiss(t, k)
        PROVE  FALSE
    BY <2>0, <2>2, Zenon DEF AnyCheckHit, AnyCheckMiss, Ask, Arrays
  <2>3. ASSUME NEW k, CheckMiss(t, k)
        PROVE  FALSE
    BY <2>0, <2>3, ZenonT(30) DEF CheckMiss, Goto, Arrays
  <2>4. PICK k : CheckHit(t, k)
    BY <2>1, <2>2, <2>3, ZenonT(30) DEF Arrive
  <2>5. qkey'[t] = k /\ k \in DOMAIN entries
    BY <2>0, <2>4 DEF CheckHit, Ask, LookupHit, Arrays
  <2>6. ShouldPrefetch(Touched(entries[k]))
    BY <2>5, ExpiredHitIsDue, Zenon
  <2> QED
    BY <2>0, <2>4, <2>6, ZenonT(30) DEF CheckHit, Arrays
<1> QED
  BY <1>1, ForwarderTypes, PTL DEF ForwardSpec, ExpiredHitRefetches
=============================================================================
