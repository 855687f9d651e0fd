---------------------------- MODULE ServerProofs ----------------------------
(***************************************************************************)
(* Proofs about the server through starts, shutdowns, saves that fail or   *)
(* are cut short, and crashes at any point, for any cache and any file it  *)
(* may find at its first start.                                            *)
(*                                                                         *)
(* That a loaded cache is sound rests on what was saved: ServerInv adds    *)
(* that the file is absent, cut short, or holds exactly the entries saved  *)
(* last, which the cache's own invariant had made well-formed.             *)
(***************************************************************************)
EXTENDS Server, ForwarderProofs

\* A leaf is tried with SMT, then with Zenon and with Z3 alone, for up to 30
\* seconds each, unless it names another prover.
USE SMTT(30), ZenonT(30), Z3T(30)

-----------------------------------------------------------------------------
(* Types of what the tasks hold.                                           *)

CachedReply == [answer : Answer, overdue : Nat]

\* ForwardTypeOK without the cache's part.
TaskTypes ==
  /\ pc \in [Tasks -> UnderWay \cup {"idle", "done"}]
  /\ asked \in [Tasks -> {"A", "AAAA", "ANY", NoKey}]
  /\ qkey \in [Tasks -> Keys \cup {NoKey}]
  /\ raw \in [Tasks -> Answer \cup {NoAnswer}]
  /\ work \in [Tasks -> Answer \cup {NoAnswer}]
  /\ reply \in [Tasks -> CachedReply \cup {NoAnswer, Failure}]
  /\ pf \in [Tasks -> {"none", "fetch", "store", "stored", "failed"}]
  /\ pfwork \in [Tasks -> Answer \cup {NoAnswer}]

\* A reply from the cache says by how much its answer had expired.
LEMMA FromCacheType ==
  ASSUME TypeOK, NEW k \in DOMAIN entries, entries[k].response_bytes # Garbled
  PROVE  FromCache(entries[k]) \in CachedReply
<1> DEFINE e == entries[k]
<1>1. e \in CacheEntry /\ e.inserted_at <= now /\ now \in Nat
  BY DEF TypeOK
<1>2. e.response_bytes \in Answer
  BY <1>1, BytesAssumption, ZenonT(30) DEF CacheEntry
<1>3. e.inserted_at \in Nat /\ e.original_ttl \in Nat
  BY <1>1, TTLsAssumption, ZenonT(30) DEF CacheEntry
<1> HIDE DEF e
<1>4. IsExpired(e) => Elapsed(e) - e.original_ttl \in Nat
  BY <1>1, <1>3 DEF IsExpired, TtlRemaining, Elapsed
<1>5. (IF IsExpired(e) THEN Elapsed(e) - e.original_ttl ELSE 0) \in Nat
  BY <1>4, ZenonT(30)
<1> QED
  BY <1>2, <1>5, ZenonT(30) DEF FromCache, CachedReply, e

\* So does one from upstream.
LEMMA FromUpstreamType ==
  ASSUME NEW a \in Answer
  PROVE  FromUpstream(a) \in CachedReply
BY DEF FromUpstream, CachedReply

\* Arriving requests.
LEMMA ArriveTypes ==
  ASSUME TypeOK, TaskTypes, NEW t \in Tasks, Arrive(t)
  PROVE  TaskTypes'
<1>1. ASSUME NEW k \in Keys,
             CheckHit(t, k) \/ CheckMiss(t, k) \/ AnyCheckHit(t, k) \/ AnyCheckMiss(t, k)
      PROVE  TaskTypes'
  <2>1. k[2] \in {"A", "AAAA"}
    BY KeysAssumption, ZenonT(30) DEF RecordTypes
  <2>2. \E ty \in {"A", "AAAA", "ANY"} : Ask(t, ty, k)
    BY <1>1, <2>1, ZenonT(30) DEF CheckHit, CheckMiss, AnyCheckHit, AnyCheckMiss
  <2>3. UNCHANGED <<raw, work, pfwork>>
    BY <1>1, ZenonT(30) DEF CheckHit, CheckMiss, AnyCheckHit, AnyCheckMiss, prefetchVars
  <2>4. UNCHANGED pf \/ pf' = [pf EXCEPT ![t] = "fetch"]
    BY <1>1, ZenonT(30) DEF CheckHit, CheckMiss, AnyCheckHit, AnyCheckMiss, prefetchVars
  <2>5. \/ UNCHANGED reply
        \/ /\ reply' = [reply EXCEPT ![t] = FromCache(entries[k])]
           /\ k \in DOMAIN entries /\ entries[k].response_bytes # Garbled
    BY <1>1, ZenonT(30) DEF CheckHit, CheckMiss, AnyCheckHit, AnyCheckMiss, Respond, UsableForAny, LookupHit
  <2>6. reply' \in [Tasks -> CachedReply \cup {NoAnswer, Failure}]
    BY <2>5, FromCacheType, ZenonT(30) DEF TaskTypes
  <2>7. \E l \in {"done", "upstream", "any_upstream"} : pc' = [pc EXCEPT ![t] = l]
    BY <1>1, Zenon DEF CheckHit, CheckMiss, AnyCheckHit, AnyCheckMiss, Respond, Goto
  <2> QED
    BY <2>2, <2>3, <2>4, <2>6, <2>7 DEF TaskTypes, Ask, UnderWay
<1> QED
  BY <1>1, KeysAssumption, ZenonT(30) DEF Arrive

\* Requests under way.
LEMMA ProceedTypes ==
  ASSUME TasksInv, TaskTypes, NEW t \in Tasks, Proceed(t)
  PROVE  TaskTypes'
<1>0. Holds(t)
  BY DEF TasksInv
<1>1. /\ UNCHANGED <<asked, pf, pfwork>>
      /\ \E l \in UnderWay \cup {"done"} : pc' = [pc EXCEPT ![t] = l]
  BY ZenonT(30) DEF Proceed, UpstreamOk, UpstreamErr, ChainedAReply, Store, FlattenA, FlattenAaaa,
     AnyUpstreamOk, AnyUpstreamNone, AnyStore, Postprocess, Respond, Goto, prefetchVars, UnderWay
<1>2. qkey' \in [Tasks -> Keys \cup {NoKey}]
  <2>1. CASE AnyUpstreamNone(t)
    <3>1. qkey[t] \in Keys
      BY <1>0, <2>1 DEF Holds, AnyUpstreamNone
    <3>2. UNCHANGED qkey \/ qkey' = [qkey EXCEPT ![t] = [qkey[t] EXCEPT ![2] = "AAAA"]]
      BY <2>1 DEF AnyUpstreamNone
    <3>3. [qkey[t] EXCEPT ![2] = "AAAA"] \in Keys
      BY <3>1, ToAaaa, ZenonT(30)
    <3> QED
      BY <3>2, <3>3, ZenonT(30) DEF TaskTypes
  <2>2. CASE UNCHANGED qkey
    BY <2>2 DEF TaskTypes
  <2> QED
    BY <2>1, <2>2, ZenonT(30) DEF Proceed, UpstreamOk, UpstreamErr, ChainedAReply, Store, FlattenA,
       FlattenAaaa, AnyUpstreamOk, AnyStore
<1>k. qkey[t] \in Keys
  BY <1>0, ZenonT(30) DEF Holds, Proceed, UpstreamOk, UpstreamErr, ChainedAReply, Store, FlattenA,
       FlattenAaaa, AnyUpstreamOk, AnyUpstreamNone, AnyStore
<1>3. raw' \in [Tasks -> Answer \cup {NoAnswer}]
  <2>1. \/ UNCHANGED raw
        \/ \E a \in UpstreamAnswers(qkey[t]) : raw' = [raw EXCEPT ![t] = a]
    BY Zenon DEF Proceed, UpstreamOk, UpstreamErr, ChainedAReply, Store, FlattenA,
       FlattenAaaa, AnyUpstreamOk, AnyUpstreamNone, AnyStore
  <2> QED
    BY <1>k, <2>1, ReceivedFacts DEF TaskTypes
<1>4. work' \in [Tasks -> Answer \cup {NoAnswer}]
  <2>1. ASSUME NEW a \in Answer, Postprocess(t, a)
        PROVE  work' \in [Tasks -> Answer \cup {NoAnswer}]
    <3>1. work' = [work EXCEPT ![t] = WithDnameCnames(a)] /\ WithDnameCnames(a) \in Answer
      BY <2>1, DnameFacts, ZenonT(30) DEF Postprocess
    <3> QED
      BY <3>1 DEF TaskTypes
  <2>2. CASE UpstreamOk(t)
    <3>1. PICK a \in UpstreamAnswers(qkey[t]) : UNCHANGED work \/ Postprocess(t, a)
      BY <2>2, ZenonT(30) DEF UpstreamOk
    <3> QED
      BY <1>k, <2>1, <3>1, ReceivedFacts, ZenonT(30) DEF TaskTypes
  <2>3. CASE ChainedAReply(t)
    <3>1. PICK found \in ChainedA :
            Postprocess(t, IF found = NoRecords THEN raw[t] ELSE WithDns64(raw[t], found))
      BY <2>3, ZenonT(30) DEF ChainedAReply
    <3>2. raw[t] \in Answer
      BY <1>0, <1>k, <2>3, ReceivedFacts, ZenonT(30) DEF Holds, ChainedAReply
    <3>3. found # NoRecords => WithDns64(raw[t], found) \in Answer
      BY <3>2, Dns64Facts, ChainedAAssumption, ZenonT(30)
    <3> QED
      BY <2>1, <3>1, <3>2, <3>3, ZenonT(30)
  <2>4. CASE FlattenA(t) \/ FlattenAaaa(t)
    <3>1. work[t] \in Answer
      BY <1>0, <2>4, ZenonT(30) DEF Holds, Direct, FlattenA, FlattenAaaa
    <3>2. PICK flat \in BOOLEAN : work' = [work EXCEPT ![t] = [work[t] EXCEPT !.flat = flat]]
      BY <2>4, <3>1, ZenonT(30) DEF FlattenA, FlattenAaaa, Answer
    <3>3. [work[t] EXCEPT !.flat = flat] \in Answer
      BY <3>1 DEF Answer
    <3> QED
      BY <3>2, <3>3, ZenonT(30) DEF TaskTypes
  <2>5. CASE AnyUpstreamOk(t)
    <3>1. PICK a \in UpstreamAnswers(qkey[t]) : work' = [work EXCEPT ![t] = a]
      BY <2>5, ZenonT(30) DEF AnyUpstreamOk
    <3> QED
      BY <1>k, <3>1, ReceivedFacts, ZenonT(30) DEF TaskTypes
  <2>6. CASE UNCHANGED work
    BY <2>6 DEF TaskTypes
  <2> QED
    BY <2>2, <2>3, <2>4, <2>5, <2>6, ZenonT(30) DEF Proceed, UpstreamErr, Store, AnyUpstreamNone, AnyStore
<1>5. reply' \in [Tasks -> CachedReply \cup {NoAnswer, Failure}]
  <2>1. \/ UNCHANGED reply
        \/ reply' = [reply EXCEPT ![t] = Failure]
        \/ \E a \in Answer : reply' = [reply EXCEPT ![t] = FromUpstream(a)]
    <3>1. CASE Store(t) \/ AnyStore(t)
      <4>1. work[t] \in Answer /\ (pc[t] = "store" => raw[t] \in Answer)
        BY <1>0, <3>1, ZenonT(30) DEF Holds, Direct, Store, AnyStore
      <4>2. \/ UNCHANGED reply
            \/ pc[t] = "store" /\ reply' = [reply EXCEPT ![t] = LookupResult(t, work[t])]
            \/ reply' = [reply EXCEPT ![t] = FromUpstream(work[t])]
        BY <3>1 DEF Store, AnyStore, Respond
      <4> QED
        BY <4>1, <4>2 DEF LookupResult
    <3>2. CASE FlattenAaaa(t)
      <4>1. work[t] \in Answer /\ raw[t] \in Answer
        BY <1>0, <3>2 DEF Holds, Direct, FlattenAaaa
      <4>2. PICK found \in BOOLEAN :
              reply' = [reply EXCEPT ![t] = LookupResult(t, [work[t] EXCEPT !.flat = @ \/ found])]
        BY <3>2, ZenonT(30) DEF FlattenAaaa, Respond
      <4> DEFINE r == [work[t] EXCEPT !.flat = @ \/ found]
      <4>3. r \in Answer
        BY <4>1 DEF Answer
      <4>4. reply' = [reply EXCEPT ![t] = LookupResult(t, r)]
        BY <4>2
      <4> HIDE DEF r
      <4> QED
        BY <4>1, <4>3, <4>4, ZenonT(30) DEF LookupResult
    <3>3. CASE \/ UpstreamOk(t) \/ UpstreamErr(t) \/ ChainedAReply(t) \/ FlattenA(t)
               \/ AnyUpstreamOk(t) \/ AnyUpstreamNone(t)
      BY <3>3, ZenonT(30) DEF UpstreamOk, UpstreamErr, ChainedAReply, FlattenA, AnyUpstreamOk,
                AnyUpstreamNone, Postprocess, Respond
    <3> QED
      BY <3>1, <3>2, <3>3, ZenonT(30) DEF Proceed
  <2> QED
    BY <2>1, FromUpstreamType, ZenonT(30) DEF TaskTypes
<1>6. /\ pc' \in [Tasks -> UnderWay \cup {"idle", "done"}]
      /\ asked' \in [Tasks -> {"A", "AAAA", "ANY", NoKey}]
  BY <1>1 DEF TaskTypes
<1>7. /\ pf' \in [Tasks -> {"none", "fetch", "store", "stored", "failed"}]
      /\ pfwork' \in [Tasks -> Answer \cup {NoAnswer}]
  BY <1>1 DEF TaskTypes
<1> QED
  BY <1>2, <1>3, <1>4, <1>5, <1>6, <1>7, ZenonT(30) DEF TaskTypes

\* Prefetches.
LEMMA PrefetchTypes ==
  ASSUME TasksInv, TaskTypes, NEW t \in Tasks, Prefetch(t)
  PROVE  TaskTypes'
<1>0. Holds(t)
  BY DEF TasksInv
<1>1. /\ UNCHANGED taskVars
      /\ \E l \in {"store", "stored", "failed"} : pf' = [pf EXCEPT ![t] = l]
  BY DEF Prefetch, PrefetchOk, PrefetchErr, PrefetchStore
<1>2. pfwork' \in [Tasks -> Answer \cup {NoAnswer}]
  <2>1. CASE PrefetchOk(t)
    <3>1. PICK a \in UpstreamAnswers(qkey[t]) : pfwork' = [pfwork EXCEPT ![t] = a]
      BY <2>1, ZenonT(30) DEF PrefetchOk
    <3>2. qkey[t] \in Keys
      BY <1>0, <2>1 DEF Holds, PrefetchOk
    <3> QED
      BY <3>1, <3>2, ReceivedFacts, ZenonT(30) DEF TaskTypes
  <2> QED
    BY <2>1 DEF Prefetch, PrefetchErr, PrefetchStore, TaskTypes
<1> QED
  BY <1>1, <1>2, ZenonT(30) DEF TaskTypes, taskVars

\* No step of the forwarder breaks the types.
LEMMA TaskTypesStep ==
  TasksInv /\ TypeOK /\ TaskTypes /\ [ForwardNext]_forwardVars => TaskTypes'
<1>1. TaskTypes /\ UNCHANGED <<taskVars, prefetchVars>> => TaskTypes'
  BY DEF TaskTypes, taskVars, prefetchVars
<1> QED
  BY <1>1, ArriveTypes, ProceedTypes, PrefetchTypes, ZenonT(30) DEF ForwardNext, ForwardTick, forwardVars

-----------------------------------------------------------------------------
(* Answers under the server.                                               *)

\* What a request gets on arrival answers its key, if what is cached does.
LEMMA ArriveMatches ==
  ASSUME TasksInv, TypeOK, AnswersMatchKeys, NEW t \in Tasks, Arrive(t)
  PROVE  Caches(t) /\ (reply'[t] = reply[t] \/ reply'[t].answer.key = qkey'[t])
<1>a. Arrays
  BY DEF TasksInv
<1> USE <1>a DEF Arrays
<1>1. ASSUME NEW k \in Keys, CheckHit(t, k) \/ AnyCheckHit(t, k)
      PROVE  Caches(t) /\ (reply'[t] = reply[t] \/ reply'[t].answer.key = qkey'[t])
  <2>1. LookupHit(k) /\ qkey'[t] = k
    BY <1>1, Zenon DEF CheckHit, AnyCheckHit, Ask
  <2>2. \/ UNCHANGED reply
        \/ /\ reply' = [reply EXCEPT ![t] = FromCache(entries[k])]
           /\ entries[k].response_bytes # Garbled
    BY <1>1, Zenon DEF CheckHit, AnyCheckHit, Respond, UsableForAny
  <2>3. k \in DOMAIN entries
    BY <2>1 DEF LookupHit
  <2>4. reply'[t] = reply[t] \/ reply'[t].answer.key = qkey'[t]
    <3>1. CASE UNCHANGED reply
      BY <3>1, ZenonT(30)
    <3>2. CASE /\ reply' = [reply EXCEPT ![t] = FromCache(entries[k])]
               /\ entries[k].response_bytes # Garbled
      <4>1. entries[k].response_bytes.key = k
        BY <2>3, <3>2, ZenonT(30) DEF AnswersMatchKeys
      <4>2. reply'[t].answer = entries[k].response_bytes
        BY <3>2 DEF FromCache
      <4> QED
        BY <2>1, <4>1, <4>2, ZenonT(30)
    <3> QED
      BY <2>2, <3>1, <3>2
  <2> QED
    BY <2>1, <2>4, HitCaches
<1>2. ASSUME NEW k \in Keys, CheckMiss(t, k) \/ AnyCheckMiss(t, k)
      PROVE  Caches(t) /\ reply'[t] = reply[t]
  <2>1. UNCHANGED <<entries, reply>>
    BY <1>2 DEF CheckMiss, AnyCheckMiss, LookupMiss
  <2> QED
    BY <2>1, SameEntries, ZenonT(30)
<1> QED
  BY <1>1, <1>2, KeysAssumption, ZenonT(30) DEF Arrive

\* No step of the forwarder lets an answer go to another key.
LEMMA MatchStep ==
  TasksInv /\ TypeOK /\ AnswersMatchKeys /\ [ForwardNext]_forwardVars => AnswersMatchKeys'
<1> SUFFICES ASSUME TasksInv, TypeOK, AnswersMatchKeys, [ForwardNext]_forwardVars
             PROVE  AnswersMatchKeys'
  OBVIOUS
<1>1. ASSUME NEW t \in Tasks, Arrive(t) \/ Proceed(t) \/ Prefetch(t)
      PROVE  AnswersMatchKeys'
  <2>1. Moves(t)
    BY <1>1, TaskMoves, Zenon
  <2>2. Caches(t)
    BY <1>1, ArriveMatches, ProceedAnswers, PrefetchAnswers, ZenonT(30)
  <2>3. \/ reply'[t] = reply[t] /\ Replied(t)
        \/ reply'[t] \in {NoAnswer, Failure}
        \/ reply'[t].answer.key = qkey'[t]
    <3>1. CASE Arrive(t)
      BY <3>1, ArriveMatches, ZenonT(30) DEF Replied
    <3>2. CASE Proceed(t) \/ Prefetch(t)
      <4>1. Replies(t)
        BY <3>2, ProceedAnswers, PrefetchAnswers, ZenonT(30)
      <4>2. pc[t] = "done" => reply'[t] = reply[t]
        BY <2>1, Zenon DEF Moves, Keeps
      <4> QED
        BY <4>1, <4>2 DEF Replies, Replied
    <3> QED
      BY <1>1, <3>1, <3>2, ZenonT(30)
  <2>4. Replied(t) => pc[t] = "done"
    BY Zenon DEF TasksInv, Holds
  <2>5. Replied(t) => qkey'[t] = qkey[t]
    BY <2>1, <2>4, ZenonT(30) DEF Moves, Keeps
  <2>6. \A u \in Tasks : Replied(u)' => reply'[u].answer.key = qkey'[u]
    <3> SUFFICES ASSUME NEW u \in Tasks, Replied(u)'
                 PROVE  reply'[u].answer.key = qkey'[u]
      OBVIOUS
    <3>1. CASE u = t
      BY <2>3, <2>5, <3>1, ZenonT(30) DEF Replied, AnswersMatchKeys
    <3>2. CASE u # t
      BY <2>1, <3>2 DEF Moves, Only, Replied, AnswersMatchKeys
    <3> QED
      BY <3>1, <3>2
  <2>7. \A k \in DOMAIN entries' :
          entries'[k].response_bytes = Garbled \/ entries'[k].response_bytes.key = k
    BY <2>2 DEF Caches, AnswersMatchKeys
  <2> QED
    BY <2>6, <2>7 DEF AnswersMatchKeys
<1>2. CASE UNCHANGED <<entries, taskVars, prefetchVars>>
  BY <1>2 DEF AnswersMatchKeys, Replied, taskVars, prefetchVars
<1> QED
  BY <1>1, <1>2 DEF ForwardNext, ForwardTick, Tick, forwardVars, vars, cacheVars

-----------------------------------------------------------------------------
(* The life cycle.                                                         *)

\* The file, if there is one, is cut short or holds all that was saved last.
FileWell ==
  \/ file = Absent
  \/ /\ DOMAIN file = {"content", "mtime"}
     /\ file.mtime \in Int /\ file.mtime <= now
     /\ \/ file.content = Torn
        \/ file.content = [k \in DOMAIN saved |-> SavedFields(saved[k])]

\* What was saved are well-typed entries under finitely many keys, each with an
\* answer to its key.
SavedWell ==
  /\ DOMAIN saved \subseteq Keys /\ IsFiniteSet(DOMAIN saved)
  /\ saved \in [DOMAIN saved -> CacheEntry]
  /\ \A k \in DOMAIN saved :
       saved[k].response_bytes = Garbled \/ saved[k].response_bytes.key = k

LifeWell ==
  /\ life \in {"down", "running", "stopping", "writing", "stopped"}
  /\ restarts \in 0 .. MaxRestarts

\* The inductive invariant of the server.
ServerInv ==
  /\ IInv /\ TasksInv /\ TaskTypes /\ AnswersMatchKeys
  /\ FileWell /\ SavedWell /\ LifeWell

\* The first start.
LEMMA ServerInitInv == ServerInit => ServerInv
<1> SUFFICES ASSUME ServerInit PROVE ServerInv
  OBVIOUS
<1>1. IInv
  BY InitIInv DEF ServerInit, ForwardInit
<1>2. TasksInv
  BY TasksInvInit DEF ServerInit
<1>3. TaskTypes
  BY DEF ServerInit, ForwardInit, TaskTypes
<1>4. AnswersMatchKeys
  BY DEF ServerInit, ForwardInit, Init, AnswersMatchKeys, Replied
<1>5. LifeWell
  BY RestartsAssumption DEF ServerInit, LifeWell
<1>6. FileWell /\ SavedWell
  <2>1. CASE file = Absent
    <3>1. DOMAIN saved = {} /\ saved \in [{} -> CacheEntry]
      BY <2>1 DEF ServerInit
    <3> QED
      BY <2>1, <3>1, FS_EmptySet DEF FileWell, SavedWell
  <2>2. CASE file # Absent
    <3> DEFINE c == file.content
    <3>1. /\ DOMAIN file = {"content", "mtime"}
          /\ file.mtime \in Int /\ file.mtime <= 0 /\ now = 0
          /\ IsSnapshot(c)
          /\ \A k \in DOMAIN c : c[k].response_bytes = Garbled \/ c[k].response_bytes.key = k
      BY <2>2, InitialFilesAssumption DEF ServerInit, ForwardInit, Init
    <3>2. saved = [k \in DOMAIN c |-> LoadedEntry(c[k])]
      BY <2>2 DEF ServerInit
    <3>3. ASSUME NEW k \in DOMAIN c
          PROVE  /\ LoadedEntry(c[k]) \in CacheEntry
                 /\ LoadedEntry(c[k]).response_bytes = c[k].response_bytes
                 /\ SavedFields(LoadedEntry(c[k])) = c[k]
      <4>1. c[k] \in SnapshotLine
        BY <3>1, <3>3 DEF IsSnapshot
      <4> HIDE DEF c
      <4> QED
        BY <3>1, <4>1, ZenonT(30) DEF SnapshotLine, LoadedEntry, SavedFields, CacheEntry
    <3>4. c = [k \in DOMAIN saved |-> SavedFields(saved[k])]
      <4>1. c = [k \in DOMAIN c |-> c[k]]
        BY <3>1 DEF IsSnapshot
      <4>2. DOMAIN saved = DOMAIN c /\ \A k \in DOMAIN c : SavedFields(saved[k]) = c[k]
        BY <3>2, <3>3, ZenonT(30)
      <4> HIDE DEF c
      <4> QED
        BY <4>1, <4>2
    <3>5. SavedWell
      BY <3>1, <3>2, <3>3 DEF SavedWell, IsSnapshot
    <3> QED
      BY <3>1, <3>4, <3>5, ZenonT(30) DEF FileWell
  <2> QED
    BY <2>1, <2>2
<1> QED
  BY <1>1, <1>2, <1>3, <1>4, <1>5, <1>6, ZenonT(30) DEF ServerInv

\* An order that lists as many different keys as there are lists them all.
LEMMA OrderIsComplete ==
  ASSUME NEW D, IsFiniteSet(D), NEW s \in [1 .. Cardinality(D) -> D], Distinct(s)
  PROVE  s \in Seq(D) /\ Len(s) = Cardinality(D) /\ Elements(s) = D
<1> DEFINE n == Cardinality(D)
<1>1. n \in Nat
  BY FS_CardinalityType
<1> HIDE DEF n
<1>2. s \in [1 .. n -> D]
  BY DEF n
<1>3. s \in Seq(D) /\ Len(s) = n
  BY <1>1, <1>2
<1>4. s \in Injection(1 .. n, D)
  BY <1>2, <1>3, Zenon DEF Injection, IsInjective, Distinct
<1>5. IsFiniteSet(1 .. n) /\ Cardinality(1 .. n) = n
  BY <1>1, FS_Interval
<1>6. s \in Surjection(1 .. n, D)
  BY <1>4, <1>5, FS_Injection DEF n
<1>7. Elements(s) = D
  BY <1>2, <1>3, <1>6, ZenonT(30) DEF Elements, Surjection
<1> QED
  BY <1>3, <1>7 DEF n

\* The cache a start loads satisfies the cache's invariant, and each of its answers
\* is to its key.
LEMMA StartCache ==
  ASSUME IInv, FileWell, SavedWell, Start
  PROVE  IInv' /\ \A k \in DOMAIN entries' :
           entries'[k].response_bytes = Garbled \/ entries'[k].response_bytes.key = k
<1>0. now \in Nat /\ now' = now /\ hits' = 0 /\ misses' = 0 /\ hits_total' = 0 /\ misses_total' = 0
  BY DEF IInv, TypeOK, Start
<1>1. CASE ~ Loadable
  <2>1. config' = Config /\ entries' = << >> /\ access_order' = << >>
    BY <1>1 DEF Start, FreshCache
  <2>2. DOMAIN entries' = {} /\ access_order' \in Seq(Keys) /\ Len(access_order') = 0
    BY <2>1
  <2>3. TypeOK'
    BY <1>0, <2>1, <2>2, ConfigAssumption DEF TypeOK
  <2>4. OrderMatchesEntries' /\ InsertionSorted'
    BY <2>2 DEF OrderMatchesEntries, Distinct, Elements, InsertionSorted
  <2>5. WithinCapacity'
    BY <2>1, <2>2, FS_EmptySet, ConfigAssumption DEF WithinCapacity, CacheConfig
  <2> QED
    BY <2>2, <2>3, <2>4, <2>5 DEF IInv
<1>2. CASE Loadable
  <2> DEFINE D == DOMAIN saved
             n == Cardinality(D)
  <2>1. file.content = [k \in D |-> SavedFields(saved[k])]
    BY <1>2 DEF FileWell, Loadable
  <2>2. /\ config' = [size |-> IF n > MinLoadSize THEN n ELSE MinLoadSize,
                      serve_stale |-> LoadedStale, prefetch |-> 0]
        /\ entries' = [k \in D |-> LoadedEntry(file.content[k])]
        /\ access_order' \in {s \in [1 .. n -> D] : Distinct(s)}
    <3>1. LoadCache
      BY <1>2 DEF Start
    <3>2. DOMAIN file.content = D
      BY <2>1
    <3> HIDE DEF D
    <3> QED
      BY <3>1, <3>2 DEF LoadCache
  <2>3. D \subseteq Keys /\ IsFiniteSet(D) /\ n \in Nat
    BY FS_CardinalityType, ZenonT(30) DEF SavedWell
  <2>4. ASSUME NEW k \in D
        PROVE  /\ entries'[k] \in CacheEntry
               /\ entries'[k].inserted_at = now /\ entries'[k].last_access = now
               /\ entries'[k].response_bytes = saved[k].response_bytes
    <3>1. saved[k] \in CacheEntry
      BY <2>4, Zenon DEF SavedWell
    <3>2. entries'[k] = LoadedEntry(SavedFields(saved[k]))
      BY <2>1, <2>2, <2>4, ZenonT(30)
    <3> QED
      BY <1>0, <3>1, <3>2 DEF LoadedEntry, SavedFields, CacheEntry
  <2> HIDE DEF n
  <2>5. /\ access_order' \in Seq(D) /\ Elements(access_order') = D
        /\ Distinct(access_order')
    BY <2>2, <2>3, OrderIsComplete, ZenonT(30) DEF n
  <2>6. DOMAIN entries' = D /\ entries' \in [D -> CacheEntry]
    BY <2>2, <2>4, Zenon
  <2> HIDE DEF D
  <2>7. config' \in CacheConfig /\ config'.size > 0 /\ n <= config'.size
    BY <2>2, <2>3, LoadAssumption DEF CacheConfig
  <2>8. access_order' \in Seq(Keys)
    BY <2>3, <2>5
  <2>9. TypeOK'
    BY <1>0, <2>3, <2>4, <2>6, <2>7, <2>8 DEF TypeOK
  <2>10. OrderMatchesEntries' /\ WithinCapacity'
    BY <2>5, <2>6, <2>7, ZenonT(30) DEF OrderMatchesEntries, WithinCapacity, n
  <2>11. InsertionSorted'
    <3> SUFFICES ASSUME NEW i \in 1 .. Len(access_order'), NEW j \in 1 .. Len(access_order')
                 PROVE  entries'[access_order'[i]].inserted_at
                          <= entries'[access_order'[j]].inserted_at
      BY DEF InsertionSorted
    <3>1. access_order'[i] \in D /\ access_order'[j] \in D
      BY <2>5
    <3> QED
      BY <1>0, <2>4, <3>1
  <2>12. \A k \in D : entries'[k].response_bytes = Garbled \/ entries'[k].response_bytes.key = k
    BY <2>4, Zenon DEF SavedWell, D
  <2> QED
    BY <2>6, <2>9, <2>10, <2>11, <2>12, ZenonT(30) DEF IInv
<1> QED
  BY <1>1, <1>2

\* Requests that are dropped and prefetches that are cut off hold nothing more.
LEMMA DropInv ==
  ASSUME TasksInv, TaskTypes, NEW T \in SUBSET Tasks, DropRequests(T),
         \/ UNCHANGED pf
         \/ pf' = [t \in Tasks |-> IF pf[t] \in {"fetch", "store"} THEN "failed" ELSE pf[t]],
         UNCHANGED pfwork
  PROVE  TasksInv' /\ TaskTypes' /\ UNCHANGED <<qkey, reply>>
<1>0. UNCHANGED <<asked, qkey, raw, work, reply, pfwork>>
  BY DEF DropRequests
<1>1. \A t \in Tasks : pc'[t] = pc[t] \/ (pc'[t] = "done" /\ pc[t] \in UnderWay)
  BY DEF DropRequests
<1>2. \A t \in Tasks : pf'[t] = pf[t] \/ (pf'[t] = "failed" /\ pf[t] \in {"fetch", "store"})
  OBVIOUS
<1>3. pc' \in [Tasks -> UnderWay \cup {"idle", "done"}]
  BY DEF DropRequests, TaskTypes
<1>4. pf' \in [Tasks -> {"none", "fetch", "store", "stored", "failed"}]
  BY DEF TaskTypes
<1>5. TaskTypes'
  BY <1>0, <1>3, <1>4, ZenonT(30) DEF TaskTypes
<1>6. Arrays'
  BY <1>5, ZenonT(30) DEF TaskTypes, Arrays
<1>7. ASSUME NEW t \in Tasks
      PROVE  Holds(t)'
  <2>1. Holds(t)
    BY DEF TasksInv
  <2>2. pc'[t] = pc[t] \/ (pc'[t] = "done" /\ pc[t] \in UnderWay)
    BY <1>1
  <2>3. pf'[t] = pf[t] \/ (pf'[t] = "failed" /\ pf[t] \in {"fetch", "store"})
    BY <1>2
  <2> QED
    BY <1>0, <2>1, <2>2, <2>3, ZenonT(30) DEF Holds, UnderWay, AnyPcs, Direct, Replied
<1> QED
  BY <1>0, <1>5, <1>6, <1>7, ZenonT(30) DEF TasksInv

\* A step of the server is one of the forwarder, or starts or stops the process.
LEMMA ServerSteps ==
  ASSUME [ServerNext]_serverVars
  PROVE  [ForwardNext]_forwardVars \/ Start \/ Shutdown \/ Exit
<1>1. Serve \/ ServePrefetch \/ TimePasses => ForwardNext
  BY Zenon DEF Serve, ServePrefetch, TimePasses, ForwardNext
<1>2. SaveBegin \/ SaveEnd \/ SaveFail => UNCHANGED forwardVars
  BY Zenon DEF SaveBegin, SaveEnd, SaveFail
<1> QED
  BY <1>1, <1>2 DEF ServerNext, serverVars

\* No step breaks what is said of cache and requests.
LEMMA ServingInv ==
  ASSUME ServerInv, [ServerNext]_serverVars
  PROVE  IInv' /\ TasksInv' /\ TaskTypes' /\ AnswersMatchKeys' /\ now <= now'
<1>0. IInv /\ TasksInv /\ TaskTypes /\ AnswersMatchKeys /\ TypeOK /\ now \in Nat
  BY DEF ServerInv, IInv, TypeOK
<1>1. CASE [ForwardNext]_forwardVars
  <2>1. [Next]_vars
    BY <1>0, <1>1, CacheStep, ZenonT(30)
  <2>2. IInv'
    BY <1>0, <2>1, NextIInv, ZenonT(30)
  <2>3. TasksInv' /\ TaskTypes' /\ AnswersMatchKeys'
    BY <1>0, <1>1, TasksInvStep, TaskTypesStep, MatchStep, ZenonT(30)
  <2>4. now' = now \/ now' = now + 1
    BY <2>1, Zenon DEF Next, LookupHit, LookupMiss, Insert, ReapExpired, Clear, Tick, vars
  <2> QED
    BY <1>0, <2>2, <2>3, <2>4
<1>2. CASE Start
  <2>1. UNCHANGED <<now, taskVars, prefetchVars>>
    BY <1>2 DEF Start
  <2>2. UNCHANGED <<pc, asked, qkey, raw, work, reply, pf, pfwork>>
    BY <2>1 DEF taskVars, prefetchVars
  <2>3. IInv' /\ \A k \in DOMAIN entries' :
          entries'[k].response_bytes = Garbled \/ entries'[k].response_bytes.key = k
    BY <1>2, StartCache, ZenonT(30) DEF ServerInv
  <2>4. TaskTypes' /\ Arrays'
    BY <1>0, <2>2 DEF TaskTypes, Arrays
  <2>5. ASSUME NEW t \in Tasks PROVE Holds(t)'
    BY <1>0, <2>2, Zenon DEF TasksInv, Holds, Replied
  <2>6. AnswersMatchKeys'
    BY <1>0, <2>2, <2>3, ZenonT(30) DEF AnswersMatchKeys, Replied
  <2> QED
    BY <1>0, <2>1, <2>3, <2>4, <2>5, <2>6 DEF TasksInv
<1>3. CASE Shutdown \/ Exit
  <2>1. PICK T \in SUBSET Tasks : DropRequests(T)
    BY <1>3, ZenonT(30) DEF Shutdown, Exit
  <2>2. /\ UNCHANGED <<vars, pfwork>>
        /\ \/ UNCHANGED pf
           \/ pf' = [t \in Tasks |-> IF pf[t] \in {"fetch", "store"} THEN "failed" ELSE pf[t]]
    BY <1>3 DEF Shutdown, Exit, prefetchVars
  <2>3. TasksInv' /\ TaskTypes' /\ UNCHANGED <<qkey, reply>>
    BY <1>0, <2>1, <2>2, DropInv, ZenonT(30)
  <2>4. IInv'
    BY <1>0, <2>2, NextIInv, ZenonT(30)
  <2>5. UNCHANGED <<entries, now>>
    BY <2>2 DEF vars, cacheVars
  <2>6. AnswersMatchKeys'
    BY <1>0, <2>3, <2>5, ZenonT(30) DEF AnswersMatchKeys, Replied
  <2> QED
    BY <1>0, <2>3, <2>4, <2>5, <2>6
<1> QED
  BY <1>1, <1>2, <1>3, ServerSteps, ZenonT(30)

\* No step breaks what is said of the file.
LEMMA FileInv ==
  ASSUME ServerInv, [ServerNext]_serverVars, now <= now', now' \in Nat
  PROVE  FileWell' /\ SavedWell' /\ LifeWell'
<1>0. now \in Nat /\ IInv /\ AnswersMatchKeys /\ FileWell /\ SavedWell /\ LifeWell
  BY DEF ServerInv, IInv, TypeOK
<1>1. LifeWell'
  <2>1. \/ life' \in {"running", "stopping", "writing", "stopped", "down"}
        \/ life' = life
    BY ZenonT(30) DEF ServerNext, Start, Shutdown, SaveBegin, SaveEnd, SaveFail, Exit, Serve,
           ServePrefetch, TimePasses, serverVars
  <2>2. restarts' = restarts \/ (restarts < MaxRestarts /\ restarts' = restarts + 1)
    BY Zenon DEF ServerNext, Start, Shutdown, SaveBegin, SaveEnd, SaveFail, Exit, Serve,
           ServePrefetch, TimePasses, serverVars
  <2>3. restarts' \in 0 .. MaxRestarts
    BY <1>0, <2>2, RestartsAssumption DEF LifeWell
  <2> QED
    BY <1>0, <2>1, <2>3 DEF LifeWell
<1>2. CASE SaveBegin
  <2>1. saved' = entries /\ file' = [content |-> Torn, mtime |-> now]
    BY <1>2 DEF SaveBegin
  <2>2. FileWell'
    <3>1. DOMAIN file' = {"content", "mtime"} /\ file'.content = Torn
      BY <2>1
    <3>2. file'.mtime \in Int /\ file'.mtime <= now'
      BY <1>0, <2>1
    <3> QED
      BY <3>1, <3>2, ZenonT(30) DEF FileWell
  <2>3. IsFiniteSet(DOMAIN entries)
    BY <1>0, ElementsFinite, ZenonT(30) DEF IInv, TypeOK, OrderMatchesEntries
  <2>4. SavedWell'
    BY <1>0, <2>1, <2>3, ZenonT(30) DEF SavedWell, IInv, TypeOK, AnswersMatchKeys
  <2> QED
    BY <1>1, <2>2, <2>4
<1>3. CASE SaveEnd
  <2>1. /\ file' = [content |-> [k \in DOMAIN saved |-> SavedFields(saved[k])], mtime |-> now]
        /\ saved' = saved
    BY <1>3 DEF SaveEnd
  <2> DEFINE c == [k \in DOMAIN saved |-> SavedFields(saved[k])]
  <2>2. file' = [content |-> c, mtime |-> now]
    BY <2>1
  <2>3. c = [k \in DOMAIN saved' |-> SavedFields(saved'[k])]
    BY <2>1
  <2> HIDE DEF c
  <2>4. DOMAIN file' = {"content", "mtime"} /\ file'.content = c /\ file'.mtime = now
    BY <2>2
  <2>5. FileWell'
    BY <1>0, <2>3, <2>4 DEF FileWell
  <2>6. SavedWell'
    BY <1>0, <2>1 DEF SavedWell
  <2> QED
    BY <1>1, <2>5, <2>6
<1>4. CASE UNCHANGED <<file, saved>>
  <2>1. SavedWell'
    BY <1>0, <1>4, ZenonT(30) DEF SavedWell
  <2>2. FileWell'
    BY <1>0, <1>4 DEF FileWell
  <2> QED
    BY <1>1, <2>1, <2>2
<1> QED
  BY <1>2, <1>3, <1>4, ZenonT(30)
  DEF ServerNext, Start, Shutdown, SaveFail, Exit, Serve, ServePrefetch, TimePasses, serverVars

\* What holds of cache, requests and file in every state of the server.
THEOREM ServerInvariant == ServerSpec => []ServerInv
<1>1. ServerInv /\ [ServerNext]_serverVars => ServerInv'
  <2> SUFFICES ASSUME ServerInv, [ServerNext]_serverVars PROVE ServerInv'
    OBVIOUS
  <2>1. IInv' /\ TasksInv' /\ TaskTypes' /\ AnswersMatchKeys' /\ now <= now'
    BY ServingInv
  <2>2. now' \in Nat
    BY <2>1 DEF IInv, TypeOK
  <2>3. FileWell' /\ SavedWell' /\ LifeWell'
    BY <2>1, <2>2, FileInv
  <2> QED
    BY <2>1, <2>3 DEF ServerInv
<1> QED
  BY <1>1, ServerInitInv, PTL DEF ServerSpec

\* A cache that was loaded from the file is as sound as a new one.
THEOREM ServerCacheSound == ServerSpec => []LoadedCacheSound
<1>1. ServerInv => LoadedCacheSound
  BY ZenonT(30) DEF ServerInv, IInv, LoadedCacheSound
<1> QED
  BY <1>1, ServerInvariant, PTL

\* Cache, requests and file are well typed through starts, stops and crashes.
THEOREM ServerTypeCorrect == ServerSpec => []ServerTypeOK
<1>1. ServerInv => ServerTypeOK
  <2> SUFFICES ASSUME ServerInv PROVE ServerTypeOK
    OBVIOUS
  <2>1. ForwardTypeOK
    BY DEF ServerInv, IInv, TaskTypes, CachedReply, ForwardTypeOK
  <2> QED
    BY <2>1 DEF ServerInv, FileWell, LifeWell, ServerTypeOK
<1> QED
  BY <1>1, ServerInvariant, PTL

\* An answer that was cached under a key, saved and loaded answers that key.
THEOREM ServerAnswersMatch == ServerSpec => []AnswersMatchKeys
<1>1. ServerInv => AnswersMatchKeys
  BY DEF ServerInv
<1> QED
  BY <1>1, ServerInvariant, PTL

\* A start loads all that was saved last, or nothing.
THEOREM ServerLoadsAll == ServerSpec => LoadsAllOrNothing
<1> DEFINE AllOrNothing ==
      (life = "down" /\ life' = "running") =>
        \/ DOMAIN entries' = {}
        \/ /\ DOMAIN entries' = DOMAIN saved
           /\ \A k \in DOMAIN saved : SavedFields(entries'[k]) = SavedFields(saved[k])
<1>1. ServerInv /\ [ServerNext]_serverVars => [AllOrNothing]_serverVars
  <2> SUFFICES ASSUME ServerInv, ServerNext, life = "down", life' = "running"
               PROVE  \/ DOMAIN entries' = {}
                      \/ /\ DOMAIN entries' = DOMAIN saved
                         /\ \A k \in DOMAIN saved :
                              SavedFields(entries'[k]) = SavedFields(saved[k])
    OBVIOUS
  <2>1. Start
    BY Zenon DEF ServerNext, Shutdown, SaveBegin, SaveEnd, SaveFail, Exit, Serve, ServePrefetch, TimePasses
  <2>2. CASE ~ Loadable
    BY <2>1, <2>2 DEF Start, FreshCache
  <2>3. CASE Loadable
    <3>1. file.content = [k \in DOMAIN saved |-> SavedFields(saved[k])]
      BY <2>3, ZenonT(30) DEF ServerInv, FileWell, Loadable
    <3>2. entries' = [k \in DOMAIN file.content |-> LoadedEntry(file.content[k])]
      BY <2>1, <2>3 DEF Start, LoadCache
    <3>3. entries' = [k \in DOMAIN saved |-> LoadedEntry(SavedFields(saved[k]))]
      BY <3>1, <3>2, ZenonT(30)
    <3>4. \A k \in DOMAIN saved : SavedFields(LoadedEntry(SavedFields(saved[k]))) = SavedFields(saved[k])
      BY DEF SavedFields, LoadedEntry
    <3> QED
      BY <3>3, <3>4, ZenonT(30)
  <2> QED
    BY <2>2, <2>3
<1> QED
  BY <1>1, ServerInvariant, PTL DEF ServerSpec, LoadsAllOrNothing
=============================================================================
