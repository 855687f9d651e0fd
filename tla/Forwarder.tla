----------------------------- MODULE Forwarder ------------------------------
(***************************************************************************)
(* CacheForwardAuthority of src/core/resolver/forward.rs over the shared   *)
(* cache: client requests, each a task of its own, the prefetch tasks they *)
(* spawn, and the upstream resolver, whose answers arrive in any order.    *)
(*                                                                         *)
(* A task holds the cache's write lock only between two awaits, so a       *)
(* critical section is one action, and anything may happen between the     *)
(* cache check, the upstream answer and the store.                         *)
(*                                                                         *)
(* An answer section is abstracted to what the code tells apart: whether   *)
(* it holds records of the type asked for, how many CNAMEs, an ANAME and   *)
(* where it points, DNS64 records, flattened records, and its lowest TTL.  *)
(***************************************************************************)
EXTENDS Cache

CONSTANTS
  Names,            \* query names
  Tasks,            \* client requests, each made at most once
  QueryTypes,       \* the types clients ask for, among A, AAAA and ANY
  Upstream,         \* Upstream[type]: the answers the resolver may return
  ChainedA,         \* TTLs of what the chained A query of DNS64 finds, or NoRecords
  NoRecords,        \* that query fails, finds none, or the prefix is not /64 or /96
  EmptyTTL,         \* TTL given to an answer without records (300 s in the code)
  Dns64,            \* a DNS64 prefix is configured
  AlwaysSynthesize, \* [dns64].always_synthesize
  CnameCloaking,    \* the CNAME chain limit is enforced
  ChainLimit,       \* longest CNAME chain accepted
  Garbled,          \* cached bytes that do not decode
  NoKey, NoAnswer, Failure

RecordTypes == {"A", "AAAA"}

Answer == [key : Keys, direct : BOOLEAN, cnames : Nat,
           aname : {"none", "self", "other"}, synth : BOOLEAN,
           flat : BOOLEAN, ttl : TTLs]

ASSUME KeysAssumption == Keys = Names \X RecordTypes
ASSUME EmptyTTLAssumption == EmptyTTL \in TTLs
ASSUME ChainLimitAssumption == ChainLimit \in Nat
ASSUME BytesAssumption == Bytes \subseteq Answer \cup {Garbled}
ASSUME ChainedAAssumption == ChainedA \subseteq TTLs \cup {NoRecords}
ASSUME UpstreamAssumption ==
  \A ty \in RecordTypes : \A u \in Upstream[ty] :
    /\ u.direct \in BOOLEAN /\ u.cnames \in Nat /\ u.ttl \in TTLs
    /\ u.aname \in {"none", "self", "other"}

VARIABLES
  pc,      \* where each request is in lookup or lookup_any
  asked,   \* the query type of the client
  qkey,    \* the cache key it works on
  raw,     \* `lookup`: the upstream answer as received
  work,    \* `records`: the answer being extended
  reply,   \* what the client got, and how old it was if cached
  pf,      \* the prefetch task the request spawned
  pfwork   \* the answer that prefetch task holds

taskVars == <<pc, asked, qkey, raw, work, reply>>
prefetchVars == <<pf, pfwork>>
forwardVars == <<vars, taskVars, prefetchVars>>

-----------------------------------------------------------------------------
(* Answers.                                                                *)

IsEmpty(a) ==
  ~a.direct /\ a.cnames = 0 /\ a.aname = "none" /\ ~a.synth /\ ~a.flat

\* The TTL a store gives: the lowest in the answer, a default if it is empty.
StoreTtl(a) == IF IsEmpty(a) THEN EmptyTTL ELSE a.ttl

\* The answer the resolver returns for k, drawn from Upstream.
UpstreamAnswers(k) ==
  {[key |-> k, direct |-> u.direct, cnames |-> u.cnames, aname |-> u.aname,
    synth |-> FALSE, flat |-> FALSE, ttl |-> u.ttl] : u \in Upstream[k[2]]}

\* DNS64 asks for A records when there is no AAAA, or always if so configured.
WantsDns64(a) ==
  /\ Dns64
  /\ a.key[2] = "AAAA"
  /\ ~a.direct \/ AlwaysSynthesize

\* Mutant: the synthesized records are computed and discarded.
WithDns64_Discarded(a, ttl) == a

\* The synthesized AAAA records join the answer with the A records' lowest TTL.
WithDns64(a, ttl) ==
  [a EXCEPT !.synth = TRUE,
            !.ttl = IF IsEmpty(a) \/ ttl < a.ttl THEN ttl ELSE a.ttl]

\* synthesize_dname_cnames: a CNAME for an ANAME that points elsewhere.
WithDnameCnames(a) ==
  IF a.aname = "other" THEN [a EXCEPT !.cnames = @ + 1] ELSE a

\* The cache can hold whatever may be stored: an answer as received, and with the
\* records that DNAME synthesis and DNS64 add.
ASSUME StorableAssumption ==
  \A k \in Keys : \A a \in UpstreamAnswers(k) :
    /\ {a, WithDnameCnames(a)} \subseteq Bytes
    /\ WantsDns64(a) =>
         \A ttl \in ChainedA \ {NoRecords} : WithDnameCnames(WithDns64(a, ttl)) \in Bytes

\* Filter::cname_chain_truncated, when the limit is enforced.
ChainTruncated(a) == CnameCloaking /\ a.cnames > ChainLimit

-----------------------------------------------------------------------------
(* Steps of a request.                                                     *)

\* The request of t, of type ty, works on key k.
Ask(t, ty, k) ==
  /\ asked' = [asked EXCEPT ![t] = ty]
  /\ qkey' = [qkey EXCEPT ![t] = k]

Goto(t, l) == pc' = [pc EXCEPT ![t] = l]

\* The request of t ends with r.
Respond(t, r) == Goto(t, "done") /\ reply' = [reply EXCEPT ![t] = r]

\* A reply, and how long ago its answer had expired in the cache.
FromUpstream(a) == [answer |-> a, overdue |-> 0]

FromCache(e) ==
  [answer |-> e.response_bytes,
   overdue |-> IF IsExpired(e) THEN Elapsed(e) - e.original_ttl ELSE 0]

\* lookup, step 1, hit: a prefetch is spawned if the touched entry calls for it;
\* bytes that do not decode send the request upstream all the same.
CheckHit(t, k) ==
  /\ pc[t] = "idle"
  /\ LookupHit(k)
  /\ Ask(t, k[2], k)
  /\ pf' = IF ShouldPrefetch(Touched(entries[k]))
             THEN [pf EXCEPT ![t] = "fetch"] ELSE pf
  /\ \/ /\ entries[k].response_bytes # Garbled
        /\ Respond(t, FromCache(entries[k]))
     \/ /\ entries[k].response_bytes = Garbled
        /\ Goto(t, "upstream")
        /\ UNCHANGED reply
  /\ UNCHANGED <<raw, work, pfwork>>

\* lookup, step 1, miss.
CheckMiss(t, k) ==
  /\ pc[t] = "idle"
  /\ LookupMiss(k)
  /\ Ask(t, k[2], k)
  /\ Goto(t, "upstream")
  /\ UNCHANGED <<raw, work, reply, prefetchVars>>

\* Mutant: the chain is measured before the synthetic CNAME joins it.
Postprocess_LimitFirst(t, a) ==
  LET p == WithDnameCnames(a)
  IN /\ work' = [work EXCEPT ![t] = p]
     /\ \/ /\ ChainTruncated(a)
           /\ Respond(t, Failure)
        \/ /\ ~ChainTruncated(a)
           /\ Goto(t, "store")
           /\ UNCHANGED reply

\* What follows the last upstream answer without another await: DNAME synthesis
\* and the CNAME chain limit.
Postprocess(t, a) ==
  LET p == WithDnameCnames(a)
  IN /\ work' = [work EXCEPT ![t] = p]
     /\ \/ /\ ChainTruncated(p)
           /\ Respond(t, Failure)
        \/ /\ ~ChainTruncated(p)
           /\ Goto(t, "store")
           /\ UNCHANGED reply

\* lookup, step 2: the upstream answer arrives.
UpstreamOk(t) ==
  /\ pc[t] = "upstream"
  /\ \E a \in UpstreamAnswers(qkey[t]) :
       /\ raw' = [raw EXCEPT ![t] = a]
       /\ \/ /\ WantsDns64(a)
             /\ Goto(t, "dns64")
             /\ UNCHANGED <<work, reply>>
          \/ /\ ~WantsDns64(a)
             /\ Postprocess(t, a)
  /\ UNCHANGED <<vars, asked, qkey, prefetchVars>>

\* lookup, step 2: the resolver fails or times out; nothing is cached.
UpstreamErr(t) ==
  /\ pc[t] = "upstream"
  /\ Respond(t, Failure)
  /\ UNCHANGED <<vars, asked, qkey, raw, work, prefetchVars>>

\* The chained A query of DNS64 ends.
ChainedAReply(t) ==
  /\ pc[t] = "dns64"
  /\ \E found \in ChainedA :
       Postprocess(t, IF found = NoRecords THEN raw[t] ELSE WithDns64(raw[t], found))
  /\ UNCHANGED <<vars, asked, qkey, raw, prefetchVars>>

\* What lookup returns: the extended records if DNS64 added some, else the
\* upstream answer as received.
LookupResult(t, records) == FromUpstream(IF records.synth THEN records ELSE raw[t])

\* lookup, step 3: store; a CNAME then starts the flattening queries.
Store(t) ==
  /\ pc[t] = "store"
  /\ Insert(qkey[t], work[t], StoreTtl(work[t]))
  /\ \/ /\ work[t].cnames > 0
        /\ Goto(t, "flatten_a")
        /\ UNCHANGED reply
     \/ /\ work[t].cnames = 0
        /\ Respond(t, LookupResult(t, work[t]))
  /\ UNCHANGED <<asked, qkey, raw, work, prefetchVars>>

\* The A query for the CNAME target; its failure is ignored.
FlattenA(t) ==
  /\ pc[t] = "flatten_a"
  /\ \E found \in BOOLEAN : work' = [work EXCEPT ![t].flat = found]
  /\ Goto(t, "flatten_aaaa")
  /\ UNCHANGED <<vars, asked, qkey, raw, reply, prefetchVars>>

\* The AAAA query for the CNAME target, and the reply.
FlattenAaaa(t) ==
  /\ pc[t] = "flatten_aaaa"
  /\ \E found \in BOOLEAN :
       LET records == [work[t] EXCEPT !.flat = @ \/ found]
       IN /\ work' = [work EXCEPT ![t] = records]
          /\ Respond(t, LookupResult(t, records))
  /\ UNCHANGED <<vars, asked, qkey, raw, prefetchVars>>

-----------------------------------------------------------------------------
(* Steps of an ANY request: A first, then AAAA.                            *)

\* The cached answer is usable by lookup_any: it decodes and has records.
UsableForAny(e) == e.response_bytes # Garbled /\ ~IsEmpty(e.response_bytes)

\* An ANY request starts with k of type A, or goes on with AAAA.
AtAnyCheck(t, k) ==
  \/ pc[t] = "idle" /\ k[2] = "A"
  \/ pc[t] = "any_check" /\ k = qkey[t]

AnyCheckHit(t, k) ==
  /\ AtAnyCheck(t, k)
  /\ LookupHit(k)
  /\ Ask(t, "ANY", k)
  /\ \/ /\ UsableForAny(entries[k])
        /\ Respond(t, FromCache(entries[k]))
     \/ /\ ~UsableForAny(entries[k])
        /\ Goto(t, "any_upstream")
        /\ UNCHANGED reply
  /\ UNCHANGED <<raw, work, prefetchVars>>

AnyCheckMiss(t, k) ==
  /\ AtAnyCheck(t, k)
  /\ LookupMiss(k)
  /\ Ask(t, "ANY", k)
  /\ Goto(t, "any_upstream")
  /\ UNCHANGED <<raw, work, reply, prefetchVars>>

AnyUpstreamOk(t) ==
  /\ pc[t] = "any_upstream"
  /\ \E a \in UpstreamAnswers(qkey[t]) :
       /\ ~IsEmpty(a)
       /\ work' = [work EXCEPT ![t] = a]
  /\ Goto(t, "any_store")
  /\ UNCHANGED <<vars, asked, qkey, raw, reply, prefetchVars>>

\* Mutant: the loop never leaves its first record type.
AnyUpstreamNone_StaysAtA(t) ==
  /\ pc[t] = "any_upstream"
  /\ Goto(t, "any_check")
  /\ UNCHANGED <<vars, asked, qkey, raw, work, reply, prefetchVars>>

\* An error or an empty answer: on to AAAA, or no address records at all.
AnyUpstreamNone(t) ==
  /\ pc[t] = "any_upstream"
  /\ \/ /\ qkey[t][2] = "A"
        /\ qkey' = [qkey EXCEPT ![t][2] = "AAAA"]
        /\ Goto(t, "any_check")
        /\ UNCHANGED reply
     \/ /\ qkey[t][2] = "AAAA"
        /\ Respond(t, Failure)
        /\ UNCHANGED qkey
  /\ UNCHANGED <<vars, asked, raw, work, prefetchVars>>

\* Mutant: the answer is stored under the type that was tried first.
AnyStore_FirstType(t) ==
  /\ pc[t] = "any_store"
  /\ Insert(<<qkey[t][1], "A">>, work[t], StoreTtl(work[t]))
  /\ Respond(t, FromUpstream(work[t]))
  /\ UNCHANGED <<asked, qkey, raw, work, prefetchVars>>

AnyStore(t) ==
  /\ pc[t] = "any_store"
  /\ Insert(qkey[t], work[t], StoreTtl(work[t]))
  /\ Respond(t, FromUpstream(work[t]))
  /\ UNCHANGED <<asked, qkey, raw, work, prefetchVars>>

-----------------------------------------------------------------------------
(* Steps of a prefetch task.                                               *)

PrefetchOk(t) ==
  /\ pf[t] = "fetch"
  /\ pf' = [pf EXCEPT ![t] = "store"]
  /\ \E a \in UpstreamAnswers(qkey[t]) : pfwork' = [pfwork EXCEPT ![t] = a]
  /\ UNCHANGED <<vars, taskVars>>

PrefetchErr(t) ==
  /\ pf[t] = "fetch"
  /\ pf' = [pf EXCEPT ![t] = "failed"]
  /\ UNCHANGED <<vars, taskVars, pfwork>>

\* Mutant: the prefetch writes to the map only.
PrefetchStore_MapOnly(t) ==
  /\ pf[t] = "store"
  /\ entries' = [k \in DOMAIN entries \cup {qkey[t]} |->
                   IF k = qkey[t] THEN NewEntry(pfwork[t], StoreTtl(pfwork[t]))
                   ELSE entries[k]]
  /\ pf' = [pf EXCEPT ![t] = "stored"]
  /\ UNCHANGED <<config, access_order, hits, misses, metricVars, now>>
  /\ UNCHANGED <<taskVars, pfwork>>

\* Mutant: the prefetch holds back while the cache is full.
PrefetchStore_OnlyIfRoom(t) ==
  /\ pf[t] = "store"
  /\ Cardinality(DOMAIN entries) < config.size
  /\ Insert(qkey[t], pfwork[t], StoreTtl(pfwork[t]))
  /\ pf' = [pf EXCEPT ![t] = "stored"]
  /\ UNCHANGED <<taskVars, pfwork>>

PrefetchStore(t) ==
  /\ pf[t] = "store"
  /\ Insert(qkey[t], pfwork[t], StoreTtl(pfwork[t]))
  /\ pf' = [pf EXCEPT ![t] = "stored"]
  /\ UNCHANGED <<taskVars, pfwork>>

-----------------------------------------------------------------------------
ForwardInit ==
  /\ Init
  /\ pc = [t \in Tasks |-> "idle"]
  /\ asked = [t \in Tasks |-> NoKey]
  /\ qkey = [t \in Tasks |-> NoKey]
  /\ raw = [t \in Tasks |-> NoAnswer]
  /\ work = [t \in Tasks |-> NoAnswer]
  /\ reply = [t \in Tasks |-> NoAnswer]
  /\ pf = [t \in Tasks |-> "none"]
  /\ pfwork = [t \in Tasks |-> NoAnswer]

\* A request reaches the authority and takes the cache lock.
Arrive(t) ==
  \/ \E n \in Names, ty \in QueryTypes \cap RecordTypes : CheckHit(t, <<n, ty>>)
  \/ \E n \in Names, ty \in QueryTypes \cap RecordTypes : CheckMiss(t, <<n, ty>>)
  \/ "ANY" \in QueryTypes /\ \E k \in Keys : AnyCheckHit(t, k)
  \/ "ANY" \in QueryTypes /\ \E k \in Keys : AnyCheckMiss(t, k)

\* The steps of a request that is under way, other than taking up AAAA for ANY.
Proceed(t) ==
  \/ UpstreamOk(t)
  \/ UpstreamErr(t)
  \/ ChainedAReply(t)
  \/ Store(t)
  \/ FlattenA(t)
  \/ FlattenAaaa(t)
  \/ AnyUpstreamOk(t)
  \/ AnyUpstreamNone(t)
  \/ AnyStore(t)

Prefetch(t) == PrefetchOk(t) \/ PrefetchErr(t) \/ PrefetchStore(t)

ForwardTick == Tick /\ UNCHANGED <<taskVars, prefetchVars>>

ForwardNext ==
  \/ \E t \in Tasks : Arrive(t)
  \/ \E t \in Tasks : Proceed(t)
  \/ \E t \in Tasks : Prefetch(t)
  \/ ForwardTick

\* The resolver answers or times out and the runtime polls every task, so no
\* request or prefetch that is under way stops for ever; whether and when
\* clients ask, and what time it is, is left open.
Fairness ==
  \A t \in Tasks : /\ WF_forwardVars(Proceed(t))
                   /\ WF_forwardVars(pc[t] # "idle" /\ Arrive(t))
                   /\ WF_forwardVars(Prefetch(t))

ForwardSpec == ForwardInit /\ [][ForwardNext]_forwardVars
FairForwardSpec == ForwardSpec /\ Fairness

-----------------------------------------------------------------------------
(* Properties.                                                             *)

UnderWay == {"upstream", "dns64", "store", "flatten_a", "flatten_aaaa",
             "any_check", "any_upstream", "any_store"}

Replied(t) == reply[t] \notin {NoAnswer, Failure}

\* Type invariant of the tasks, on top of the cache's.
ForwardTypeOK ==
  /\ TypeOK
  /\ pc \in [Tasks -> UnderWay \cup {"idle", "done"}]
  /\ asked \in [Tasks -> {"A", "AAAA", "ANY", NoKey}]
  /\ qkey \in [Tasks -> Keys \cup {NoKey}]
  /\ raw \in [Tasks -> Answer \cup {NoAnswer}]
  /\ work \in [Tasks -> Answer \cup {NoAnswer}]
  /\ reply \in [Tasks -> [answer : Answer, overdue : Nat] \cup {NoAnswer, Failure}]
  /\ pf \in [Tasks -> {"none", "fetch", "store", "stored", "failed"}]
  /\ pfwork \in [Tasks -> Answer \cup {NoAnswer}]

\* Whatever lookups, stores and prefetches overlap, an entry holds an answer to
\* its own key, and a client gets an answer to the key it asked for.
AnswersMatchKeys ==
  /\ \A k \in DOMAIN entries :
       entries[k].response_bytes = Garbled \/ entries[k].response_bytes.key = k
  /\ \A t \in Tasks : Replied(t) => reply[t].answer.key = qkey[t]

\* The lookup path touches the cache only through the cache's operations, each
\* one whole: the composition implements the specification of the cache.
ImplementsCache == Spec

\* With prefetch enabled in the cache's present configuration, serving an
\* expired entry to anything but an ANY request always starts a re-fetch,
\* whatever its hit count and TTL.
ExpiredHitRefetches ==
  [][\A t \in Tasks :
       (/\ config.prefetch > 0
        /\ pc[t] = "idle" /\ pc'[t] = "done"
        /\ asked'[t] # "ANY"
        /\ IsExpired(entries[qkey'[t]]))
         => pf'[t] = "fetch"]_forwardVars

\* A prefetch or an ANY request has worked on key k: they store what upstream
\* sends without DNS64, DNAME synthesis or the chain limit.
Unprocessed(k) ==
  \E u \in Tasks : qkey[u] = k /\ (pf[u] = "stored" \/ asked[u] = "ANY")

HasAaaa(a) == a.direct \/ a.synth

\* With DNS64 and a chained A query that finds records, a client that asks for
\* AAAA gets AAAA records, real or synthesized, from upstream or from the cache,
\* as long as no prefetch or ANY request stored under its key.
AaaaAnswersUsable ==
  \A t \in Tasks :
    (/\ Dns64 /\ NoRecords \notin ChainedA
     /\ Replied(t) /\ asked[t] = "AAAA"
     /\ ~Unprocessed(qkey[t]))
      => HasAaaa(reply[t].answer)

\* With the chain limit enforced no client gets an answer whose CNAME chain,
\* counting synthesized CNAMEs, is longer, under the same proviso.
ChainLimitHolds ==
  \A t \in Tasks :
    (CnameCloaking /\ Replied(t) /\ ~Unprocessed(qkey[t]))
      => reply[t].answer.cnames <= ChainLimit

\* The comment on DNS64, "so they reach the client AND get cached": without
\* the proviso.  A prefetch replaces a synthesized answer by the empty one.
SynthesizedStaysCached ==
  \A t \in Tasks :
    (Dns64 /\ NoRecords \notin ChainedA /\ Replied(t) /\ asked[t] = "AAAA")
      => HasAaaa(reply[t].answer)

\* Every request that reached the forwarder ends with a reply, whatever fails
\* upstream and whatever else uses the cache.
RequestsEnd == \A t \in Tasks : (pc[t] \in UnderWay) ~> (pc[t] = "done")

\* Every prefetch that was spawned stores an answer or fails.
PrefetchesEnd == \A t \in Tasks : (pf[t] = "fetch") ~> (pf[t] \in {"stored", "failed"})
=============================================================================
