----------------------------- MODULE Algorithms -----------------------------
(***************************************************************************)
(* The algorithms of the server that keep no state, each checked against a *)
(* declarative account of what it computes: a behaviour picks one input of *)
(* one algorithm.                                                          *)
(***************************************************************************)
EXTENDS QnameMin, Filter, Dns64, Catalog, ConfigCheck

CONSTANTS
  MaxLabels,      \* bound: labels of a name to minimise
  MaxIterations,  \* bound: max_iterations
  Texts,          \* what list sources may hold: functions from sources to texts
  RootLists,      \* configured sequences of sources
  DomainNames,    \* names that lists hold
  Questions,      \* names that clients ask for
  Addresses,      \* IPv4 addresses of clients and networks
  MaxRules,       \* bound: per-client rules
  Bytes,          \* byte values of addresses
  Prefixes,       \* strings to parse as a DNS64 prefix
  MaxRecords,     \* bound: A records to synthesize from
  CatalogRecords, \* records a catalog may hold
  MaxPrimaries,   \* bound: primaries of a catalog
  Configs         \* configurations

ASSUME QminAssumption == MaxLabels \in Nat /\ MaxIterations \in Nat

\* Lists name sources, and names.
ASSUME TextsAssumption ==
  /\ META_MAX_DEPTH \in Nat
  /\ IsFiniteSet(Sources)
  /\ \A texts \in Texts : texts \in [Sources -> Seq(Lines) \cup {Unreadable}]
  /\ \A roots \in RootLists : roots \in Seq(Sources)

ASSUME NamesAssumption ==
  /\ {"a", "x"} \subseteq Labels
  /\ \A qname \in Questions : qname \in Names

\* An address has AddrBits bits.
ASSUME AddressesAssumption ==
  /\ AddrBits \in Nat
  /\ MaxRules \in Nat
  /\ \A a \in Addresses : a \in Nat /\ Without(a, AddrBits) = 0

ASSUME PrefixesAssumption ==
  /\ MaxRecords \in Nat
  /\ \A text \in Prefixes : text \in [address : BOOLEAN, bytes : [0 .. 15 -> Bytes], len : Nat]

ASSUME CatalogAssumption ==
  /\ MaxPrimaries \in Nat
  /\ IsFiniteSet(CatalogRecords)
  /\ \A r \in CatalogRecords : r.owner \in Names

VARIABLE input

NoInput == [of |-> "none"]

\* Vectors of at most n elements.
UpTo(n, S) == UNION {[1 .. k -> S] : k \in 0 .. n}

QminInput ==
  \E n \in 0 .. MaxLabels, again \in Replies :
    \E reply \in [0 .. n -> Replies], max \in 0 .. MaxIterations :
      input' = [of |-> "qmin", n |-> n, max |-> max, reply |-> reply, again |-> again]

ListsInput ==
  \E texts \in Texts, roots \in RootLists :
    input' = [of |-> "lists", texts |-> texts, roots |-> roots]

\* A question from a client no rule is about.
MatchInput ==
  \E block, allow \in SUBSET DomainNames, qname \in Questions :
    input' = [of |-> "filter", rules |-> << >>, block |-> block, allow |-> allow, client |-> [v4 |-> FALSE],
              datagram |-> [kind |-> "question", qname |-> qname], lookup |-> "answers"]

ClientRules == [net : [addr : Addresses, prefix : 0 .. AddrBits + 1], block : BOOLEAN]
Clients     == [v4 : {TRUE}, addr : Addresses] \cup {[v4 |-> FALSE]}
Datagrams   == {[kind |-> "garbled"], [kind |-> "bare"], [kind |-> "question", qname |-> <<"a">>]}

ClientInput ==
  \E rules \in UpTo(MaxRules, ClientRules), block \in SUBSET {<<"a">>}, client \in Clients,
     datagram \in Datagrams, lookup \in {"error", "answers"} :
    input' = [of |-> "filter", rules |-> rules, block |-> block, allow |-> {}, client |-> client,
              datagram |-> datagram, lookup |-> lookup]

Dns64Input ==
  \E a_records \in UpTo(MaxRecords, [0 .. 3 -> Bytes]), text \in Prefixes :
    input' = [of |-> "dns64", a_records |-> a_records, text |-> text]

CatalogInput ==
  \E replies \in UpTo(MaxPrimaries, {Listing(S) : S \in SUBSET CatalogRecords} \cup {Unreachable}) :
    input' = [of |-> "catalog", replies |-> replies]

ConfigInput == \E cfg \in Configs : input' = [of |-> "config", cfg |-> cfg]

AlgInit == input = NoInput
AlgNext ==
  /\ input = NoInput
  /\ QminInput \/ ListsInput \/ MatchInput \/ ClientInput \/ Dns64Input \/ CatalogInput \/ ConfigInput
AlgSpec == AlgInit /\ [][AlgNext]_input

-----------------------------------------------------------------------------
(* Properties.                                                             *)

\* resolve_with_minimization never does worse than the plain lookup it stands
\* for: if any name it asks for has records, the run ends with records, at the
\* cost of at most one lookup more than allowed; it fails only if the second
\* lookup of the whole name fails too.
QminKeepsAnswers ==
  input.of = "qmin" /\ input.n > 0 =>
    LET result == Resolve(input.n, input.max, input.reply, input.again)
        asked  == {m \in 0 .. input.n : input.n - m < Max({1, input.max})}
        having == {m \in asked : input.reply[m] = "records"}
    IN /\ result.lookups <= Cardinality(asked) + 1
       /\ having # {} => ~ Failed(result) /\ result.qname \in having /\ result.got = "records"
       /\ having = {} => (Failed(result) <=> input.again = "error")
       /\ input.reply[input.n] = "records" => ~ Failed(result)

\* Sources a source expands to, and those within some steps of the roots.
Expands(texts, s) ==
  IF texts[s] = Unreadable \/ ~ LooksLikeMetaList(texts[s]) THEN {}
  ELSE Elements(SourcesIn(texts[s]))
WithinSteps(texts, roots, k) ==
  LET within[d \in 0 .. k] ==
        IF d = 0 THEN Elements(roots)
        ELSE within[d - 1] \cup UNION {Expands(texts, s) : s \in within[d - 1]}
  IN within[k]
HostsIn(texts, sources) ==
  UNION {ParseHosts(texts[s]) : s \in {t \in sources : texts[t] # Unreadable /\ ~ LooksLikeMetaList(texts[t])}}

\* A path from a configured source through different sources past the limit.
NestsTooDeep(texts, roots) ==
  \E p \in [1 .. META_MAX_DEPTH + 2 -> Sources] :
    /\ p[1] \in Elements(roots)
    /\ Distinct(p)
    /\ \A i \in 1 .. META_MAX_DEPTH + 1 : p[i + 1] \in Expands(texts, p[i])

\* load_source reads no source twice, cyclic lists included, and none that is
\* more than META_MAX_DEPTH lists away from the configuration; and lists that
\* nest no deeper are loaded completely, whichever of them cannot be read.
ListsComplete ==
  input.of = "lists" =>
    LET loaded == LoadSources(input.texts, input.roots)
        near   == WithinSteps(input.texts, input.roots, META_MAX_DEPTH)
        all    == WithinSteps(input.texts, input.roots, Cardinality(Sources))
    IN /\ Distinct(loaded.read)
       /\ Elements(loaded.read) \subseteq near
       /\ loaded.entries \subseteq HostsIn(input.texts, near)
       /\ ~ NestsTooDeep(input.texts, input.roots) => loaded.entries = HostsIn(input.texts, all)

\* The i-th bit of an address, from the left.
Bit(a, i) == Without(a, AddrBits - i) % 2

\* Rules for networks that hold an IPv4 client decide alone and, when they
\* agree, in whatever order the HashMap gave them.  For all others a name on the
\* block list blocks everything below it, unless the allow list has the name
\* asked for or one above it.  A blocked question is answered without asking
\* the resolver, and every datagram with a header gets exactly one reply.
FilterDecides ==
  input.of = "filter" =>
    LET filter == NewFilter(input.rules, input.block, input.allow, {})
        held == {r \in Elements(input.rules) :
                   /\ input.client.v4 /\ r.net.prefix <= AddrBits
                   /\ \A i \in 1 .. r.net.prefix : Bit(r.net.addr, i) = Bit(input.client.addr, i)}
        above(qname) == {qname} \cup {SubSeq(qname, i, Len(qname)) : i \in DOMAIN qname}
        listed(qname) == above(qname) \cap input.block # {} /\ above(qname) \cap input.allow = {}
        verdict(qname) == IF held = {} THEN {listed(qname)} ELSE {r.block : r \in held}
        reply == HandleQuery(filter, input.datagram, input.client, input.lookup)
    IN /\ reply.sent <=> input.datagram.kind # "garbled"
       /\ input.datagram.kind = "question" =>
            /\ verdict(input.datagram.qname) = {TRUE} => reply.code = "NXDomain"
            /\ verdict(input.datagram.qname) = {FALSE} =>
                 reply.code = IF input.lookup = "error" THEN "ServFail" ELSE "NoError"

\* synthesize_aaaa makes one address per A record, in the prefix and different
\* for different A records, if the prefix is a /64 or /96, and none otherwise.
Dns64Recoverable ==
  input.of = "dns64" =>
    LET prefix == ParsePrefix(input.text)
        out == IF prefix = None THEN << >> ELSE SynthesizeAaaa(input.a_records, prefix)
    IN IF input.text.address /\ input.text.len \in {64, 96}
       THEN /\ Len(out) = Len(input.a_records)
            /\ \A i \in DOMAIN out : \A b \in 0 .. input.text.len \div 8 - 1 : out[i][b] = input.text.bytes[b]
            /\ \A i, j \in DOMAIN out : out[i] = out[j] => input.a_records[i] = input.a_records[j]
       ELSE out = << >>

\* Members come from one primary, the first that was reached, and an address
\* that two of them share stands in its catalog under the names of both.
CatalogFromOnePrimary ==
  input.of = "catalog" =>
    LET members == LoadCatalog(input.replies)
    IN members # {} =>
         \E i \in DOMAIN input.replies :
           LET used == input.replies[i]
           IN /\ used # Unreachable /\ \A j \in 1 .. i - 1 : input.replies[j] = Unreachable
              /\ VerifyVersion(used)
              /\ \A m \in members : \E r \in Elements(used) : r.type = "PTR" /\ r.data = m.zone
              /\ \A m, k \in members : \A addr \in m.primaries \cap k.primaries :
                   m.id # k.id =>
                     \E r, q \in Elements(used) : r.owner # q.owner /\ addr \in r.data \cap q.data

\* What validate accepts, start-up can use: no primary without a file or with
\* an unknown algorithm, no secondary without primaries, no kind that is skipped
\* and no protocol that is quietly replaced.  Only an algorithm whose keys have
\* to be imported may still fail for want of a key.
ValidConfigsLoad ==
  input.of = "config" /\ Validate(input.cfg) =>
    /\ ForwardsBy(input.cfg) = input.cfg.forward_protocol
    /\ \A zone \in Elements(input.cfg.zones) :
         \/ LoadAs(zone) \in {"served", "transferred", "not implemented"}
         \/ LoadAs(zone) = "error: no key" /\ ~ zone.dnssec_key
=============================================================================
