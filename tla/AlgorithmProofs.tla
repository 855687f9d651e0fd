--------------------------- MODULE AlgorithmProofs --------------------------
(* What the algorithms of Algorithms compute, for every input.             *)
EXTENDS Algorithms, VecProofs

\* A leaf is tried with SMT, then with Zenon and with Z3 alone, for up to 30
\* seconds each, unless it names another prover.
USE SMTT(30), ZenonT(30), Z3T(30)

-----------------------------------------------------------------------------
(* The inputs.                                                             *)

\* A vector of at most n elements is one.
LEMMA UpToIsVec ==
  ASSUME NEW n \in Nat, NEW S, NEW s \in UpTo(n, S)
  PROVE  s \in Seq(S)
<1>1. PICK k \in 0 .. n : s \in [1 .. k -> S]
  BY DEF UpTo
<1> QED
  BY <1>1

\* What a server is asked over UDP, garbled or not.
AnyDatagram ==
  {[kind |-> "garbled"], [kind |-> "bare"]} \cup [kind : {"question"}, qname : Names]

\* Inputs of each algorithm, of any size.
WellTyped ==
  /\ input.of = "qmin" => /\ input.n \in Nat /\ input.max \in Nat
                          /\ input.reply \in [0 .. input.n -> Replies]
                          /\ input.again \in Replies
  /\ input.of = "lists" => /\ input.texts \in [Sources -> Seq(Lines) \cup {Unreadable}]
                           /\ input.roots \in Seq(Sources)
  /\ input.of = "filter" => /\ input.rules \in Seq(ClientRules) /\ input.client \in Clients
                            /\ input.datagram \in AnyDatagram
  /\ input.of = "dns64" => /\ input.a_records \in Seq([0 .. 3 -> Bytes])
                           /\ input.text \in [address : BOOLEAN, bytes : [0 .. 15 -> Bytes], len : Nat]
  /\ input.of = "catalog" => input.replies \in Seq({Listing(S) : S \in SUBSET CatalogRecords} \cup {Unreachable})

\* An algorithm is only ever asked about such inputs.
THEOREM InputsWellTyped == AlgSpec => []WellTyped
<1>1. ASSUME AlgInit PROVE WellTyped
  BY <1>1 DEF AlgInit, NoInput, WellTyped
<1>2. ASSUME WellTyped, AlgNext PROVE WellTyped'
  <2>1. CASE QminInput
    BY <2>1, QminAssumption DEF QminInput, WellTyped
  <2>2. CASE ListsInput
    BY <2>2, TextsAssumption DEF ListsInput, WellTyped
  <2>3. CASE MatchInput
    <3>1. PICK block, allow \in SUBSET DomainNames, qname \in Questions :
            input' = [of |-> "filter", rules |-> << >>, block |-> block, allow |-> allow, client |-> [v4 |-> FALSE],
                      datagram |-> [kind |-> "question", qname |-> qname], lookup |-> "answers"]
      BY <2>3, Zenon DEF MatchInput
    <3>2. /\ input'.of = "filter" /\ input'.rules = << >> /\ input'.client = [v4 |-> FALSE]
          /\ input'.datagram = [kind |-> "question", qname |-> qname]
      BY <3>1
    <3>3. input'.datagram \in AnyDatagram
      BY <3>2, NamesAssumption DEF AnyDatagram
    <3> QED
      BY <3>2, <3>3 DEF WellTyped, Clients
  <2>4. CASE ClientInput
    <3>1. PICK rules \in UpTo(MaxRules, ClientRules), block \in SUBSET {<<"a">>}, client \in Clients,
               datagram \in Datagrams, lookup \in {"error", "answers"} :
            input' = [of |-> "filter", rules |-> rules, block |-> block, allow |-> {}, client |-> client,
                      datagram |-> datagram, lookup |-> lookup]
      BY <2>4, Zenon DEF ClientInput
    <3>2. rules \in Seq(ClientRules)
      BY AddressesAssumption, UpToIsVec
    <3>3. datagram \in AnyDatagram
      <4>1. <<"a">> \in Names
        BY NamesAssumption DEF Names
      <4> QED
        BY <4>1 DEF Datagrams, AnyDatagram
    <3>4. input'.of = "filter" /\ input'.rules = rules /\ input'.client = client /\ input'.datagram = datagram
      BY <3>1
    <3> QED
      BY <3>2, <3>3, <3>4 DEF WellTyped
  <2>5. CASE Dns64Input
    <3>1. PICK a_records \in UpTo(MaxRecords, [0 .. 3 -> Bytes]), text \in Prefixes :
            input' = [of |-> "dns64", a_records |-> a_records, text |-> text]
      BY <2>5, Zenon DEF Dns64Input
    <3>2. a_records \in Seq([0 .. 3 -> Bytes])
      BY PrefixesAssumption, UpToIsVec
    <3> QED
      BY <3>1, <3>2, PrefixesAssumption DEF WellTyped
  <2>6. CASE CatalogInput
    <3> DEFINE R == {Listing(S) : S \in SUBSET CatalogRecords} \cup {Unreachable}
    <3>1. PICK replies \in UpTo(MaxPrimaries, R) : input' = [of |-> "catalog", replies |-> replies]
      BY <2>6, Zenon DEF CatalogInput
    <3>2. replies \in Seq(R)
      <4> HIDE DEF R
      <4> QED
        BY CatalogAssumption, UpToIsVec
    <3>3. input'.of = "catalog" /\ input'.replies = replies
      BY <3>1
    <3> HIDE DEF R
    <3>4. WellTyped' <=> input'.replies \in Seq(R)
      BY <3>3 DEF WellTyped, R
    <3> QED
      BY <3>2, <3>3, <3>4
  <2>7. CASE ConfigInput
    BY <2>7 DEF ConfigInput, WellTyped
  <2> QED
    BY <1>2, <2>1, <2>2, <2>3, <2>4, <2>5, <2>6, <2>7 DEF AlgNext
<1>3. ASSUME WellTyped, UNCHANGED input PROVE WellTyped'
  BY <1>3, Zenon DEF WellTyped
<1> QED
  BY <1>1, <1>2, <1>3, PTL DEF AlgSpec

-----------------------------------------------------------------------------
(* Configurations.                                                         *)

\* A zone that validate accepts can be loaded, but perhaps for a missing key.
LEMMA ValidZoneLoads ==
  ASSUME NEW zone, ValidZone(zone)
  PROVE  \/ LoadAs(zone) \in {"served", "transferred", "not implemented"}
         \/ LoadAs(zone) = "error: no key" /\ ~ zone.dnssec_key
<1>1. CASE zone.kind = "primary"
  BY <1>1 DEF ValidZone, LoadAs, AlgorithmKnown
<1>2. CASE zone.kind = "secondary"
  BY <1>2 DEF ValidZone, LoadAs
<1>3. CASE zone.kind \in {"stub", "conditional", "forwarder"}
  BY <1>3 DEF ValidZone, LoadAs
<1> QED
  BY <1>1, <1>2, <1>3 DEF ValidZone

\* What validate accepts, start-up can use.
THEOREM ConfigsLoad == AlgSpec => []ValidConfigsLoad
<1>1. ValidConfigsLoad
  BY ValidZoneLoads DEF ValidConfigsLoad, Validate, ForwardsBy
<1> QED
  BY <1>1, PTL

-----------------------------------------------------------------------------
(* DNS64.                                                                  *)

\* synthesize_one keeps the bytes of the prefix and those of the IPv4 address.
LEMMA SynthesizedBytes ==
  ASSUME NEW v4 \in [0 .. 3 -> Bytes], NEW prefix, prefix.len \in {64, 96}
  PROVE  LET v6 == SynthesizeOne(v4, prefix)
             from == prefix.len \div 8
         IN /\ v6 # None
            /\ \A b \in 0 .. from - 1 : v6[b] = prefix.addr[b]
            /\ \A b \in 0 .. 3 : v6[from + b] = v4[b]
<1> DEFINE from == prefix.len \div 8
           v6 == SynthesizeOne(v4, prefix)
<1>1. from \in {8, 12}
  OBVIOUS
<1>2. v6 = [i \in 0 .. 15 |-> IF i < from THEN prefix.addr[i]
                              ELSE IF i < from + 4 THEN v4[i - from] ELSE 0]
  BY DEF SynthesizeOne
<1> HIDE DEF from
<1>3. v6 # None
  <2>1. DOMAIN v6 = 0 .. 15 /\ DOMAIN None = {} /\ 0 \in 0 .. 15
    BY <1>2 DEF None
  <2> HIDE DEF v6
  <2> QED
    BY <2>1, Zenon
<1> HIDE DEF v6
<1>4. ASSUME NEW b \in 0 .. from - 1 PROVE v6[b] = prefix.addr[b]
  <2>1. b \in 0 .. 15 /\ b < from
    BY <1>1
  <2> QED
    BY <1>2, <2>1, Zenon
<1>5. ASSUME NEW b \in 0 .. 3 PROVE v6[from + b] = v4[b]
  <2>1. from + b \in 0 .. 15 /\ ~ (from + b < from) /\ from + b < from + 4 /\ (from + b) - from = b
    BY <1>1
  <2> QED
    BY <1>2, <2>1, Zenon
<1> QED
  BY <1>3, <1>4, <1>5 DEF from, v6

\* synthesize_aaaa makes an address of every A record, or of none.
LEMMA SynthesizedAddresses ==
  ASSUME NEW a_records \in Seq([0 .. 3 -> Bytes]), NEW prefix
  PROVE  SynthesizeAaaa(a_records, prefix) =
           IF prefix.len \in {64, 96}
           THEN [i \in DOMAIN a_records |-> SynthesizeOne(a_records[i], prefix)]
           ELSE << >>
<1> DEFINE made == [i \in DOMAIN a_records |-> SynthesizeOne(a_records[i], prefix)]
           n == Len(a_records)
           T == {made[i] : i \in 1 .. n}
<1>1. n \in Nat /\ DOMAIN a_records = 1 .. n /\ \A i \in 1 .. n : a_records[i] \in [0 .. 3 -> Bytes]
  OBVIOUS
<1>2. made \in [1 .. n -> T]
  BY <1>1, Zenon
<1>3. made \in Seq(T) /\ Len(made) = n
  <2> HIDE DEF made, n, T
  <2> QED
    BY <1>1, <1>2
<1>4. \A i \in 1 .. n : made[i] = SynthesizeOne(a_records[i], prefix)
  BY <1>1, Zenon
<1>5. SynthesizeAaaa(a_records, prefix) = Retain(made, Elements(made) \ {None})
  BY DEF SynthesizeAaaa
<1> HIDE DEF made, n, T
<1>6. CASE prefix.len \in {64, 96}
  <2>1. \A i \in 1 .. n : made[i] # None
    BY <1>1, <1>4, <1>6, SynthesizedBytes
  <2>2. Elements(made) \subseteq Elements(made) \ {None}
    BY <1>3, <2>1 DEF Elements
  <2> QED
    BY <1>3, <1>5, <1>6, <2>2, RetainAllOrNone DEF made
<1>7. CASE prefix.len \notin {64, 96}
  <2>1. \A i \in 1 .. n : made[i] = None
    BY <1>4, <1>7 DEF SynthesizeOne
  <2>2. Elements(made) \cap (Elements(made) \ {None}) = {}
    BY <1>3, <2>1 DEF Elements
  <2> QED
    BY <1>3, <1>5, <1>7, <2>2, RetainAllOrNone
<1> QED
  BY <1>6, <1>7

\* synthesize_aaaa makes an address in the prefix for every A record, from which
\* the record can be told, or none at all.
THEOREM Dns64IsRecoverable == AlgSpec => []Dns64Recoverable
<1>1. ASSUME WellTyped PROVE Dns64Recoverable
  <2> SUFFICES ASSUME input.of = "dns64" PROVE Dns64Recoverable
    BY DEF Dns64Recoverable
  <2> DEFINE text == input.text
             a_records == input.a_records
             prefix == ParsePrefix(text)
             out == IF prefix = None THEN << >> ELSE SynthesizeAaaa(a_records, prefix)
  <2>1. /\ a_records \in Seq([0 .. 3 -> Bytes])
        /\ text \in [address : BOOLEAN, bytes : [0 .. 15 -> Bytes], len : Nat]
    BY <1>1 DEF WellTyped
  <2>2. prefix # None => prefix = [addr |-> text.bytes, len |-> text.len]
    BY DEF ParsePrefix
  <2>3. text.address /\ text.len \in {64, 96} => prefix # None
    <3>1. [addr |-> text.bytes, len |-> text.len] # None
      BY DEF None
    <3> QED
      BY <3>1 DEF ParsePrefix
  <2>4. prefix # None => text.address
    BY DEF ParsePrefix
  <2>5. Dns64Recoverable <=>
          IF text.address /\ text.len \in {64, 96}
          THEN /\ Len(out) = Len(a_records)
               /\ \A i \in DOMAIN out : \A b \in 0 .. text.len \div 8 - 1 : out[i][b] = text.bytes[b]
               /\ \A i, j \in DOMAIN out : out[i] = out[j] => a_records[i] = a_records[j]
          ELSE out = << >>
    BY Zenon DEF Dns64Recoverable
  <2>6. CASE text.address /\ text.len \in {64, 96}
    <3>1. prefix.addr = text.bytes /\ prefix.len = text.len
      BY <2>2, <2>3, <2>6
    <3>2. out = [i \in DOMAIN a_records |-> SynthesizeOne(a_records[i], prefix)]
      <4> HIDE DEF prefix
      <4> QED
        BY <2>1, <2>3, <2>6, <3>1, SynthesizedAddresses, Zenon
    <3> HIDE DEF out, prefix, text
    <3>3. DOMAIN out = DOMAIN a_records /\ Len(out) = Len(a_records)
      BY <2>1, <3>2
    <3>4. ASSUME NEW i \in DOMAIN out
          PROVE  /\ \A b \in 0 .. text.len \div 8 - 1 : out[i][b] = text.bytes[b]
                 /\ \A b \in 0 .. 3 : out[i][text.len \div 8 + b] = a_records[i][b]
      <4>1. a_records[i] \in [0 .. 3 -> Bytes] /\ out[i] = SynthesizeOne(a_records[i], prefix)
        BY <2>1, <3>2, <3>3
      <4> QED
        BY <2>6, <3>1, <4>1, SynthesizedBytes
    <3>5. ASSUME NEW i \in DOMAIN out, NEW j \in DOMAIN out, out[i] = out[j]
          PROVE  a_records[i] = a_records[j]
      <4>1. a_records[i] \in [0 .. 3 -> Bytes] /\ a_records[j] \in [0 .. 3 -> Bytes]
        BY <2>1, <3>3
      <4>2. ASSUME NEW b \in 0 .. 3 PROVE a_records[i][b] = a_records[j][b]
        <5>1. /\ out[i][text.len \div 8 + b] = a_records[i][b]
              /\ out[j][text.len \div 8 + b] = a_records[j][b]
          BY <3>4, Zenon
        <5> QED
          BY <3>5, <5>1, Zenon
      <4> QED
        BY <4>1, <4>2
    <3> QED
      BY <2>5, <2>6, <3>3, <3>4, <3>5, Zenon
  <2>7. CASE ~ (text.address /\ text.len \in {64, 96})
    <3>1. out = << >>
      <4>1. CASE prefix = None
        BY <4>1
      <4>2. CASE prefix # None
        <5>1. prefix.len \notin {64, 96}
          BY <2>2, <2>4, <2>7, <4>2
        <5> HIDE DEF prefix, text
        <5> QED
          BY <2>1, <4>2, <5>1, SynthesizedAddresses, Zenon
      <4> QED
        BY <4>1, <4>2
    <3> HIDE DEF out, text
    <3> QED
      BY <2>5, <2>7, <3>1, Zenon
  <2> QED
    BY <2>6, <2>7
<1> QED
  BY <1>1, InputsWellTyped, PTL

-----------------------------------------------------------------------------
(* Catalog zones.                                                          *)

\* A name tells what stands between its first and its last label.
LEMMA BetweenLabels ==
  ASSUME NEW a, NEW b, NEW id \in Names, NEW jd \in Names,
         <<a>> \o id \o <<b>> = <<a>> \o jd \o <<b>>
  PROVE  id = jd
<1> DEFINE T == Labels \cup {a, b}
           Whole(n) == <<a>> \o n \o <<b>>
<1>1. ASSUME NEW n \in Names
      PROVE  /\ n \in Seq(T) /\ Len(n) \in Nat /\ Len(Whole(n)) = Len(n) + 2
             /\ \A i \in 1 .. Len(n) : Whole(n)[i + 1] = n[i]
  <2>1. n \in Seq(T) /\ a \in T /\ b \in T
    BY DEF Names
  <2> HIDE DEF T
  <2> QED
    BY <2>1
<1>2. Whole(id) = Whole(jd)
  OBVIOUS
<1> HIDE DEF Whole, T
<1>3. Len(id) = Len(jd)
  BY <1>1, <1>2
<1>4. \A i \in 1 .. Len(id) : id[i] = jd[i]
  BY <1>1, <1>2, <1>3
<1> QED
  BY <1>1, <1>3, <1>4

\* The name of a member's id.
LEMMA MemberIds ==
  ASSUME NEW owner \in Names, IsMemberOwner(owner)
  PROVE  UniqueId(owner) \in Names
<1>1. owner \in Seq(Labels) /\ Len(owner) \in Nat /\ Len(owner) > 0
  BY DEF IsMemberOwner, Names
<1>2. SubSeq(owner, 1, Len(owner) - 1) \in Seq(Labels)
  BY <1>1
<1> QED
  BY <1>2, NamesAssumption DEF UniqueId, Names

\* What a catalog says, as records at a reachable primary.
LEMMA CatalogSays ==
  ASSUME NEW records, \A r \in Elements(records) : r.owner \in Names,
         NEW replies, NEW m \in LoadCatalog(replies),
         Retain(replies, Elements(replies) \ {Unreachable})[1] = records
  PROVE  /\ VerifyVersion(records)
         /\ m.id \in Names
         /\ \E r \in Elements(records) : r.type = "PTR" /\ r.data = m.zone
         /\ \A addr \in m.primaries : \E r \in Elements(records) :
              addr \in r.data /\ r.owner = <<"primaries">> \o m.id \o <<"zones">>
<1>1. /\ VerifyVersion(records)
      /\ m \in {[id |-> q.id, zone |-> q.zone, primaries |-> ParsePrimaries(records, q.id)] :
                  q \in ParseMemberZones(records)}
  BY DEF LoadCatalog
<1>2. PICK q \in ParseMemberZones(records) :
        m = [id |-> q.id, zone |-> q.zone, primaries |-> ParsePrimaries(records, q.id)]
  BY <1>1
<1>3. PICK r \in Elements(records) :
        r.type = "PTR" /\ IsMemberOwner(r.owner) /\ q = [id |-> UniqueId(r.owner), zone |-> r.data]
  BY <1>2 DEF ParseMemberZones
<1>4. m.id \in Names /\ m.zone = r.data /\ m.primaries = ParsePrimaries(records, m.id)
  BY <1>2, <1>3, MemberIds
<1>5. ASSUME NEW addr \in m.primaries
      PROVE  \E p \in Elements(records) : addr \in p.data /\ p.owner = <<"primaries">> \o m.id \o <<"zones">>
  BY <1>4, <1>5, Zenon DEF ParsePrimaries
<1> QED
  BY <1>1, <1>3, <1>4, <1>5, Zenon

\* Members come from the first primary reached, and share an address only where
\* the catalog gives it to both.
THEOREM CatalogIsFromOnePrimary == AlgSpec => []CatalogFromOnePrimary
<1>1. ASSUME WellTyped PROVE CatalogFromOnePrimary
  <2> DEFINE replies == input.replies
             members == LoadCatalog(replies)
             reached == Retain(replies, Elements(replies) \ {Unreachable})
             R == {Listing(S) : S \in SUBSET CatalogRecords} \cup {Unreachable}
             Right(i) ==
               LET used == replies[i]
               IN /\ used # Unreachable /\ \A j \in 1 .. i - 1 : replies[j] = Unreachable
                  /\ VerifyVersion(used)
                  /\ \A m \in members : \E r \in Elements(used) : r.type = "PTR" /\ r.data = m.zone
                  /\ \A m, k \in members : \A addr \in m.primaries \cap k.primaries :
                       m.id # k.id =>
                         \E r, q \in Elements(used) : r.owner # q.owner /\ addr \in r.data \cap q.data
  <2> SUFFICES ASSUME input.of = "catalog", members # {}
               PROVE  \E i \in DOMAIN replies : Right(i)
    BY Zenon DEF CatalogFromOnePrimary
  <2>1. replies \in Seq(R) /\ DOMAIN replies = 1 .. Len(replies)
    BY <1>1 DEF WellTyped
  <2>2. reached # << >>
    BY Zenon DEF LoadCatalog
  <2>3. PICK i \in 1 .. Len(replies) :
          /\ replies[i] \in Elements(replies) \ {Unreachable} /\ reached[1] = replies[i]
          /\ \A j \in 1 .. i - 1 : replies[j] \notin Elements(replies) \ {Unreachable}
    <3> HIDE DEF R
    <3> QED
      BY <2>1, <2>2, RetainFirst
  <2>4. \A j \in 1 .. i - 1 : replies[j] = Unreachable
    BY <2>1, <2>3 DEF Elements
  <2>5. \A r \in Elements(replies[i]) : r.owner \in Names
    <3>1. PICK S \in SUBSET CatalogRecords : replies[i] = Listing(S)
      BY <2>1, <2>3
    <3>2. IsFiniteSet(S)
      BY CatalogAssumption, FS_Subset
    <3>3. Elements(replies[i]) = S
      BY <3>1, <3>2, ListingFacts
    <3> QED
      BY <3>3, CatalogAssumption
  <2> HIDE DEF replies, R
  <2>6. ASSUME NEW m \in members
        PROVE  /\ VerifyVersion(replies[i])
               /\ m.id \in Names
               /\ \E r \in Elements(replies[i]) : r.type = "PTR" /\ r.data = m.zone
               /\ \A addr \in m.primaries : \E r \in Elements(replies[i]) :
                    addr \in r.data /\ r.owner = <<"primaries">> \o m.id \o <<"zones">>
    BY <2>3, <2>5, CatalogSays
  <2> HIDE DEF members, reached
  <2>7. ASSUME NEW m \in members, NEW k \in members, NEW addr \in m.primaries \cap k.primaries, m.id # k.id
        PROVE  \E r, q \in Elements(replies[i]) : r.owner # q.owner /\ addr \in r.data \cap q.data
    <3>1. PICK r \in Elements(replies[i]) :
            addr \in r.data /\ r.owner = <<"primaries">> \o m.id \o <<"zones">>
      BY <2>6, Zenon
    <3>2. PICK q \in Elements(replies[i]) :
            addr \in q.data /\ q.owner = <<"primaries">> \o k.id \o <<"zones">>
      BY <2>6, Zenon
    <3>3. m.id \in Names /\ k.id \in Names
      BY <2>6, Zenon
    <3>4. r.owner # q.owner
      BY <2>7, <3>1, <3>2, <3>3, BetweenLabels, Zenon
    <3> QED
      BY <3>1, <3>2, <3>4, Zenon
  <2>8. Right(i)
    BY <2>3, <2>4, <2>6, <2>7, Zenon
  <2> HIDE DEF Right
  <2> QED
    BY <2>1, <2>8, Zenon
<1> QED
  BY <1>1, InputsWellTyped, PTL

-----------------------------------------------------------------------------
(* QNAME minimisation.                                                     *)

\* The driver looks up at least one name and at most max_iterations, from the
\* name asked for towards the root.
LEMMA PlannedNames ==
  ASSUME NEW n \in Nat, NEW max \in Nat
  PROVE  LET names == Planned(n, max)
             asked == {m \in 0 .. n : n - m < Max({1, max})}
         IN /\ names \in Seq(0 .. n) /\ Len(names) > 0 /\ names[1] = n
            /\ asked = {names[i] : i \in 1 .. Len(names)}
            /\ Cardinality(asked) = Len(names)
<1> DEFINE M == Max({1, max})
           k == Min({M, n + 1})
           asked == {m \in 0 .. n : n - m < M}
<1>1. M \in Nat /\ M >= 1
  <2>1. \E x \in {1, max} : \A y \in {1, max} : x >= y
    <3>1. CASE max <= 1
      BY <3>1
    <3>2. CASE max > 1
      BY <3>2
    <3> QED
      BY <3>1, <3>2
  <2>2. M \in {1, max} /\ \A y \in {1, max} : M >= y
    BY <2>1, Zenon DEF Max
  <2> HIDE DEF M
  <2> QED
    BY <2>2
<1> HIDE DEF M
<1>2. k \in 1 .. n + 1 /\ k <= M /\ (k = M \/ k = n + 1)
  <2>1. \E x \in {M, n + 1} : \A y \in {M, n + 1} : x <= y
    <3>1. CASE M <= n + 1
      BY <1>1, <3>1
    <3>2. CASE n + 1 <= M
      BY <1>1, <3>2
    <3> QED
      BY <1>1, <3>1, <3>2
  <2>2. k \in {M, n + 1} /\ \A y \in {M, n + 1} : k <= y
    BY <2>1, Zenon DEF Min
  <2> HIDE DEF k
  <2> QED
    BY <1>1, <2>2
<1>3. Planned(n, max) = SubSeq(PeelLabels(n), 1, k)
  BY DEF Planned, M
<1> HIDE DEF k
<1> DEFINE names == Planned(n, max)
<1>4. names \in Seq(0 .. n) /\ Len(names) = k /\ \A i \in 1 .. k : names[i] = n + 1 - i
  <2>1. PeelLabels(n) \in [1 .. n + 1 -> 0 .. n] /\ \A i \in 1 .. n + 1 : PeelLabels(n)[i] = n + 1 - i
    BY DEF PeelLabels
  <2>2. PeelLabels(n) \in Seq(0 .. n) /\ Len(PeelLabels(n)) = n + 1
    BY <2>1
  <2>3. k \in Nat /\ k >= 1 /\ k <= n + 1
    BY <1>2
  <2> DEFINE peeled == PeelLabels(n)
  <2> HIDE DEF peeled
  <2>4. /\ SubSeq(peeled, 1, k) \in Seq(0 .. n) /\ Len(SubSeq(peeled, 1, k)) = k
        /\ \A i \in 1 .. k : SubSeq(peeled, 1, k)[i] = peeled[i] /\ i \in 1 .. n + 1
    BY <2>2, <2>3 DEF peeled
  <2> QED
    BY <1>3, <2>1, <2>4, Zenon DEF peeled
<1> HIDE DEF names
<1>5. asked = (n - k + 1) .. n
  BY <1>1, <1>2
<1>6. asked = {names[i] : i \in 1 .. Len(names)}
  <2>1. ASSUME NEW m \in asked PROVE \E i \in 1 .. k : m = names[i]
    <3>1. (n + 1) - m \in 1 .. k /\ n + 1 - ((n + 1) - m) = m
      BY <1>2, <1>5
    <3>2. names[(n + 1) - m] = m
      BY <1>4, <3>1
    <3> QED
      BY <3>1, <3>2
  <2>2. ASSUME NEW i \in 1 .. k PROVE names[i] \in asked
    BY <1>2, <1>4, <1>5
  <2> HIDE DEF asked
  <2> QED
    BY <1>4, <2>1, <2>2
<1>7. Cardinality(asked) = k
  <2>1. n - k + 1 \in Int /\ n \in Int
    BY <1>2
  <2>2. Cardinality((n - k + 1) .. n) = IF n - k + 1 > n THEN 0 ELSE n - (n - k + 1) + 1
    BY <2>1, FS_Interval
  <2>3. Cardinality((n - k + 1) .. n) = k
    BY <1>2, <2>2
  <2> HIDE DEF asked
  <2> QED
    BY <1>5, <2>3
<1>8. names[1] = n /\ k > 0
  BY <1>2, <1>4
<1> HIDE DEF asked
<1> QED
  BY <1>4, <1>6, <1>7, <1>8, Zenon DEF names, asked, M

\* What the loop carries along: the last answer and whether the last step failed.
LookupState == [answer : Int, failed : BOOLEAN]

\* The states of the loop over the names.
LEMMA LookupsRun ==
  ASSUME NEW names, Len(names) \in Nat, \A i \in 1 .. Len(names) : names[i] \in Int, NEW reply
  PROVE  \E f \in [0 .. Len(names) -> LookupState] :
           /\ f[0] = [answer |-> -1, failed |-> FALSE]
           /\ \A i \in 1 .. Len(names) : f[i] = AfterLookup(f[i - 1], names[i], reply[names[i]])
           /\ Lookups(names, reply) = f[Len(names)]
<1> DEFINE n == Len(names)
           none == [answer |-> -1, failed |-> FALSE]
           Turn(i, st) == AfterLookup(st, names[i], reply[names[i]])
           step == [p \in (1 .. n) \X LookupState |-> Turn(p[1], p[2])]
           Runs(h) == h = [i \in 0 .. n |-> IF i = 0 THEN none ELSE Turn(i, h[i - 1])]
           F == CHOOSE h : Runs(h)
<1>1. n \in Nat /\ none \in LookupState
  BY DEF LookupState
<1>2. \A i \in 1 .. n, st \in LookupState : Turn(i, st) \in LookupState
  BY DEF AfterLookup, LookupState
<1>3. Lookups(names, reply) = F[n]
  BY DEF Lookups
<1> HIDE DEF Turn, none, n
<1>4. step \in [(1 .. n) \X LookupState -> LookupState]
  BY <1>2
<1>5. \A i \in 1 .. n, st \in LookupState : step[<<i, st>>] = Turn(i, st)
  BY Zenon
<1> HIDE DEF step
<1>6. PICK f \in [0 .. n -> LookupState] :
        f[0] = none /\ \A i \in 1 .. n : f[i] = step[<<i, f[i - 1]>>]
  <2>1. LoopRuns(LookupState, none, n, step) # {}
    BY <1>1, <1>4, LoopHasRun, Zenon
  <2> QED
    BY <2>1 DEF LoopRuns
<1>7. \A i \in 1 .. n : f[i - 1] \in LookupState
  BY <1>1
<1>8. \A i \in 1 .. n : f[i] = Turn(i, f[i - 1])
  BY <1>5, <1>6, <1>7, Zenon
<1>9. F[n] = f[n]
  <2>1. Runs(f)
    <3>1. \A i \in 0 .. n : i = 0 \/ (i # 0 /\ i \in 1 .. n)
      BY <1>1
    <3>2. \A i \in 0 .. n : f[i] = IF i = 0 THEN none ELSE Turn(i, f[i - 1])
      BY <1>6, <1>8, <3>1, Zenon
    <3> QED
      BY <3>2, Zenon
  <2>2. Runs(F)
    <3> HIDE DEF Runs
    <3> QED
      BY <2>1, Zenon
  <2> HIDE DEF F
  <2>3. \A i \in 0 .. n : F[i] = IF i = 0 THEN none ELSE Turn(i, F[i - 1])
    BY <2>2, Zenon
  <2>4. 0 \in 0 .. n /\ \A i \in 1 .. n : i \in 0 .. n /\ i # 0
    BY <1>1
  <2>5. InStep(n, F, f)
    BY <1>6, <1>8, <2>3, <2>4 DEF InStep
  <2> QED
    BY <1>1, <2>5, LoopsAgree
<1> QED
  BY <1>3, <1>6, <1>8, <1>9, Zenon DEF n, none, Turn

\* The loop ends with an answer exactly if some name has records, and then with
\* one of these names.
LEMMA LookupsKeep ==
  ASSUME NEW names, Len(names) \in Nat, \A i \in 1 .. Len(names) : names[i] \in Nat, NEW reply
  PROVE  LET answer == Lookups(names, reply).answer
         IN \/ answer = -1 /\ \A j \in 1 .. Len(names) : reply[names[j]] # "records"
            \/ answer # -1 /\ \E j \in 1 .. Len(names) : reply[names[j]] = "records" /\ answer = names[j]
<1> DEFINE n == Len(names)
<1>1. PICK f \in [0 .. n -> LookupState] :
        /\ f[0] = [answer |-> -1, failed |-> FALSE]
        /\ \A i \in 1 .. n : f[i] = AfterLookup(f[i - 1], names[i], reply[names[i]])
        /\ Lookups(names, reply) = f[n]
  <2>1. \A i \in 1 .. Len(names) : names[i] \in Int
    OBVIOUS
  <2> QED
    BY <2>1, LookupsRun, Zenon
<1> DEFINE Kept(m) ==
             \/ f[m].answer = -1 /\ \A j \in 1 .. m : reply[names[j]] # "records"
             \/ f[m].answer # -1 /\ \E j \in 1 .. m : reply[names[j]] = "records" /\ f[m].answer = names[j]
           S == {m \in Nat : m <= n => Kept(m)}
<1>2. n \in Nat
  OBVIOUS
<1> HIDE DEF n
<1>3. 0 \in S
  BY <1>1
<1>4. ASSUME NEW m \in Nat, m \in S PROVE m + 1 \in S
  <2> SUFFICES ASSUME m + 1 <= n PROVE Kept(m + 1)
    OBVIOUS
  <2>1. Kept(m) /\ m + 1 \in 1 .. n
    BY <1>2, <1>4
  <2>2. f[m + 1] = AfterLookup(f[m], names[m + 1], reply[names[m + 1]])
    <3>1. f[m + 1] = AfterLookup(f[(m + 1) - 1], names[m + 1], reply[names[m + 1]])
      BY <1>1, <2>1, Zenon
    <3>2. (m + 1) - 1 = m
      OBVIOUS
    <3> QED
      BY <3>1, <3>2, Zenon
  <2>3. f[m + 1].answer = IF reply[names[m + 1]] = "records" THEN names[m + 1] ELSE f[m].answer
    BY <2>2 DEF AfterLookup
  <2>4. names[m + 1] # -1
    BY <2>1 DEF n
  <2>5. \A j \in 1 .. m + 1 : j \in 1 .. m \/ j = m + 1
    OBVIOUS
  <2>6. 1 .. m \subseteq 1 .. m + 1 /\ m + 1 \in 1 .. m + 1
    OBVIOUS
  <2> QED
    BY <2>1, <2>3, <2>4, <2>5, <2>6, ZenonT(30)
<1>5. n \in S
  <2> HIDE DEF S
  <2> QED
    BY <1>2, <1>3, <1>4, SetInduction
<1> QED
  BY <1>1, <1>2, <1>5 DEF n

\* Minimisation never loses an answer, costs one lookup more at most, and fails
\* only if the second lookup of the whole name fails too.
THEOREM MinimisationKeepsAnswers == AlgSpec => []QminKeepsAnswers
<1>1. ASSUME WellTyped PROVE QminKeepsAnswers
  <2> DEFINE n == input.n
             max == input.max
             reply == input.reply
             again == input.again
             names == Planned(n, max)
             last == Lookups(names, reply)
             result == Resolve(n, max, reply, again)
             asked  == {m \in 0 .. n : n - m < Max({1, max})}
             having == {m \in asked : reply[m] = "records"}
  <2> SUFFICES ASSUME input.of = "qmin", n > 0
               PROVE  /\ result.lookups <= Cardinality(asked) + 1
                      /\ having # {} => ~ Failed(result) /\ result.qname \in having /\ result.got = "records"
                      /\ having = {} => (Failed(result) <=> again = "error")
                      /\ reply[n] = "records" => ~ Failed(result)
    BY Zenon DEF QminKeepsAnswers
  <2>1. n \in Nat /\ n # 0 /\ max \in Nat
    BY <1>1 DEF WellTyped
  <2> HIDE DEF n, max, reply, again
  <2>2. /\ names \in Seq(0 .. n) /\ Len(names) > 0 /\ names[1] = n
        /\ asked = {names[i] : i \in 1 .. Len(names)}
        /\ Cardinality(asked) = Len(names)
    BY <2>1, PlannedNames, Zenon
  <2>3. result = IF last.answer # -1
                 THEN [qname |-> last.answer, got |-> "records", lookups |-> Len(names)]
                 ELSE IF again # "error"
                 THEN [qname |-> n, got |-> again, lookups |-> Len(names) + 1]
                 ELSE [error |-> IF last.failed THEN "last" ELSE "second", lookups |-> Len(names) + 1]
    BY <2>1, Zenon DEF Resolve
  <2> HIDE DEF result, asked, names
  <2>a. names \in Seq(0 .. n) /\ Len(names) > 0 /\ Cardinality(asked) = Len(names)
    BY <2>2, Zenon
  <2>4. Len(names) \in Nat /\ 1 \in 1 .. Len(names) /\ \A i \in 1 .. Len(names) : names[i] \in Nat
    BY <2>1, <2>a
  <2>5. \/ last.answer = -1 /\ \A j \in 1 .. Len(names) : reply[names[j]] # "records"
        \/ last.answer # -1 /\ \E j \in 1 .. Len(names) : reply[names[j]] = "records" /\ last.answer = names[j]
    BY <2>4, LookupsKeep
  <2> HIDE DEF last
  <2>6. last.answer = -1 => having = {} /\ reply[n] # "records"
    BY <2>2, <2>4, <2>5, Zenon
  <2>7. last.answer # -1 => last.answer \in having
    BY <2>2, <2>5, Zenon
  <2>8. CASE last.answer # -1
    <3>1. result.lookups = Len(names) /\ result.qname = last.answer /\ result.got = "records" /\ ~ Failed(result)
      BY <2>3, <2>8 DEF Failed
    <3> HIDE DEF having
    <3> QED
      BY <2>a, <2>4, <2>7, <2>8, <3>1
  <2>9. CASE last.answer = -1
    <3>1. result.lookups = Len(names) + 1 /\ (Failed(result) <=> again = "error")
      BY <2>3, <2>9 DEF Failed
    <3> HIDE DEF having
    <3> QED
      BY <2>a, <2>4, <2>6, <2>9, <3>1
  <2> QED
    BY <2>8, <2>9
<1> QED
  BY <1>1, InputsWellTyped, PTL

-----------------------------------------------------------------------------
(* Networks.                                                               *)

\* Taking bits from an address, one at a time.
LEMMA WithoutRun ==
  ASSUME NEW a \in Nat, NEW k \in Nat
  PROVE  \E f \in [0 .. k -> Nat] :
           f[0] = a /\ (\A i \in 1 .. k : f[i] = f[i - 1] \div 2) /\ Without(a, k) = f[k]
<1> DEFINE step == [p \in (1 .. k) \X Nat |-> p[2] \div 2]
           Runs(h) == h = [i \in 0 .. k |-> IF i = 0 THEN a ELSE h[i - 1] \div 2]
           F == CHOOSE h : Runs(h)
<1>1. Without(a, k) = F[k]
  BY DEF Without
<1>2. step \in [(1 .. k) \X Nat -> Nat]
  OBVIOUS
<1>3. \A i \in 1 .. k, x \in Nat : step[<<i, x>>] = x \div 2
  BY Zenon
<1> HIDE DEF step
<1>4. PICK f \in [0 .. k -> Nat] :
        f[0] = a /\ \A i \in 1 .. k : f[i] = step[<<i, f[i - 1]>>]
  <2>1. LoopRuns(Nat, a, k, step) # {}
    BY <1>2, LoopHasRun, Zenon
  <2> QED
    BY <2>1 DEF LoopRuns
<1>5. \A i \in 1 .. k : f[i - 1] \in Nat
  OBVIOUS
<1>6. \A i \in 1 .. k : f[i] = f[i - 1] \div 2
  BY <1>3, <1>4, <1>5, Zenon
<1>7. F[k] = f[k]
  <2>1. Runs(f)
    <3>1. \A i \in 0 .. k : i = 0 \/ (i # 0 /\ i \in 1 .. k)
      OBVIOUS
    <3>2. \A i \in 0 .. k : f[i] = IF i = 0 THEN a ELSE f[i - 1] \div 2
      BY <1>4, <1>6, <3>1, Zenon
    <3> QED
      BY <3>2, Zenon
  <2>2. Runs(F)
    <3> HIDE DEF Runs
    <3> QED
      BY <2>1, Zenon
  <2> HIDE DEF F
  <2>3. \A i \in 0 .. k : F[i] = IF i = 0 THEN a ELSE F[i - 1] \div 2
    BY <2>2, Zenon
  <2>4. 0 \in 0 .. k /\ \A i \in 1 .. k : i \in 0 .. k /\ i # 0
    OBVIOUS
  <2>5. InStep(k, F, f)
    BY <1>4, <1>6, <2>3, <2>4, ZenonT(30) DEF InStep
  <2> QED
    BY <2>5, LoopsAgree
<1> QED
  BY <1>1, <1>4, <1>6, <1>7, Zenon

\* Taking one bit more halves what is left.
LEMMA WithoutOneMore ==
  ASSUME NEW a \in Nat
  PROVE  /\ Without(a, 0) = a
         /\ \A k \in Nat : Without(a, k) \in Nat /\ Without(a, k + 1) = Without(a, k) \div 2
<1>1. Without(a, 0) = a
  <2>1. PICK f \in [0 .. 0 -> Nat] : f[0] = a /\ Without(a, 0) = f[0]
    BY WithoutRun, 0 \in Nat, Zenon
  <2> QED
    BY <2>1
<1>2. ASSUME NEW k \in Nat
      PROVE  Without(a, k) \in Nat /\ Without(a, k + 1) = Without(a, k) \div 2
  <2>1. PICK f \in [0 .. k -> Nat] :
          f[0] = a /\ (\A i \in 1 .. k : f[i] = f[i - 1] \div 2) /\ Without(a, k) = f[k]
    BY WithoutRun, Zenon
  <2>2. k + 1 \in Nat
    OBVIOUS
  <2>3. PICK g \in [0 .. k + 1 -> Nat] :
          g[0] = a /\ (\A i \in 1 .. k + 1 : g[i] = g[i - 1] \div 2) /\ Without(a, k + 1) = g[k + 1]
    BY <2>2, WithoutRun, Zenon
  <2>4. \A i \in 1 .. k : i \in 1 .. k + 1
    OBVIOUS
  <2>5. InStep(k, f, g)
    BY <2>1, <2>3, <2>4, ZenonT(30) DEF InStep
  <2>6. f[k] = g[k]
    BY <2>5, LoopsAgree
  <2>7. g[k + 1] = g[(k + 1) - 1] \div 2 /\ (k + 1) - 1 = k
    BY <2>3
  <2>8. f[k] \in Nat
    OBVIOUS
  <2> QED
    BY <2>1, <2>3, <2>6, <2>7, <2>8, Zenon
<1> QED
  BY <1>1, <1>2

\* An address of AddrBits bits.
IsAddress(a) == a \in Nat /\ Without(a, AddrBits) = 0

\* Two addresses agree without their last bits exactly if their first ones do.
LEMMA FirstBitsAgree ==
  ASSUME NEW a, NEW b, IsAddress(a), IsAddress(b), NEW p \in 0 .. AddrBits
  PROVE  Without(a, AddrBits - p) = Without(b, AddrBits - p) <=> \A i \in 1 .. p : Bit(a, i) = Bit(b, i)
<1> DEFINE Left(m) == Without(a, AddrBits - m) = Without(b, AddrBits - m)
           S == {m \in Nat : m <= AddrBits => (Left(m) <=> \A i \in 1 .. m : Bit(a, i) = Bit(b, i))}
<1>1. AddrBits \in Nat
  BY AddressesAssumption
<1>2. 0 \in S
  <2>1. AddrBits - 0 = AddrBits /\ 1 .. 0 = {}
    BY <1>1
  <2> QED
    BY <2>1 DEF IsAddress
<1>3. ASSUME NEW m \in Nat, m \in S PROVE m + 1 \in S
  <2> SUFFICES ASSUME m + 1 <= AddrBits
               PROVE  Left(m + 1) <=> \A i \in 1 .. m + 1 : Bit(a, i) = Bit(b, i)
    OBVIOUS
  <2>1. Left(m) <=> \A i \in 1 .. m : Bit(a, i) = Bit(b, i)
    BY <1>1, <1>3
  <2> DEFINE k == AddrBits - (m + 1)
             x == Without(a, k)
             y == Without(b, k)
  <2>2. k \in Nat /\ AddrBits - m = k + 1
    BY <1>1
  <2> HIDE DEF k
  <2>3. /\ x \in Nat /\ Without(a, AddrBits - m) = x \div 2
        /\ y \in Nat /\ Without(b, AddrBits - m) = y \div 2
    <3>1. \A c \in Nat : Without(c, k) \in Nat /\ Without(c, k + 1) = Without(c, k) \div 2
      BY <2>2, WithoutOneMore, Zenon
    <3>2. a \in Nat /\ b \in Nat
      BY DEF IsAddress
    <3> QED
      BY <2>2, <3>1, <3>2, Zenon
  <2>4. Bit(a, m + 1) = x % 2 /\ Bit(b, m + 1) = y % 2
    BY Zenon DEF Bit, k
  <2>5. Left(m + 1) <=> x = y
    BY Zenon DEF k
  <2> HIDE DEF x, y
  <2>6. x = y <=> x \div 2 = y \div 2 /\ x % 2 = y % 2
    BY <2>3
  <2>7. x = y <=> Left(m) /\ Bit(a, m + 1) = Bit(b, m + 1)
    BY <2>3, <2>4, <2>6, Zenon
  <2> HIDE DEF Left
  <2>8. (\A i \in 1 .. m + 1 : Bit(a, i) = Bit(b, i))
          <=> (\A i \in 1 .. m : Bit(a, i) = Bit(b, i)) /\ Bit(a, m + 1) = Bit(b, m + 1)
    <3>1. \A i \in 1 .. m + 1 : i \in 1 .. m \/ i = m + 1
      OBVIOUS
    <3>2. 1 .. m \subseteq 1 .. m + 1 /\ m + 1 \in 1 .. m + 1
      OBVIOUS
    <3> QED
      BY <3>1, <3>2, Zenon
  <2> QED
    BY <2>1, <2>5, <2>7, <2>8, Zenon
<1>4. Nat \subseteq S
  <2> HIDE DEF S
  <2> QED
    BY <1>2, <1>3, SetInduction
<1> QED
  BY <1>1, <1>4

\* A network holds an address whose first bits are its own.
LEMMA CidrHolds ==
  ASSUME NEW net, NEW ip, IsAddress(net.addr), IsAddress(ip), net.prefix \in 0 .. AddrBits
  PROVE  CidrContains(net, ip) <=> \A i \in 1 .. net.prefix : Bit(net.addr, i) = Bit(ip, i)
<1> DEFINE p == net.prefix
           k == AddrBits - p
<1>1. AddrBits \in Nat /\ p \in Nat /\ k \in Nat
  BY AddressesAssumption
<1>2. Without(net.addr, k) = Without(ip, k) <=> \A i \in 1 .. p : Bit(net.addr, i) = Bit(ip, i)
  BY FirstBitsAgree
<1>3. CASE p = 0
  BY <1>3 DEF CidrContains
<1>4. CASE p # 0 /\ p = AddrBits
  <2>1. k = 0 /\ ~ (p \in 1 .. AddrBits - 1) /\ p >= AddrBits
    BY <1>1, <1>4
  <2>2. Without(net.addr, 0) = net.addr /\ Without(ip, 0) = ip
    BY WithoutOneMore, Zenon DEF IsAddress
  <2> QED
    BY <1>2, <1>4, <2>1, <2>2, Zenon DEF CidrContains
<1>5. CASE p # 0 /\ p # AddrBits
  <2>1. p \in 1 .. AddrBits - 1 /\ ~ (p >= AddrBits)
    BY <1>1, <1>5
  <2> QED
    BY <1>2, <1>5, <2>1, Zenon DEF CidrContains
<1> QED
  BY <1>3, <1>4, <1>5

-----------------------------------------------------------------------------
(* Matching and filtering.                                                 *)

\* The turns of the matching loop, from the last label to the whole name.
LEMMA MatchesRun ==
  ASSUME NEW entries, NEW qname, Len(qname) \in Nat
  PROVE  \E f \in [0 .. Len(qname) -> BOOLEAN] :
           /\ f[0] <=> Parent(qname, 0) \in entries
           /\ \A k \in 1 .. Len(qname) : f[k] <=> Parent(qname, k) \in entries \/ (k > 1 /\ f[k - 1])
           /\ Matches(entries, qname) <=> entries # {} /\ f[Len(qname)]
<1> DEFINE n == Len(qname)
           In(k) == Parent(qname, k) \in entries
           Turn(k, x) == In(k) \/ (k > 1 /\ x)
           step == [p \in (1 .. n) \X BOOLEAN |-> Turn(p[1], p[2])]
           Runs(h) == h = [k \in 0 .. n |-> Turn(k, h[k - 1])]
           F == CHOOSE h : Runs(h)
<1>1. n \in Nat
  OBVIOUS
<1>2. \A k, x : Turn(k, x) \in BOOLEAN
  BY Zenon
<1>3. \A x : Turn(0, x) = In(0)
  BY SMT
<1>4. Matches(entries, qname) <=> entries # {} /\ F[n]
  BY Zenon DEF Matches
<1>5. In(0) \in BOOLEAN
  OBVIOUS
<1> HIDE DEF n
<1> HIDE DEF Turn
<1>7. step \in [(1 .. n) \X BOOLEAN -> BOOLEAN]
  BY <1>2
<1>8. \A k \in 1 .. n, x \in BOOLEAN : step[<<k, x>>] = Turn(k, x)
  BY Zenon
<1> HIDE DEF step
<1>9. PICK f \in [0 .. n -> BOOLEAN] :
        f[0] = In(0) /\ \A k \in 1 .. n : f[k] = step[<<k, f[k - 1]>>]
  <2>1. LoopRuns(BOOLEAN, In(0), n, step) # {}
    <3> HIDE DEF In
    <3> QED
      BY <1>1, <1>5, <1>7, LoopHasRun, Zenon
  <2> HIDE DEF In
  <2> QED
    BY <2>1, Zenon DEF LoopRuns
<1>10. \A k \in 1 .. n : f[k] = Turn(k, f[k - 1])
  <2>1. \A k \in 1 .. n : f[k - 1] \in BOOLEAN
    <3>1. \A k \in 1 .. n : k - 1 \in 0 .. n
      BY <1>1
    <3> QED
      BY <3>1, Zenon
  <2> QED
    BY <1>8, <1>9, <2>1, Zenon
<1> HIDE DEF In
<1>11. F[n] = f[n]
  <2>1. Runs(f)
    <3>1. \A k \in 0 .. n : k = 0 \/ k \in 1 .. n
      BY <1>1
    <3>2. \A k \in 0 .. n : f[k] = Turn(k, f[k - 1])
      BY <1>3, <1>9, <1>10, <3>1, Zenon
    <3> QED
      BY <3>2, Zenon
  <2>2. Runs(F)
    <3> HIDE DEF Runs
    <3> QED
      BY <2>1, Zenon
  <2> HIDE DEF F
  <2>3. \A k \in 0 .. n : F[k] = Turn(k, F[k - 1])
    BY <2>2, Zenon
  <2>4. 0 \in 0 .. n /\ \A k \in 1 .. n : k \in 0 .. n
    BY <1>1
  <2>5. F[0] = f[0]
    BY <1>3, <1>9, <2>3, <2>4, Zenon
  <2>6. InStep(n, F, f)
    BY <1>10, <2>3, <2>4, <2>5, Zenon DEF InStep
  <2> QED
    BY <1>1, <2>6, LoopsAgree
<1>12. ASSUME NEW k \in 1 .. n PROVE f[k] <=> In(k) \/ (k > 1 /\ f[k - 1])
  <2>2. Turn(k, f[k - 1]) <=> In(k) \/ (k > 1 /\ f[k - 1])
    BY Zenon DEF Turn
  <2>3. f[k] = Turn(k, f[k - 1])
    BY <1>10, Zenon
  <2> QED
    BY <2>2, <2>3, Zenon
<1> QED
  BY <1>4, <1>9, <1>11, <1>12, Zenon DEF n, In

\* A name and the names above it, but for the root.
Above(qname) == {qname} \cup {SubSeq(qname, i, Len(qname)) : i \in DOMAIN qname}

\* A name matches a list that has it or a name above it.
LEMMA MatchesAbove ==
  ASSUME NEW entries, NEW qname \in Names
  PROVE  Matches(entries, qname) <=> Above(qname) \cap entries # {}
<1> DEFINE n == Len(qname)
           In(k) == Parent(qname, k) \in entries
<1>1. n \in Nat /\ DOMAIN qname = 1 .. n /\ qname \in Seq(Labels)
  BY DEF Names
<1>2. Parent(qname, n) = qname
  <2>1. SubSeq(qname, 1, Len(qname)) = qname
    BY <1>1
  <2>2. Len(qname) - n + 1 = 1
    BY <1>1
  <2> QED
    BY <2>1, <2>2 DEF Parent
<1>3. \A i \in 1 .. n : n - i + 1 \in 1 .. n /\ SubSeq(qname, i, Len(qname)) = Parent(qname, n - i + 1)
  <2> SUFFICES ASSUME NEW i \in 1 .. n
               PROVE  n - i + 1 \in 1 .. n /\ SubSeq(qname, i, Len(qname)) = Parent(qname, n - i + 1)
    OBVIOUS
  <2>1. n - i + 1 \in 1 .. n /\ Len(qname) - (n - i + 1) + 1 = i
    BY <1>1
  <2> QED
    BY <2>1 DEF Parent
<1>4. \A k \in 1 .. n : n - k + 1 \in 1 .. n /\ Parent(qname, k) = SubSeq(qname, n - k + 1, Len(qname))
  BY <1>1 DEF Parent
<1>5. PICK f \in [0 .. n -> BOOLEAN] :
        /\ f[0] <=> In(0)
        /\ \A k \in 1 .. n : f[k] <=> In(k) \/ (k > 1 /\ f[k - 1])
        /\ Matches(entries, qname) <=> entries # {} /\ f[n]
  BY <1>1, MatchesRun, Zenon
<1> HIDE DEF n, In
<1> DEFINE S == {m \in Nat : m <= n /\ m > 0 => (f[m] <=> \E j \in 1 .. m : In(j))}
<1>6. 0 \in S
  OBVIOUS
<1>7. ASSUME NEW m \in Nat, m \in S PROVE m + 1 \in S
  <2> SUFFICES ASSUME m + 1 <= n PROVE f[m + 1] <=> \E j \in 1 .. m + 1 : In(j)
    OBVIOUS
  <2>1. m + 1 \in 1 .. n /\ (m + 1) - 1 = m /\ (m + 1 > 1 <=> m > 0) /\ m <= n
    BY <1>1
  <2>2. f[m + 1] <=> In(m + 1) \/ (m > 0 /\ f[m])
    <3>1. f[m + 1] <=> In(m + 1) \/ (m + 1 > 1 /\ f[(m + 1) - 1])
      BY <1>5, <2>1, Zenon
    <3> QED
      BY <2>1, <3>1, Zenon
  <2>3. m > 0 => (f[m] <=> \E j \in 1 .. m : In(j))
    BY <1>7, <2>1, Zenon
  <2>4. \A j \in 1 .. m + 1 : (m > 0 /\ j \in 1 .. m) \/ j = m + 1
    OBVIOUS
  <2>5. 1 .. m \subseteq 1 .. m + 1 /\ m + 1 \in 1 .. m + 1
    OBVIOUS
  <2>6. \A j \in 1 .. m : m > 0
    OBVIOUS
  <2> QED
    BY <2>2, <2>3, <2>4, <2>5, <2>6, Zenon
<1>8. n \in S
  <2> HIDE DEF S
  <2> QED
    BY <1>1, <1>6, <1>7, SetInduction
<1>9. CASE n = 0
  <2>1. DOMAIN qname = {}
    BY <1>1, <1>9
  <2>2. Above(qname) = {qname}
    BY <2>1, Zenon DEF Above
  <2>3. f[n] <=> qname \in entries
    BY <1>2, <1>5, <1>9, Zenon DEF In
  <2> QED
    <3>1. Above(qname) \cap entries # {} <=> qname \in entries
      BY <2>2
    <3>2. qname \in entries => entries # {}
      OBVIOUS
    <3> QED
      BY <1>5, <2>3, <3>1, <3>2, Zenon
<1>10. CASE n > 0
  <2>1. f[n] <=> \E j \in 1 .. n : In(j)
    BY <1>1, <1>8, <1>10
  <2>2. n \in 1 .. n
    BY <1>1, <1>10
  <2>3. Above(qname) = {Parent(qname, k) : k \in 1 .. n}
    BY <1>1, <1>2, <1>3, <1>4, <2>2, ZenonT(30) DEF Above
  <2> QED
    <3>1. Above(qname) \cap entries # {} <=> \E j \in 1 .. n : In(j)
      BY <2>3 DEF In
    <3>2. Above(qname) \cap entries # {} => entries # {}
      OBVIOUS
    <3> QED
      BY <1>5, <2>1, <3>1, <3>2, Zenon
<1> QED
  BY <1>1, <1>9, <1>10

\* The rules whose network has its first bits in common with an IPv4 client.
Held(rules, client) ==
  {r \in Elements(rules) :
     /\ client.v4 /\ r.net.prefix <= AddrBits
     /\ \A i \in 1 .. r.net.prefix : Bit(r.net.addr, i) = Bit(client.addr, i)}

\* Filter::new and is_blocked look at exactly these rules.
LEMMA RulesHeld ==
  ASSUME NEW rules \in Seq(ClientRules), NEW client \in Clients, NEW block, NEW allow
  PROVE  LET picked == RulesFor(NewFilter(rules, block, allow, {}).per_client, client)
         IN IF Held(rules, client) = {} THEN picked = << >>
            ELSE picked # << >> /\ picked[1] \in Held(rules, client)
<1> DEFINE parsing == {p \in Elements(rules) : ParsesAsCidr(p.net)}
           parsed == Retain(rules, parsing)
           holding == {p \in Elements(parsed) : client.v4 /\ CidrContains(p.net, client.addr)}
           picked == Retain(parsed, holding)
<1>1. parsed \in Seq(ClientRules) /\ Elements(parsed) = Elements(rules) \cap parsing
  <2> HIDE DEF parsing
  <2> QED
    BY RetainFacts DEF IsFiltered
<1>2. RulesFor(NewFilter(rules, block, allow, {}).per_client, client) = picked
  <2>1. NewFilter(rules, block, allow, {}).per_client = parsed
    BY DEF NewFilter
  <2> QED
    BY <2>1, Zenon DEF RulesFor
<1> HIDE DEF parsed
<1>3. picked \in Seq(ClientRules) /\ Elements(picked) = Elements(parsed) \cap holding
  <2> HIDE DEF holding
  <2> QED
    BY <1>1, RetainFacts DEF IsFiltered
<1> HIDE DEF picked
<1>4. \A r \in Elements(rules) : r \in ClientRules
  BY DEF Elements
<1>5. ASSUME NEW r \in Elements(rules)
      PROVE  r \in holding <=> r \in Held(rules, client)
  <2>1. /\ r.net.prefix \in 0 .. AddrBits + 1 /\ r.net.addr \in Addresses /\ AddrBits \in Nat
    BY <1>4, AddressesAssumption DEF ClientRules
  <2>2. r \in parsing <=> r.net.prefix <= AddrBits
    BY <2>1 DEF ParsesAsCidr
  <2>3. ASSUME client.v4, r.net.prefix <= AddrBits
        PROVE  CidrContains(r.net, client.addr)
                 <=> \A i \in 1 .. r.net.prefix : Bit(r.net.addr, i) = Bit(client.addr, i)
    <3>1. client.addr \in Addresses
      <4>1. CASE client \in [v4 : {TRUE}, addr : Addresses]
        BY <4>1
      <4>2. client # [v4 |-> FALSE]
        BY <2>3
      <4> QED
        BY <4>1, <4>2, Zenon DEF Clients
    <3>2. IsAddress(r.net.addr) /\ IsAddress(client.addr)
      BY <2>1, <3>1, AddressesAssumption, Zenon DEF IsAddress
    <3>3. r.net.prefix \in 0 .. AddrBits
      BY <2>1, <2>3
    <3> QED
      BY <3>2, <3>3, CidrHolds
  <2> HIDE DEF parsing
  <2> QED
    BY <1>1, <2>2, <2>3, Zenon DEF Held
<1>6. Elements(picked) = Held(rules, client)
  <2>1. holding \subseteq Elements(rules) /\ holding \subseteq Elements(parsed)
    BY <1>1
  <2>2. Held(rules, client) \subseteq Elements(rules)
    BY DEF Held
  <2> HIDE DEF holding
  <2> QED
    BY <1>3, <1>5, <2>1, <2>2, Zenon
<1>7. picked = << >> \/ (picked # << >> /\ 1 \in 1 .. Len(picked))
  BY <1>3
<1>8. picked = << >> => Elements(picked) = {}
  BY DEF Elements
<1>9. 1 \in 1 .. Len(picked) => picked[1] \in Elements(picked)
  BY Zenon DEF Elements
<1> QED
  BY <1>2, <1>6, <1>7, <1>8, <1>9, Zenon

\* What is_blocked decides.
LEMMA BlockedBy ==
  ASSUME NEW rules \in Seq(ClientRules), NEW client \in Clients, NEW block, NEW allow, NEW qname \in Names
  PROVE  LET blocked == IsBlocked(NewFilter(rules, block, allow, {}), qname, client)
         IN IF Held(rules, client) = {}
            THEN blocked <=> Above(qname) \cap block # {} /\ Above(qname) \cap allow = {}
            ELSE \E r \in Held(rules, client) : blocked <=> r.block
<1> DEFINE filter == NewFilter(rules, block, allow, {})
           picked == RulesFor(filter.per_client, client)
           blocked == IsBlocked(filter, qname, client)
<1>1. IF Held(rules, client) = {} THEN picked = << >>
      ELSE picked # << >> /\ picked[1] \in Held(rules, client)
  BY RulesHeld, Zenon
<1>2. filter.regex = {} /\ filter.block = block /\ filter.allow = allow
  BY DEF NewFilter
<1> HIDE DEF filter
<1>3. blocked <=> IF picked # << >> THEN picked[1].block
                  ELSE qname \in filter.regex \/ ListBlocks(filter.block, filter.allow, qname)
  BY Zenon DEF IsBlocked
<1>4. ListBlocks(block, allow, qname) <=> Above(qname) \cap block # {} /\ Above(qname) \cap allow = {}
  BY MatchesAbove, Zenon DEF ListBlocks
<1> HIDE DEF picked, blocked
<1>5. qname \notin {}
  OBVIOUS
<1> QED
  BY <1>1, <1>2, <1>3, <1>4, <1>5, Zenon DEF filter, blocked

\* The filter blocks what its rules and lists say, and the handler answers it so.
THEOREM FilterIsRight == AlgSpec => []FilterDecides
<1>1. ASSUME WellTyped PROVE FilterDecides
  <2> DEFINE filter == NewFilter(input.rules, input.block, input.allow, {})
             held == Held(input.rules, input.client)
             listed(qname) == Above(qname) \cap input.block # {} /\ Above(qname) \cap input.allow = {}
             verdict(qname) == IF held = {} THEN {listed(qname)} ELSE {r.block : r \in held}
             kind == input.datagram.kind
             asked == input.datagram.qname
             blocked == IsBlocked(filter, asked, input.client)
             reply == HandleQuery(filter, input.datagram, input.client, input.lookup)
  <2> SUFFICES ASSUME input.of = "filter"
               PROVE  /\ reply.sent <=> kind # "garbled"
                      /\ kind = "question" =>
                           /\ verdict(asked) = {TRUE} => reply.code = "NXDomain"
                           /\ verdict(asked) = {FALSE} =>
                                reply.code = IF input.lookup = "error" THEN "ServFail" ELSE "NoError"
    BY Zenon DEF FilterDecides, Held, Above
  <2>1. input.rules \in Seq(ClientRules) /\ input.client \in Clients /\ input.datagram \in AnyDatagram
    BY <1>1 DEF WellTyped
  <2>2. reply = IF kind = "garbled" THEN [sent |-> FALSE]
                ELSE IF kind = "bare" THEN [sent |-> TRUE, code |-> "FormErr"]
                ELSE IF blocked THEN [sent |-> TRUE, code |-> "NXDomain"]
                ELSE IF input.lookup = "error" THEN [sent |-> TRUE, code |-> "ServFail"]
                ELSE [sent |-> TRUE, code |-> "NoError", answers |-> input.lookup]
    BY Zenon DEF HandleQuery
  <2> HIDE DEF reply
  <2>3. reply.sent <=> kind # "garbled"
    <3> HIDE DEF blocked, kind
    <3> QED
      BY <2>2
  <2>4. ASSUME kind = "question"
        PROVE  /\ blocked => reply.code = "NXDomain"
               /\ ~ blocked => reply.code = IF input.lookup = "error" THEN "ServFail" ELSE "NoError"
    <3> HIDE DEF blocked, kind
    <3> QED
      BY <2>2, <2>4
  <2>5. kind = "question" => asked \in Names
    BY <2>1 DEF AnyDatagram
  <2>6. ASSUME kind = "question"
        PROVE  IF held = {} THEN blocked <=> listed(asked) ELSE \E r \in held : blocked <=> r.block
    <3> HIDE DEF asked, kind
    <3> QED
      BY <2>1, <2>5, <2>6, BlockedBy
  <2>7. \A r \in held : r.block \in BOOLEAN
    <3>1. \A r \in held : r \in ClientRules
      BY <2>1 DEF Held, Elements
    <3> HIDE DEF held
    <3> QED
      BY <3>1 DEF ClientRules
  <2>8. listed(asked) \in BOOLEAN
    BY Zenon
  <2> HIDE DEF blocked, held, listed, kind, asked
  <2>9. ASSUME kind = "question", NEW b \in BOOLEAN, verdict(asked) = {b}
        PROVE  blocked <=> b
    <3>1. CASE held = {}
      <4>1. listed(asked) = b
        BY <2>9, <3>1
      <4> QED
        BY <2>6, <2>9, <3>1, <4>1, Zenon
    <3>2. CASE held # {}
      <4>1. PICK r \in held : blocked <=> r.block
        BY <2>6, <2>9, <3>2, Zenon
      <4>2. r.block = b
        BY <2>9, <3>2, <4>1
      <4> QED
        BY <4>1, <4>2, Zenon
    <3> QED
      BY <3>1, <3>2
  <2> HIDE DEF verdict
  <2> QED
    BY <2>3, <2>4, <2>9, Zenon
<1> QED
  BY <1>1, InputsWellTyped, PTL

-----------------------------------------------------------------------------
(* Loading lists.  Whatever a source holds, load_source takes a sound       *)
(* state of the loading to a sound one; by induction on the levels it may   *)
(* still descend, and over the lines of a list.                             *)

\* What a text may be, and what the sources may hold.
Text == Seq(Lines) \cup {Unreadable}
TextsOf == [Sources -> Text]

\* The lines of some kinds.
LEMMA LinesOfFacts ==
  ASSUME NEW text \in Seq(Lines), NEW kinds
  PROVE  /\ LinesOf(text, kinds) \in Seq(Lines)
         /\ Elements(LinesOf(text, kinds)) = {l \in Elements(text) : l.kind \in kinds}
         /\ Elements(text) \subseteq Lines
<1> DEFINE S == {l \in Elements(text) : l.kind \in kinds}
<1>1. LinesOf(text, kinds) \in Seq(Lines) /\ Elements(LinesOf(text, kinds)) = Elements(text) \cap S
  <2> HIDE DEF S
  <2>1. LinesOf(text, kinds) = Retain(text, S)
    BY Zenon DEF LinesOf, S
  <2> QED
    BY <2>1, RetainFacts DEF IsFiltered
<1>2. Elements(text) \subseteq Lines
  BY DEF Elements
<1> QED
  BY <1>1, <1>2, Zenon

\* A list names sources and names.
LEMMA ListHolds ==
  ASSUME NEW text \in Seq(Lines)
  PROVE  SourcesIn(text) \in Seq(Sources) /\ ParseHosts(text) \in SUBSET Names
<1> DEFINE styles == {"ipv4", "ipv6", "adguard", "exception"}
           lines == LinesOf(text, {"source"})
<1>1. \A l \in Lines : /\ l.kind \in {"source"} => l.source \in Sources
                       /\ l.kind \in styles => l.name \in Names
  BY DEF Lines, SourceLine, Comment
<1>2. lines \in Seq(Lines) /\ \A l \in Elements(lines) : l \in Lines /\ l.kind \in {"source"}
  BY LinesOfFacts
<1>3. \A l \in Elements(LinesOf(text, styles)) : l \in Lines /\ l.kind \in styles
  <2> HIDE DEF styles
  <2> QED
    BY LinesOfFacts, Zenon
<1>4. SourcesIn(text) = [i \in DOMAIN lines |-> lines[i].source]
  BY Zenon DEF SourcesIn
<1>5. SourcesIn(text) \in Seq(Sources)
  <2> HIDE DEF lines, styles
  <2>1. DOMAIN lines = 1 .. Len(lines) /\ Len(lines) \in Nat
    BY <1>2
  <2>2. \A i \in 1 .. Len(lines) : lines[i].source \in Sources
    BY <1>1, <1>2, Zenon DEF Elements
  <2>3. SourcesIn(text) \in [1 .. Len(lines) -> Sources]
    BY <1>4, <2>1, <2>2, Zenon
  <2> QED
    BY <2>1, <2>3
<1>6. ParseHosts(text) \in SUBSET Names
  <2>1. ParseHosts(text) = {l.name : l \in Elements(LinesOf(text, styles))} \ LocalNames
    BY Zenon DEF ParseHosts
  <2> HIDE DEF styles
  <2> QED
    BY <1>1, <1>3, <2>1, Zenon
<1> QED
  BY <1>5, <1>6

\* A function that load_source may be called as.
Loads == [Sources \X Loading -> Loading]

\* The turns of a loop that loads one source after the other.
LEMMA LoadEachRun ==
  ASSUME NEW load \in Loads, NEW sources \in Seq(Sources), NEW st \in Loading
  PROVE  \E f \in [0 .. Len(sources) -> Loading] :
           /\ f[0] = st /\ \A i \in 1 .. Len(sources) : f[i] = load[sources[i], f[i - 1]]
           /\ LoadEach(load, sources, st) = f[Len(sources)]
<1> DEFINE n == Len(sources)
           Turn(i, x) == load[sources[i], x]
           step == [p \in (1 .. n) \X Loading |-> Turn(p[1], p[2])]
           Runs(h) == h = [i \in 0 .. n |-> IF i = 0 THEN st ELSE Turn(i, h[i - 1])]
           F == CHOOSE h : Runs(h)
<1>1. n \in Nat /\ \A i \in 1 .. n : sources[i] \in Sources
  OBVIOUS
<1>2. \A i \in 1 .. n, x \in Loading : Turn(i, x) \in Loading
  BY <1>1, Zenon DEF Loads
<1>3. LoadEach(load, sources, st) = F[n]
  BY Zenon DEF LoadEach
<1> HIDE DEF Turn, n
<1>4. step \in [(1 .. n) \X Loading -> Loading]
  BY <1>2
<1>5. \A i \in 1 .. n, x \in Loading : step[<<i, x>>] = Turn(i, x)
  BY Zenon
<1> HIDE DEF step
<1>6. PICK f \in [0 .. n -> Loading] :
        f[0] = st /\ \A i \in 1 .. n : f[i] = step[<<i, f[i - 1]>>]
  <2>1. LoopRuns(Loading, st, n, step) # {}
    BY <1>1, <1>4, LoopHasRun, Zenon
  <2> QED
    BY <2>1, Zenon DEF LoopRuns
<1>7. \A i \in 1 .. n : f[i - 1] \in Loading
  <2>1. \A i \in 1 .. n : i - 1 \in 0 .. n
    BY <1>1
  <2> QED
    BY <2>1, Zenon
<1>8. \A i \in 1 .. n : f[i] = Turn(i, f[i - 1])
  BY <1>5, <1>6, <1>7, Zenon
<1>9. F[n] = f[n]
  <2>1. Runs(f)
    <3>1. \A i \in 0 .. n : i = 0 \/ (i # 0 /\ i \in 1 .. n)
      BY <1>1
    <3>2. \A i \in 0 .. n : f[i] = IF i = 0 THEN st ELSE Turn(i, f[i - 1])
      BY <1>6, <1>8, <3>1, Zenon
    <3> QED
      BY <3>2, Zenon
  <2>2. Runs(F)
    <3> HIDE DEF Runs
    <3> QED
      BY <2>1, Zenon
  <2> HIDE DEF F
  <2>3. \A i \in 0 .. n : F[i] = IF i = 0 THEN st ELSE Turn(i, F[i - 1])
    BY <2>2, Zenon
  <2>4. 0 \in 0 .. n /\ \A i \in 1 .. n : i \in 0 .. n /\ i # 0
    BY <1>1
  <2>5. InStep(n, F, f)
    BY <1>6, <1>8, <2>3, <2>4, ZenonT(30) DEF InStep
  <2> QED
    BY <1>1, <2>5, LoopsAgree
<1> QED
  BY <1>3, <1>6, <1>8, <1>9, Zenon DEF n, Turn

\* A loop that loads sources ends in a state of the loading.
LEMMA LoadEachType ==
  ASSUME NEW load \in Loads, NEW sources \in Seq(Sources), NEW st \in Loading
  PROVE  LoadEach(load, sources, st) \in Loading
<1>1. PICK f \in [0 .. Len(sources) -> Loading] : LoadEach(load, sources, st) = f[Len(sources)]
  BY LoadEachRun, Zenon
<1>2. Len(sources) \in 0 .. Len(sources)
  OBVIOUS
<1> QED
  BY <1>1, <1>2, Zenon

\* Sources of which each expands to the next, from a configured one.
Chain(texts, roots, q) ==
  /\ q \in Seq(Sources) /\ Len(q) > 0 /\ q[1] \in Elements(roots)
  /\ \A i \in 1 .. Len(q) - 1 : q[i + 1] \in Expands(texts, q[i])

\* The end of such a chain without a repetition, within the limit.
Reached(texts, roots, s) ==
  \E q : Chain(texts, roots, q) /\ Distinct(q) /\ Len(q) <= META_MAX_DEPTH + 1 /\ q[Len(q)] = s

\* A state of the loading that is right so far: sources are read once, within
\* the limit, the names are those of the sources read and, if lists nest no
\* deeper than allowed, whatever was visited has been read.
Sound(texts, roots, st) ==
  /\ st \in Loading
  /\ Distinct(st.read) /\ Elements(st.read) \subseteq st.visited
  /\ \A s \in Elements(st.read) : Reached(texts, roots, s)
  /\ st.entries = HostsIn(texts, Elements(st.read))
  /\ ~ NestsTooDeep(texts, roots) => st.visited \subseteq Elements(st.read)

\* When load_source is called on s: the lists it is nested in are visited.
Callable(texts, roots, s, depth, visited) ==
  \E p \in Seq(Sources) :
    /\ Len(p) = depth /\ Distinct(p) /\ Elements(p) \subseteq visited
    /\ Chain(texts, roots, Append(p, s))

\* What a call does to the state: it stays sound, nothing is forgotten and, if
\* lists nest no deeper than allowed, what a new source expands to is visited.
Grown(texts, roots, old, new) ==
  /\ Sound(texts, roots, new)
  /\ old.visited \subseteq new.visited
  /\ ~ NestsTooDeep(texts, roots) =>
       \A t \in new.visited \ old.visited : Expands(texts, t) \subseteq new.visited

\* load is right wherever load_source may call it at some depth.
LoadsSoundly(texts, roots, load, depth) ==
  \A s \in Sources, st \in Loading :
    Sound(texts, roots, st) /\ Callable(texts, roots, s, depth, st.visited) =>
      Grown(texts, roots, st, load[s, st]) /\ s \in load[s, st].visited

\* A loop of right calls is right, and visits all it is given.
LEMMA LoadEachGrows ==
  ASSUME NEW texts, NEW roots, NEW load \in Loads, NEW depth, LoadsSoundly(texts, roots, load, depth),
         NEW sources \in Seq(Sources), NEW st \in Loading, Sound(texts, roots, st),
         \A i \in 1 .. Len(sources) : Callable(texts, roots, sources[i], depth, st.visited)
  PROVE  /\ Grown(texts, roots, st, LoadEach(load, sources, st))
         /\ Elements(sources) \subseteq LoadEach(load, sources, st).visited
<1> DEFINE n == Len(sources)
<1>1. n \in Nat /\ \A i \in 1 .. n : sources[i] \in Sources
  OBVIOUS
<1>2. PICK f \in [0 .. n -> Loading] :
        /\ f[0] = st /\ \A i \in 1 .. n : f[i] = load[sources[i], f[i - 1]]
        /\ LoadEach(load, sources, st) = f[n]
  BY LoadEachRun, Zenon
<1> DEFINE Right(m) == Grown(texts, roots, st, f[m]) /\ \A j \in 1 .. m : sources[j] \in f[m].visited
           S == {m \in Nat : m <= n => Right(m)}
<1>3. \A i \in 1 .. n : Callable(texts, roots, sources[i], depth, st.visited)
  OBVIOUS
<1> HIDE DEF n
<1>4. 0 \in S
  <2>1. Grown(texts, roots, st, st)
    BY Zenon DEF Grown
  <2>2. 1 .. 0 = {}
    OBVIOUS
  <2> QED
    BY <1>2, <2>1, <2>2
<1>5. ASSUME NEW m \in Nat, m \in S PROVE m + 1 \in S
  <2> SUFFICES ASSUME m + 1 <= n PROVE Right(m + 1)
    OBVIOUS
  <2> DEFINE old == f[m]
             new == f[m + 1]
             s == sources[m + 1]
  <2>1. Right(m) /\ m + 1 \in 1 .. n /\ m \in 0 .. n /\ (m + 1) - 1 = m
    BY <1>1, <1>5
  <2>2. new = load[s, old] /\ old \in Loading /\ s \in Sources
    BY <1>1, <1>2, <2>1, Zenon
  <2>3. Grown(texts, roots, st, old)
    BY <2>1, Zenon
  <2>4. Callable(texts, roots, s, depth, old.visited)
    <3>1. Callable(texts, roots, s, depth, st.visited)
      BY <1>3, <2>1, Zenon
    <3>2. st.visited \subseteq old.visited
      BY <2>3, Zenon DEF Grown
    <3> HIDE DEF old, s
    <3> QED
      BY <3>1, <3>2, Zenon DEF Callable
  <2>5. Grown(texts, roots, old, new) /\ s \in new.visited
    BY <2>2, <2>3, <2>4, Zenon DEF LoadsSoundly, Grown
  <2>6. \A j \in 1 .. m : sources[j] \in old.visited
    BY <2>1, Zenon
  <2>7. \A j \in 1 .. m + 1 : j \in 1 .. m \/ j = m + 1
    OBVIOUS
  <2> HIDE DEF old, new
  <2>8. Grown(texts, roots, st, new)
    BY <2>3, <2>5, ZenonT(30) DEF Grown
  <2>9. \A j \in 1 .. m + 1 : sources[j] \in new.visited
    BY <2>5, <2>6, <2>7, Zenon DEF Grown
  <2> QED
    BY <2>8, <2>9, Zenon DEF new
<1>6. n \in S
  <2> HIDE DEF S
  <2> QED
    BY <1>1, <1>4, <1>5, SetInduction
<1>7. Right(n)
  BY <1>1, <1>6
<1> QED
  BY <1>2, <1>7, Zenon DEF n, Elements

\* The names of one more source.
LEMMA HostsOfOneMore ==
  ASSUME NEW texts, NEW sources, NEW s
  PROVE  HostsIn(texts, sources \cup {s}) = HostsIn(texts, sources) \cup HostsIn(texts, {s})
BY Zenon DEF HostsIn

\* Reading a source that is not visited yet, with the names it holds.
LEMMA ReadingIsSound ==
  ASSUME NEW texts, NEW roots, NEW st, Sound(texts, roots, st),
         NEW s \in Sources, s \notin st.visited, Reached(texts, roots, s),
         NEW new \in Loading, new.visited = st.visited \cup {s}, new.read = Append(st.read, s),
         new.entries = st.entries \cup HostsIn(texts, {s})
  PROVE  Sound(texts, roots, new)
<1>1. st.read \in Seq(Sources)
  BY DEF Sound, Loading
<1>2. Elements(new.read) = Elements(st.read) \cup {s}
  BY <1>1, PushFacts
<1>3. Distinct(new.read)
  <2>1. Distinct(st.read) /\ s \notin Elements(st.read)
    BY Zenon DEF Sound
  <2> QED
    BY <1>1, <2>1, PushFacts
<1>4. new.entries = HostsIn(texts, Elements(new.read))
  <2> DEFINE R == Elements(st.read)
  <2> HIDE DEF R
  <2>1. HostsIn(texts, R \cup {s}) = HostsIn(texts, R) \cup HostsIn(texts, {s})
    BY HostsOfOneMore, Zenon
  <2>2. st.entries = HostsIn(texts, R)
    BY Zenon DEF Sound, R
  <2>3. Elements(new.read) = R \cup {s}
    BY <1>2, Zenon DEF R
  <2> QED
    BY <2>1, <2>2, <2>3, Zenon
<1>5. Elements(new.read) \subseteq new.visited
  BY <1>2, Zenon DEF Sound
<1>6. \A t \in Elements(new.read) : Reached(texts, roots, t)
  BY <1>2, Zenon DEF Sound
<1>7. ~ NestsTooDeep(texts, roots) => new.visited \subseteq Elements(new.read)
  BY <1>2, Zenon DEF Sound
<1> QED
  BY <1>3, <1>4, <1>5, <1>6, <1>7, Zenon DEF Sound

\* Assigning the field visited of the state.
LEMMA SetVisited ==
  ASSUME NEW st \in Loading, NEW x
  PROVE  [st EXCEPT !.visited = x] = [entries |-> st.entries, visited |-> x, read |-> st.read]
BY DEF Loading

\* The same for the sources read.
LEMMA SetRead ==
  ASSUME NEW e, NEW v, NEW r, NEW x
  PROVE  [[entries |-> e, visited |-> v, read |-> r] EXCEPT !.read = x] = [entries |-> e, visited |-> v, read |-> x]
OBVIOUS

\* The states load_source passes through before it looks at the text.
LEMMA Marking ==
  ASSUME NEW st \in Loading, NEW s \in Sources
  PROVE  LET seen == Visit(st, s)
             read == [seen EXCEPT !.read = Append(@, s)]
         IN /\ seen \in Loading /\ read \in Loading
            /\ seen.visited = st.visited \cup {s} /\ seen.read = st.read /\ seen.entries = st.entries
            /\ read.visited = st.visited \cup {s} /\ read.read = Append(st.read, s) /\ read.entries = st.entries
<1> DEFINE seen == Visit(st, s)
           read == [seen EXCEPT !.read = Append(@, s)]
<1>1. st.entries \in SUBSET Names /\ st.visited \in SUBSET Sources /\ st.read \in Seq(Sources)
  BY DEF Loading
<1>2. seen = [entries |-> st.entries, visited |-> st.visited \cup {s}, read |-> st.read]
  BY SetVisited, Zenon DEF Visit
<1> HIDE DEF seen
<1>3. read = [entries |-> st.entries, visited |-> st.visited \cup {s}, read |-> Append(st.read, s)]
  BY <1>2, SetRead, Zenon
<1> HIDE DEF read
<1>4. seen \in Loading
  BY <1>1, <1>2 DEF Loading
<1>5. Append(st.read, s) \in Seq(Sources)
  BY <1>1, PushedAt
<1>6. read \in Loading
  BY <1>1, <1>3, <1>5 DEF Loading
<1>7. /\ seen.visited = st.visited \cup {s} /\ seen.read = st.read /\ seen.entries = st.entries
      /\ read.visited = st.visited \cup {s} /\ read.read = Append(st.read, s) /\ read.entries = st.entries
  BY <1>2, <1>3
<1> QED
  BY <1>4, <1>6, <1>7, Zenon DEF seen, read

\* Adding the names of a list.
LEMMA Entering ==
  ASSUME NEW st \in Loading, NEW names \in SUBSET Names
  PROVE  LET new == [st EXCEPT !.entries = @ \cup names]
         IN /\ new \in Loading
            /\ new.visited = st.visited /\ new.read = st.read /\ new.entries = st.entries \cup names
BY DEF Loading

\* load_source ends in a state of the loading.
LEMMA LoadOneType ==
  ASSUME NEW text \in Text, NEW s \in Sources, NEW st \in Loading, NEW depth, NEW deeper,
         ~ TooDeep(depth) => deeper \in Loads
  PROVE  LoadOne(text, s, st, depth, deeper) \in Loading
<1> DEFINE seen == Visit(st, s)
           read == [seen EXCEPT !.read = Append(@, s)]
<1>1. seen \in Loading /\ read \in Loading
  BY Marking, Zenon
<1>2. LoadOne(text, s, st, depth, deeper) =
        IF s \in st.visited THEN st
        ELSE IF TooDeep(depth) THEN seen
        ELSE IF text = Unreadable THEN read
        ELSE IF LooksLikeMetaList(text) THEN LoadEach(deeper, SourcesIn(text), read)
        ELSE [read EXCEPT !.entries = @ \cup ParseHosts(text)]
  BY Zenon DEF LoadOne
<1> HIDE DEF seen, read
<1>3. ASSUME text # Unreadable
      PROVE  SourcesIn(text) \in Seq(Sources) /\ ParseHosts(text) \in SUBSET Names
  BY <1>3, ListHolds, Zenon DEF Text
<1>4. ASSUME text # Unreadable, ~ TooDeep(depth)
      PROVE  LoadEach(deeper, SourcesIn(text), read) \in Loading
  BY <1>1, <1>3, <1>4, LoadEachType, Zenon
<1>5. ASSUME text # Unreadable PROVE [read EXCEPT !.entries = @ \cup ParseHosts(text)] \in Loading
  BY <1>1, <1>3, <1>5, Entering, Zenon
<1> QED
  BY <1>1, <1>2, <1>4, <1>5, Zenon

\* A chain is one that a further source may extend.
LEMMA ChainExtends ==
  ASSUME NEW texts, NEW roots, NEW q, Chain(texts, roots, q), NEW c \in Sources,
         c \in Expands(texts, q[Len(q)])
  PROVE  Chain(texts, roots, Append(q, c))
<1> DEFINE r == Append(q, c)
           n == Len(q)
<1>1. q \in Seq(Sources) /\ n \in Nat /\ n > 0 /\ q[1] \in Elements(roots)
  BY DEF Chain
<1>2. r \in Seq(Sources) /\ Len(r) = n + 1 /\ (\A i \in 1 .. n : r[i] = q[i]) /\ r[n + 1] = c
  <2> HIDE DEF n
  <2> QED
    BY <1>1, PushedAt DEF n
<1> HIDE DEF r
<1>3. \A i \in 1 .. n - 1 : q[i + 1] \in Expands(texts, q[i])
  BY Zenon DEF Chain
<1>4. ASSUME NEW i \in 1 .. Len(r) - 1 PROVE r[i + 1] \in Expands(texts, r[i])
  <2> HIDE DEF n
  <2>1. i \in 1 .. n
    BY <1>1, <1>2
  <2>2. r[i] = q[i]
    BY <1>2, <2>1, Zenon
  <2>3. CASE i = n
    BY <1>2, <2>2, <2>3, Zenon DEF n
  <2>4. CASE i # n
    <3>1. i \in 1 .. n - 1 /\ i + 1 \in 1 .. n
      BY <1>1, <2>1, <2>4
    <3>2. r[i + 1] = q[i + 1]
      BY <1>2, <3>1, Zenon
    <3> QED
      BY <1>3, <2>2, <3>1, <3>2, Zenon
  <2> QED
    BY <2>3, <2>4
<1>5. r[1] = q[1] /\ Len(r) > 0
  BY <1>1, <1>2
<1> QED
  BY <1>1, <1>2, <1>4, <1>5, Zenon DEF Chain, r

\* The chain that leads to a source that is not visited yet.
LEMMA ChainToNew ==
  ASSUME NEW texts, NEW roots, NEW s \in Sources, NEW depth \in Nat, NEW visited,
         s \notin visited, Callable(texts, roots, s, depth, visited)
  PROVE  \E q \in Seq(Sources) :
           /\ Chain(texts, roots, q) /\ Distinct(q) /\ Len(q) = depth + 1 /\ q[Len(q)] = s
           /\ Elements(q) \subseteq visited \cup {s}
<1>1. PICK p \in Seq(Sources) :
        /\ Len(p) = depth /\ Distinct(p) /\ Elements(p) \subseteq visited
        /\ Chain(texts, roots, Append(p, s))
  BY Zenon DEF Callable
<1> DEFINE q == Append(p, s)
<1>2. /\ q \in Seq(Sources) /\ Len(q) = Len(p) + 1 /\ q[Len(p) + 1] = s
  BY PushedAt, Zenon
<1>3. Elements(q) = Elements(p) \cup {s} /\ (Distinct(p) /\ s \notin Elements(p) => Distinct(q))
  BY PushFacts, Zenon
<1> HIDE DEF q
<1>4. Distinct(q) /\ Elements(q) \subseteq visited \cup {s}
  BY <1>1, <1>3, Zenon
<1> QED
  BY <1>1, <1>2, <1>4, Zenon DEF q

\* The names and the lists that one source contributes.
LEMMA OneSource ==
  ASSUME NEW texts, NEW s
  PROVE  /\ texts[s] = Unreadable => HostsIn(texts, {s}) = {} /\ Expands(texts, s) = {}
         /\ texts[s] # Unreadable /\ LooksLikeMetaList(texts[s]) =>
              HostsIn(texts, {s}) = {} /\ Expands(texts, s) = Elements(SourcesIn(texts[s]))
         /\ texts[s] # Unreadable /\ ~ LooksLikeMetaList(texts[s]) =>
              HostsIn(texts, {s}) = ParseHosts(texts[s]) /\ Expands(texts, s) = {}
BY Zenon DEF HostsIn, Expands

\* One call of load_source is right if the calls it makes are.
LEMMA LoadOneGrows ==
  ASSUME NEW texts \in TextsOf, NEW roots, NEW s \in Sources, NEW st \in Loading, Sound(texts, roots, st),
         NEW depth \in 0 .. META_MAX_DEPTH + 1, Callable(texts, roots, s, depth, st.visited), NEW deeper,
         depth <= META_MAX_DEPTH => deeper \in Loads /\ LoadsSoundly(texts, roots, deeper, depth + 1)
  PROVE  LET new == LoadOne(texts[s], s, st, depth, deeper)
         IN Grown(texts, roots, st, new) /\ s \in new.visited
<1> DEFINE text == texts[s]
           seen == Visit(st, s)
           read == [seen EXCEPT !.read = Append(@, s)]
           new == LoadOne(text, s, st, depth, deeper)
<1>1. /\ seen \in Loading /\ read \in Loading
      /\ seen.visited = st.visited \cup {s} /\ seen.read = st.read /\ seen.entries = st.entries
      /\ read.visited = st.visited \cup {s} /\ read.read = Append(st.read, s) /\ read.entries = st.entries
  BY Marking, Zenon
<1>2. new = IF s \in st.visited THEN st
            ELSE IF TooDeep(depth) THEN seen
            ELSE IF text = Unreadable THEN read
            ELSE IF LooksLikeMetaList(text) THEN LoadEach(deeper, SourcesIn(text), read)
            ELSE [read EXCEPT !.entries = @ \cup ParseHosts(text)]
  BY Zenon DEF LoadOne
<1>3. text \in Text
  BY Zenon DEF TextsOf
<1>4. META_MAX_DEPTH \in Nat /\ depth \in Nat
  BY TextsAssumption
<1> HIDE DEF seen, read, new, text
<1>5. CASE s \in st.visited
  <2>1. new = st
    BY <1>2, <1>5, Zenon
  <2> QED
    BY <1>5, <2>1, Zenon DEF Grown, new, text
<1>6. CASE s \notin st.visited
  <2>1. PICK q \in Seq(Sources) :
          /\ Chain(texts, roots, q) /\ Distinct(q) /\ Len(q) = depth + 1 /\ q[Len(q)] = s
          /\ Elements(q) \subseteq st.visited \cup {s}
    <3>1. depth \in Nat /\ s \notin st.visited /\ Callable(texts, roots, s, depth, st.visited)
      BY <1>4, <1>6, Zenon
    <3> QED
      BY <3>1, ChainToNew
  <2>2. CASE depth > META_MAX_DEPTH
    <3>1. new = seen
      BY <1>2, <1>6, <2>2, Zenon DEF TooDeep
    <3>2. NestsTooDeep(texts, roots)
      <4>1. depth = META_MAX_DEPTH + 1 /\ Len(q) = META_MAX_DEPTH + 2 /\ Len(q) - 1 = META_MAX_DEPTH + 1
        BY <1>4, <2>1, <2>2
      <4>2. q \in [1 .. META_MAX_DEPTH + 2 -> Sources]
        BY <4>1, LengthOf, Zenon
      <4>3. q[1] \in Elements(roots) /\ \A i \in 1 .. META_MAX_DEPTH + 1 : q[i + 1] \in Expands(texts, q[i])
        BY <2>1, <4>1, Zenon DEF Chain
      <4> QED
        BY <2>1, <4>2, <4>3, Zenon DEF NestsTooDeep
    <3>3. Sound(texts, roots, seen)
      <4>1. Elements(seen.read) \subseteq seen.visited
        BY <1>1, Zenon DEF Sound
      <4> QED
        BY <1>1, <3>2, <4>1, Zenon DEF Sound
    <3>4. st.visited \subseteq seen.visited /\ s \in seen.visited
      BY <1>1, Zenon
    <3> QED
      BY <3>1, <3>2, <3>3, <3>4, Zenon DEF Grown, new, text
  <2>3. CASE ~ (depth > META_MAX_DEPTH)
    <3>1. depth <= META_MAX_DEPTH /\ depth + 1 <= META_MAX_DEPTH + 1
      BY <1>4, <2>3
    <3>2. Reached(texts, roots, s)
      BY <2>1, <3>1, Zenon DEF Reached
    <3>3. new = IF text = Unreadable THEN read
                ELSE IF LooksLikeMetaList(text) THEN LoadEach(deeper, SourcesIn(text), read)
                ELSE [read EXCEPT !.entries = @ \cup ParseHosts(text)]
      BY <1>2, <1>6, <2>3, Zenon DEF TooDeep
    <3>4. ASSUME NEW x \in Loading, x.visited = st.visited \cup {s}, x.read = Append(st.read, s),
                 x.entries = st.entries \cup HostsIn(texts, {s}), Expands(texts, s) = {}
          PROVE  Grown(texts, roots, st, x) /\ s \in x.visited
      <4>1. Sound(texts, roots, x)
        BY <1>6, <3>2, <3>4, ReadingIsSound, Zenon
      <4>2. \A t \in x.visited \ st.visited : t = s
        BY <3>4, Zenon
      <4>3. st.visited \subseteq x.visited /\ s \in x.visited /\ {} \subseteq x.visited
        BY <3>4, Zenon
      <4> QED
        BY <3>4, <4>1, <4>2, <4>3, Zenon DEF Grown
    <3>5. CASE text = Unreadable
      <4>1. new = read
        BY <3>3, <3>5, Zenon
      <4>2. HostsIn(texts, {s}) = {} /\ Expands(texts, s) = {}
        BY <3>5, OneSource, Zenon DEF text
      <4>3. read.entries = st.entries \cup HostsIn(texts, {s})
        BY <1>1, <4>2, Zenon
      <4> QED
        BY <1>1, <3>4, <4>1, <4>2, <4>3, Zenon DEF new, text
    <3>6. CASE text # Unreadable /\ ~ LooksLikeMetaList(text)
      <4> DEFINE x == [read EXCEPT !.entries = @ \cup ParseHosts(text)]
      <4>1. new = x
        BY <3>3, <3>6, Zenon
      <4>2. HostsIn(texts, {s}) = ParseHosts(text) /\ Expands(texts, s) = {}
        BY <3>6, OneSource, Zenon DEF text
      <4>3. ParseHosts(text) \in SUBSET Names
        BY <1>3, <3>6, ListHolds, Zenon DEF Text
      <4>4. /\ x \in Loading
            /\ x.visited = read.visited /\ x.read = read.read /\ x.entries = read.entries \cup ParseHosts(text)
        BY <1>1, <4>3, Entering, Zenon
      <4> HIDE DEF x
      <4>5. /\ x.visited = st.visited \cup {s} /\ x.read = Append(st.read, s)
            /\ x.entries = st.entries \cup HostsIn(texts, {s})
        BY <1>1, <4>2, <4>4, Zenon
      <4> QED
        BY <3>4, <4>1, <4>2, <4>4, <4>5, Zenon DEF new, text
    <3>7. CASE text # Unreadable /\ LooksLikeMetaList(text)
      <4> DEFINE sources == SourcesIn(text)
      <4>1. new = LoadEach(deeper, sources, read)
        BY <3>3, <3>7, Zenon
      <4>2. HostsIn(texts, {s}) = {} /\ Expands(texts, s) = Elements(sources)
        BY <3>7, OneSource, Zenon DEF text
      <4>3. sources \in Seq(Sources)
        BY <1>3, <3>7, ListHolds, Zenon DEF Text
      <4> HIDE DEF sources
      <4>4. Sound(texts, roots, read)
        <5>1. read.entries = st.entries \cup HostsIn(texts, {s})
          BY <1>1, <4>2, Zenon
        <5> QED
          BY <1>1, <1>6, <3>2, <5>1, ReadingIsSound, Zenon
      <4>5. ASSUME NEW i \in 1 .. Len(sources)
            PROVE  Callable(texts, roots, sources[i], depth + 1, read.visited)
        <5>1. sources[i] \in Sources /\ sources[i] \in Expands(texts, q[Len(q)])
          <6>1. sources[i] \in Sources
            BY <4>3, LengthOf
          <6>2. sources[i] \in Elements(sources)
            BY Zenon DEF Elements
          <6> QED
            BY <2>1, <4>2, <6>1, <6>2, Zenon
        <5>2. Chain(texts, roots, Append(q, sources[i]))
          BY <2>1, <5>1, ChainExtends, Zenon
        <5> QED
          BY <1>1, <2>1, <5>2, Zenon DEF Callable
      <4>6. /\ Grown(texts, roots, read, new)
            /\ Elements(sources) \subseteq new.visited
        BY <1>1, <3>1, <4>1, <4>3, <4>4, <4>5, LoadEachGrows, Zenon
      <4>7. st.visited \subseteq new.visited /\ s \in new.visited
        BY <1>1, <4>6, Zenon DEF Grown
      <4>8. ASSUME ~ NestsTooDeep(texts, roots), NEW t \in new.visited \ st.visited
            PROVE  Expands(texts, t) \subseteq new.visited
        <5>1. CASE t = s
          BY <4>2, <4>6, <5>1, Zenon
        <5>2. CASE t # s
          <6>1. t \in new.visited \ read.visited
            BY <1>1, <5>2, Zenon
          <6> QED
            BY <4>6, <4>8, <6>1, Zenon DEF Grown
        <5> QED
          BY <5>1, <5>2
      <4> QED
        BY <4>6, <4>7, <4>8, Zenon DEF Grown, new, text
    <3> QED
      BY <3>5, <3>6, <3>7, Zenon
  <2> QED
    BY <2>2, <2>3, Zenon
<1> QED
  BY <1>5, <1>6, Zenon

\* load_source where it may still descend some levels.
Level(texts, left, deeper) ==
  [p \in Sources \X Loading |-> LoadOne(texts[p[1]], p[1], p[2], META_MAX_DEPTH + 1 - left, deeper)]

\* A level is a way to load, if the one below it is; the last needs none below.
LEMMA LevelLoads ==
  ASSUME NEW texts \in TextsOf, NEW left \in 0 .. META_MAX_DEPTH + 1, NEW deeper,
         left = 0 \/ deeper \in Loads
  PROVE  Level(texts, left, deeper) \in Loads
<1>1. TooDeep(META_MAX_DEPTH + 1 - left) \/ deeper \in Loads
  BY TextsAssumption DEF TooDeep
<1>2. ASSUME NEW s \in Sources, NEW st \in Loading
      PROVE  LoadOne(texts[s], s, st, META_MAX_DEPTH + 1 - left, deeper) \in Loading
  <2>1. texts[s] \in Text
    BY Zenon DEF TextsOf
  <2> QED
    BY <1>1, <2>1, LoadOneType, Zenon
<1> DEFINE One(s, st) == LoadOne(texts[s], s, st, META_MAX_DEPTH + 1 - left, deeper)
<1>3. Level(texts, left, deeper) = [p \in Sources \X Loading |-> One(p[1], p[2])]
  BY Zenon DEF Level
<1>4. \A s \in Sources, st \in Loading : One(s, st) \in Loading
  BY <1>2
<1> HIDE DEF One
<1> QED
  BY <1>3, <1>4 DEF Loads

\* The levels of load_source.
LEMMA LoadSourceRun ==
  ASSUME NEW texts \in TextsOf
  PROVE  \E f \in [0 .. META_MAX_DEPTH + 1 -> Loads] :
           /\ f[0] = Level(texts, 0, << >>)
           /\ \A i \in 1 .. META_MAX_DEPTH + 1 : f[i] = Level(texts, i, f[i - 1])
           /\ LoadSource(texts) = f[META_MAX_DEPTH + 1]
<1> DEFINE n == META_MAX_DEPTH + 1
           a == Level(texts, 0, << >>)
           step == [p \in (1 .. n) \X Loads |-> Level(texts, p[1], p[2])]
           Runs(h) == h = [i \in 0 .. n |-> Level(texts, i, IF i = 0 THEN << >> ELSE h[i - 1])]
           F == CHOOSE h : Runs(h)
<1>1. n \in Nat /\ 0 \in 0 .. n /\ \A i \in 1 .. n : i \in 0 .. n /\ i # 0 /\ i - 1 \in 0 .. n
  BY TextsAssumption
<1>2. a \in Loads /\ \A i \in 1 .. n, x \in Loads : Level(texts, i, x) \in Loads
  BY <1>1, LevelLoads, Zenon
<1>3. LoadSource(texts) = F[n]
  BY Zenon DEF LoadSource, Level
<1> HIDE DEF n
<1>4. step \in [(1 .. n) \X Loads -> Loads]
  BY <1>2
<1>5. \A i \in 1 .. n, x \in Loads : step[<<i, x>>] = Level(texts, i, x)
  BY Zenon
<1> HIDE DEF step, a
<1>6. PICK f \in [0 .. n -> Loads] :
        f[0] = a /\ \A i \in 1 .. n : f[i] = step[<<i, f[i - 1]>>]
  <2>1. LoopRuns(Loads, a, n, step) # {}
    BY <1>1, <1>2, <1>4, LoopHasRun, Zenon
  <2> QED
    BY <2>1, Zenon DEF LoopRuns
<1>7. \A i \in 1 .. n : f[i] = Level(texts, i, f[i - 1])
  BY <1>1, <1>5, <1>6, Zenon
<1>8. F[n] = f[n]
  <2>1. Runs(f)
    <3>1. \A i \in 0 .. n : i = 0 \/ (i # 0 /\ i \in 1 .. n)
      BY <1>1
    <3>2. \A i \in 0 .. n : f[i] = Level(texts, i, IF i = 0 THEN << >> ELSE f[i - 1])
      BY <1>6, <1>7, <3>1, Zenon DEF a
    <3> QED
      BY <3>2, Zenon
  <2>2. Runs(F)
    <3> HIDE DEF Runs
    <3> QED
      BY <2>1, Zenon
  <2> HIDE DEF F
  <2>3. \A i \in 0 .. n : F[i] = Level(texts, i, IF i = 0 THEN << >> ELSE F[i - 1])
    BY <2>2, Zenon
  <2>4. F[0] = f[0]
    BY <1>1, <1>6, <2>3, Zenon DEF a
  <2>5. \A i \in 1 .. n : F[i] = Level(texts, i, F[i - 1])
    BY <1>1, <2>3, Zenon
  <2>6. InStep(n, F, f)
    BY <1>7, <2>4, <2>5, Zenon DEF InStep
  <2> QED
    BY <1>1, <2>6, LoopsAgree
<1> QED
  BY <1>3, <1>6, <1>7, <1>8, Zenon DEF n, a

\* A level is right if the one below it is.
LEMMA LevelLoadsSoundly ==
  ASSUME NEW texts \in TextsOf, NEW roots, NEW left \in 0 .. META_MAX_DEPTH + 1, NEW deeper,
         \/ left = 0
         \/ deeper \in Loads /\ LoadsSoundly(texts, roots, deeper, META_MAX_DEPTH + 1 - (left - 1))
  PROVE  LoadsSoundly(texts, roots, Level(texts, left, deeper), META_MAX_DEPTH + 1 - left)
<1> DEFINE depth == META_MAX_DEPTH + 1 - left
<1>1. /\ depth \in 0 .. META_MAX_DEPTH + 1
      /\ left # 0 => META_MAX_DEPTH + 1 - (left - 1) = depth + 1
      /\ left = 0 => ~ (depth <= META_MAX_DEPTH)
  BY TextsAssumption
<1>2. depth <= META_MAX_DEPTH => deeper \in Loads /\ LoadsSoundly(texts, roots, deeper, depth + 1)
  <2> HIDE DEF depth
  <2> QED
    BY <1>1, Zenon
<1>3. Level(texts, left, deeper) = [p \in Sources \X Loading |-> LoadOne(texts[p[1]], p[1], p[2], depth, deeper)]
  BY Zenon DEF Level
<1> HIDE DEF depth
<1>4. \A s \in Sources, st \in Loading :
        Level(texts, left, deeper)[s, st] = LoadOne(texts[s], s, st, depth, deeper)
  BY <1>3, Zenon
<1>5. ASSUME NEW s \in Sources, NEW st \in Loading, Sound(texts, roots, st),
             Callable(texts, roots, s, depth, st.visited)
      PROVE  /\ Grown(texts, roots, st, Level(texts, left, deeper)[s, st])
             /\ s \in Level(texts, left, deeper)[s, st].visited
  <2>1. LET new == LoadOne(texts[s], s, st, depth, deeper)
        IN Grown(texts, roots, st, new) /\ s \in new.visited
    BY <1>1, <1>2, <1>5, LoadOneGrows, Zenon
  <2> QED
    BY <1>4, <2>1, Zenon
<1> QED
  BY <1>5, Zenon DEF LoadsSoundly, depth

\* load_source is right where load_sources calls it.
LEMMA LoadSourceIsSound ==
  ASSUME NEW texts \in TextsOf, NEW roots
  PROVE  LoadSource(texts) \in Loads /\ LoadsSoundly(texts, roots, LoadSource(texts), 0)
<1> DEFINE n == META_MAX_DEPTH + 1
<1>1. n \in Nat /\ META_MAX_DEPTH + 1 - n = 0 /\ n \in 0 .. n /\ 0 \in 0 .. n /\ n <= n
  BY TextsAssumption
<1>2. PICK f \in [0 .. n -> Loads] :
        /\ f[0] = Level(texts, 0, << >>) /\ \A i \in 1 .. n : f[i] = Level(texts, i, f[i - 1])
        /\ LoadSource(texts) = f[n]
  BY LoadSourceRun, Zenon
<1> DEFINE Right(m) == LoadsSoundly(texts, roots, f[m], META_MAX_DEPTH + 1 - m)
           S == {m \in Nat : m <= n => Right(m)}
<1>3. 0 \in S
  <2>1. Right(0)
    BY <1>1, <1>2, LevelLoadsSoundly, Zenon
  <2> QED
    BY <2>1, Zenon
<1>4. ASSUME NEW m \in Nat, m \in S
      PROVE  m + 1 \in S
  <2> SUFFICES ASSUME m + 1 <= n PROVE Right(m + 1)
    <3> HIDE DEF Right
    <3> QED
      OBVIOUS
  <2>1. m <= n /\ m \in 0 .. n /\ m + 1 \in 0 .. n /\ m + 1 \in 1 .. n /\ (m + 1) - 1 = m
    BY <1>1
  <2>2. Right(m)
    BY <1>4, <2>1, Zenon
  <2>3. f[m] \in Loads /\ f[m + 1] = Level(texts, m + 1, f[m])
    BY <1>2, <2>1, Zenon
  <2> QED
    BY <2>1, <2>2, <2>3, LevelLoadsSoundly, Zenon
<1> HIDE DEF S
<1>5. n \in S
  BY <1>1, <1>3, <1>4, SetInduction, Zenon
<1>6. Right(n)
  BY <1>1, <1>5, Zenon DEF S
<1>7. LoadSource(texts) \in Loads
  BY <1>1, <1>2, Zenon
<1>8. LoadsSoundly(texts, roots, f[n], 0)
  BY <1>1, <1>6, Zenon
<1> QED
  BY <1>2, <1>7, <1>8, Zenon

\* Lists name sources.
LEMMA ExpandsToSources ==
  ASSUME NEW texts \in TextsOf, NEW s \in Sources
  PROVE  Expands(texts, s) \subseteq Sources
<1>1. texts[s] \in Text
  BY Zenon DEF TextsOf
<1>2. CASE texts[s] = Unreadable \/ ~ LooksLikeMetaList(texts[s])
  BY <1>2, Zenon DEF Expands
<1>3. CASE texts[s] # Unreadable /\ LooksLikeMetaList(texts[s])
  <2>1. SourcesIn(texts[s]) \in Seq(Sources)
    BY <1>1, <1>3, ListHolds, Zenon DEF Text
  <2>2. Elements(SourcesIn(texts[s])) \subseteq Sources
    BY <2>1 DEF Elements
  <2> QED
    BY <1>3, <2>2, Zenon DEF Expands
<1> QED
  BY <1>2, <1>3, Zenon

\* What lists reach in one more step.
Further(texts, within) == within \cup UNION {Expands(texts, s) : s \in within}

\* The steps of WithinSteps.
LEMMA WithinRun ==
  ASSUME NEW texts \in TextsOf, NEW roots \in Seq(Sources), NEW k \in Nat
  PROVE  \E f \in [0 .. k -> SUBSET Sources] :
           /\ f[0] = Elements(roots) /\ \A i \in 1 .. k : f[i] = Further(texts, f[i - 1])
           /\ WithinSteps(texts, roots, k) = f[k]
<1> DEFINE A == SUBSET Sources
           a == Elements(roots)
           step == [p \in (1 .. k) \X A |-> Further(texts, p[2])]
           Runs(h) == h = [i \in 0 .. k |-> IF i = 0 THEN a ELSE Further(texts, h[i - 1])]
           F == CHOOSE h : Runs(h)
<1>1. 0 \in 0 .. k /\ \A i \in 1 .. k : i \in 0 .. k /\ i # 0 /\ i - 1 \in 0 .. k
  OBVIOUS
<1>2. a \in A /\ \A x \in A : Further(texts, x) \in A
  <2>1. Elements(roots) \subseteq Sources
    BY DEF Elements
  <2> QED
    BY <2>1, ExpandsToSources, Zenon DEF Further
<1>3. WithinSteps(texts, roots, k) = F[k]
  BY Zenon DEF WithinSteps, Further
<1> HIDE DEF A, a
<1>4. step \in [(1 .. k) \X A -> A]
  BY <1>2
<1>5. \A i \in 1 .. k, x \in A : step[<<i, x>>] = Further(texts, x)
  BY Zenon
<1> HIDE DEF step
<1>6. PICK f \in [0 .. k -> A] :
        f[0] = a /\ \A i \in 1 .. k : f[i] = step[<<i, f[i - 1]>>]
  <2>1. LoopRuns(A, a, k, step) # {}
    BY <1>2, <1>4, LoopHasRun, Zenon
  <2> QED
    BY <2>1, Zenon DEF LoopRuns
<1>7. \A i \in 1 .. k : f[i] = Further(texts, f[i - 1])
  BY <1>1, <1>5, <1>6, Zenon
<1>8. F[k] = f[k]
  <2>1. Runs(f)
    <3>1. \A i \in 0 .. k : i = 0 \/ (i # 0 /\ i \in 1 .. k)
      OBVIOUS
    <3>2. \A i \in 0 .. k : f[i] = IF i = 0 THEN a ELSE Further(texts, f[i - 1])
      BY <1>6, <1>7, <3>1, Zenon
    <3> QED
      BY <3>2, Zenon
  <2>2. Runs(F)
    <3> HIDE DEF Runs
    <3> QED
      BY <2>1, Zenon
  <2> HIDE DEF F
  <2>3. \A i \in 0 .. k : F[i] = IF i = 0 THEN a ELSE Further(texts, F[i - 1])
    BY <2>2, Zenon
  <2>4. InStep(k, F, f)
    BY <1>1, <1>6, <1>7, <2>3, ZenonT(30) DEF InStep
  <2> QED
    BY <2>4, LoopsAgree
<1> QED
  BY <1>3, <1>6, <1>7, <1>8, Zenon DEF A, a

\* A chain of k + 1 sources ends within k steps.
LEMMA ChainWithin ==
  ASSUME NEW texts \in TextsOf, NEW roots \in Seq(Sources), NEW k \in Nat,
         NEW q, Chain(texts, roots, q), Len(q) <= k + 1
  PROVE  q[Len(q)] \in WithinSteps(texts, roots, k)
<1>1. PICK f \in [0 .. k -> SUBSET Sources] :
        /\ f[0] = Elements(roots) /\ \A i \in 1 .. k : f[i] = Further(texts, f[i - 1])
        /\ WithinSteps(texts, roots, k) = f[k]
  BY WithinRun, Zenon
<1>2. /\ Len(q) \in Nat /\ Len(q) > 0 /\ q[1] \in Elements(roots)
      /\ \A i \in 1 .. Len(q) - 1 : q[i + 1] \in Expands(texts, q[i])
  <2>1. q \in Seq(Sources)
    BY Zenon DEF Chain
  <2>2. Len(q) \in Nat
    BY <2>1
  <2> QED
    BY <2>2, Zenon DEF Chain
<1> DEFINE P(m) == \A i \in 1 .. m + 1 : i <= Len(q) => q[i] \in f[m]
           S == {m \in Nat : m <= k => P(m)}
<1>3. 0 \in S
  <2>1. \A i \in 1 .. 0 + 1 : i = 1
    OBVIOUS
  <2>2. P(0)
    BY <1>1, <1>2, <2>1, Zenon
  <2> HIDE DEF P
  <2> QED
    BY <2>2
<1>4. ASSUME NEW m \in Nat, m \in S
      PROVE  m + 1 \in S
  <2> SUFFICES ASSUME m + 1 <= k PROVE P(m + 1)
    <3> HIDE DEF P
    <3> QED
      OBVIOUS
  <2>1. m <= k /\ m + 1 \in 1 .. k /\ (m + 1) - 1 = m
    OBVIOUS
  <2>2. P(m)
    BY <1>4, <2>1, Zenon
  <2>3. f[m + 1] = Further(texts, f[m])
    BY <1>1, <2>1, Zenon
  <2>4. ASSUME NEW i \in 1 .. (m + 1) + 1, i <= Len(q)
        PROVE  q[i] \in f[m + 1]
    <3>1. CASE i \in 1 .. m + 1
      <4>1. q[i] \in f[m]
        BY <2>2, <2>4, <3>1, Zenon
      <4> QED
        BY <2>3, <4>1, Zenon DEF Further
    <3>2. CASE i = m + 2
      <4>1. m + 1 \in 1 .. Len(q) - 1 /\ m + 1 \in 1 .. m + 1 /\ m + 1 <= Len(q) /\ (m + 1) + 1 = i
        BY <1>2, <2>4, <3>2
      <4>2. q[m + 1] \in f[m]
        BY <2>2, <4>1, Zenon
      <4>3. q[(m + 1) + 1] \in Expands(texts, q[m + 1])
        BY <1>2, <4>1, Zenon
      <4>4. q[i] \in Expands(texts, q[m + 1])
        BY <4>1, <4>3, Zenon
      <4> QED
        BY <2>3, <4>2, <4>4, Zenon DEF Further
    <3>3. i \in 1 .. m + 1 \/ i = m + 2
      OBVIOUS
    <3> QED
      BY <3>1, <3>2, <3>3, Zenon
  <2> QED
    BY <2>4, Zenon
<1> HIDE DEF S
<1>5. k \in S
  BY <1>3, <1>4, SetInduction, Zenon
<1>6. k <= k /\ Len(q) \in 1 .. k + 1 /\ Len(q) <= Len(q)
  BY <1>2
<1>7. P(k)
  BY <1>5, <1>6, Zenon DEF S
<1> QED
  BY <1>1, <1>6, <1>7, Zenon

\* A set that holds the configured sources, and what they expand to, holds all
\* that is within any number of steps.
LEMMA WithinClosed ==
  ASSUME NEW texts \in TextsOf, NEW roots \in Seq(Sources), NEW k \in Nat, NEW closed,
         Elements(roots) \subseteq closed, \A s \in closed : Expands(texts, s) \subseteq closed
  PROVE  WithinSteps(texts, roots, k) \subseteq closed
<1>1. PICK f \in [0 .. k -> SUBSET Sources] :
        /\ f[0] = Elements(roots) /\ \A i \in 1 .. k : f[i] = Further(texts, f[i - 1])
        /\ WithinSteps(texts, roots, k) = f[k]
  BY WithinRun, Zenon
<1> DEFINE P(m) == f[m] \subseteq closed
           S == {m \in Nat : m <= k => P(m)}
<1>2. 0 \in S
  <2>1. P(0)
    BY <1>1, Zenon
  <2> HIDE DEF P
  <2> QED
    BY <2>1
<1>3. ASSUME NEW m \in Nat, m \in S
      PROVE  m + 1 \in S
  <2> SUFFICES ASSUME m + 1 <= k PROVE P(m + 1)
    <3> HIDE DEF P
    <3> QED
      OBVIOUS
  <2>1. m <= k /\ m + 1 \in 1 .. k /\ (m + 1) - 1 = m
    OBVIOUS
  <2>2. f[m] \subseteq closed
    BY <1>3, <2>1, Zenon
  <2>3. f[m + 1] = Further(texts, f[m])
    BY <1>1, <2>1, Zenon
  <2> QED
    BY <2>2, <2>3, Zenon DEF Further
<1> HIDE DEF S
<1>4. k \in S
  BY <1>2, <1>3, SetInduction, Zenon
<1>5. k <= k
  OBVIOUS
<1> QED
  BY <1>1, <1>4, <1>5, Zenon DEF S

\* A source reached is within the limit, and within as many steps as there are
\* sources.
LEMMA ReachedWithin ==
  ASSUME NEW texts \in TextsOf, NEW roots \in Seq(Sources), NEW s, Reached(texts, roots, s)
  PROVE  /\ s \in WithinSteps(texts, roots, META_MAX_DEPTH)
         /\ s \in WithinSteps(texts, roots, Cardinality(Sources))
<1>1. PICK q : Chain(texts, roots, q) /\ Distinct(q) /\ Len(q) <= META_MAX_DEPTH + 1 /\ q[Len(q)] = s
  BY Zenon DEF Reached
<1>2. META_MAX_DEPTH \in Nat /\ IsFiniteSet(Sources)
  BY TextsAssumption
<1>3. Cardinality(Sources) \in Nat
  BY <1>2, FS_CardinalityType
<1>4. q \in Seq(Sources)
  BY <1>1, Zenon DEF Chain
<1>5. Len(q) <= Cardinality(Sources) + 1
  <2>1. Len(q) <= Cardinality(Sources)
    BY <1>1, <1>2, <1>4, DistinctLength, Zenon
  <2>2. Len(q) \in Nat
    BY <1>4
  <2> QED
    BY <1>3, <2>1, <2>2
<1> QED
  BY <1>1, <1>2, <1>3, <1>5, ChainWithin, Zenon

\* load_sources starts with nothing loaded.
LEMMA NothingLoaded ==
  ASSUME NEW texts, NEW roots
  PROVE  Sound(texts, roots, NoLists)
<1>1. /\ NoLists \in Loading
      /\ NoLists.read = << >> /\ NoLists.visited = {} /\ NoLists.entries = {}
  BY DEF NoLists, Loading
<1>2. Distinct(<< >>) /\ Elements(<< >>) = {}
  BY DEF Distinct, Elements
<1>3. HostsIn(texts, {}) = {}
  BY Zenon DEF HostsIn
<1> QED
  BY <1>1, <1>2, <1>3, Zenon DEF Sound

\* It may call load_source on every configured source.
LEMMA RootsCallable ==
  ASSUME NEW texts, NEW roots \in Seq(Sources), NEW i \in 1 .. Len(roots)
  PROVE  Callable(texts, roots, roots[i], 0, {})
<1> DEFINE q == Append(<< >>, roots[i])
<1>1. /\ roots[i] \in Sources /\ << >> \in Seq(Sources) /\ Len(<< >>) = 0
      /\ q \in Seq(Sources) /\ Len(q) = 1 /\ q[1] = roots[i]
  OBVIOUS
<1>2. Distinct(<< >>) /\ Elements(<< >>) = {}
  BY DEF Distinct, Elements
<1>3. roots[i] \in Elements(roots)
  BY Zenon DEF Elements
<1> HIDE DEF q
<1>4. Len(q) > 0 /\ \A j \in 1 .. Len(q) - 1 : FALSE
  BY <1>1
<1>5. Chain(texts, roots, q)
  BY <1>1, <1>3, <1>4, Zenon DEF Chain
<1> QED
  BY <1>1, <1>2, <1>5, Zenon DEF Callable, q

\* load_source reads no source twice and none too deep, and loads lists that
\* nest no deeper than it follows completely, whatever the lists hold and
\* however they name each other.
THEOREM ListsAreComplete == AlgSpec => []ListsComplete
<1>1. ASSUME WellTyped PROVE ListsComplete
  <2> SUFFICES ASSUME input.of = "lists"
      PROVE  LET loaded == LoadSources(input.texts, input.roots)
                 near   == WithinSteps(input.texts, input.roots, META_MAX_DEPTH)
                 all    == WithinSteps(input.texts, input.roots, Cardinality(Sources))
             IN /\ Distinct(loaded.read)
                /\ Elements(loaded.read) \subseteq near
                /\ loaded.entries \subseteq HostsIn(input.texts, near)
                /\ ~ NestsTooDeep(input.texts, input.roots) => loaded.entries = HostsIn(input.texts, all)
    BY Zenon DEF ListsComplete
  <2> DEFINE texts == input.texts
             roots == input.roots
             loaded == LoadSources(texts, roots)
             near == WithinSteps(texts, roots, META_MAX_DEPTH)
             all == WithinSteps(texts, roots, Cardinality(Sources))
             read == Elements(loaded.read)
  <2>1. texts \in TextsOf /\ roots \in Seq(Sources)
    BY <1>1, Zenon DEF WellTyped, TextsOf, Text
  <2> HIDE DEF texts, roots
  <2>2. LoadSource(texts) \in Loads /\ LoadsSoundly(texts, roots, LoadSource(texts), 0)
    BY <2>1, LoadSourceIsSound, Zenon
  <2>3. NoLists \in Loading /\ NoLists.visited = {} /\ Sound(texts, roots, NoLists)
    <3>1. NoLists \in Loading /\ NoLists.visited = {}
      BY DEF NoLists, Loading
    <3> QED
      BY <3>1, NothingLoaded, Zenon
  <2>4. Grown(texts, roots, NoLists, loaded) /\ Elements(roots) \subseteq loaded.visited
    <3>1. \A i \in 1 .. Len(roots) : Callable(texts, roots, roots[i], 0, NoLists.visited)
      BY <2>1, <2>3, RootsCallable, Zenon
    <3> QED
      BY <2>1, <2>2, <2>3, <3>1, LoadEachGrows, Zenon DEF LoadSources
  <2> HIDE DEF loaded
  <2>5. /\ Distinct(loaded.read) /\ read \subseteq loaded.visited
        /\ \A s \in read : Reached(texts, roots, s)
        /\ loaded.entries = HostsIn(texts, read)
        /\ ~ NestsTooDeep(texts, roots) => loaded.visited \subseteq read
    BY <2>4, Zenon DEF Grown, Sound
  <2>6. read \subseteq near /\ read \subseteq all
    BY <2>1, <2>5, ReachedWithin, Zenon
  <2>7. HostsIn(texts, read) \subseteq HostsIn(texts, near)
    <3> HIDE DEF read, near
    <3> QED
      BY <2>6, Zenon DEF HostsIn
  <2>8. ASSUME ~ NestsTooDeep(texts, roots)
        PROVE  loaded.entries = HostsIn(texts, all)
    <3>1. loaded.visited = read
      BY <2>5, <2>8, Zenon
    <3>2. \A s \in read : Expands(texts, s) \subseteq read
      BY <2>3, <2>4, <2>8, <3>1, Zenon DEF Grown
    <3>3. Cardinality(Sources) \in Nat
      BY TextsAssumption, FS_CardinalityType
    <3>4. all \subseteq read
      <4>1. Elements(roots) \subseteq read
        BY <2>4, <3>1, Zenon
      <4> HIDE DEF read
      <4> QED
        BY <2>1, <3>2, <3>3, <4>1, WithinClosed
    <3>5. all = read
      BY <2>6, <3>4, Zenon
    <3> QED
      BY <2>5, <3>5, Zenon
  <2>9. loaded.entries \subseteq HostsIn(texts, near)
    BY <2>5, <2>7, Zenon
  <2> QED
    BY <2>5, <2>6, <2>8, <2>9, Zenon DEF texts, roots, loaded
<1> QED
  BY <1>1, InputsWellTyped, PTL
=============================================================================
