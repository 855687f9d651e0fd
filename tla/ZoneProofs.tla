----------------------------- MODULE ZoneProofs -----------------------------
(***************************************************************************)
(* What the steps of ZoneRecords do to zone files, for any zones, records  *)
(* and number of API calls at once: the invariant ZoneInv of files and     *)
(* calls, which every step keeps, and how a step moves the record store.   *)
(***************************************************************************)
EXTENDS ZoneRecords, VecProofs

\* A leaf is tried with SMT, then with Zenon and with Z3 alone, for up to 30
\* seconds each, unless it names another prover.
USE SMTT(30), ZenonT(30), Z3T(30)

-----------------------------------------------------------------------------
(* Zone files under the record API.  What the calls on a zone and its file *)
(* have to do with each other.                                             *)

\* What a zone's file can hold.
ZoneContent == {c \in [Keys -> SUBSET Rnames] : \A k \in Keys \ {SoaKey} : c[k] \subseteq Vals}

\* What is visible of a zone changes as it was asked to, or not at all.
Follows(base, new) ==
  LET v == Visible(base)
  IN \/ Visible(new) = v
     \/ \E k \in Keys \ Generated, x \in Vals \cup {"soa"} : Visible(new) = [v EXCEPT ![k] = @ \cup {x}]
     \/ \E k \in Keys \ Generated : Visible(new) = [v EXCEPT ![k] = {}]

\* What a call is about to write comes from what it loaded, and has an SOA unless
\* that was deleted.
Grounded(r, harm) ==
  \E new \in ZoneContent :
    /\ r.image = Image(new)
    /\ new[SoaKey] # {} \/ "soa" \in harm
    /\ Follows(r.base, new)

Requests ==
  [op : {"read"}, zone : Zones]
    \cup [op : {"create"}, zone : Zones, key : Keys, val : Vals \cup {Malformed}]
    \cup [op : {"delete"}, zone : Zones, key : Keys, relative : BOOLEAN]
Loading == [at : {"load"}, zone : Zones, req : Requests]
Changes == [at : {"save", "write"}, zone : Zones, base : ZoneContent, image : Seq(Line), off : Nat]

CallOK(r) ==
  \/ r = Idle
  \/ r = [at |-> "options"]
  \/ r \in Loading
  \/ /\ r \in Changes /\ r.off < Len(r.image) /\ (r.at = "save" => r.off = 0)
     /\ Grounded(r, hurt[r.zone])

\* How the calls on a zone stand to its file.
ZoneOK(z) ==
  /\ Len(file[z]) <= MaxLines
  /\ Writing(z) # {} => Len(file[z]) <= Cardinality(Line)
  /\ "raced" \notin hurt[z] => \A c, d \in Changing(z) : c = d
  /\ "crossed" \in hurt[z] => "raced" \in hurt[z]
  /\ hurt[z] \cap {"crossed", "cut"} = {} =>
       \A c \in Writing(z) : Writing(z) = {c} /\ file[z] = SubSeq(call[c].image, 1, call[c].off)
  /\ hurt[z] \cap {"raced", "cut"} = {} =>
       \A c \in Changing(z) \ Writing(z) : Visible(RecordsOf(file[z])) = Visible(call[c].base)
  /\ Writing(z) = {} /\ hurt[z] \cap {"crossed", "cut", "soa"} = {} => Loads(z)

ZoneInv ==
  /\ file \in [Zones -> Seq(Line \cup {Hole})]
  /\ hurt \in [Zones -> SUBSET {"raced", "crossed", "cut", "soa"}]
  /\ DOMAIN call = Calls /\ \A c \in Calls : CallOK(call[c])
  /\ \A z \in Zones : ZoneOK(z)

-----------------------------------------------------------------------------
(* Zone files.                                                             *)

\* The lines of a zone file are finitely many, and none is the header's but one.
LEMMA LineFacts ==
  /\ IsFiniteSet(Line) /\ Header \in Line
  /\ \A l \in Line : l[1] \in Keys \/ l = Header
  /\ \A k \in Keys : \A v : <<k, v>> \in Line <=> IF k = SoaKey THEN v \in Rnames ELSE v \in Vals
  /\ \A l \in Line : l[1] \in Keys => l = <<l[1], l[2]>>
<1>1. 0 \notin Keys
  BY KeysAssumption, FS_CardinalityType
<1>2. IsFiniteSet(Line)
  <2>1. IsFiniteSet({Header}) /\ IsFiniteSet({SoaKey}) /\ IsFiniteSet(Keys \ {SoaKey})
    BY KeysAssumption, FS_Singleton, FS_RemoveElement, ZenonT(30)
  <2>2. IsFiniteSet({SoaKey} \X Rnames) /\ IsFiniteSet((Keys \ {SoaKey}) \X Vals)
    BY <2>1, DataAssumption, FS_Product
  <2> QED
    BY <2>1, <2>2, FS_Union, ZenonT(30) DEF Line
<1>3. Header \in Line /\ Header[1] = 0
  BY DEF Line, Header
<1>4. ASSUME NEW l \in Line
      PROVE  \/ l = Header
             \/ l \in {SoaKey} \X Rnames /\ l[1] \in Keys /\ l = <<l[1], l[2]>>
             \/ l \in (Keys \ {SoaKey}) \X Vals /\ l[1] \in Keys /\ l = <<l[1], l[2]>>
  BY KeysAssumption DEF Line
<1>5. ASSUME NEW k \in Keys, NEW v
      PROVE  <<k, v>> \in Line <=> IF k = SoaKey THEN v \in Rnames ELSE v \in Vals
  <2>1. <<k, v>> # Header
    BY <1>1 DEF Header
  <2>2. <<k, v>> \in Line <=> \/ <<k, v>> \in {SoaKey} \X Rnames
                              \/ <<k, v>> \in (Keys \ {SoaKey}) \X Vals
    BY <2>1 DEF Line
  <2> QED
    BY <2>2
<1>6. \A l \in Line : l[1] \in Keys => l = <<l[1], l[2]>>
  BY <1>1, <1>3, <1>4
<1>7. \A l \in Line : l[1] \in Keys \/ l = Header
  BY <1>4
<1> QED
  BY <1>2, <1>3, <1>5, <1>6, <1>7

\* persist_zone writes the header and each record of the zone once, but for the
\* generated types.
LEMMA ImageFacts ==
  ASSUME NEW content \in ZoneContent
  PROVE  /\ Image(content) \in Seq(Line)
         /\ Len(Image(content)) \in 1 .. Cardinality(Line)
         /\ \A l : l \in Elements(Image(content)) <=>
              l = Header \/ \E k \in Keys \ Generated : \E v \in content[k] : l = <<k, v>>
<1> DEFINE n == Cardinality(Keys)
           Of(k) == {<<k, v>> : v \in content[k]}
           vs == [k \in 1 .. n |-> IF k \in Generated THEN << >> ELSE Listing(Of(k))]
<1>1. n \in Nat /\ Keys = 1 .. n
  BY KeysAssumption, FS_CardinalityType
<1> HIDE DEF n
<1>2. ASSUME NEW k \in Keys
      PROVE  IsFiniteSet(Of(k)) /\ Of(k) \subseteq Line
  <2>1. \A v \in content[k] : IF k = SoaKey THEN v \in Rnames ELSE v \in Vals
    BY DEF ZoneContent
  <2>2. Of(k) \subseteq Line
    BY <2>1, LineFacts
  <2> QED
    BY <2>2, LineFacts, FS_Subset, ZenonT(30)
<1> HIDE DEF Of
<1>3. ASSUME NEW k \in 1 .. n
      PROVE  /\ vs[k] \in Seq(Line) /\ Distinct(vs[k])
             /\ Elements(vs[k]) = IF k \in Generated THEN {} ELSE Of(k)
  <2>1. CASE k \in Generated
    <3>1. vs[k] = << >>
      BY <2>1
    <3> QED
      BY <2>1, <3>1 DEF Elements, Distinct
  <2>2. CASE k \notin Generated
    <3>1. vs[k] = Listing(Of(k))
      BY <2>2
    <3>2. IsFiniteSet(Of(k)) /\ Of(k) \subseteq Line
      BY <1>1, <1>2
    <3>3. /\ Listing(Of(k)) \in Seq(Of(k)) /\ Distinct(Listing(Of(k)))
          /\ Elements(Listing(Of(k))) = Of(k)
      BY <3>2, ListingFacts, ZenonT(30)
    <3>4. Listing(Of(k)) \in Seq(Line)
      BY <3>2, <3>3
    <3> QED
      BY <2>2, <3>1, <3>3, <3>4, ZenonT(30)
  <2> QED
    BY <2>1, <2>2
<1>4. vs \in Seq(Seq(Line)) /\ Len(vs) = n
  <2>1. vs \in [1 .. n -> Seq(Line)]
    BY <1>3
  <2> HIDE DEF vs
  <2> QED
    BY <1>1, <2>1
<1>5. Image(content) = <<Header>> \o Joined(vs)
  BY DEF Image, Of, n
<1> HIDE DEF vs
<1>6. ASSUME NEW i \in 1 .. Len(vs), NEW j \in 1 .. Len(vs)
      PROVE  Distinct(vs[i]) /\ (i # j => Elements(vs[i]) \cap Elements(vs[j]) = {})
  <2>1. i \in 1 .. n /\ j \in 1 .. n
    BY <1>4
  <2>2. Distinct(vs[i]) /\ Elements(vs[i]) \subseteq Of(i) /\ Elements(vs[j]) \subseteq Of(j)
    BY <1>3, <2>1, ZenonT(30)
  <2>3. i # j => Of(i) \cap Of(j) = {}
    BY DEF Of
  <2> QED
    BY <2>2, <2>3
<1>7. /\ Joined(vs) \in Seq(Line) /\ Distinct(Joined(vs))
      /\ Elements(Joined(vs)) = UNION {Elements(vs[i]) : i \in 1 .. n}
  BY <1>4, <1>6, JoinedFacts, ZenonT(30)
<1>8. \A l : l \in Elements(Joined(vs)) <=> \E k \in Keys \ Generated : \E v \in content[k] : l = <<k, v>>
  <2>1. \A l : l \in Elements(Joined(vs)) <=> \E k \in 1 .. n : l \in Elements(vs[k])
    BY <1>7
  <2>2. \A l : l \in Elements(Joined(vs)) <=> \E k \in Keys \ Generated : l \in Of(k)
    BY <1>1, <1>3, <2>1, ZenonT(30)
  <2> QED
    BY <2>2 DEF Of
<1>9. <<Header>> \in Seq(Line) /\ Distinct(<<Header>>) /\ Elements(<<Header>>) = {Header}
  BY LineFacts DEF Distinct, Elements
<1>10. Header \notin Elements(Joined(vs))
  <2>1. \A k \in Keys : \A v : Header # <<k, v>>
    BY <1>1 DEF Header
  <2> QED
    BY <1>8, <2>1
<1>11. /\ Image(content) \in Seq(Line) /\ Distinct(Image(content))
       /\ Elements(Image(content)) = {Header} \cup Elements(Joined(vs))
  <2> DEFINE h == <<Header>>
             j == Joined(vs)
  <2>1. h \in Seq(Line) /\ Distinct(h) /\ Elements(h) = {Header}
    BY <1>9
  <2>2. j \in Seq(Line) /\ Distinct(j) /\ Elements(j) = Elements(Joined(vs)) /\ Header \notin Elements(j)
    BY <1>7, <1>10
  <2>3. Image(content) = h \o j
    BY <1>5
  <2> HIDE DEF h, j
  <2>4. Elements(h) \cap Elements(j) = {}
    BY <2>1, <2>2
  <2> QED
    BY <2>1, <2>2, <2>3, <2>4, ExtendFacts
<1>12. Len(Image(content)) \in 1 .. Cardinality(Line)
  <2>1. Len(Image(content)) <= Cardinality(Line) /\ Cardinality(Line) \in Nat
    BY <1>11, LineFacts, DistinctLength, FS_CardinalityType
  <2>2. Len(Image(content)) = Len(<<Header>>) + Len(Joined(vs))
    BY <1>5, <1>7, <1>9, ExtendedAt
  <2>3. Len(Joined(vs)) \in Nat /\ Len(<<Header>>) = 1
    BY <1>7
  <2> QED
    BY <2>1, <2>2, <2>3
<1> QED
  BY <1>8, <1>11, <1>12

\* What is visible of a zone is something the record store knows.
LEMMA VisibleType ==
  ASSUME NEW c \in ZoneContent
  PROVE  /\ Visible(c) \in [Keys \ Generated -> SUBSET (Vals \cup {"soa"})]
         /\ Visible(c) # Unpromised
<1>1. ASSUME NEW k \in Keys \ Generated
      PROVE  (IF k = SoaKey /\ c[k] # {} THEN {"soa"} ELSE c[k]) \subseteq Vals \cup {"soa"}
  BY DEF ZoneContent
<1>2. Visible(c) \in [Keys \ Generated -> SUBSET (Vals \cup {"soa"})]
  BY <1>1 DEF Visible
<1> QED
  BY <1>2, DataAssumption

\* The records in a file.
LEMMA RecordsType ==
  ASSUME NEW lines \in Seq(Line \cup {Hole})
  PROVE  RecordsOf(lines) \in ZoneContent
<1>1. \A l \in Elements(lines) \ {Hole} : l \in Line
  BY DEF Elements
<1>2. ASSUME NEW k \in Keys, NEW v \in RecordsOf(lines)[k]
      PROVE  IF k = SoaKey THEN v \in Rnames ELSE v \in Vals
  <2>1. PICK l \in Elements(lines) \ {Hole} : l[1] = k /\ v = l[2]
    BY <1>2 DEF RecordsOf
  <2>2. <<k, v>> \in Line
    BY <1>1, <2>1, LineFacts
  <2> QED
    BY <2>2, LineFacts
<1>3. \A k \in Keys : RecordsOf(lines)[k] \subseteq Rnames
  BY <1>2, DataAssumption
<1>4. \A k \in Keys \ {SoaKey} : RecordsOf(lines)[k] \subseteq Vals
  BY <1>2
<1>5. RecordsOf(lines) = [k \in Keys |-> RecordsOf(lines)[k]]
  BY DEF RecordsOf
<1>6. RecordsOf(lines) \in [Keys -> SUBSET Rnames]
  BY <1>3, <1>5
<1> QED
  BY <1>4, <1>6 DEF ZoneContent

\* load_zone_file_with_proof returns what the file holds, but for the RNAME.
LEMMA LoadedFacts ==
  ASSUME NEW z, file[z] \in Seq(Line \cup {Hole}), Loads(z)
  PROVE  /\ Loaded(z, DefaultRname) \in ZoneContent
         /\ Loaded(z, DefaultRname)[SoaKey] # {}
         /\ Visible(Loaded(z, DefaultRname)) = Visible(RecordsOf(file[z]))
<1> DEFINE b == Loaded(z, DefaultRname)
           r == RecordsOf(file[z])
<1>1. r \in ZoneContent
  BY RecordsType
<1>2. Elements(file[z]) \ {Hole} = Lines(z)
  BY DEF Loads, Lines
<1>3. \A k \in Keys : b[k] = IF k = SoaKey THEN {DefaultRname} ELSE r[k]
  BY <1>2, Zenon DEF Loaded, RecordsOf
<1>4. r[SoaKey] # {} /\ SoaKey \in Keys
  BY <1>2, KeysAssumption DEF RecordsOf, Loads
<1>5. b = [k \in Keys |-> b[k]]
  BY DEF Loaded
<1> HIDE DEF b, r
<1>6. b \in ZoneContent
  <2>1. \A k \in Keys : b[k] \subseteq Rnames
    BY <1>1, <1>3, DataAssumption DEF ZoneContent
  <2>2. \A k \in Keys \ {SoaKey} : b[k] \subseteq Vals
    BY <1>1, <1>3 DEF ZoneContent
  <2> QED
    BY <1>5, <2>1, <2>2 DEF ZoneContent
<1>7. Visible(b) = Visible(r)
  BY <1>3, <1>4, Zenon DEF Visible
<1> QED
  BY <1>3, <1>4, <1>6, <1>7, ZenonT(30) DEF b, r

\* What persist_zone wrote reads back as it was, and loads if it has an SOA.
LEMMA ImageReadsBack ==
  ASSUME NEW new \in ZoneContent
  PROVE  /\ Visible(RecordsOf(Image(new))) = Visible(new)
         /\ Hole \notin Elements(Image(new))
         /\ new[SoaKey] # {} => \E l \in Elements(Image(new)) : l[1] = SoaKey
<1> DEFINE E == Elements(Image(new))
<1>1. \A l : l \in E <=> l = Header \/ \E k \in Keys \ Generated : \E v \in new[k] : l = <<k, v>>
  BY ImageFacts
<1>2. Hole \notin E
  BY ImageFacts, BoundsAssumption DEF Elements
<1> HIDE DEF E
<1>3. Header[1] \notin Keys
  BY KeysAssumption, FS_CardinalityType DEF Header
<1>4. ASSUME NEW k \in Keys \ Generated
      PROVE  {l[2] : l \in {m \in E \ {Hole} : m[1] = k}} = new[k]
  <2>1. ASSUME NEW m \in E, m[1] = k
        PROVE  m[2] \in new[k]
    BY <1>1, <1>3, <2>1
  <2>2. ASSUME NEW v \in new[k]
        PROVE  <<k, v>> \in E \ {Hole} /\ <<k, v>>[1] = k /\ <<k, v>>[2] = v
    BY <1>1, <1>2
  <2>3. ASSUME NEW v \in new[k]
        PROVE  v \in {l[2] : l \in {m \in E \ {Hole} : m[1] = k}}
    BY <2>2, Zenon
  <2> QED
    BY <2>1, <2>3
<1>5. \A k \in Keys \ Generated : RecordsOf(Image(new))[k] = new[k]
  BY <1>4 DEF RecordsOf, E
<1>6. Visible(RecordsOf(Image(new))) = Visible(new)
  BY <1>5 DEF Visible
<1>7. ASSUME new[SoaKey] # {}
      PROVE  \E l \in E : l[1] = SoaKey
  <2>1. PICK v : v \in new[SoaKey]
    BY <1>7
  <2>2. <<SoaKey, v>> \in E /\ <<SoaKey, v>>[1] = SoaKey
    BY <1>1, <2>1, KeysAssumption, ZenonT(30)
  <2> QED
    BY <2>2
<1> QED
  BY <1>2, <1>6, <1>7 DEF E

\* A call changes what is visible as it was asked to, and takes the SOA away
\* only when that is what it was asked to delete.
LEMMA ChangeFollows ==
  ASSUME NEW r \in Requests, NEW content \in ZoneContent, ~ ChangesNothing(r, content),
         content[SoaKey] # {}, NEW new \in Changed(r, content)
  PROVE  /\ new \in ZoneContent /\ Follows(content, new)
         /\ new[SoaKey] # {} \/ (r.op = "delete" /\ r.key = SoaKey)
<1>1. content \in [Keys -> SUBSET Rnames] /\ \A k \in Keys \ {SoaKey} : content[k] \subseteq Vals
  BY DEF ZoneContent
<1>2. Visible(content) \in [Keys \ Generated -> SUBSET (Vals \cup {"soa"})]
  BY VisibleType, Zenon
<1>k. SoaKey \in Keys
  BY KeysAssumption
<1>3. CASE r.op = "create"
  <2>1. r.key \in Keys \ Generated /\ r.val \in Vals
    BY <1>3 DEF Requests, ChangesNothing, Insertable
  <2>2. new \in Upserted(content, r.key, r.val)
    BY <1>3 DEF Changed
  <2> DEFINE k == r.key
             v == r.val
  <2> HIDE DEF k, v
  <2>3. CASE k = SoaKey
    <3>1. new = content \/ new = [content EXCEPT ![SoaKey] = {v}]
      BY <2>2, <2>3 DEF Upserted, k, v
    <3>2. v \in Rnames
      BY <2>1, DataAssumption, ZenonT(30) DEF v
    <3>3. new \in ZoneContent /\ new[SoaKey] # {} /\ \A j \in Keys \ {SoaKey} : new[j] = content[j]
      BY <1>1, <1>k, <3>1, <3>2, ZenonT(30) DEF ZoneContent
    <3>4. Visible(new) = Visible(content)
      BY <3>3 DEF Visible
    <3> QED
      BY <3>3, <3>4 DEF Follows
  <2>4. CASE k # SoaKey
    <3>1. new = [content EXCEPT ![k] = @ \cup {v}]
      BY <2>2, <2>4 DEF Upserted, k, v
    <3>2. k \in Keys \ Generated /\ v \in Vals /\ v \in Rnames
      BY <2>1, DataAssumption DEF k, v
    <3>3. /\ new[k] = content[k] \cup {v} /\ \A j \in Keys \ {k} : new[j] = content[j]
          /\ new \in [Keys -> SUBSET Rnames]
      BY <1>1, <3>1, <3>2
    <3>4. new \in ZoneContent /\ new[SoaKey] # {}
      BY <1>1, <1>k, <2>4, <3>2, <3>3 DEF ZoneContent
    <3>5. Visible(new) = [Visible(content) EXCEPT ![k] = @ \cup {v}]
      <4>1. Visible(content)[k] = content[k] /\ Visible(new)[k] = new[k]
        BY <2>4, <3>2 DEF Visible
      <4>2. \A j \in (Keys \ Generated) \ {k} : Visible(new)[j] = Visible(content)[j]
        BY <3>3 DEF Visible
      <4>3. Visible(new) \in [Keys \ Generated -> SUBSET (Vals \cup {"soa"})]
        BY <3>4, VisibleType, ZenonT(30)
      <4> QED
        BY <1>2, <3>2, <3>3, <4>1, <4>2, <4>3, ZenonT(30)
    <3> QED
      BY <3>2, <3>4, <3>5, ZenonT(30) DEF Follows
  <2> QED
    BY <2>3, <2>4
<1>4. CASE r.op = "delete"
  <2>1. r.key \in Keys
    BY <1>4 DEF Requests
  <2>2. new = [content EXCEPT ![r.key] = {}]
    BY <1>4 DEF Changed
  <2> DEFINE k == r.key
  <2>3. /\ new[k] = {} /\ \A j \in Keys \ {k} : new[j] = content[j]
        /\ new \in [Keys -> SUBSET Rnames]
    BY <1>1, <2>1, <2>2
  <2>4. new \in ZoneContent /\ (new[SoaKey] # {} \/ k = SoaKey)
    BY <1>1, <1>k, <2>3 DEF ZoneContent
  <2> HIDE DEF k
  <2>5. \A j \in (Keys \ Generated) \ {k} : Visible(new)[j] = Visible(content)[j]
    BY <2>3 DEF Visible
  <2>6. Visible(new) \in [Keys \ Generated -> SUBSET (Vals \cup {"soa"})]
    BY <2>4, VisibleType, Zenon
  <2>7. CASE k \in Generated
    <3>1. Visible(new) = Visible(content)
      BY <1>2, <2>5, <2>6, <2>7
    <3> QED
      BY <1>4, <2>4, <3>1 DEF Follows, k
  <2>8. CASE k \notin Generated
    <3>1. k \in Keys \ Generated /\ Visible(new)[k] = {}
      BY <2>1, <2>3, <2>8 DEF Visible, k
    <3>2. Visible(new) = [Visible(content) EXCEPT ![k] = {}]
      BY <1>2, <2>5, <2>6, <3>1
    <3> QED
      BY <1>4, <2>4, <3>1, <3>2, ZenonT(30) DEF Follows, k
  <2> QED
    BY <2>7, <2>8
<1>5. r.op \in {"create", "delete"}
  BY DEF Requests, ChangesNothing
<1> QED
  BY <1>3, <1>4, <1>5

\* A file after a write at an offset.  A call writing on its own leaves the
\* beginning of its image.
Laid(after, lines, image, end, off) ==
  /\ after \in Seq(Line \cup {Hole})
  /\ Len(after) = IF Len(lines) > end THEN Len(lines) ELSE end
  /\ lines = SubSeq(image, 1, off) => after = SubSeq(image, 1, end)

\* What Overlaid makes of a file.
LEMMA OverlaidFacts ==
  ASSUME NEW lines \in Seq(Line \cup {Hole}), NEW image \in Seq(Line), NEW off \in Nat,
         NEW n \in 1 .. Len(image) - off
  PROVE  Laid(Overlaid(lines, off, SubSeq(image, off + 1, off + n)), lines, image, off + n, off)
<1> DEFINE new == SubSeq(image, off + 1, off + n)
           e == off + n
           l == Len(lines)
           m == IF l > e THEN l ELSE e
           o == Overlaid(lines, off, new)
<1>1. e \in Nat /\ l \in Nat /\ m \in Nat /\ n \in Nat /\ Len(image) \in Nat /\ e <= Len(image) /\ n >= 1
  OBVIOUS
<1>2. /\ new \in Seq(Line) /\ Len(new) = n
      /\ \A i \in 1 .. n : new[i] = image[off + i]
  <2>1. /\ off + 1 \in 1 .. Len(image) + 1 /\ off + n \in off .. Len(image)
        /\ off + n - (off + 1) + 1 = n
    BY <1>1
  <2> QED
    BY <1>1, <2>1
<1> HIDE DEF new
<1>3. o = [i \in 1 .. m |-> IF i \in off + 1 .. e THEN new[i - off]
                            ELSE IF i <= l THEN lines[i] ELSE Hole]
  BY <1>2 DEF Overlaid
<1>4. \A i \in off + 1 .. e : i - off \in 1 .. n /\ off + (i - off) = i /\ i \in 1 .. Len(image)
  BY <1>1
<1>5. \A i \in off + 1 .. e : new[i - off] = image[i] /\ image[i] \in Line
  BY <1>2, <1>4
<1>6. \A i \in 1 .. m : i <= l => lines[i] \in Line \cup {Hole}
  BY <1>1
<1> HIDE DEF e, l, m, o
<1>7. o \in [1 .. m -> Line \cup {Hole}]
  BY <1>3, <1>5, <1>6, ZenonT(30)
<1>8. o \in Seq(Line \cup {Hole}) /\ Len(o) = m
  BY <1>1, <1>7
<1>9. ASSUME lines = SubSeq(image, 1, off)
      PROVE  o = SubSeq(image, 1, e)
  <2>1. l = off /\ \A i \in 1 .. off : lines[i] = image[i]
    BY <1>1, <1>9 DEF l, e
  <2>2. m = e
    BY <1>1, <2>1 DEF m, e
  <2>3. \A i \in 1 .. e : o[i] = image[i]
    <3>1. \A i \in 1 .. e : i \in off + 1 .. e \/ (i \in 1 .. off /\ i \notin off + 1 .. e /\ i <= l)
      BY <1>1, <2>1 DEF e
    <3> QED
      BY <1>3, <1>5, <2>1, <2>2, <3>1, ZenonT(30)
  <2>4. SubSeq(image, 1, e) = [i \in 1 .. e |-> image[i]]
    BY <1>1
  <2>5. o = [i \in 1 .. e |-> o[i]]
    BY <1>3, <2>2
  <2> QED
    BY <2>3, <2>4, <2>5
<1> QED
  BY <1>8, <1>9 DEF o, m, e, l, new, Laid

-----------------------------------------------------------------------------
(* Calls on zones.                                                         *)

\* What the record store sees of a zone in a step: it stays, it is lost, or the
\* store puts or removes.
Moved(z) ==
  \/ StoreOf(z)' = StoreOf(z)
  \/ StoreOf(z)' = Unpromised
  \/ /\ StoreOf(z) # Unpromised
     /\ \/ \E k \in Keys \ Generated, x \in Vals \cup {"soa"} :
             StoreOf(z)' = [StoreOf(z) EXCEPT ![k] = @ \cup {x}]
        \/ \E k \in Keys \ Generated : StoreOf(z)' = [StoreOf(z) EXCEPT ![k] = {}]

\* No zone but z moves.
MovesOnly(z) == Moved(z) /\ \A y \in Zones \ {z} : StoreOf(y)' = StoreOf(y)

\* A zone whose file stays as it was, and of whose calls none takes a step.
LEMMA Elsewhere ==
  ASSUME NEW y \in Zones, ZoneOK(y), file'[y] = file[y], hurt'[y] = hurt[y],
         \A d \in Calls : call'[d] = call[d] \/ (d \notin Changing(y) /\ d \notin Changing(y)')
  PROVE  ZoneOK(y)' /\ StoreOf(y)' = StoreOf(y)
<1>1. Changing(y)' = Changing(y) /\ \A d \in Changing(y) : call'[d] = call[d]
  BY DEF Changing
<1>2. Writing(y)' = Writing(y) /\ \A d \in Writing(y) : call'[d] = call[d]
  BY DEF Changing, Writing
<1>3. Loads(y)' = Loads(y)
  BY DEF Loads, Lines
<1>4. ZoneOK(y)'
  BY <1>1, <1>2, <1>3 DEF ZoneOK
<1>5. StoreOf(y)' = StoreOf(y)
  <2>1. CASE Writing(y) = {}
    BY <1>2, <2>1 DEF StoreOf
  <2>2. CASE Writing(y) # {}
    <3> DEFINE w == CHOOSE d \in Writing(y) : TRUE
    <3>1. w \in Writing(y)
      BY <2>2
    <3>2. call'[w] = call[w]
      BY <1>2, <3>1
    <3> QED
      BY <1>2, <2>2, <3>2 DEF StoreOf
  <2> QED
    BY <2>1, <2>2
<1> QED
  BY <1>4, <1>5

\* A call that goes on or answers: what it leaves of the other calls and zones.
LEMMA OneCall ==
  ASSUME ZoneInv, NEW c \in Calls, NEW z \in Zones,
         DOMAIN call' = Calls, \A d \in Calls \ {c} : call'[d] = call[d],
         \A y \in Zones \ {z} : /\ c \notin Changing(y) /\ c \notin Changing(y)'
                                /\ file'[y] = file[y] /\ hurt'[y] = hurt[y],
         file' \in [Zones -> Seq(Line \cup {Hole})],
         hurt' \in [Zones -> SUBSET {"raced", "crossed", "cut", "soa"}],
         hurt[z] \subseteq hurt'[z],
         CallOK(call[c])', ZoneOK(z)', Moved(z)
  PROVE  ZoneInv' /\ MovesOnly(z)
<1>1. ASSUME NEW y \in Zones \ {z}
      PROVE  ZoneOK(y)' /\ StoreOf(y)' = StoreOf(y)
  <2>1. ZoneOK(y) /\ file'[y] = file[y] /\ hurt'[y] = hurt[y]
    BY DEF ZoneInv
  <2>2. \A d \in Calls : call'[d] = call[d] \/ (d \notin Changing(y) /\ d \notin Changing(y)')
    BY ZenonT(30)
  <2> QED
    BY <2>1, <2>2, Elsewhere
<1>2. ASSUME NEW d \in Calls \ {c}
      PROVE  CallOK(call[d])'
  <2>1. CallOK(call[d]) /\ call'[d] = call[d]
    BY DEF ZoneInv
  <2>2. \A y \in Zones : hurt[y] \subseteq hurt'[y]
    BY ZenonT(30)
  <2>3. ASSUME call[d] \in Changes, Grounded(call[d], hurt[call[d].zone])
        PROVE  Grounded(call[d], hurt'[call[d].zone])
    <3>1. hurt[call[d].zone] \subseteq hurt'[call[d].zone]
      BY <2>2, <2>3 DEF Changes
    <3> QED
      BY <2>3, <3>1, ZenonT(30) DEF Grounded
  <2> QED
    BY <2>1, <2>3, ZenonT(30) DEF CallOK
<1>3. \A d \in Calls : CallOK(call[d])'
  BY <1>2
<1>4. \A y \in Zones : ZoneOK(y)'
  BY <1>1
<1>5. ZoneInv'
  BY <1>3, <1>4 DEF ZoneInv
<1> QED
  BY <1>1, <1>5 DEF MovesOnly

\* A call that is not about to write, before or after its step, moves nothing.
LEMMA QuietCall ==
  ASSUME ZoneInv, NEW c \in Calls, DOMAIN call' = Calls,
         \A d \in Calls \ {c} : call'[d] = call[d],
         call[c].at \notin {"save", "write"}, call'[c].at \notin {"save", "write"},
         UNCHANGED <<file, hurt>>, CallOK(call[c])'
  PROVE  ZoneInv' /\ \A y \in Zones : StoreOf(y)' = StoreOf(y)
<1>1. ASSUME NEW y \in Zones
      PROVE  ZoneOK(y)' /\ StoreOf(y)' = StoreOf(y)
  <2>1. ZoneOK(y) /\ file'[y] = file[y] /\ hurt'[y] = hurt[y]
    BY DEF ZoneInv
  <2>2. \A d \in Calls : call'[d] = call[d] \/ (d \notin Changing(y) /\ d \notin Changing(y)')
    BY DEF Changing
  <2> QED
    BY <2>1, <2>2, Elsewhere
<1>2. \A d \in Calls \ {c} : CallOK(call[d])'
  BY DEF ZoneInv, CallOK
<1> QED
  BY <1>1, <1>2 DEF ZoneInv

\* What the calls on the zones are after a step of one.
LEMMA CallSets ==
  ASSUME NEW c \in Calls, \A d \in Calls \ {c} : call'[d] = call[d]
  PROVE  \A y : /\ Writing(y)' = (Writing(y) \ {c})
                     \cup {d \in {c} : call'[c].at = "write" /\ call'[c].zone = y}
               /\ Changing(y)' = (Changing(y) \ {c})
                     \cup {d \in {c} : call'[c].at \in {"save", "write"} /\ call'[c].zone = y}
  BY DEF Writing, Changing

\* What a call is when it loads and when it writes.
LEMMA CallIs ==
  ASSUME ZoneInv, NEW c \in Calls
  PROVE  /\ call[c].at = "load" => call[c] \in Loading
         /\ call[c].at \in {"save", "write"} =>
              /\ call[c] \in Changes /\ call[c].zone \in Zones
              /\ call[c].off < Len(call[c].image) /\ (call[c].at = "save" => call[c].off = 0)
              /\ Grounded(call[c], hurt[call[c].zone])
<1>1. CallOK(call[c])
  BY DEF ZoneInv
<1>2. Idle.at = "idle" /\ [at |-> "options"].at = "options"
  BY DEF Idle
<1>3. \A r \in Loading : r.at = "load"
  BY DEF Loading
<1>4. \A r \in Changes : r.at \in {"save", "write"} /\ r.zone \in Zones
  BY DEF Changes
<1> QED
  BY <1>1, <1>2, <1>3, <1>4 DEF CallOK

\* Load: a call that goes on has read what the zone holds.
LEMMA LoadZoneInv ==
  ASSUME ZoneInv, NEW c \in Calls, Load(c), ~ Respond(c)
  PROVE  ZoneInv' /\ \E z \in Zones : MovesOnly(z)
<1>0. call[c].at = "load" /\ call[c] \in Loading
  BY CallIs DEF Load
<1>1. PICK z \in Zones : z = call[c].zone
  BY <1>0 DEF Loading
<1>2. PICK req \in Requests : req = call[c].req
  BY <1>0 DEF Loading
<1> DEFINE content == Loaded(z, DefaultRname)
<1>3. /\ Loads(z) /\ ~ ChangesNothing(req, content)
      /\ \E new \in Changed(req, content) :
           call' = [call EXCEPT ![c] = [at |-> "save", zone |-> z, base |-> content,
                                        image |-> Image(new), off |-> 0]]
      /\ hurt' = [hurt EXCEPT ![z] =
                    @ \cup (IF Changing(z) # {} THEN {"raced"} ELSE {})
                      \cup (IF req.op = "delete" /\ req.key = SoaKey THEN {"soa"} ELSE {})]
      /\ file' = file
  BY <1>1, <1>2, Zenon DEF Load
<1>4. /\ content \in ZoneContent /\ content[SoaKey] # {}
      /\ Visible(content) = Visible(RecordsOf(file[z]))
  BY <1>3, LoadedFacts, Zenon DEF ZoneInv
<1> HIDE DEF content
<1>5. PICK new \in Changed(req, content) :
        call' = [call EXCEPT ![c] = [at |-> "save", zone |-> z, base |-> content,
                                     image |-> Image(new), off |-> 0]]
  BY <1>3, Zenon
<1>6. /\ new \in ZoneContent /\ Follows(content, new)
      /\ new[SoaKey] # {} \/ (req.op = "delete" /\ req.key = SoaKey)
  BY <1>3, <1>4, ChangeFollows, ZenonT(30)
<1> DEFINE r == [at |-> "save", zone |-> z, base |-> content, image |-> Image(new), off |-> 0]
<1>7. call' = [call EXCEPT ![c] = r]
  BY <1>5, ZenonT(30)
<1>8. /\ r.at = "save" /\ r.zone = z /\ r.base = content /\ r.image = Image(new) /\ r.off = 0
      /\ r \in Changes /\ r.off < Len(r.image)
  BY <1>4, <1>6, ImageFacts DEF Changes
<1> HIDE DEF r
<1>9. hurt \in [Zones -> SUBSET {"raced", "crossed", "cut", "soa"}] /\ DOMAIN call = Calls
  BY DEF ZoneInv
<1>10. /\ hurt' \in [Zones -> SUBSET {"raced", "crossed", "cut", "soa"}]
       /\ \A y \in Zones \ {z} : hurt'[y] = hurt[y]
       /\ hurt[z] \subseteq hurt'[z]
       /\ Changing(z) # {} => "raced" \in hurt'[z]
       /\ req.op = "delete" /\ req.key = SoaKey => "soa" \in hurt'[z]
       /\ hurt'[z] \cap {"crossed", "cut"} = hurt[z] \cap {"crossed", "cut"}
  BY <1>3, <1>9, ZenonT(30)
<1>11. /\ DOMAIN call' = Calls /\ call'[c] = r /\ \A d \in Calls \ {c} : call'[d] = call[d]
       /\ \A y : Writing(y)' = (Writing(y) \ {c}) \cup {d \in {c} : r.at = "write" /\ r.zone = y}
       /\ \A y : Changing(y)' = (Changing(y) \ {c}) \cup {d \in {c} : r.at \in {"save", "write"} /\ r.zone = y}
  <2>1. DOMAIN call' = Calls /\ call'[c] = r /\ \A d \in Calls \ {c} : call'[d] = call[d]
    BY <1>7, <1>9
  <2> QED
    BY <2>1, CallSets
<1>12. \A y : c \notin Changing(y) /\ c \notin Writing(y)
  BY <1>0 DEF Changing, Writing
<1>13. /\ Writing(z)' = Writing(z) /\ Changing(z)' = Changing(z) \cup {c}
       /\ \A y \in Zones \ {z} : c \notin Changing(y)'
  BY <1>8, <1>11, <1>12, Zenon
<1>14. \A d \in Writing(z) : call'[d] = call[d] /\ d \in Changing(z)
  BY <1>11, <1>12, Zenon DEF Writing, Changing
<1>15. CallOK(call[c])'
  <2>1. Grounded(r, hurt'[z])
    BY <1>6, <1>8, <1>10, ZenonT(30) DEF Grounded
  <2> QED
    BY <1>8, <1>11, <2>1, Zenon DEF CallOK
<1>16. ZoneOK(z)'
  <2>1. ZoneOK(z)
    BY DEF ZoneInv
  <2>2. Loads(z)' = Loads(z)
    BY <1>3, Zenon DEF Loads, Lines
  <2>3. "raced" \notin hurt'[z] => Changing(z)' = {c}
    BY <1>10, <1>13, Zenon
  <2>4. hurt'[z] \cap {"raced", "cut"} = {} =>
          \A d \in Changing(z)' \ Writing(z)' : Visible(RecordsOf(file'[z])) = Visible(call'[d].base)
    BY <1>3, <1>4, <1>8, <1>11, <2>3, ZenonT(30)
  <2>5. hurt'[z] \cap {"crossed", "cut"} = {} =>
          \A d \in Writing(z)' : Writing(z)' = {d} /\ file'[z] = SubSeq(call'[d].image, 1, call'[d].off)
    BY <1>3, <1>10, <1>13, <1>14, <2>1 DEF ZoneOK
  <2>6. /\ Len(file'[z]) <= MaxLines
        /\ Writing(z)' # {} => Len(file'[z]) <= Cardinality(Line)
        /\ "crossed" \in hurt'[z] => "raced" \in hurt'[z]
        /\ Writing(z)' = {} /\ hurt'[z] \cap {"crossed", "cut", "soa"} = {} => Loads(z)'
    BY <1>3, <1>10, <1>13, <2>1, <2>2, ZenonT(30) DEF ZoneOK
  <2> QED
    BY <2>3, <2>4, <2>5, <2>6 DEF ZoneOK
<1>17. Moved(z)
  <2>1. CASE "raced" \in hurt'[z]
    BY <2>1, Zenon DEF Moved, StoreOf
  <2>2. CASE "raced" \notin hurt'[z]
    <3>1. Changing(z) = {} /\ Writing(z) = {} /\ Writing(z)' = {}
      BY <1>10, <1>13, <1>14, <2>2, ZenonT(30)
    <3>2. hurt'[z] \cap {"raced", "cut"} = hurt[z] \cap {"raced", "cut"}
      BY <1>10, <2>2
    <3>3. StoreOf(z)' = StoreOf(z)
      BY <1>3, <3>1, <3>2 DEF StoreOf
    <3> QED
      BY <3>3, ZenonT(30) DEF Moved
  <2> QED
    BY <2>1, <2>2
<1>18. file' \in [Zones -> Seq(Line \cup {Hole})]
  BY <1>3, Zenon DEF ZoneInv
<1>19. ZoneInv' /\ MovesOnly(z)
  BY <1>3, <1>10, <1>11, <1>12, <1>13, <1>15, <1>16, <1>17, <1>18, OneCall, ZenonT(30)
<1> QED
  BY <1>19

\* Truncate: from now on the zone stands for what the call found.
LEMMA TruncateInv ==
  ASSUME ZoneInv, NEW c \in Calls, Truncate(c)
  PROVE  ZoneInv' /\ \E z \in Zones : MovesOnly(z)
<1>0. /\ call[c].at = "save" /\ call[c] \in Changes
      /\ call[c].off < Len(call[c].image) /\ call[c].off = 0
      /\ Grounded(call[c], hurt[call[c].zone])
  BY CallIs, Zenon DEF Truncate
<1>1. PICK z \in Zones : z = call[c].zone
  BY <1>0 DEF Changes
<1> DEFINE r == [call[c] EXCEPT !.at = "write"]
<1>2. /\ file' = [file EXCEPT ![z] = << >>] /\ call' = [call EXCEPT ![c] = r]
      /\ hurt' = [hurt EXCEPT ![z] = @ \cup (IF Writing(z) # {} THEN {"crossed"} ELSE {})]
  BY <1>1 DEF Truncate
<1>3. /\ r \in Changes /\ r.at = "write" /\ r.zone = z /\ r.base = call[c].base
      /\ r.image = call[c].image /\ r.off = 0
  BY <1>0, <1>1 DEF Changes
<1> HIDE DEF r
<1>4. /\ hurt \in [Zones -> SUBSET {"raced", "crossed", "cut", "soa"}] /\ DOMAIN call = Calls
      /\ file \in [Zones -> Seq(Line \cup {Hole})]
  BY DEF ZoneInv
<1>5. /\ hurt' \in [Zones -> SUBSET {"raced", "crossed", "cut", "soa"}]
      /\ \A y \in Zones \ {z} : hurt'[y] = hurt[y] /\ file'[y] = file[y]
      /\ hurt[z] \subseteq hurt'[z]
      /\ Writing(z) # {} => "crossed" \in hurt'[z]
      /\ Writing(z) = {} => hurt'[z] = hurt[z]
      /\ hurt'[z] \cap {"raced", "cut", "soa"} = hurt[z] \cap {"raced", "cut", "soa"}
  BY <1>2, <1>4
<1>6. file' \in [Zones -> Seq(Line \cup {Hole})] /\ file'[z] = << >>
  <2>1. << >> \in Seq(Line \cup {Hole})
    OBVIOUS
  <2> QED
    BY <1>2, <1>4, <2>1
<1>7. /\ DOMAIN call' = Calls /\ call'[c] = r /\ \A d \in Calls \ {c} : call'[d] = call[d]
      /\ \A y : Writing(y)' = (Writing(y) \ {c}) \cup {d \in {c} : r.at = "write" /\ r.zone = y}
      /\ \A y : Changing(y)' = (Changing(y) \ {c}) \cup {d \in {c} : r.at \in {"save", "write"} /\ r.zone = y}
  <2>1. DOMAIN call' = Calls /\ call'[c] = r /\ \A d \in Calls \ {c} : call'[d] = call[d]
    BY <1>2, <1>4
  <2> QED
    BY <2>1, CallSets
<1>8. /\ c \in Changing(z) /\ \A y : c \notin Writing(y)
      /\ \A y \in Zones \ {z} : c \notin Changing(y)
      /\ \A d \in Writing(z) : d \in Changing(z)
  BY <1>0, <1>1 DEF Changing, Writing
<1>9. /\ Writing(z)' = Writing(z) \cup {c} /\ Changing(z)' = Changing(z)
      /\ \A y \in Zones \ {z} : c \notin Changing(y)'
  BY <1>3, <1>7, <1>8, Zenon
<1>10. ZoneOK(z)
  BY DEF ZoneInv
<1>11. CallOK(call[c])'
  <2>1. Grounded(r, hurt'[z])
    BY <1>0, <1>1, <1>3, <1>5, ZenonT(30) DEF Grounded
  <2> QED
    BY <1>0, <1>3, <1>7, <2>1, Zenon DEF CallOK
<1>12. Writing(z) # {} => "raced" \in hurt'[z]
  BY <1>5, <1>8, <1>10 DEF ZoneOK
<1>13. ZoneOK(z)'
  <2>1. /\ Len(file'[z]) <= MaxLines
        /\ Len(file'[z]) <= Cardinality(Line)
    BY <1>6, BoundsAssumption, LineFacts, FS_CardinalityType
  <2>2. "raced" \notin hurt'[z] => \A b, d \in Changing(z)' : b = d
    BY <1>5, <1>9, <1>10, ZenonT(30) DEF ZoneOK
  <2>3. "crossed" \in hurt'[z] => "raced" \in hurt'[z]
    BY <1>5, <1>10, <1>12 DEF ZoneOK
  <2>4. hurt'[z] \cap {"crossed", "cut"} = {} =>
          \A d \in Writing(z)' : Writing(z)' = {d} /\ file'[z] = SubSeq(call'[d].image, 1, call'[d].off)
    <3>1. SubSeq(r.image, 1, r.off) = << >>
      BY <1>3 DEF Changes
    <3> QED
      BY <1>5, <1>6, <1>7, <1>9, <3>1, ZenonT(30)
  <2>5. hurt'[z] \cap {"raced", "cut"} = {} => Changing(z)' \ Writing(z)' = {}
    BY <1>8, <1>9, <2>2
  <2> QED
    BY <1>9, <2>1, <2>2, <2>3, <2>4, <2>5 DEF ZoneOK
<1>14. Moved(z)
  <2>1. CASE hurt[z] \cap {"raced", "cut"} # {}
    BY <1>5, <2>1 DEF Moved, StoreOf
  <2>2. CASE hurt[z] \cap {"raced", "cut"} = {}
    <3>1. Writing(z) = {} /\ Writing(z)' = {c} /\ hurt'[z] \cap {"raced", "cut"} = {}
      BY <1>5, <1>9, <1>12, <2>2, Zenon
    <3>2. Visible(RecordsOf(file[z])) = Visible(call[c].base)
      BY <1>8, <1>10, <2>2, Zenon DEF ZoneOK
    <3>3. (CHOOSE d \in Writing(z)' : TRUE) = c
      BY <3>1, Zenon
    <3>4. StoreOf(z)' = Visible(call'[c].base)
      BY <3>1, <3>3, Zenon DEF StoreOf
    <3>5. StoreOf(z)' = StoreOf(z)
      BY <1>3, <1>7, <2>2, <3>1, <3>2, <3>4, ZenonT(30) DEF StoreOf
    <3> QED
      BY <3>5 DEF Moved
  <2> QED
    BY <2>1, <2>2, ZenonT(30)
<1>15. ZoneInv' /\ MovesOnly(z)
  BY <1>5, <1>6, <1>7, <1>8, <1>9, <1>11, <1>13, <1>14, OneCall, ZenonT(30)
<1> QED
  BY <1>15

\* Write: a call on its own writes the beginning of its image, and with the last
\* write what it was asked to change has changed.
LEMMA WriteInv ==
  ASSUME ZoneInv, NEW c \in Calls, NEW n, Write(c, n)
  PROVE  ZoneInv' /\ \E z \in Zones : MovesOnly(z)
<1>0. /\ call[c].at = "write" /\ call[c] \in Changes
      /\ Grounded(call[c], hurt[call[c].zone])
  BY CallIs DEF Write
<1>1. PICK z \in Zones : z = call[c].zone
  BY <1>0, Zenon DEF Changes
<1>2. PICK new \in ZoneContent : /\ call[c].image = Image(new)
                                 /\ new[SoaKey] # {} \/ "soa" \in hurt[z]
                                 /\ Follows(call[c].base, new)
  BY <1>0, <1>1, Zenon DEF Grounded
<1> DEFINE image == Image(new)
           off == call[c].off
           o == Overlaid(file[z], off, SubSeq(image, off + 1, off + n))
<1>3. /\ n \in 1 .. Len(image) - off
      /\ file' = [file EXCEPT ![z] = o]
      /\ IF off + n = Len(image) THEN Respond(c) ELSE call' = [call EXCEPT ![c].off = off + n]
      /\ hurt' = hurt
  BY <1>1, <1>2, ZenonT(30) DEF Write
<1>4. image \in Seq(Line) /\ Len(image) \in 1 .. Cardinality(Line) /\ off \in Nat /\ call[c].base \in ZoneContent
  BY <1>0, ImageFacts DEF Changes
<1>5. /\ hurt \in [Zones -> SUBSET {"raced", "crossed", "cut", "soa"}] /\ DOMAIN call = Calls
      /\ file \in [Zones -> Seq(Line \cup {Hole})] /\ ZoneOK(z)
  BY DEF ZoneInv
<1> HIDE DEF image, off
<1>6. /\ o \in Seq(Line \cup {Hole})
      /\ Len(o) = IF Len(file[z]) > off + n THEN Len(file[z]) ELSE off + n
      /\ file[z] = SubSeq(image, 1, off) => o = SubSeq(image, 1, off + n)
  <2>1. file[z] \in Seq(Line \cup {Hole})
    BY <1>5
  <2>2. n \in 1 .. Len(image) - off /\ image \in Seq(Line) /\ off \in Nat
    BY <1>3, <1>4
  <2>3. Laid(o, file[z], image, off + n, off)
    BY <2>1, <2>2, OverlaidFacts, Zenon
  <2> HIDE DEF o
  <2> QED
    BY <2>3 DEF Laid
<1> HIDE DEF o
<1>7. /\ file' \in [Zones -> Seq(Line \cup {Hole})] /\ file'[z] = o
      /\ \A y \in Zones \ {z} : file'[y] = file[y]
  BY <1>3, <1>5, <1>6, ZenonT(30)
<1>8. /\ c \in Changing(z) /\ c \in Writing(z)
      /\ \A y \in Zones \ {z} : c \notin Changing(y)
      /\ \A d \in Writing(z) : d \in Changing(z)
  BY <1>0, <1>1 DEF Changing, Writing
<1>9. Len(o) <= Cardinality(Line) /\ Len(o) <= MaxLines
  <2>1. Len(file[z]) <= Cardinality(Line)
    BY <1>5, <1>8 DEF ZoneOK
  <2>2. Len(file[z]) \in Nat
    BY <1>5
  <2>3. Cardinality(Line) \in Nat /\ MaxLines \in Nat /\ Cardinality(Line) < MaxLines
    BY BoundsAssumption, LineFacts, FS_CardinalityType
  <2>4. off + n \in Nat /\ off + n <= Cardinality(Line)
    BY <1>3, <1>4, <2>3
  <2> QED
    BY <1>6, <2>1, <2>2, <2>3, <2>4
<1>10. hurt[z] \cap {"crossed", "cut"} = {} => Writing(z) = {c} /\ o = SubSeq(image, 1, off + n)
  <2>1. ASSUME hurt[z] \cap {"crossed", "cut"} = {}
        PROVE  Writing(z) = {c} /\ file[z] = SubSeq(call[c].image, 1, call[c].off)
    BY <1>5, <1>8, <2>1, ZenonT(30) DEF ZoneOK
  <2> QED
    BY <1>2, <1>6, <2>1 DEF image, off
<1>11. hurt[z] \cap {"raced", "cut"} = {} =>
         Changing(z) = {c} /\ Writing(z) = {c} /\ hurt[z] \cap {"crossed", "cut"} = {}
  <2>1. ASSUME hurt[z] \cap {"raced", "cut"} = {}
        PROVE  Changing(z) = {c} /\ hurt[z] \cap {"crossed", "cut"} = {}
    BY <1>5, <1>8, <2>1 DEF ZoneOK
  <2> QED
    BY <1>10, <2>1
<1>12. CASE off + n = Len(image)
  <2>1. DOMAIN call' = Calls /\ call'[c] = Idle /\ \A d \in Calls \ {c} : call'[d] = call[d]
    BY <1>3, <1>5, <1>12 DEF Respond
  <2>2. \A y : Writing(y)' = Writing(y) \ {c} /\ Changing(y)' = Changing(y) \ {c}
    BY <2>1, CallSets DEF Idle
  <2>3. SubSeq(image, 1, off + n) = image
    BY <1>4, <1>12
  <2>4. CallOK(call[c])'
    BY <2>1, Zenon DEF CallOK
  <2>5. ZoneOK(z)'
    <3>1. "raced" \notin hurt'[z] => \A b, d \in Changing(z)' : b = d
      BY <1>3, <1>5, <2>2 DEF ZoneOK
    <3>2. "crossed" \in hurt'[z] => "raced" \in hurt'[z]
      BY <1>3, <1>5 DEF ZoneOK
    <3>3. hurt'[z] \cap {"crossed", "cut"} = {} => Writing(z)' = {}
      BY <1>3, <1>10, <2>2
    <3>4. hurt'[z] \cap {"raced", "cut"} = {} => Changing(z)' = {}
      BY <1>3, <1>11, <2>2, ZenonT(30)
    <3>5. ASSUME hurt'[z] \cap {"crossed", "cut", "soa"} = {}
          PROVE  Loads(z)'
      <4>1. file'[z] = Image(new) /\ new[SoaKey] # {}
        BY <1>2, <1>3, <1>7, <1>10, <2>3, <3>5, ZenonT(30) DEF image
      <4> QED
        BY <4>1, ImageReadsBack DEF Loads, Lines
    <3> QED
      BY <1>7, <1>9, <3>1, <3>2, <3>3, <3>4, <3>5, ZenonT(30) DEF ZoneOK
  <2>6. Moved(z)
    <3>1. CASE hurt[z] \cap {"raced", "cut"} # {}
      BY <1>3, <3>1, ZenonT(30) DEF Moved, StoreOf
    <3>2. CASE hurt[z] \cap {"raced", "cut"} = {}
      <4>1. Writing(z) = {c} /\ Writing(z)' = {} /\ file'[z] = Image(new)
        BY <1>7, <1>10, <1>11, <2>2, <2>3, <3>2, ZenonT(30) DEF image
      <4>2. (CHOOSE d \in Writing(z) : TRUE) = c
        BY <4>1, ZenonT(30)
      <4>3. StoreOf(z) = Visible(call[c].base)
        BY <3>2, <4>1, <4>2 DEF StoreOf
      <4>4. StoreOf(z)' = Visible(RecordsOf(Image(new)))
        BY <1>3, <3>2, <4>1 DEF StoreOf
      <4>5. StoreOf(z)' = Visible(new)
        BY <4>4, ImageReadsBack
      <4>6. StoreOf(z) # Unpromised
        BY <1>4, <4>3, VisibleType
      <4> QED
        BY <1>2, <4>3, <4>5, <4>6 DEF Moved, Follows
    <3> QED
      BY <3>1, <3>2
  <2>7. ZoneInv' /\ MovesOnly(z)
    BY <1>3, <1>5, <1>7, <1>8, <2>1, <2>2, <2>4, <2>5, <2>6, OneCall, ZenonT(30)
  <2> QED
    BY <2>7
<1>13. CASE off + n # Len(image)
  <2> DEFINE r == [call[c] EXCEPT !.off = off + n]
  <2>1. call' = [call EXCEPT ![c] = r]
    BY <1>3, <1>13
  <2>2. off + n \in Nat /\ off + n < Len(image)
    BY <1>3, <1>4, <1>13
  <2>3. /\ r \in Changes /\ r.at = "write" /\ r.zone = z /\ r.base = call[c].base
        /\ r.image = call[c].image /\ r.off = off + n
    BY <1>0, <1>1, <2>2 DEF Changes
  <2> HIDE DEF r
  <2>4. DOMAIN call' = Calls /\ call'[c] = r /\ \A d \in Calls \ {c} : call'[d] = call[d]
    BY <1>5, <2>1
  <2>5. /\ Writing(z)' = Writing(z) /\ Changing(z)' = Changing(z)
        /\ \A y \in Zones \ {z} : c \notin Changing(y)'
    <3>1. \A y : /\ Writing(y)' = (Writing(y) \ {c}) \cup {d \in {c} : r.at = "write" /\ r.zone = y}
                 /\ Changing(y)' = (Changing(y) \ {c})
                                     \cup {d \in {c} : r.at \in {"save", "write"} /\ r.zone = y}
      BY <2>4, CallSets
    <3> QED
      BY <1>8, <2>3, <3>1, ZenonT(30)
  <2>6. CallOK(call[c])'
    <3>1. Grounded(r, hurt[z])
      BY <1>0, <1>1, <2>3 DEF Grounded
    <3> QED
      BY <1>2, <1>3, <2>2, <2>3, <2>4, <3>1, ZenonT(30) DEF CallOK, image
  <2>7. ZoneOK(z)'
    <3>1. "raced" \notin hurt'[z] => \A b, d \in Changing(z)' : b = d
      BY <1>3, <1>5, <2>5 DEF ZoneOK
    <3>2. "crossed" \in hurt'[z] => "raced" \in hurt'[z]
      BY <1>3, <1>5 DEF ZoneOK
    <3>3. hurt'[z] \cap {"crossed", "cut"} = {} =>
            \A d \in Writing(z)' : Writing(z)' = {d} /\ file'[z] = SubSeq(call'[d].image, 1, call'[d].off)
      BY <1>2, <1>3, <1>7, <1>10, <2>3, <2>4, <2>5 DEF image
    <3>4. hurt'[z] \cap {"raced", "cut"} = {} => Changing(z)' \ Writing(z)' = {}
      BY <1>3, <1>11, <2>5
    <3> QED
      BY <1>7, <1>8, <1>9, <2>5, <3>1, <3>2, <3>3, <3>4, ZenonT(30) DEF ZoneOK
  <2>8. Moved(z)
    <3> DEFINE w == CHOOSE d \in Writing(z) : TRUE
    <3>1. w \in Writing(z) /\ w \in Calls
      BY <1>8 DEF Writing
    <3>2. call'[w].base = call[w].base
      BY <2>3, <2>4, <3>1
    <3>3. StoreOf(z)' = StoreOf(z)
      BY <1>3, <1>8, <2>5, <3>2 DEF StoreOf
    <3> QED
      BY <3>3 DEF Moved
  <2>9. ZoneInv' /\ MovesOnly(z)
    BY <1>3, <1>5, <1>7, <1>8, <2>4, <2>5, <2>6, <2>7, <2>8, OneCall, ZenonT(30)
  <2> QED
    BY <2>9
<1> QED
  BY <1>12, <1>13

\* OpenFails: the zone is what it was.
LEMMA OpenFailsInv ==
  ASSUME ZoneInv, NEW c \in Calls, OpenFails(c)
  PROVE  ZoneInv' /\ \E z \in Zones : MovesOnly(z)
<1>1. call[c].at = "save" /\ call[c].zone \in Zones
  BY CallIs DEF OpenFails
<1>2. PICK z \in Zones : z = call[c].zone
  BY <1>1
<1>3. /\ hurt \in [Zones -> SUBSET {"raced", "crossed", "cut", "soa"}] /\ DOMAIN call = Calls
      /\ file \in [Zones -> Seq(Line \cup {Hole})] /\ ZoneOK(z)
  BY DEF ZoneInv
<1>4. /\ DOMAIN call' = Calls /\ call'[c] = Idle /\ \A d \in Calls \ {c} : call'[d] = call[d]
      /\ file' = file /\ hurt' = hurt
  BY <1>3, ZenonT(30) DEF OpenFails, Respond
<1>5. /\ \A y : Writing(y)' = Writing(y) \ {c} /\ Changing(y)' = Changing(y) \ {c}
      /\ c \notin Writing(z) /\ \A y \in Zones \ {z} : c \notin Changing(y)
  <2>1. \A y : Writing(y)' = Writing(y) \ {c} /\ Changing(y)' = Changing(y) \ {c}
    BY <1>4, CallSets DEF Idle
  <2> QED
    BY <1>1, <1>2, <2>1 DEF Writing, Changing
<1>6. Writing(z)' = Writing(z) /\ \A d \in Writing(z) : call'[d] = call[d]
  BY <1>4, <1>5 DEF Writing
<1>7. CallOK(call[c])'
  BY <1>4, ZenonT(30) DEF CallOK
<1>8. ZoneOK(z)'
  <2>1. Loads(z)' = Loads(z)
    BY <1>4 DEF Loads, Lines
  <2>2. \A d \in Changing(z)' : d \in Changing(z) /\ call'[d] = call[d]
    BY <1>4, <1>5 DEF Changing
  <2> QED
    BY <1>3, <1>4, <1>6, <2>1, <2>2 DEF ZoneOK
<1>9. Moved(z)
  <2>1. CASE Writing(z) = {}
    BY <1>4, <1>6, <2>1, Zenon DEF Moved, StoreOf
  <2>2. CASE Writing(z) # {}
    <3> DEFINE w == CHOOSE d \in Writing(z) : TRUE
    <3>1. call'[w] = call[w]
      BY <1>6, <2>2
    <3> QED
      BY <1>4, <1>6, <2>2, <3>1, ZenonT(30) DEF Moved, StoreOf
  <2> QED
    BY <2>1, <2>2
<1>10. ZoneInv' /\ MovesOnly(z)
  BY <1>3, <1>4, <1>5, <1>7, <1>8, <1>9, OneCall, ZenonT(30)
<1> QED
  BY <1>10

\* WriteFails: nothing is promised of the zone any more.
LEMMA WriteFailsInv ==
  ASSUME ZoneInv, NEW c \in Calls, WriteFails(c)
  PROVE  ZoneInv' /\ \E z \in Zones : MovesOnly(z)
<1>1. call[c].at = "write" /\ call[c].zone \in Zones
  BY CallIs DEF WriteFails
<1>2. PICK z \in Zones : z = call[c].zone
  BY <1>1
<1>3. /\ hurt \in [Zones -> SUBSET {"raced", "crossed", "cut", "soa"}] /\ DOMAIN call = Calls
      /\ file \in [Zones -> Seq(Line \cup {Hole})] /\ ZoneOK(z)
  BY DEF ZoneInv
<1>4. /\ DOMAIN call' = Calls /\ call'[c] = Idle /\ \A d \in Calls \ {c} : call'[d] = call[d]
      /\ file' = file /\ hurt' = [hurt EXCEPT ![z] = @ \cup {"cut"}]
  BY <1>2, <1>3 DEF WriteFails, Respond
<1>5. /\ hurt' \in [Zones -> SUBSET {"raced", "crossed", "cut", "soa"}]
      /\ \A y \in Zones \ {z} : hurt'[y] = hurt[y]
      /\ hurt'[z] = hurt[z] \cup {"cut"}
  BY <1>3, <1>4
<1>6. /\ \A y : Writing(y)' = Writing(y) \ {c} /\ Changing(y)' = Changing(y) \ {c}
      /\ \A y \in Zones \ {z} : c \notin Changing(y)
  <2>1. \A y : Writing(y)' = Writing(y) \ {c} /\ Changing(y)' = Changing(y) \ {c}
    BY <1>4, CallSets DEF Idle
  <2> QED
    BY <1>2, <2>1 DEF Changing
<1>7. CallOK(call[c])'
  BY <1>4 DEF CallOK
<1>8. ZoneOK(z)'
  <2>1. "cut" \in hurt'[z] /\ ("raced" \in hurt'[z] <=> "raced" \in hurt[z])
          /\ ("crossed" \in hurt'[z] <=> "crossed" \in hurt[z])
    BY <1>5
  <2>2. hurt'[z] \cap {"crossed", "cut"} # {} /\ hurt'[z] \cap {"raced", "cut"} # {}
          /\ hurt'[z] \cap {"crossed", "cut", "soa"} # {}
    BY <2>1, Zenon
  <2> QED
    BY <1>3, <1>4, <1>6, <2>1, <2>2, ZenonT(30) DEF ZoneOK
<1>9. Moved(z)
  BY <1>5, Zenon DEF Moved, StoreOf
<1>10. ZoneInv' /\ MovesOnly(z)
  BY <1>3, <1>4, <1>5, <1>6, <1>7, <1>8, <1>9, OneCall, ZenonT(30)
<1> QED
  BY <1>10

\* A step that moves one zone, or loses some, is a step of the store.
LEMMA StoreMoves ==
  ASSUME \/ \E z \in Zones : MovesOnly(z)
         \/ \A z \in Zones : StoreOf(z)' = StoreOf(z) \/ StoreOf(z)' = Unpromised
  PROVE  Store!StoreNext
<1> DEFINE s == [z \in Zones |-> StoreOf(z)]
           t == [z \in Zones |-> StoreOf(z)']
<1>1. ASSUME \A z \in Zones : StoreOf(z)' = StoreOf(z) \/ StoreOf(z)' = Unpromised
      PROVE  Store!StoreNext
  <2> DEFINE lost == {z \in Zones : StoreOf(z)' # StoreOf(z)}
  <2>1. t = [z \in Zones |-> IF z \in lost THEN Unpromised ELSE s[z]]
    BY <1>1
  <2>2. Store!Lose(lost)
    BY <2>1 DEF Store!Lose
  <2> QED
    BY <2>2 DEF Store!StoreNext
<1>2. ASSUME NEW z \in Zones, MovesOnly(z)
      PROVE  Store!StoreNext
  <2>1. \A y \in Zones \ {z} : StoreOf(y)' = StoreOf(y)
    BY <1>2 DEF MovesOnly
  <2>2. CASE StoreOf(z)' = StoreOf(z) \/ StoreOf(z)' = Unpromised
    BY <1>1, <2>1, <2>2
  <2>3. ASSUME NEW k \in Keys \ Generated, NEW x \in Vals \cup {"soa"}, StoreOf(z) # Unpromised,
               StoreOf(z)' = [StoreOf(z) EXCEPT ![k] = @ \cup {x}]
        PROVE  Store!StoreNext
    <3>1. t = [s EXCEPT ![z][k] = @ \cup {x}]
      BY <2>1, <2>3, ZenonT(30)
    <3>2. Store!Put(z, k, x)
      BY <2>3, <3>1 DEF Store!Put
    <3> QED
      BY <3>2 DEF Store!StoreNext
  <2>4. ASSUME NEW k \in Keys \ Generated, StoreOf(z) # Unpromised,
               StoreOf(z)' = [StoreOf(z) EXCEPT ![k] = {}]
        PROVE  Store!StoreNext
    <3>1. t = [s EXCEPT ![z][k] = {}]
      BY <2>1, <2>4, Zenon
    <3>2. Store!Remove(z, k)
      BY <2>4, <3>1 DEF Store!Remove
    <3> QED
      BY <3>2 DEF Store!StoreNext
  <2> QED
    BY <1>2, <2>2, <2>3, <2>4 DEF MovesOnly, Moved
<1> QED
  BY <1>1, <1>2
=============================================================================
