------------------------------ MODULE Catalog -------------------------------
(***************************************************************************)
(* Catalog zones: load_catalog_zone of src/core/zone/mod.rs and            *)
(* src/core/zone/catalog.rs, which look the members up and log them.       *)
(*                                                                         *)
(* A record has an owner, a type and a set of data: the strings of a TXT   *)
(* record, else one; an owner is the sequence of its labels below the      *)
(* catalog's own name.  The label "xzones" stands for any that ends in     *)
(* zones.  A primary's reply is a sequence of records, or Unreachable.     *)
(***************************************************************************)
EXTENDS VecOps

CONSTANT Unreachable

\* verify_version: any string of any version record may be the right one.
VerifyVersion(records) ==
  \E r \in Elements(records) : r.owner = <<"version">> /\ r.type = "TXT" /\ "2" \in r.data

\* parse_member_zones compares text, so it also takes a label that ends in
\* zones; what is left in front is the member's id.
IsMemberOwner(owner) == owner # << >> /\ owner[Len(owner)] \in {"zones", "xzones"}
UniqueId(owner) ==
  LET front == SubSeq(owner, 1, Len(owner) - 1)
  IN IF owner[Len(owner)] = "zones" THEN front ELSE Append(front, "x")
ParseMemberZones(records) ==
  {[id |-> UniqueId(r.owner), zone |-> r.data] :
     r \in {q \in Elements(records) : q.type = "PTR" /\ IsMemberOwner(q.owner)}}

\* Mutant: the addresses of every member are taken.
ParsePrimaries_All(records, id) ==
  UNION {r.data : r \in {q \in Elements(records) : q.type \in {"A", "AAAA"}}}

\* parse_primaries: an empty id makes a name that cannot be built.
ParsePrimaries(records, id) ==
  UNION {r.data : r \in {q \in Elements(records) :
     id # << >> /\ q.type \in {"A", "AAAA"} /\ q.owner = <<"primaries">> \o id \o <<"zones">>}}

\* load_catalog_zone: the first primary that can be reached decides, whatever
\* the version of its catalog.
LoadCatalog(replies) ==
  LET reached == Retain(replies, Elements(replies) \ {Unreachable})
  IN IF reached = << >> \/ ~ VerifyVersion(reached[1]) THEN {}
     ELSE {[id |-> m.id, zone |-> m.zone, primaries |-> ParsePrimaries(reached[1], m.id)] :
             m \in ParseMemberZones(reached[1])}
=============================================================================
