------------------------------ MODULE MCAdmin -------------------------------
(* Two zones, one of them signed, each with an SOA, a record set of two      *)
(* records behind it and a generated record; two API calls, which may        *)
(* overlap; two deaths of the process or failed writes.                      *)
EXTENDS Admin, SequencesExt

CONSTANTS z1, z2, c1, c2

\* The vector operations agree with the library's.
ASSUME VecOpsAgree ==
  /\ \A S \in SUBSET {1, 2, 3} : ToSet(Listing(S)) = S /\ Len(Listing(S)) = Cardinality(S)
  /\ \A s \in BoundedSeq({1, 2}, 3) : Beginnings(s) = Prefixes(s) /\ Elements(s) = ToSet(s)

MCZones == {z1, z2}
MCZoneOrder == <<z1, z2>>
MCKeys == 1 .. 3
MCInitFiles == {<<<<0, "origin">>, <<1, "file">>, <<2, "a">>, <<2, "b">>, <<3, "a">>>>}
=============================================================================
