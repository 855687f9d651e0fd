------------------------------- MODULE VecOps -------------------------------
(***************************************************************************)
(* The operations on Rust's Vec that the models use and the Sequences      *)
(* module lacks in a form one can reason about: `retain` is written        *)
(* without recursion, by ranking the positions that survive, and a loop    *)
(* as a recursive function of the turns made.                              *)
(***************************************************************************)
EXTENDS Integers, Sequences, FiniteSets

\* The positions of s whose element lies in S.
KeptPositions(s, S) == {i \in 1 .. Len(s) : s[i] \in S}

\* How many positions of K come no later than i.
Rank(K, i) == Cardinality({h \in K : h <= i})

\* The elements of s at the positions of K, in order.
Pick(s, K) == [j \in 1 .. Cardinality(K) |-> s[CHOOSE i \in K : Rank(K, i) = j]]

\* Vec::retain(|e| e \in S): the elements of s that lie in S, in order.
Retain(s, S) == Pick(s, KeptPositions(s, S))

\* Vec::extend in a loop: the vectors of vs joined, in order.
Joined(vs) ==
  LET upto[i \in 0 .. Len(vs)] == IF i = 0 THEN << >> ELSE upto[i - 1] \o vs[i]
  IN  upto[Len(vs)]

\* Collecting a finite set into a vector, in an order that does not matter.
Listing(S) == CHOOSE s \in [1 .. Cardinality(S) -> S] : S = {s[i] : i \in 1 .. Cardinality(S)}

\* What a vector may have been before its last elements were pushed.
Beginnings(s) == {SubSeq(s, 1, n) : n \in 0 .. Len(s)}

\* The set of elements of a vector.
Elements(s) == {s[i] : i \in 1 .. Len(s)}

\* No element occurs twice.
Distinct(s) == \A i, j \in 1 .. Len(s) : s[i] = s[j] => i = j
=============================================================================
