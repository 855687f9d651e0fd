------------------------------ MODULE MCCache -------------------------------
(* Cache on a small instance: four keys compete for three places, a TTL may be *)
(* zero, and the clock outlives TTL and serve-stale window.                   *)
EXTENDS Cache, TLC

MCConfig == [size |-> 3, serve_stale |-> 1, prefetch |-> 2]

MCSymmetry == Permutations(Keys)

\* Retain agrees with the library's filter on every short vector.
ASSUME RetainIsFilter ==
  \A n \in 0 .. 4 : \A s \in [1 .. n -> {1, 2, 3}], S \in SUBSET {1, 2, 3} :
    Retain(s, S) = SelectSeq(s, LAMBDA x : x \in S)
=============================================================================
