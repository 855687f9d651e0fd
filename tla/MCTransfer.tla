----------------------------- MODULE MCTransfer -----------------------------
(* Transfer on a small instance: two zones, one with two primaries, zones of *)
(* two records sent in one, two or three messages, refusals half way.        *)
EXTENDS Transfer, SequencesExt, TLC

MCPrimariesOf == [z1 |-> <<"p", "q">>, z2 |-> <<"q">>]

Soa(p, n) == [kind |-> "SOA", from |-> p, id |-> n]
Rr(p, n) == [kind |-> "RR", from |-> p, id |-> n]
Msg(tc, rs) == [noerror |-> TRUE, truncation |-> tc, answers |-> rs]
Refusal == [noerror |-> FALSE, truncation |-> FALSE, answers |-> << >>]

\* Joined agrees with the library's flattening on every short vector.
ASSUME JoinedIsFlatten ==
  \A vs \in BoundedSeq(BoundedSeq({"a", "b"}, 2), 2) : Joined(vs) = FlattenSeq(vs)

\* A primary sends the same SOA at both ends.
MCStreams ==
  [p \in {"p", "q"} |->
     {<<Msg(FALSE, <<Soa(p, 0), Rr(p, 1), Rr(p, 2), Soa(p, 0)>>)>>,
      <<Msg(FALSE, <<Soa(p, 0), Rr(p, 1)>>), Msg(FALSE, <<Rr(p, 2), Soa(p, 0)>>)>>,
      <<Msg(TRUE, <<Soa(p, 0)>>), Msg(TRUE, <<Rr(p, 1), Rr(p, 2)>>),
        Msg(FALSE, <<Soa(p, 0)>>)>>,
      <<Msg(TRUE, <<Soa(p, 0), Rr(p, 1)>>), Refusal>>,
      <<Refusal>>}]

MCSymmetry == Permutations(Tasks)
=============================================================================
