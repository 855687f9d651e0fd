---------------------------- MODULE MCForwarder -----------------------------
(* Forwarder on small instances: one name asked for as A, AAAA and ANY, and an *)
(* upstream that may answer with or without the records asked for.             *)
EXTENDS Forwarder, TLC

MCKeys == Names \X {"A", "AAAA"}
MCConfig == [size |-> 1, serve_stale |-> 1, prefetch |-> 1]

U(direct, cnames, aname) ==
  [direct |-> direct, cnames |-> cnames, aname |-> aname, ttl |-> 1]

\* An empty answer, chains of CNAMEs within the limit, and an ANAME that makes
\* one longer than the limit.
MCUpstream ==
  [A |-> {U(TRUE, 0, "none"), U(TRUE, 1, "other"), U(FALSE, 0, "none")},
   AAAA |-> {U(TRUE, 1, "none"), U(FALSE, 0, "self"), U(FALSE, 0, "none")}]

\* What may be stored: an answer as received, with DNS64 records, and either with
\* a synthesized CNAME.  Flattening comes after the store.
Received == UNION {UpstreamAnswers(k) : k \in MCKeys}
Extended ==
  Received \cup {WithDns64(a, ttl) : a \in Received, ttl \in ChainedA \ {NoRecords}}
MCBytes == Extended \cup {WithDnameCnames(a) : a \in Extended} \cup {Garbled}

MCSymmetry == Permutations(Tasks)
=============================================================================
