------------------------------ MODULE MCServer ------------------------------
(* Server on a small instance: two places in the configured cache, one or more  *)
(* in a loaded one, a file that may hold bytes that do not decode.             *)
EXTENDS Server, TLC

MCKeys == Names \X {"A", "AAAA"}
MCConfig == [size |-> 2, serve_stale |-> 1, prefetch |-> 1]

MCUpstream ==
  [ty \in {"A", "AAAA"} |->
     {[direct |-> TRUE, cnames |-> 0, aname |-> "none", ttl |-> 1]}]

MCBytes ==
  [key : Keys, direct : {TRUE}, cnames : {0}, aname : {"none"}, synth : {FALSE},
   flat : {FALSE}, ttl : TTLs] \cup {Garbled}

\* No file, or the file of an earlier version with one undecodable answer.
MCInitialFiles ==
  {Absent} \cup
  {[content |-> [k \in {<<n, "A">>} |->
                   [response_bytes |-> Garbled, ttl |-> 1, hit_count |-> 1]],
    mtime |-> 0] : n \in Names}

MCNoFile == {Absent}

MCSymmetry == Permutations(Tasks)
=============================================================================
