-------------------------------- MODULE Dns64 -------------------------------
(***************************************************************************)
(* DNS64 synthesis (src/core/resolver/dns64.rs).  An address is the        *)
(* function from its byte positions, 0 .. 3 or 0 .. 15, to byte values.    *)
(***************************************************************************)
EXTENDS VecOps

None == [i \in {} |-> 0]

\* Dns64Prefix::parse: text is the parts of the string, or has none.
ParsePrefix(text) ==
  IF text.address /\ text.len \in 0 .. 128 THEN [addr |-> text.bytes, len |-> text.len] ELSE None

\* Mutant: the bytes behind a /64 are cleared one too early.
SynthesizeOne_ClearsEarly(v4, prefix) ==
  LET from == prefix.len \div 8
  IN IF prefix.len \in {64, 96}
     THEN [i \in 0 .. 15 |-> IF i < from THEN prefix.addr[i]
                             ELSE IF i < from + 4 /\ ~ (prefix.len = 64 /\ i >= 11) THEN v4[i - from] ELSE 0]
     ELSE None

\* synthesize_one: the four bytes right behind the prefix, zeros after them.
SynthesizeOne(v4, prefix) ==
  LET from == prefix.len \div 8
  IN IF prefix.len \in {64, 96}
     THEN [i \in 0 .. 15 |-> IF i < from THEN prefix.addr[i]
                             ELSE IF i < from + 4 THEN v4[i - from] ELSE 0]
     ELSE None

\* synthesize_aaaa.
SynthesizeAaaa(a_records, prefix) ==
  LET made == [i \in DOMAIN a_records |-> SynthesizeOne(a_records[i], prefix)]
  IN Retain(made, Elements(made) \ {None})
=============================================================================
