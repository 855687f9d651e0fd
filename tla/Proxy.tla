------------------------------- MODULE Proxy --------------------------------
(***************************************************************************)
(* The PROXY protocol parser (src/net/proxy.rs) on the first n bytes of a  *)
(* connection.  A header is a record of what the parser looks at:          *)
(*                                                                         *)
(*   kind     "v1", "v2", or "none" for a connection that starts with DNS  *)
(*   len      its length in bytes, CRLF or address block included          *)
(*   proto, fields, valid       v1: the protocol word, the number of       *)
(*                              fields, and whether address and port parse *)
(*   version, command, family   v2: the bytes of these names               *)
(*   source   the client address it claims                                 *)
(*                                                                         *)
(* The verdict is "none" for Ok(None), "some" for Ok(Some(..)), "error".   *)
(***************************************************************************)
EXTENDS Integers

V1Prefix == 6       \* "PROXY "
V2Signature == 12
V2Fixed == 16       \* signature, version and command, family, length

AddrLen(h) == h.len - V2Fixed

\* Without the CRLF in the buffer the header is in error; UNKNOWN is no header.
ParseV1(h, n) ==
  CASE n < h.len                                            -> "error"
    [] n >= h.len /\ h.proto = "UNKNOWN"                    -> "none"
    [] /\ n >= h.len /\ h.proto \in {"TCP4", "TCP6"}
       /\ h.fields >= 5 /\ h.valid                          -> "some"
    [] OTHER                                                -> "error"

\* Bytes of addresses a family needs.
AddressBytes(family) == CASE family = 16 -> 12 [] family = 32 -> 36 [] OTHER -> 0

\* Mutant: the address block may still be on its way.
ParseV2_NoLengthCheck(h, n) ==
  IF \/ n < V2Fixed
     \/ h.version # 2
     \/ h.command \notin {0, 1}
     \/ h.family \notin {0, 16, 32, 48, 49}
     \/ AddrLen(h) < AddressBytes(h.family)
  THEN "error"
  ELSE IF h.family \in {48, 49} THEN "none" ELSE "some"

ParseV2(h, n) ==
  IF \/ n < V2Fixed
     \/ h.version # 2
     \/ h.command \notin {0, 1}
     \/ n < h.len
     \/ h.family \notin {0, 16, 32, 48, 49}
     \/ AddrLen(h) < AddressBytes(h.family)
  THEN "error"
  ELSE IF h.family \in {48, 49} THEN "none" ELSE "some"

\* A header is recognised by its prefix, as far as the buffer reaches.
ParseProxyHeader(h, n) ==
  CASE h.kind = "v2" /\ n >= V2Signature -> ParseV2(h, n)
    [] h.kind = "v1" /\ n >= V1Prefix    -> ParseV1(h, n)
    [] OTHER                             -> "none"

\* What the header claims as the client: UNSPEC claims the unspecified address.
ClaimedSource(h) == IF h.kind = "v2" /\ h.family = 0 THEN "unspecified" ELSE h.source
=============================================================================
