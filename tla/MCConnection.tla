---------------------------- MODULE MCConnection ----------------------------
(* Clients with and without PROXY headers of both versions, complete and      *)
(* malformed, longer and shorter than the sixteen bytes peeked, and one to    *)
(* three frames, an empty one among them.                                     *)
EXTENDS Connection

Blank == [kind |-> "none", len |-> 0, proto |-> "", fields |-> 0, valid |-> TRUE,
          version |-> 2, command |-> 1, family |-> 0, source |-> "client"]
V1(len, proto, fields) == [Blank EXCEPT !.kind = "v1", !.len = len,
                                        !.proto = proto, !.fields = fields]
V2(addr, family) == [Blank EXCEPT !.kind = "v2", !.len = 16 + addr, !.family = family]

MCHeaders ==
  {Blank, V1(15, "UNKNOWN", 2), V1(12, "TCP4", 2), V1(20, "TCP4", 6),
   V2(0, 0), V2(2, 0), V2(0, 48), V2(0, 16), V2(12, 16), V2(0, 64),
   [V2(0, 0) EXCEPT !.version = 1], [V2(0, 0) EXCEPT !.command = 2]}

MCBodies == {<<2, 1>>, <<3, 0, 1>>, <<1, 2, 1>>}

MCLayout(h, b) ==
  LET start[i \in 1 .. Len(b) + 1] ==
        IF i = 1 THEN h.len ELSE start[i - 1] + 2 + b[i - 1]
  IN start

MCAllowLists == {{}, {"client"}, {"unspecified"}}
=============================================================================
