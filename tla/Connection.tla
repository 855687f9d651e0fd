----------------------------- MODULE Connection -----------------------------
(***************************************************************************)
(* One connection of the TCP listener (src/net/tcp.rs): the peek for a     *)
(* PROXY header, and then length-prefixed messages read one at a time,     *)
(* each under a time limit.                                                *)
(*                                                                         *)
(* The client's bytes are a header and frames of given lengths; they       *)
(* arrive in pieces cut anywhere.  Reading two bytes at the start of a     *)
(* frame gives its length; read anywhere else they are some other number.  *)
(* Connections share nothing, so one is enough.                            *)
(***************************************************************************)
EXTENDS Proxy, Sequences

CONSTANTS
  Headers,         \* the headers a client may send
  Bodies,          \* the sequences of frame lengths a client may send
  PeekSize,        \* PEEK_SIZE
  GarbledLengths,  \* numbers two bytes that are no length may read as
  AllowLists,      \* the values of proxy.allow: sets of addresses
  Layout(_, _)     \* where each frame starts after a header, and the end

\* Frames follow the header and one another without gaps.
ASSUME ConnAssumption ==
  /\ PeekSize \in Nat
  /\ GarbledLengths \subseteq Nat
  /\ \A h \in Headers : h.len \in Nat /\ (h.kind = "none" => h.len = 0)
  /\ Bodies \subseteq Seq(Nat)
  /\ \A h \in Headers, b \in Bodies :
       /\ Layout(h, b) \in [1 .. Len(b) + 1 -> Nat]
       /\ Layout(h, b)[1] = h.len
       /\ \A i \in 1 .. Len(b) : Layout(h, b)[i + 1] = Layout(h, b)[i] + 2 + b[i]
       /\ \A i, j \in 1 .. Len(b) + 1 : i < j => Layout(h, b)[i] < Layout(h, b)[j]

MinPeeked == 6     \* fewer bytes are taken for plain DNS

VARIABLES
  enabled, allow,  \* proxy_enabled, which the server only passes as TRUE, and proxy.allow
  header, frames,  \* what the client sends
  arrived,         \* bytes received so far
  closing,         \* the client has closed its side
  at,              \* peek, discard, length, body, handle or closed
  pos,             \* bytes read off the stream
  msg_len,
  src_addr,        \* "peer", or what the header claims
  handled,         \* <<position, length>> of the messages handed over
  ended            \* why the connection was closed

input == <<enabled, allow, header, frames>>
connVars == <<input, arrived, closing, at, pos, msg_len, src_addr, handled, ended>>

\* Where frame i starts, and how many bytes there are.
FrameStart(i) == Layout(header, frames)[i]
Total == FrameStart(Len(frames) + 1)

\* What the two bytes at p may read as.
LengthsAt(p) ==
  LET starts == {i \in DOMAIN frames : FrameStart(i) = p}
  IN IF starts = {} THEN GarbledLengths ELSE {frames[i] : i \in starts}

Available(n) == arrived - pos >= n

\* The bytes the read in progress asks for.
Wanted == CASE at = "length" -> 2 [] at = "body" -> msg_len [] at = "discard" -> header.len

Close(why) == at' = "closed" /\ ended' = why

-----------------------------------------------------------------------------
(* The client and the network.                                             *)

Arrive ==
  /\ ~ closing /\ at # "closed"
  /\ \E n \in arrived + 1 .. Total : arrived' = n
  /\ UNCHANGED <<input, closing, at, pos, msg_len, src_addr, handled, ended>>

ClientCloses ==
  /\ ~ closing /\ at # "closed"
  /\ closing' = TRUE
  /\ UNCHANGED <<input, arrived, at, pos, msg_len, src_addr, handled, ended>>

-----------------------------------------------------------------------------
(* resolve_src_addr.                                                       *)

\* peek waits for the first byte or the end of the stream, without a limit.
Peeked == IF arrived < PeekSize THEN arrived ELSE PeekSize
Verdict == IF Peeked < MinPeeked THEN "none" ELSE ParseProxyHeader(header, Peeked)
Allowed == allow = {} \/ ClaimedSource(header) \in allow

Peek ==
  /\ at = "peek"
  /\ ~ enabled \/ arrived > 0 \/ closing
  /\ \/ /\ ~ enabled \/ Verdict = "none"
        /\ at' = "length"
        /\ UNCHANGED <<src_addr, ended>>
     \/ /\ enabled /\ Verdict = "some" /\ Allowed
        /\ src_addr' = ClaimedSource(header)
        /\ at' = "discard"
        /\ UNCHANGED ended
     \/ /\ enabled /\ (Verdict = "error" \/ (Verdict = "some" /\ ~ Allowed))
        /\ Close("proxy")
        /\ UNCHANGED src_addr
  /\ UNCHANGED <<input, arrived, closing, pos, msg_len, handled>>

\* Mutant: the header is left in the stream.
Discard_Kept ==
  /\ at = "discard"
  /\ at' = "length"
  /\ UNCHANGED <<input, arrived, closing, pos, msg_len, src_addr, handled, ended>>

\* The header is read off the stream, again without a limit.
Discard ==
  /\ at = "discard"
  /\ Available(header.len)
  /\ pos' = header.len
  /\ at' = "length"
  /\ UNCHANGED <<input, arrived, closing, msg_len, src_addr, handled, ended>>

-----------------------------------------------------------------------------
(* The loop of handle_connection.                                          *)

ReadLength ==
  /\ at = "length"
  /\ Available(2)
  /\ pos' = pos + 2
  /\ msg_len' \in LengthsAt(pos)
  /\ IF msg_len' = 0 THEN Close("zero") ELSE at' = "body" /\ UNCHANGED ended
  /\ UNCHANGED <<input, arrived, closing, src_addr, handled>>

\* Mutant: a message is taken before all of it is there.
ReadBody_NoWait ==
  /\ at = "body"
  /\ handled' = Append(handled, <<pos, msg_len>>)
  /\ pos' = pos + msg_len
  /\ at' = "handle"
  /\ UNCHANGED <<input, arrived, closing, msg_len, src_addr, ended>>

ReadBody ==
  /\ at = "body"
  /\ Available(msg_len)
  /\ handled' = Append(handled, <<pos, msg_len>>)
  /\ pos' = pos + msg_len
  /\ at' = "handle"
  /\ UNCHANGED <<input, arrived, closing, msg_len, src_addr, ended>>

\* Mutant: the length is waited for without a limit.
ReadFails_BodyOnly ==
  /\ at \in {"length", "body", "discard"}
  /\ ~ Available(Wanted)
  /\ at # "body" => closing
  /\ Close("short")
  /\ UNCHANGED <<input, arrived, closing, pos, msg_len, src_addr, handled>>

\* The stream ends before the bytes are there or, for read_exact_timeout, the
\* time is up.
ReadFails ==
  /\ at \in {"length", "body", "discard"}
  /\ ~ Available(Wanted)
  /\ at = "discard" => closing
  /\ Close("short")
  /\ UNCHANGED <<input, arrived, closing, pos, msg_len, src_addr, handled>>

\* A reset connection fails whatever read is made on it.
Reset ==
  /\ at # "closed"
  /\ Close("reset")
  /\ UNCHANGED <<input, arrived, closing, pos, msg_len, src_addr, handled>>

\* handle_dns_query: whether it answers, cannot parse the message or cannot
\* write the answer, the loop goes on.
Handle ==
  /\ at = "handle"
  /\ at' = "length"
  /\ UNCHANGED <<input, arrived, closing, pos, msg_len, src_addr, handled, ended>>

-----------------------------------------------------------------------------
ConnInit ==
  /\ enabled \in BOOLEAN /\ allow \in AllowLists
  /\ header \in Headers /\ frames \in Bodies
  /\ arrived = 0 /\ closing = FALSE
  /\ at = "peek" /\ pos = 0 /\ msg_len = 0
  /\ src_addr = "peer" /\ handled = << >> /\ ended = "open"

ServerStep == Peek \/ Discard \/ ReadLength \/ ReadBody \/ ReadFails \/ Handle

ConnNext == Arrive \/ ClientCloses \/ Reset \/ ServerStep

\* The runtime polls a ready task, and its ten-second timers fire.
ConnSpec == ConnInit /\ [][ConnNext]_connVars /\ WF_connVars(ServerStep)

-----------------------------------------------------------------------------
(* Properties.                                                             *)

\* Type invariant: the server never reads past what has arrived.
ConnTypeOK ==
  /\ at \in {"peek", "discard", "length", "body", "handle", "closed"}
  /\ arrived \in 0 .. Total
  /\ pos \in 0 .. arrived
  /\ ended \in {"open", "proxy", "short", "zero", "reset"}
  /\ (at = "closed") <=> (ended # "open")

\* Message boundaries survive: a client that sends no PROXY header, or one whose
\* header was accepted, has exactly its frames handed over, in order and whole,
\* however its bytes were cut on the way; and when a read fails for lack of
\* bytes, no frame that had arrived whole was left behind.
MessagesAreFrames ==
  (header.kind = "none" \/ src_addr # "peer") =>
    /\ Len(handled) <= Len(frames)
    /\ \A i \in DOMAIN handled : handled[i] = <<FrameStart(i) + 2, frames[i]>>
    /\ (ended = "short" /\ Len(handled) < Len(frames)) =>
         arrived < FrameStart(Len(handled) + 2)

\* A header is accepted only when all of it is in the peeked bytes, so the
\* read that strips it has nothing to wait for: its missing time limit cannot
\* hold a connection up.
StrippingNeverWaits == at = "discard" => Available(header.len)

\* Once its first bytes are looked at, or the client has gone, a connection
\* comes to an end: no read waits for ever.
ConnectionsEnd == (at # "peek" \/ closing) ~> at = "closed"
=============================================================================
