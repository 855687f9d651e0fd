------------------------------- MODULE Filter -------------------------------
(***************************************************************************)
(* The filter of src/core/filter/mod.rs and the UDP handler of             *)
(* src/net/udp.rs that asks it.                                            *)
(*                                                                         *)
(* Addresses are numbers of AddrBits bits (32 in the code).  per_client is *)
(* a HashMap read into a vector, so its order is any order.                *)
(***************************************************************************)
EXTENDS Lists

CONSTANT AddrBits

\* What is left of an address without its last k bits.
Without(addr, k) ==
  LET shifted[i \in 0 .. k] == IF i = 0 THEN addr ELSE shifted[i - 1] \div 2
  IN shifted[k]

\* Ipv4Cidr::contains: the mask takes the last bits from both addresses.
CidrContains(net, ip) ==
  \/ net.prefix = 0
  \/ net.prefix >= AddrBits /\ net.addr = ip
  \/ net.prefix \in 1 .. AddrBits - 1
       /\ Without(net.addr, AddrBits - net.prefix) = Without(ip, AddrBits - net.prefix)

\* Ipv4Cidr::from_str and Filter::new: a network that does not parse is left out.
\* What the lists and patterns are loaded from is the matter of Lists.
ParsesAsCidr(net) == net.prefix \in 0 .. AddrBits
NewFilter(per_client, block, allow, regex) ==
  [per_client |-> Retain(per_client, {p \in Elements(per_client) : ParsesAsCidr(p.net)}),
   block |-> block, allow |-> allow, regex |-> regex]

\* The rules whose network holds an IPv4 client, in their order.
RulesFor(per_client, client) ==
  Retain(per_client, {p \in Elements(per_client) : client.v4 /\ CidrContains(p.net, client.addr)})

\* Mutant: the lists are asked before the per-client rules.
IsBlocked_ListsFirst(filter, qname, client) ==
  LET rules == RulesFor(filter.per_client, client)
  IN \/ qname \in filter.regex
     \/ ListBlocks(filter.block, filter.allow, qname)
     \/ rules # << >> /\ rules[1].block

\* is_blocked: the first rule whose network holds an IPv4 client decides alone;
\* then the patterns, given by the names they match; then the lists.
IsBlocked(filter, qname, client) ==
  LET rules == RulesFor(filter.per_client, client)
  IN IF rules # << >> THEN rules[1].block
     ELSE qname \in filter.regex \/ ListBlocks(filter.block, filter.allow, qname)

\* handle_query: the reply to a datagram, if any; lookup is what the resolver
\* answers.
HandleQuery(filter, datagram, client, lookup) ==
  IF datagram.kind = "garbled" THEN [sent |-> FALSE]
  ELSE IF datagram.kind = "bare" THEN [sent |-> TRUE, code |-> "FormErr"]
  ELSE IF IsBlocked(filter, datagram.qname, client) THEN [sent |-> TRUE, code |-> "NXDomain"]
  ELSE IF lookup = "error" THEN [sent |-> TRUE, code |-> "ServFail"]
  ELSE [sent |-> TRUE, code |-> "NoError", answers |-> lookup]
=============================================================================
