------------------------------- MODULE Lists --------------------------------
(***************************************************************************)
(* Loading block and allow lists and matching names against them           *)
(* (src/core/filter/blocklist.rs).                                         *)
(*                                                                         *)
(* A source is a file or URL; its text is the sequence of its lines.  A    *)
(* line names another source, blocks a name in hosts or AdGuard style, or  *)
(* is neither.  A name is the sequence of its labels, normalised.          *)
(***************************************************************************)
EXTENDS VecOps

CONSTANTS
  Labels,         \* what names are made of
  Sources,        \* files and URLs that lists may come from
  META_MAX_DEPTH, \* the limit on nesting (4 in the code)
  Unreadable      \* the text of a source that cannot be read

Names == Seq(Labels)

SourceLine(s) == [kind |-> "source", source |-> s]
HostsLine(style, name) == [kind |-> style, name |-> name] \* style: ipv4, ipv6, adguard, exception
Comment == [kind |-> "comment"]
Lines ==
  {SourceLine(s) : s \in Sources} \cup {Comment}
    \cup [kind : {"ipv4", "ipv6", "adguard", "exception"}, name : Names]

\* Names that are never taken from a list.
LocalNames == {<<"localhost">>, <<"localhost", "localdomain">>}

LinesOf(text, kinds) == Retain(text, {l \in Elements(text) : l.kind \in kinds})

\* looks_like_meta_list: an IPv6 hosts line does not count as a hosts line.
LooksLikeMetaList(text) ==
  LET sources == Len(LinesOf(text, {"source"}))
      hosts   == Len(LinesOf(text, {"ipv4", "adguard", "exception"}))
  IN sources >= 2 /\ sources > hosts

\* parse_hosts_line on every line: an exception blocks like any other entry.
ParseHosts(text) ==
  {l.name : l \in Elements(LinesOf(text, {"ipv4", "ipv6", "adguard", "exception"}))} \ LocalNames

\* What load_source carries along: bl.entries and visited, and as history the
\* sources read, in order.
Loading == [entries : SUBSET Names, visited : SUBSET Sources, read : Seq(Sources)]
NoLists == [entries |-> {}, visited |-> {}, read |-> << >>]

\* visited.insert.
Visit(st, s) == [st EXCEPT !.visited = @ \cup {s}]

\* Mutant: the limit is one less.
TooDeep_Strict(depth) == depth >= META_MAX_DEPTH

TooDeep(depth) == depth > META_MAX_DEPTH

\* The lines of a list that name sources, each as its source.
SourcesIn(text) ==
  LET lines == LinesOf(text, {"source"})
  IN [i \in DOMAIN lines |-> lines[i].source]

\* Calling load_source on one source after the other.
LoadEach(load, sources, st) ==
  LET after[i \in 0 .. Len(sources)] ==
        IF i = 0 THEN st ELSE load[sources[i], after[i - 1]]
  IN after[Len(sources)]

\* The body of load_source, which calls itself as deeper: a source is marked as
\* visited before its depth is looked at.
LoadOne(text, s, st, depth, deeper) ==
  LET seen == Visit(st, s)
      read == [seen EXCEPT !.read = Append(@, s)]
  IN IF s \in st.visited THEN st
     ELSE IF TooDeep(depth) THEN seen
     ELSE IF text = Unreadable THEN read
     ELSE IF LooksLikeMetaList(text) THEN LoadEach(deeper, SourcesIn(text), read)
     ELSE [read EXCEPT !.entries = @ \cup ParseHosts(text)]

\* load_source at depth 0, by the levels it may still descend; where that is none
\* it does not call itself.
LoadSource(texts) ==
  LET load[left \in 0 .. META_MAX_DEPTH + 1] ==
        LET deeper == IF left = 0 THEN << >> ELSE load[left - 1]
        IN [p \in Sources \X Loading |->
              LoadOne(texts[p[1]], p[1], p[2], META_MAX_DEPTH + 1 - left, deeper)]
  IN load[META_MAX_DEPTH + 1]

\* load_sources of Blocklist and of Allowlist.
LoadSources(texts, sources) == LoadEach(LoadSource(texts), sources, NoLists)

-----------------------------------------------------------------------------
(* Matching.                                                               *)

\* The last k labels of a name.
Parent(qname, k) == SubSeq(qname, Len(qname) - k + 1, Len(qname))

\* is_blocked and is_allowed: the name, then what follows its first dot, and so
\* on.  The loop ends with the last label, so the root is only ever matched by a
\* query for the root.
Matches(entries, qname) ==
  LET from[k \in 0 .. Len(qname)] ==
        Parent(qname, k) \in entries \/ (k > 1 /\ from[k - 1])
  IN entries # {} /\ from[Len(qname)]

\* blocked.
ListBlocks(block, allow, qname) == ~ Matches(allow, qname) /\ Matches(block, qname)
=============================================================================
