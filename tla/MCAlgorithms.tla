---------------------------- MODULE MCAlgorithms ----------------------------
(* Names of up to three labels; four list sources, three of which may expand *)
(* to any two, with nesting limited to one level; addresses of two bits.     *)
EXTENDS Algorithms, TLC

MCLabels == STRING
MCSources == 1 .. 4
MCShapes == {<<"leaf">>, <<"fails">>, <<"mixed", 3, 4>>, <<"v6", 3, 4>>}
            \cup {<<"meta", s, t>> : s, t \in MCSources}

\* A list of names, one that fails, sources among as many names, sources among
\* IPv6 lines, and a list of sources.
MCText(s, shape) ==
  LET hosts(style) == <<HostsLine(style, <<ToString(s)>>), HostsLine(style, <<ToString(s), "x">>)>>
      sources == <<SourceLine(shape[2]), SourceLine(shape[3])>>
  IN CASE shape[1] = "leaf"  -> <<Comment, HostsLine("exception", <<"localhost">>)>> \o hosts("ipv4")
       [] shape[1] = "fails" -> Unreadable
       [] shape[1] = "mixed" -> sources \o hosts("adguard")
       [] shape[1] = "v6"    -> sources \o hosts("ipv6")
       [] shape[1] = "meta"  -> sources

MCTexts ==
  {[s \in MCSources |-> MCText(s, IF s = 4 THEN last ELSE shapes[s])] :
     shapes \in [1 .. 3 -> MCShapes], last \in {<<"leaf">>, <<"fails">>}}
MCRootLists == {<<1>>, <<1, 2>>}
MCDomainNames == {<<"a">>, <<"b", "a">>, <<"c", "b", "a">>, <<"b">>}
MCQuestions == MCDomainNames \cup {<< >>, <<"d", "c", "b", "a">>, <<"a", "b">>, <<"c">>}

MCCatalogRecords ==
  {[owner |-> <<"version">>, type |-> "TXT", data |-> {"1", "2"}],
   [owner |-> <<"u1", "zones">>, type |-> "PTR", data |-> {"z1"}],
   [owner |-> <<"u2", "zones">>, type |-> "PTR", data |-> {"z2"}],
   [owner |-> <<"u1", "xzones">>, type |-> "PTR", data |-> {"z3"}],
   [owner |-> <<"primaries", "u1", "zones">>, type |-> "A", data |-> {"p1"}],
   [owner |-> <<"primaries", "u2", "zones">>, type |-> "AAAA", data |-> {"p2"}]}

MCZoneConfigs ==
  [kind : {"primary", "secondary", "stub", "catalog", "hint"}, file : BOOLEAN,
   primaries : {<< >>, <<"p1">>}, dnssec_signing : BOOLEAN, dnssec_key : BOOLEAN,
   dnssec_algorithm : {"ed25519", "rsa-sha256", "dsa"}]

MCPrefixes ==
  [address : BOOLEAN, bytes : {[i \in 0 .. 15 |-> IF i % 2 = 0 THEN 1 ELSE 2]}, len : {0, 56, 64, 96, 128, 129}]

MCConfig(zone, fine, protocol) ==
  [dnssec_provider |-> IF fine[1] THEN "ring" ELSE "openssl", forward_protocol |-> protocol,
   concurrency |-> IF fine[2] THEN 1 ELSE 0, timeout_ms |-> 5, cache_size |-> IF fine[3] THEN 9 ELSE 0,
   listen |-> <<TRUE, fine[4]>>, api_listen |-> TRUE, proxy_protocol |-> "v2",
   log_level |-> IF fine[5] THEN "info" ELSE "loud", log_format |-> "json",
   zones |-> <<zone>>, zones_dir_absolute |-> fine[6]]
MCConfigs ==
  {MCConfig(zone, fine, protocol) :
     zone \in MCZoneConfigs, fine \in [1 .. 6 -> BOOLEAN], protocol \in Protocols \cup {"doh3"}}
=============================================================================
