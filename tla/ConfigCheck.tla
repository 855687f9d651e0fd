----------------------------- MODULE ConfigCheck ----------------------------
(***************************************************************************)
(* Config::validate (src/config/mod.rs) and the places that rely on what   *)
(* it has checked: load_all and load_primary (src/core/zone/mod.rs),       *)
(* algorithm_from_str (src/core/dnssec/keygen.rs) and the resolver's       *)
(* from_config (src/core/resolver/mod.rs).                                 *)
(*                                                                         *)
(* A configuration is the record of the fields they look at.               *)
(***************************************************************************)
EXTENDS VecOps

Protocols == {"udp", "tcp", "dot", "doh", "doq"}
Algorithms == {"ecdsa-p256", "ecdsa-p384", "ed25519", "rsa-sha256"}

\* Mutant: the signing algorithm is not checked.
ValidZone_NoAlgorithm(zone) ==
  /\ zone.kind \in {"primary", "secondary", "stub", "conditional", "forwarder"}
  /\ zone.kind = "primary" => zone.file
  /\ zone.kind = "secondary" => zone.primaries # << >>

ValidZone(zone) ==
  /\ zone.kind \in {"primary", "secondary", "stub", "conditional", "forwarder"}
  /\ zone.kind = "primary" => zone.file
  /\ zone.kind = "secondary" => zone.primaries # << >>
  /\ zone.dnssec_signing => zone.dnssec_algorithm \in Algorithms

\* validate; an address is given by whether it parses.
Validate(cfg) ==
  /\ cfg.dnssec_provider \in {"ring", "botan"}
  /\ cfg.forward_protocol \in Protocols
  /\ cfg.concurrency # 0 /\ cfg.timeout_ms # 0 /\ cfg.cache_size # 0
  /\ \A parses \in Elements(cfg.listen) : parses
  /\ cfg.api_listen
  /\ cfg.proxy_protocol \in {"v1", "v2"}
  /\ cfg.log_level \in {"trace", "debug", "info", "warn", "error"}
  /\ cfg.log_format \in {"json", "text"}
  /\ \A zone \in Elements(cfg.zones) : ValidZone(zone)
  /\ cfg.zones_dir_absolute

-----------------------------------------------------------------------------
(* Who relies on it.                                                       *)

\* algorithm_from_str.
AlgorithmKnown(s) == s \in Algorithms

\* generate_and_save_key: a key of this algorithm has to be imported.
MustImportKey(zone) == zone.dnssec_algorithm = "rsa-sha256"

\* load_all's treatment of a zone.
LoadAs(zone) ==
  CASE zone.kind = "primary" ->
         IF ~ zone.file THEN "error: no file"
         ELSE IF ~ zone.dnssec_signing THEN "served"
         ELSE IF ~ AlgorithmKnown(zone.dnssec_algorithm) THEN "error: algorithm"
         ELSE IF MustImportKey(zone) /\ ~ zone.dnssec_key THEN "error: no key"
         ELSE "served"
    [] zone.kind = "secondary" -> IF zone.primaries = << >> THEN "never transferred" ELSE "transferred"
    [] zone.kind = "catalog" -> "catalog"
    [] zone.kind \in {"stub", "conditional", "forwarder"} -> "not implemented"
    [] zone.kind \notin {"primary", "secondary", "catalog", "stub", "conditional", "forwarder"} -> "skipped"

\* from_config: any other protocol is taken for udp.
ForwardsBy(cfg) == IF cfg.forward_protocol \in Protocols THEN cfg.forward_protocol ELSE "udp"
=============================================================================
