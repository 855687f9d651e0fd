-------------------------------- MODULE Boot --------------------------------
(***************************************************************************)
(* Starting the server: main and load_config (src/main.rs), the set-up     *)
(* part of Net::run (src/net/mod.rs), the primary zones of ZoneManager     *)
(* (src/core/zone/mod.rs) with their DNSSEC keys (src/core/dnssec/         *)
(* keygen.rs), the TLS certificate (src/net/cert.rs) and the start of the  *)
(* API (src/api/mod.rs).                                                   *)
(*                                                                         *)
(* Set-up is one sequence of steps; the first that fails ends the process, *)
(* and the service manager starts it again.  Files are made on the way     *)
(* with fs::write, which is two steps here, so that the process can die in *)
(* between and leave a file that exists but is torn.                       *)
(*                                                                         *)
(* A key or certificate file is absent, torn, or holds the key pair of a   *)
(* given number.  The persistent cache is the matter of module Server.     *)
(***************************************************************************)
EXTENDS ZoneRecords

CONSTANTS
  ZoneOrder,   \* the configured primary zones, in order
  Signed,      \* those with dnssec_signing
  TlsModes,    \* where a certificate comes from: given (or none needed),
               \* self_signed, or missing (or unusable)
  Absent, Torn \* states of a file

\* "tls" is the purpose of the certificate among those of the zones' keys.
ASSUME BootAssumption ==
  /\ ZoneOrder \in Seq(Zones)
  /\ "tls" \notin Zones
  /\ Absent # Torn /\ {Absent, Torn} \cap (Nat \cup {ZoneOrder}) = {}

VARIABLES
  phase,         \* where start-up is; "down" and "up" before and after
  step,          \* zones loaded so far
  tls,           \* one of TlsModes
  conf,          \* the configuration file: absent, torn, or the zones it lists
  zones_cfg,     \* the zones of the configuration this process runs with
  key,           \* the signing key file of each zone
  cert, tls_key, \* the self-signed certificate and its key
  minted,        \* key pairs generated so far
  served,        \* what the catalog holds: zone -> content and key
  used           \* history: <<purpose, key pair>> the server went up with

diskVars == <<key, cert, tls_key, minted>>
bootVars == <<phase, step, tls, conf, zones_cfg, served, used, diskVars>>

\* What a process leaves behind when it ends: nothing but files.
EndProcess ==
  /\ phase' = "down"
  /\ step' = 0
  /\ zones_cfg' = << >>
  /\ served' = << >>

Proceed(p) == phase' = p /\ UNCHANGED <<step, zones_cfg, served>>

-----------------------------------------------------------------------------
(* load_config.                                                            *)

Start ==
  /\ phase = "down"
  /\ Proceed("config")
  /\ UNCHANGED <<tls, conf, used, diskVars>>

\* The zones of the configuration: of the file, or none by default.  A torn file
\* may be no TOML at all, but any part of it that ends before or between the
\* zones, which are written last, is a valid configuration.
LoadConfig ==
  /\ phase = "config"
  /\ \/ /\ zones_cfg' \in IF conf = Torn THEN Beginnings(ZoneOrder)
                                        ELSE {IF conf = Absent THEN << >> ELSE conf}
        /\ phase' = "zones"
        /\ UNCHANGED <<step, served>>
     \/ conf = Torn /\ EndProcess
  /\ UNCHANGED <<tls, conf, used, diskVars>>

-----------------------------------------------------------------------------
(* load_all and load_primary, one zone at a time.                          *)

NextZone == zones_cfg[step + 1]

\* The zone enters the catalog, its SOA patched with the configured RNAME.
ServeZone(k) ==
  /\ served' = [z \in DOMAIN served \cup {NextZone} |->
                  IF z = NextZone THEN [content |-> Loaded(z, "configured"), key |-> k] ELSE served[z]]
  /\ step' = step + 1
  /\ phase' = "zones"
  /\ UNCHANGED zones_cfg

\* Mutant: a zone that cannot be loaded is left out.
LoadZone_Skips ==
  /\ phase = "zones" /\ step < Len(zones_cfg)
  /\ CASE ~ Loads(NextZone)                         -> step' = step + 1 /\ UNCHANGED <<phase, zones_cfg, served>>
       [] Loads(NextZone) /\ NextZone \in Signed    -> Proceed("resolve_key")
       [] Loads(NextZone) /\ NextZone \notin Signed -> ServeZone(0)
  /\ UNCHANGED <<tls, conf, used, diskVars>>

LoadZone ==
  /\ phase = "zones" /\ step < Len(zones_cfg)
  /\ CASE ~ Loads(NextZone)                         -> EndProcess
       [] Loads(NextZone) /\ NextZone \in Signed    -> Proceed("resolve_key")
       [] Loads(NextZone) /\ NextZone \notin Signed -> ServeZone(0)
  /\ UNCHANGED <<tls, conf, used, diskVars>>

\* Mutant: a key file that is there is written again.
ResolveKey_Regenerate ==
  /\ phase = "resolve_key"
  /\ key' = [key EXCEPT ![NextZone] = Torn]
  /\ Proceed("write_key")
  /\ UNCHANGED <<tls, conf, used, cert, tls_key, minted>>

\* A key file that exists is used, whatever is in it; otherwise one is created.
ResolveKey ==
  /\ phase = "resolve_key"
  /\ \/ key[NextZone] # Absent /\ Proceed("sign") /\ UNCHANGED key
     \/ /\ key[NextZone] = Absent
        /\ key' = [key EXCEPT ![NextZone] = Torn]
        /\ Proceed("write_key")
  /\ UNCHANGED <<tls, conf, used, cert, tls_key, minted>>

WriteKey ==
  /\ phase = "write_key"
  /\ minted' = minted + 1
  /\ key' = [key EXCEPT ![NextZone] = minted']
  /\ Proceed("sign")
  /\ UNCHANGED <<tls, conf, used, cert, tls_key>>

\* load_signer and secure_zone.
SignZone ==
  /\ phase = "sign"
  /\ IF key[NextZone] = Torn THEN EndProcess ELSE ServeZone(key[NextZone])
  /\ UNCHANGED <<tls, conf, used, diskVars>>

-----------------------------------------------------------------------------
(* The listeners.                                                          *)

\* The UDP and TCP sockets are bound once all zones are loaded.
Bind ==
  /\ phase = "zones" /\ step = Len(zones_cfg)
  /\ Proceed("cert")
  /\ UNCHANGED <<tls, conf, used, diskVars>>

\* Mutant: a certificate without its key is taken for a pair.
ResolveCert_CertOnly ==
  /\ phase = "cert"
  /\ \/ tls = "given" /\ Proceed("api") /\ UNCHANGED cert
     \/ tls = "missing" /\ EndProcess /\ UNCHANGED cert
     \/ /\ tls = "self_signed" /\ cert # Absent
        /\ Proceed("load_cert") /\ UNCHANGED cert
     \/ /\ tls = "self_signed" /\ cert = Absent
        /\ Proceed("write_cert") /\ cert' = Torn
  /\ UNCHANGED <<tls, conf, used, key, tls_key, minted>>

\* resolve_cert_paths, else generate_self_signed, which takes the two files if
\* both are there.
ResolveCert ==
  /\ phase = "cert"
  /\ \/ tls = "given" /\ Proceed("api") /\ UNCHANGED cert
     \/ tls = "missing" /\ EndProcess /\ UNCHANGED cert
     \/ /\ tls = "self_signed" /\ cert # Absent /\ tls_key # Absent
        /\ Proceed("load_cert") /\ UNCHANGED cert
     \/ /\ tls = "self_signed" /\ Absent \in {cert, tls_key}
        /\ Proceed("write_cert") /\ cert' = Torn
  /\ UNCHANGED <<tls, conf, used, key, tls_key, minted>>

WriteCert ==
  /\ phase = "write_cert"
  /\ minted' = minted + 1
  /\ cert' = minted'
  /\ Proceed("open_tls_key")
  /\ UNCHANGED <<tls, conf, used, key, tls_key>>

OpenTlsKey ==
  /\ phase = "open_tls_key"
  /\ tls_key' = Torn
  /\ Proceed("write_tls_key")
  /\ UNCHANGED <<tls, conf, used, key, cert, minted>>

WriteTlsKey ==
  /\ phase = "write_tls_key"
  /\ tls_key' = minted
  /\ Proceed("load_cert")
  /\ UNCHANGED <<tls, conf, used, key, cert, minted>>

\* load_tls_cert refuses what it cannot parse and a key of another pair.
LoadCert ==
  /\ phase = "load_cert"
  /\ IF Torn \notin {cert, tls_key} /\ cert = tls_key THEN Proceed("api") ELSE EndProcess
  /\ UNCHANGED <<tls, conf, used, diskVars>>

\* The encrypted listeners and the API are bound.
GoUp ==
  /\ phase = "api"
  /\ Proceed("up")
  /\ used' = used \cup {<<z, served[z].key>> : z \in Signed \cap DOMAIN served}
                  \cup (IF tls = "self_signed" THEN {<<"tls", cert>>} ELSE {})
  /\ UNCHANGED <<tls, conf, diskVars>>

SetUp ==
  \/ Start \/ LoadConfig \/ LoadZone \/ ResolveKey \/ WriteKey \/ SignZone \/ Bind
  \/ ResolveCert \/ WriteCert \/ OpenTlsKey \/ WriteTlsKey \/ LoadCert \/ GoUp

BootInit ==
  /\ phase = "down" /\ step = 0 /\ zones_cfg = << >> /\ served = << >>
  /\ tls \in TlsModes
  /\ conf \in {Absent, ZoneOrder}
  /\ key = [z \in Zones |-> Absent]
  /\ cert = Absent /\ tls_key = Absent
  /\ minted = 0 /\ used = {}
=============================================================================
