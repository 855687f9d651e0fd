---------------------------- MODULE AdminProofs -----------------------------
(***************************************************************************)
(* Proofs about start-up, the files it leaves behind and the options call, *)
(* and about zone files under the record API, for any zones, any number    *)
(* of API calls and any number of crashes.                                 *)
(***************************************************************************)
EXTENDS Admin, ZoneProofs

\* A leaf is tried with SMT, then with Zenon and with Z3 alone, for up to 30
\* seconds each, unless it names another prover.
USE SMTT(30), ZenonT(30), Z3T(30)

-----------------------------------------------------------------------------
(* The inductive invariant.                                                *)

KeyFiles == {Absent, Torn} \cup Nat

FilesWell ==
  /\ key \in [Zones -> KeyFiles] /\ cert \in KeyFiles /\ tls_key \in KeyFiles
  /\ minted \in Nat /\ faults \in Nat
  /\ zones_cfg \in Seq(Zones) /\ step \in 0 .. Len(zones_cfg)
  /\ conf \in {Absent, Torn} \cup Seq(Zones)

AtZone == {"resolve_key", "write_key", "sign"}
MakingCert == {"write_cert", "open_tls_key", "write_tls_key"}
Late == {"cert", "load_cert", "api", "up"} \cup MakingCert

\* What has been done when start-up is at a step.
Progress ==
  /\ phase \in {"down", "config", "zones"} \cup AtZone \cup Late
  /\ phase \in {"down", "config"} => zones_cfg = << >>
  /\ phase \in AtZone => step < Len(zones_cfg) /\ NextZone \in Signed
  /\ phase \in Late => step = Len(zones_cfg)
  /\ phase = "write_key" => key[NextZone] = Torn
  /\ phase = "sign" => key[NextZone] # Absent
  /\ phase \in {"open_tls_key", "write_tls_key"} => cert \in Nat
  /\ phase = "load_cert" => cert # Absent /\ tls_key # Absent
  /\ phase = "api" /\ tls = "self_signed" => cert \in Nat /\ tls_key = cert

\* The catalog holds the zones loaded so far, with the keys on disk.
ServedWell ==
  /\ DOMAIN served = {zones_cfg[i] : i \in 1 .. step}
  /\ \A z \in DOMAIN served :
       /\ served[z].content[SoaKey] = {"configured"}
       /\ z \in Signed => served[z].key = key[z] /\ key[z] \in Nat
       /\ z \notin Signed => served[z].key = 0

\* Every key pair the server went up with is still the one on disk, and no step
\* is about to write over it.
UsedWell ==
  \A u \in used :
    \/ u[1] \in Zones /\ u = <<u[1], key[u[1]]>> /\ key[u[1]] \in Nat
    \/ /\ u = <<"tls", cert>> /\ tls = "self_signed"
       /\ cert \in Nat /\ tls_key = cert /\ phase \notin MakingCert

\* Calls run only while the server is up, and options are only saved over a file.
CallsWell ==
  /\ DOMAIN call = Calls
  /\ \A c \in Calls : /\ "at" \in DOMAIN call[c]
                      /\ Running(c) => phase = "up"
                      /\ call[c].at = "options" => conf # Absent

\* Without a fault the file is only ever torn while options are being saved.
ConfWell ==
  faults = 0 /\ conf # Absent =>
    /\ conf \in {Torn, ZoneOrder}
    /\ conf = Torn => phase = "up"
    /\ phase \notin {"down", "config"} => zones_cfg = ZoneOrder

AdminInv == FilesWell /\ Progress /\ ServedWell /\ UsedWell /\ CallsWell /\ ConfWell

-----------------------------------------------------------------------------
(* Facts used by several steps.                                            *)

\* A prefix of the configured zones is a sequence of zones.
LEMMA BeginningsAreZones == Beginnings(ZoneOrder) \subseteq Seq(Zones)
<1>1. ZoneOrder \in Seq(Zones)
  BY BootAssumption
<1>2. ASSUME NEW l \in 0 .. Len(ZoneOrder)
      PROVE  SubSeq(ZoneOrder, 1, l) \in Seq(Zones)
  BY <1>1
<1> QED
  BY <1>2 DEF Beginnings

\* The initial states satisfy the invariant.
LEMMA AdminInitInv == AdminInit => AdminInv
<1> SUFFICES ASSUME AdminInit PROVE AdminInv
  BY ZenonT(30)
<1> USE BootAssumption DEF AdminInit, BootInit, ZoneInit
<1>1. FilesWell
  BY DEF FilesWell, KeyFiles
<1>2. Progress
  BY DEF Progress, AtZone, MakingCert, Late
<1>3. ServedWell
  BY DEF ServedWell
<1>4. UsedWell
  BY DEF UsedWell
<1>5. CallsWell
  BY DEF CallsWell, Idle, Running
<1>6. ConfWell
  BY ZenonT(30) DEF ConfWell
<1> QED
  BY <1>1, <1>2, <1>3, <1>4, <1>5, <1>6, ZenonT(30) DEF AdminInv

\* What a process leaves when it ends satisfies the invariant: nothing but files.
LEMMA EndProcessInv ==
  ASSUME AdminInv, EndProcess, UNCHANGED <<tls, conf, used, diskVars>>,
         faults' \in Nat, faults' = 0 => faults = 0 /\ phase # "up"
  PROVE  FilesWell' /\ Progress' /\ ServedWell' /\ UsedWell' /\ ConfWell'
<1> USE DEF EndProcess, diskVars, AdminInv
<1>1. FilesWell'
  BY DEF FilesWell
<1>2. Progress'
  BY DEF Progress, AtZone, MakingCert, Late
<1>3. ServedWell'
  BY DEF ServedWell
<1>4. UsedWell'
  BY DEF UsedWell, MakingCert
<1>5. ConfWell'
  BY DEF ConfWell
<1> QED
  BY <1>1, <1>2, <1>3, <1>4, <1>5, Zenon

\* A step of start-up that changes neither the zones nor a file, and goes on to
\* a step whose conditions are met.
LEMMA ProceedInv ==
  ASSUME AdminInv, NEW p, Proceed(p), phase \notin {"down", "config", "up"},
         UNCHANGED <<tls, conf, used, diskVars, faults>>,
         p \notin {"down", "config"} \cup MakingCert, Progress'
  PROVE  FilesWell' /\ Progress' /\ ServedWell' /\ UsedWell' /\ ConfWell'
<1> USE DEF Proceed, diskVars, AdminInv
<1>1. FilesWell'
  BY ZenonT(30) DEF FilesWell
<1>2. ServedWell'
  BY DEF ServedWell
<1>3. UsedWell'
  BY ZenonT(30) DEF UsedWell
<1>4. ConfWell'
  BY DEF ConfWell
<1> QED
  BY <1>1, <1>2, <1>3, <1>4, ZenonT(30)

\* The zone start-up is at enters the catalog, with the key in its file.
LEMMA ServeZoneInv ==
  ASSUME AdminInv, NEW k, ServeZone(k), phase \in {"zones", "sign"}, step < Len(zones_cfg),
         UNCHANGED <<tls, conf, used, diskVars, faults>>,
         NextZone \in Signed => k = key[NextZone] /\ k \in Nat,
         NextZone \notin Signed => k = 0
  PROVE  FilesWell' /\ Progress' /\ ServedWell' /\ UsedWell' /\ ConfWell'
<1> USE DEF diskVars, AdminInv
<1>1. FilesWell'
  BY DEF FilesWell, ServeZone
<1>2. Progress'
  BY DEF Progress, AtZone, MakingCert, Late, ServeZone
<1>3. ServedWell'
  <2>1. DOMAIN served' = {zones_cfg[i] : i \in 1 .. step} \cup {zones_cfg[step + 1]}
    BY DEF ServeZone, ServedWell, NextZone
  <2>2. 1 .. step' = (1 .. step) \cup {step + 1} /\ zones_cfg' = zones_cfg
    BY DEF ServeZone, FilesWell
  <2>3. DOMAIN served' = {zones_cfg'[i] : i \in 1 .. step'}
    BY <2>1, <2>2, ZenonT(30)
  <2>4. Loaded(NextZone, "configured")[SoaKey] = {"configured"}
    BY KeysAssumption DEF Loaded
  <2>5. ASSUME NEW z \in DOMAIN served'
        PROVE  /\ served'[z].content[SoaKey] = {"configured"}
               /\ z \in Signed => served'[z].key = key[z] /\ key[z] \in Nat
               /\ z \notin Signed => served'[z].key = 0
    <3>1. CASE z = NextZone
      <4>1. served'[z] = [content |-> Loaded(z, "configured"), key |-> k]
        BY <2>5, <3>1, ZenonT(30) DEF ServeZone
      <4> QED
        BY <4>1, <3>1, <2>4
    <3>2. CASE z # NextZone
      <4>1. z \in DOMAIN served /\ served'[z] = served[z]
        BY <2>5, <3>2, ZenonT(30) DEF ServeZone
      <4> QED
        BY <4>1 DEF ServedWell
    <3> QED
      BY <3>1, <3>2
  <2>6. key' = key
    OBVIOUS
  <2> QED
    BY <2>3, <2>5, <2>6, ZenonT(30) DEF ServedWell
<1>4. UsedWell'
  BY DEF UsedWell, MakingCert, ServeZone
<1>5. ConfWell'
  BY DEF ConfWell, ServeZone
<1> QED
  BY <1>1, <1>2, <1>3, <1>4, <1>5, ZenonT(30)

-----------------------------------------------------------------------------
(* The steps of start-up.                                                  *)

\* No call runs during start-up, so start-up leaves the calls as they must be.
LEMMA SetUpCalls ==
  ASSUME AdminInv, SetUp, UNCHANGED zoneVars
  PROVE  phase # "up" /\ CallsWell'
<1>1. phase # "up"
  BY ZenonT(30) DEF SetUp, Start, LoadConfig, LoadZone, ResolveKey, WriteKey, SignZone, Bind,
         ResolveCert, WriteCert, OpenTlsKey, WriteTlsKey, LoadCert, GoUp
<1>2. call' = call
  BY DEF zoneVars
<1>3. \A c \in Calls : call[c].at = "idle"
  BY <1>1 DEF AdminInv, CallsWell, Running
<1> QED
  BY <1>1, <1>2, <1>3, ZenonT(30) DEF AdminInv, CallsWell, Running

\* Reading the configuration and the zones, with their keys.
LEMMA LoadingInv ==
  ASSUME AdminInv, UNCHANGED faults, phase # "up",
         Start \/ LoadConfig \/ LoadZone \/ ResolveKey \/ WriteKey \/ SignZone \/ Bind
  PROVE  FilesWell' /\ Progress' /\ ServedWell' /\ UsedWell' /\ ConfWell'
<1> USE DEF AdminInv
<1>0. faults' \in Nat /\ (faults' = 0 => faults = 0)
  BY DEF FilesWell
<1>z. step < Len(zones_cfg) => NextZone \in Zones
  BY DEF FilesWell, NextZone
<1>1. CASE Start
  <2> USE <1>1 DEF Start, Proceed, diskVars
  <2>1. FilesWell' /\ ServedWell' /\ ConfWell'
    BY DEF FilesWell, ServedWell, ConfWell
  <2>2. Progress'
    BY DEF Progress, AtZone, MakingCert, Late
  <2>3. UsedWell'
    BY DEF UsedWell, MakingCert
  <2> QED
    BY <2>1, <2>2, <2>3, ZenonT(30)
<1>2. CASE LoadConfig
  <2>1. CASE EndProcess
    BY <1>0, <1>2, <2>1, EndProcessInv, ZenonT(30) DEF LoadConfig
  <2>2. CASE ~ EndProcess
    <3> USE <1>2, <2>2 DEF LoadConfig, diskVars
    <3>1. /\ phase = "config" /\ phase' = "zones" /\ UNCHANGED <<step, served>>
          /\ UNCHANGED <<tls, conf, used, key, cert, tls_key, minted>>
      BY ZenonT(30)
    <3>2. zones_cfg = << >> /\ step = 0
      BY <3>1 DEF Progress, FilesWell
    <3>3. zones_cfg' \in Seq(Zones)
      <4>1. CASE conf = Absent
        <5>1. zones_cfg' = << >>
          BY <4>1, BootAssumption, ZenonT(30)
        <5> QED
          BY <5>1
      <4>2. CASE conf = Torn
        BY <4>2, BeginningsAreZones, BootAssumption, ZenonT(30)
      <4>3. CASE conf \notin {Absent, Torn}
        BY <4>3, ZenonT(30) DEF FilesWell
      <4> QED
        BY <4>1, <4>2, <4>3, ZenonT(30)
    <3>4. FilesWell'
      BY <3>1, <3>2, <3>3 DEF FilesWell
    <3>5. Progress'
      BY <3>1 DEF Progress, AtZone, MakingCert, Late
    <3>6. ServedWell'
      <4>1. 1 .. step = {}
        BY <3>2
      <4> QED
        BY <3>1, <4>1, ZenonT(30) DEF ServedWell
    <3>7. UsedWell'
      BY <3>1 DEF UsedWell, MakingCert
    <3>8. ConfWell'
      <4>1. conf \notin {Absent, Torn} => zones_cfg' = conf
        OBVIOUS
      <4> QED
        BY <3>1, <4>1, ZenonT(30) DEF ConfWell
    <3> QED
      BY <3>4, <3>5, <3>6, <3>7, <3>8, ZenonT(30)
  <2> QED
    BY <2>1, <2>2, ZenonT(30)
<1>3. CASE LoadZone
  <2>1. CASE EndProcess
    BY <1>0, <1>3, <2>1, EndProcessInv, ZenonT(30) DEF LoadZone
  <2>2. CASE NextZone \in Signed /\ Proceed("resolve_key")
    <3>1. Progress'
      BY <1>3, <2>2, ZenonT(30) DEF LoadZone, Progress, AtZone, MakingCert, Late, Proceed, NextZone
    <3> QED
      BY <1>3, <2>2, <3>1, ProceedInv, ZenonT(30) DEF LoadZone, MakingCert
  <2>3. CASE NextZone \notin Signed /\ ServeZone(0)
    BY <1>3, <2>3, ServeZoneInv, ZenonT(30) DEF LoadZone
  <2> QED
    BY <1>3, <2>1, <2>2, <2>3, ZenonT(30) DEF LoadZone
<1>4. CASE ResolveKey
  <2>1. CASE Proceed("sign") /\ key[NextZone] # Absent /\ UNCHANGED key
    <3>1. Progress'
      BY <1>4, <2>1 DEF ResolveKey, Progress, AtZone, MakingCert, Late, Proceed, NextZone
    <3> QED
      BY <1>4, <2>1, <3>1, ProceedInv, ZenonT(30) DEF ResolveKey, MakingCert, diskVars
  <2>2. CASE key[NextZone] = Absent /\ key' = [key EXCEPT ![NextZone] = Torn] /\ Proceed("write_key")
    <3>1. /\ phase = "resolve_key" /\ phase' = "write_key"
          /\ UNCHANGED <<tls, conf, used, cert, tls_key, minted, step, zones_cfg, served>>
      BY <1>4, <2>2 DEF ResolveKey, Proceed
    <3>2. step < Len(zones_cfg) /\ NextZone \in Signed /\ NextZone \in Zones /\ NextZone' = NextZone
      BY <1>z, <3>1 DEF Progress, AtZone, NextZone
    <3>3. /\ key' \in [Zones -> KeyFiles] /\ key'[NextZone] = Torn
          /\ \A z \in Zones : key[z] \in Nat => key'[z] = key[z]
      BY <2>2, <3>2, BootAssumption, ZenonT(30) DEF FilesWell, KeyFiles
    <3>4. FilesWell'
      BY <3>1, <3>3, ZenonT(30) DEF FilesWell
    <3>5. Progress'
      BY <3>1, <3>2, <3>3, ZenonT(30) DEF Progress, AtZone, MakingCert, Late
    <3>6. DOMAIN served \subseteq Zones
      BY DEF ServedWell, FilesWell
    <3>7. ServedWell'
      BY <3>1, <3>3, <3>6, ZenonT(30) DEF ServedWell
    <3>8. UsedWell'
      BY <3>1, <3>3 DEF UsedWell, MakingCert
    <3>9. ConfWell'
      BY <3>1, Zenon DEF ConfWell
    <3> QED
      BY <3>4, <3>5, <3>7, <3>8, <3>9, ZenonT(30)
  <2> QED
    BY <1>4, <2>1, <2>2, ZenonT(30) DEF ResolveKey
<1>5. CASE WriteKey
  <2>1. /\ phase = "write_key" /\ phase' = "sign" /\ minted' = minted + 1
        /\ key' = [key EXCEPT ![NextZone] = minted']
        /\ UNCHANGED <<tls, conf, used, cert, tls_key, step, zones_cfg, served>>
    BY <1>5 DEF WriteKey, Proceed
  <2>2. /\ step < Len(zones_cfg) /\ NextZone \in Signed /\ NextZone \in Zones
        /\ NextZone' = NextZone /\ key[NextZone] = Torn
    BY <1>z, <2>1 DEF Progress, AtZone, NextZone
  <2>3. /\ minted' \in Nat /\ key' \in [Zones -> KeyFiles] /\ key'[NextZone] \in Nat
        /\ \A z \in Zones : key[z] \in Nat => key'[z] = key[z]
    BY <2>1, <2>2, BootAssumption DEF FilesWell, KeyFiles
  <2>4. FilesWell'
    BY <2>1, <2>3 DEF FilesWell
  <2>5. Progress'
    BY <2>1, <2>2, <2>3, BootAssumption, ZenonT(30) DEF Progress, AtZone, MakingCert, Late
  <2>6. DOMAIN served \subseteq Zones
    BY DEF ServedWell, FilesWell
  <2>7. ServedWell'
    BY <2>1, <2>3, <2>6 DEF ServedWell
  <2>8. UsedWell'
    BY <2>1, <2>3 DEF UsedWell, MakingCert
  <2>9. ConfWell'
    BY <2>1 DEF ConfWell
  <2> QED
    BY <2>4, <2>5, <2>7, <2>8, <2>9, ZenonT(30)
<1>6. CASE SignZone
  <2>1. CASE key[NextZone] = Torn
    BY <1>0, <1>6, <2>1, EndProcessInv, ZenonT(30) DEF SignZone
  <2>2. CASE key[NextZone] # Torn
    <3>1. step < Len(zones_cfg) /\ NextZone \in Signed /\ key[NextZone] # Absent
      BY <1>6 DEF SignZone, Progress, AtZone
    <3>2. key[NextZone] \in Nat
      BY <1>z, <2>2, <3>1, ZenonT(30) DEF FilesWell, KeyFiles
    <3> QED
      BY <1>6, <2>2, <3>1, <3>2, ServeZoneInv, ZenonT(30) DEF SignZone
  <2> QED
    BY <2>1, <2>2
<1>7. CASE Bind
  <2>1. Progress'
    BY <1>7 DEF Bind, Proceed, Progress, AtZone, MakingCert, Late
  <2> QED
    BY <1>7, <2>1, ProceedInv, ZenonT(30) DEF Bind, MakingCert
<1> QED
  BY <1>1, <1>2, <1>3, <1>4, <1>5, <1>6, <1>7, ZenonT(30)

\* The certificate, and the server going up.
LEMMA ListeningInv ==
  ASSUME AdminInv, UNCHANGED faults, phase # "up",
         ResolveCert \/ WriteCert \/ OpenTlsKey \/ WriteTlsKey \/ LoadCert \/ GoUp
  PROVE  FilesWell' /\ Progress' /\ ServedWell' /\ UsedWell' /\ ConfWell'
<1> USE DEF AdminInv
<1>0. faults' \in Nat /\ (faults' = 0 => faults = 0)
  BY DEF FilesWell
<1>1. CASE ResolveCert
  <2>1. CASE tls = "given" /\ Proceed("api") /\ UNCHANGED cert
    <3>1. Progress'
      BY <1>1, <2>1 DEF ResolveCert, Proceed, Progress, AtZone, MakingCert, Late
    <3> QED
      BY <1>1, <2>1, <3>1, ProceedInv, ZenonT(30) DEF ResolveCert, MakingCert, diskVars
  <2>2. CASE EndProcess /\ UNCHANGED cert
    BY <1>0, <1>1, <2>2, EndProcessInv, ZenonT(30) DEF ResolveCert, diskVars
  <2>3. CASE cert # Absent /\ tls_key # Absent /\ Proceed("load_cert") /\ UNCHANGED cert
    <3>1. Progress'
      BY <1>1, <2>3 DEF ResolveCert, Proceed, Progress, AtZone, MakingCert, Late
    <3> QED
      BY <1>1, <2>3, <3>1, ProceedInv, ZenonT(30) DEF ResolveCert, MakingCert, diskVars
  <2>4. CASE Absent \in {cert, tls_key} /\ Proceed("write_cert") /\ cert' = Torn
    <3>1. /\ phase = "cert" /\ phase' = "write_cert"
          /\ UNCHANGED <<tls, conf, used, key, tls_key, minted, step, zones_cfg, served>>
      BY <1>1, <2>4 DEF ResolveCert, Proceed
    <3>2. FilesWell'
      BY <2>4, <3>1 DEF FilesWell, KeyFiles
    <3>3. Progress'
      BY <3>1 DEF Progress, AtZone, MakingCert, Late
    <3>4. ServedWell' /\ ConfWell'
      BY <3>1 DEF ServedWell, ConfWell
    <3>5. UsedWell'
      BY <2>4, <3>1, BootAssumption, ZenonT(30) DEF UsedWell
    <3> QED
      BY <3>2, <3>3, <3>4, <3>5, ZenonT(30)
  <2> QED
    BY <1>1, <2>1, <2>2, <2>3, <2>4, ZenonT(30) DEF ResolveCert
<1>2. CASE WriteCert \/ OpenTlsKey \/ WriteTlsKey
  <2>1. /\ phase \in MakingCert
        /\ UNCHANGED <<tls, conf, used, key, step, zones_cfg, served>>
        /\ minted' \in Nat /\ cert' \in KeyFiles /\ tls_key' \in KeyFiles
    BY <1>2 DEF WriteCert, OpenTlsKey, WriteTlsKey, MakingCert, Proceed, FilesWell, KeyFiles
  <2>2. FilesWell'
    BY <2>1 DEF FilesWell
  <2>3. Progress'
    <3>1. phase \in Late /\ step = Len(zones_cfg) /\ minted \in Nat /\ Absent \notin Nat
      BY <2>1, BootAssumption DEF Progress, Late, FilesWell
    <3>2. CASE WriteCert
      BY <2>1, <3>1, <3>2, Zenon DEF WriteCert, Proceed, Progress, AtZone, MakingCert, Late
    <3>3. CASE OpenTlsKey
      BY <2>1, <3>1, <3>3, Zenon DEF OpenTlsKey, Proceed, Progress, AtZone, MakingCert, Late
    <3>4. CASE WriteTlsKey
      <4>1. cert' \in Nat /\ tls_key' \in Nat
        BY <3>1, <3>4 DEF WriteTlsKey, Progress
      <4> QED
        BY <2>1, <3>1, <3>4, <4>1, ZenonT(30) DEF WriteTlsKey, Proceed, Progress, AtZone, MakingCert, Late
    <3> QED
      BY <1>2, <3>2, <3>3, <3>4, ZenonT(30)
  <2>4. ServedWell' /\ ConfWell'
    BY <2>1 DEF ServedWell, ConfWell, MakingCert
  <2>5. UsedWell'
    BY <2>1 DEF UsedWell
  <2> QED
    BY <2>2, <2>3, <2>4, <2>5, ZenonT(30)
<1>3. CASE LoadCert
  <2>1. CASE EndProcess
    BY <1>0, <1>3, <2>1, EndProcessInv, ZenonT(30) DEF LoadCert
  <2>2. CASE cert # Torn /\ cert = tls_key /\ Proceed("api")
    <3>1. cert \in Nat
      BY <1>3, <2>2 DEF LoadCert, FilesWell, KeyFiles, Progress
    <3>2. Progress'
      BY <1>3, <2>2, <3>1 DEF LoadCert, Proceed, Progress, AtZone, MakingCert, Late, diskVars
    <3> QED
      BY <1>3, <2>2, <3>2, ProceedInv, ZenonT(30) DEF LoadCert, MakingCert
  <2> QED
    BY <1>3, <2>1, <2>2 DEF LoadCert
<1>4. CASE GoUp
  <2>1. /\ phase = "api" /\ phase' = "up"
        /\ UNCHANGED <<tls, conf, key, cert, tls_key, minted, step, zones_cfg, served>>
    BY <1>4, ZenonT(30) DEF GoUp, Proceed, diskVars
  <2>2. FilesWell' /\ ServedWell' /\ ConfWell'
    BY <2>1 DEF FilesWell, ServedWell, ConfWell
  <2>3. Progress'
    BY <2>1 DEF Progress, AtZone, MakingCert, Late
  <2>4. UsedWell'
    <3>1. ASSUME NEW u \in used'
          PROVE  \/ u[1] \in Zones /\ u = <<u[1], key[u[1]]>> /\ key[u[1]] \in Nat
                 \/ /\ u = <<"tls", cert>> /\ tls = "self_signed"
                    /\ cert \in Nat /\ tls_key = cert
      <4>1. CASE u \in used
        BY <4>1 DEF UsedWell
      <4>2. CASE \E z \in Signed \cap DOMAIN served : u = <<z, served[z].key>>
        <5>1. PICK z \in Signed \cap DOMAIN served : u = <<z, served[z].key>>
          BY <4>2
        <5>2. z \in Zones /\ served[z].key = key[z] /\ key[z] \in Nat
          BY DEF ServedWell, FilesWell
        <5> QED
          BY <5>1, <5>2
      <4>3. CASE tls = "self_signed" /\ u = <<"tls", cert>>
        BY <2>1, <4>3 DEF Progress
      <4> QED
        BY <1>4, <4>1, <4>2, <4>3 DEF GoUp
    <3> QED
      BY <2>1, <3>1, ZenonT(30) DEF UsedWell, MakingCert
  <2> QED
    BY <2>2, <2>3, <2>4
<1> QED
  BY <1>1, <1>2, <1>3, <1>4, ZenonT(30)

-----------------------------------------------------------------------------
(* The other steps.                                                        *)

\* A call that starts, goes on or answers leaves start-up alone.
LEMMA CallInv ==
  ASSUME AdminInv, UNCHANGED bootVars, faults' \in Nat, faults' = 0 => faults = 0,
         phase = "up", CallsWell'
  PROVE  AdminInv'
<1> USE DEF bootVars, diskVars, AdminInv
<1>1. FilesWell' /\ ServedWell' /\ ConfWell'
  BY DEF FilesWell, ServedWell, ConfWell
<1>2. Progress'
  BY DEF Progress, AtZone, MakingCert, Late
<1>3. UsedWell'
  BY DEF UsedWell, MakingCert
<1> QED
  BY <1>1, <1>2, <1>3, ZenonT(30)

\* What a call may be after a step that is not one of the options call.
LEMMA CallsAfter ==
  ASSUME AdminInv, NEW c \in Calls, NEW r, call' = [call EXCEPT ![c] = r],
         "at" \in DOMAIN r, r.at # "options", phase = "up", UNCHANGED <<phase, conf>>
  PROVE  CallsWell'
<1>1. DOMAIN call' = Calls /\ \A d \in Calls : call'[d] = IF d = c THEN r ELSE call[d]
  BY DEF AdminInv, CallsWell
<1> QED
  BY <1>1 DEF AdminInv, CallsWell, Running

\* A call that answers.
LEMMA CallsAfterRespond ==
  ASSUME AdminInv, NEW c \in Calls, Respond(c), phase = "up", UNCHANGED <<phase, conf>>
  PROVE  CallsWell'
<1>1. call' = [call EXCEPT ![c] = Idle]
  BY DEF Respond
<1>2. "at" \in DOMAIN Idle /\ Idle.at # "options"
  BY DEF Idle
<1> QED
  BY <1>1, <1>2, CallsAfter, Zenon

\* The record API.
LEMMA ApiInv ==
  ASSUME AdminInv, ApiRequest \/ ApiStep \/ ApiFails
  PROVE  AdminInv'
<1>1. faults' \in Nat /\ (faults' = 0 => faults = 0)
  <2>1. faults' = faults \/ faults' = faults + 1
    BY ZenonT(30) DEF ApiRequest, ApiStep, ApiFails, Fault
  <2> QED
    BY <2>1 DEF AdminInv, FilesWell
<1>2. UNCHANGED bootVars
  BY DEF ApiRequest, ApiStep, ApiFails
<1>3. phase' = phase /\ conf' = conf
  BY <1>2, ZenonT(30) DEF bootVars
<1>4. phase = "up"
  BY DEF AdminInv, CallsWell, ApiRequest, ApiStep, ApiFails
<1>5. CallsWell'
  <2>1. CASE ApiRequest
    <3>0. PICK c \in Calls : \E req : Request(c, req)
      BY <2>1, Zenon DEF ApiRequest
    <3>1. PICK req : Request(c, req)
      BY <3>0
    <3> DEFINE r == [at |-> "load", zone |-> req.zone, req |-> req]
    <3>2. call' = [call EXCEPT ![c] = r]
      BY <3>1 DEF Request
    <3>3. "at" \in DOMAIN r /\ r.at # "options"
      BY Zenon
    <3> HIDE DEF r
    <3> QED
      BY <1>3, <1>4, <3>2, <3>3, CallsAfter, ZenonT(30)
  <2>2. CASE ApiStep
    <3>1. PICK c \in Calls : Running(c) /\ call[c].at # "options" /\ CallStep(c)
      BY <2>2 DEF ApiStep
    <3>2. CASE Respond(c)
      BY <1>3, <1>4, <3>2, CallsAfterRespond, ZenonT(30)
    <3>3. CASE Load(c) /\ ~ Respond(c)
      <4>1. PICK z, base, image :
              call' = [call EXCEPT ![c] = [at |-> "save", zone |-> z, base |-> base,
                                           image |-> image, off |-> 0]]
        BY <3>3 DEF Load
      <4> DEFINE r == [at |-> "save", zone |-> z, base |-> base, image |-> image, off |-> 0]
      <4>2. call' = [call EXCEPT ![c] = r]
        BY <4>1
      <4>3. "at" \in DOMAIN r /\ r.at # "options"
        OBVIOUS
      <4> HIDE DEF r
      <4> QED
        BY <1>3, <1>4, <4>2, <4>3, CallsAfter, Zenon
    <3>4. CASE Truncate(c)
      <4>1. call' = [call EXCEPT ![c] = [call[c] EXCEPT !.at = "write"]]
        BY <3>4 DEF Truncate
      <4>2. [call[c] EXCEPT !.at = "write"].at = "write"
        BY DEF AdminInv, CallsWell
      <4> QED
        BY <1>3, <1>4, <4>1, <4>2, CallsAfter, ZenonT(30) DEF AdminInv, CallsWell
    <3>5. CASE \E n \in 1 .. MaxLines : Write(c, n) /\ ~ Respond(c)
      <4>1. PICK n \in 1 .. MaxLines : call' = [call EXCEPT ![c] = [call[c] EXCEPT !.off = call[c].off + n]]
        BY <3>5 DEF Write
      <4>2. [call[c] EXCEPT !.off = call[c].off + n].at = call[c].at
        BY Zenon DEF AdminInv, CallsWell
      <4> QED
        BY <1>3, <1>4, <3>1, <4>1, <4>2, CallsAfter, ZenonT(30) DEF AdminInv, CallsWell
    <3> QED
      BY <3>1, <3>2, <3>3, <3>4, <3>5, ZenonT(30) DEF CallStep
  <2>3. CASE ApiFails
    <3>1. PICK c \in Calls : Respond(c)
      BY <2>3 DEF ApiFails, OpenFails, WriteFails
    <3> QED
      BY <1>3, <1>4, <3>1, CallsAfterRespond, ZenonT(30)
  <2> QED
    BY <2>1, <2>2, <2>3
<1> QED
  BY <1>1, <1>2, <1>4, <1>5, CallInv

\* Two options calls at once included, saving leaves the file torn only while
\* one of them is still writing.
LEMMA OptionsInv ==
  ASSUME AdminInv, NEW c \in Calls, SaveOptions(c) \/ OptionsSaved(c)
  PROVE  AdminInv'
<1> USE DEF AdminInv
<1>1. phase = "up"
  BY DEF SaveOptions, OptionsSaved, CallsWell, Running
<1>2. /\ UNCHANGED <<phase, step, tls, zones_cfg, served, used, key, cert, tls_key, minted>>
      /\ faults' \in Nat /\ (faults' = 0 => faults = 0)
  BY DEF SaveOptions, OptionsSaved, diskVars, Fault, FilesWell
<1>3. conf # Absent => conf' \in {Torn, zones_cfg}
  BY ZenonT(30) DEF SaveOptions, OptionsSaved
<1>4. conf # Absent
  BY DEF SaveOptions, OptionsSaved, CallsWell
<1>5. FilesWell'
  BY <1>2, <1>3, <1>4, ZenonT(30) DEF FilesWell
<1>6. Progress'
  BY <1>1, <1>2, ZenonT(30) DEF Progress, AtZone, MakingCert, Late
<1>7. ServedWell'
  BY <1>2, ZenonT(30) DEF ServedWell
<1>8. UsedWell'
  BY <1>2 DEF UsedWell, MakingCert
<1>9. ConfWell'
  BY <1>1, <1>2, <1>3, <1>4 DEF ConfWell
<1>10. CallsWell'
  <2>1. CASE SaveOptions(c)
    <3> DEFINE r == [at |-> "options"]
    <3>1. call' = [call EXCEPT ![c] = r] /\ conf' = Torn /\ "at" \in DOMAIN r
      BY <2>1, Zenon DEF SaveOptions
    <3> HIDE DEF r
    <3>2. DOMAIN call' = Calls /\ \A d \in Calls : call'[d] = IF d = c THEN r ELSE call[d]
      BY <3>1 DEF CallsWell
    <3> QED
      BY <1>1, <1>2, <3>1, <3>2, BootAssumption DEF CallsWell, Running
  <2>2. CASE OptionsSaved(c)
    <3>1. call' = [call EXCEPT ![c] = Idle] /\ "at" \in DOMAIN Idle /\ Idle.at = "idle"
      BY <2>2 DEF OptionsSaved, Respond, Idle
    <3>2. DOMAIN call' = Calls /\ \A d \in Calls : call'[d] = IF d = c THEN Idle ELSE call[d]
      BY <3>1 DEF CallsWell
    <3>3. ASSUME NEW d \in Calls, call'[d].at = "options"
          PROVE  conf' # Absent
      <4>1. d # c /\ call[d].at = "options"
        BY <3>1, <3>2, <3>3, ZenonT(30)
      <4>2. conf' = Torn
        BY <2>2, <4>1 DEF OptionsSaved
      <4> QED
        BY <4>2, BootAssumption
    <3> QED
      BY <1>1, <1>2, <3>1, <3>2, <3>3, ZenonT(30) DEF CallsWell, Running
  <2> QED
    BY <2>1, <2>2, ZenonT(30)
<1> QED
  BY <1>5, <1>6, <1>7, <1>8, <1>9, <1>10, ZenonT(30)

\* A death at any point.
LEMMA DieInv ==
  ASSUME AdminInv, Die
  PROVE  AdminInv'
<1>1. faults' \in Nat /\ faults' # 0
  BY DEF Die, Fault, AdminInv, FilesWell
<1>2. FilesWell' /\ Progress' /\ ServedWell' /\ UsedWell' /\ ConfWell'
  BY <1>1, EndProcessInv, ZenonT(30) DEF Die
<1>3. CallsWell'
  <2>1. \A c \in Calls : call'[c] = Idle
    BY DEF Die
  <2>2. "at" \in DOMAIN Idle /\ Idle.at = "idle"
    BY DEF Idle
  <2> QED
    BY <2>1, <2>2 DEF Die, CallsWell, Running
<1> QED
  BY <1>2, <1>3, ZenonT(30) DEF AdminInv

-----------------------------------------------------------------------------
(* The theorems.                                                           *)

\* Start-up, the calls and deaths keep the invariant.
THEOREM AdminInvariant == AdminSpec => []AdminInv
<1>1. AdminInv /\ [AdminNext]_adminVars => AdminInv'
  <2> SUFFICES ASSUME AdminInv, [AdminNext]_adminVars
               PROVE  AdminInv'
    OBVIOUS
  <2>1. CASE SetUp /\ UNCHANGED <<zoneVars, faults>>
    <3>1. phase # "up" /\ CallsWell'
      BY <2>1, SetUpCalls
    <3>2. FilesWell' /\ Progress' /\ ServedWell' /\ UsedWell' /\ ConfWell'
      BY <2>1, <3>1, LoadingInv, ListeningInv, ZenonT(30) DEF SetUp
    <3> QED
      BY <3>1, <3>2 DEF AdminInv
  <2>2. CASE ApiRequest \/ ApiStep \/ ApiFails
    BY <2>2, ApiInv
  <2>3. CASE Die
    BY <2>3, DieInv
  <2>4. CASE \E c \in Calls : SaveOptions(c) \/ OptionsSaved(c)
    BY <2>4, OptionsInv
  <2>5. CASE UNCHANGED adminVars
    <3> USE <2>5 DEF adminVars, zoneVars, bootVars, diskVars, AdminInv
    <3>1. FilesWell' /\ ServedWell' /\ ConfWell'
      BY ZenonT(30) DEF FilesWell, ServedWell, ConfWell
    <3>2. Progress'
      BY DEF Progress, AtZone, MakingCert, Late, NextZone
    <3>3. UsedWell'
      BY ZenonT(30) DEF UsedWell, MakingCert
    <3>4. CallsWell'
      BY Zenon DEF CallsWell, Running
    <3> QED
      BY <3>1, <3>2, <3>3, <3>4, ZenonT(30)
  <2> QED
    BY <2>1, <2>2, <2>3, <2>4, <2>5, ZenonT(30) DEF AdminNext
<1> QED
  BY AdminInitInv, <1>1, PTL DEF AdminSpec

\* ResolveKey and ResolveCert never replace a key pair the server has gone up
\* with: zones keep their signing key and the server its certificate, for any
\* zones and any number of restarts and of deaths, wherever they strike.
THEOREM KeysOutlive == AdminSpec => []KeysOutliveRestarts
<1>1. AdminInv => KeysOutliveRestarts
  <2> SUFFICES ASSUME AdminInv, NEW u \in used, NEW w \in used, u[1] = w[1]
               PROVE  u = w
    BY DEF KeysOutliveRestarts
  <2>1. \/ u[1] \in Zones /\ u = <<u[1], key[u[1]]>>
        \/ u = <<"tls", cert>>
    BY DEF AdminInv, UsedWell
  <2>2. \/ w[1] \in Zones /\ w = <<w[1], key[w[1]]>>
        \/ w = <<"tls", cert>>
    BY ZenonT(30) DEF AdminInv, UsedWell
  <2> QED
    BY <2>1, <2>2, BootAssumption
<1> QED
  BY AdminInvariant, <1>1, PTL

\* load_all is all or nothing: for any zones, a server that is up serves all of
\* its configuration with the keys on disk, and without faults the configuration
\* is the operator's, however many options calls ran and overlapped.
THEOREM ServesAll == AdminSpec => []ServesEveryZone
<1>1. AdminInv => ServesEveryZone
  <2> SUFFICES ASSUME AdminInv, phase = "up"
               PROVE  /\ DOMAIN served = Elements(zones_cfg)
                      /\ \A z \in DOMAIN served :
                           /\ served[z].content[SoaKey] = {"configured"}
                           /\ served[z].key = IF z \in Signed THEN key[z] ELSE 0
                      /\ faults = 0 /\ conf # Absent => zones_cfg = ZoneOrder
    BY DEF ServesEveryZone
  <2> USE DEF AdminInv
  <2>1. step = Len(zones_cfg) /\ DOMAIN zones_cfg = 1 .. Len(zones_cfg)
    BY DEF Progress, Late, FilesWell
  <2>2. DOMAIN served = Elements(zones_cfg)
    BY <2>1 DEF ServedWell, Elements
  <2>3. \A z \in DOMAIN served : served[z].content[SoaKey] = {"configured"}
    BY DEF ServedWell
  <2>4. \A z \in DOMAIN served : served[z].key = IF z \in Signed THEN key[z] ELSE 0
    BY DEF ServedWell
  <2>5. faults = 0 /\ conf # Absent => zones_cfg = ZoneOrder
    BY Zenon DEF ConfWell
  <2> QED
    BY <2>2, <2>3, <2>4, <2>5, ZenonT(30)
<1> QED
  BY AdminInvariant, <1>1, PTL

-----------------------------------------------------------------------------
(* The record API as a whole.                                              *)

\* Die: the zones that were being written are lost, the others are what they were.
LEMMA DieZoneInv ==
  ASSUME ZoneInv, Die
  PROVE  ZoneInv' /\ \A z \in Zones : StoreOf(z)' = StoreOf(z) \/ StoreOf(z)' = Unpromised
<1>1. /\ hurt \in [Zones -> SUBSET {"raced", "crossed", "cut", "soa"}]
      /\ file \in [Zones -> Seq(Line \cup {Hole})]
  BY DEF ZoneInv
<1>2. /\ call' = [c \in Calls |-> Idle]
      /\ hurt' = [z \in Zones |-> IF Writing(z) # {} THEN hurt[z] \cup {"cut"} ELSE hurt[z]]
  BY DEF Die
<1>3. PICK partial \in SUBSET {z \in Zones : Writing(z) # {}} :
        file' = [z \in Zones |-> IF z \in partial THEN Append(file[z], Hole) ELSE file[z]]
  BY ZenonT(30) DEF Die
<1>4. ASSUME NEW z \in Zones
      PROVE  /\ file'[z] = file[z] \/ (Writing(z) # {} /\ file'[z] = Append(file[z], Hole))
             /\ hurt'[z] = IF Writing(z) # {} THEN hurt[z] \cup {"cut"} ELSE hurt[z]
             /\ Append(file[z], Hole) \in Seq(Line \cup {Hole})
             /\ Len(Append(file[z], Hole)) = Len(file[z]) + 1 /\ Len(file[z]) \in Nat
  <2>1. file[z] \in Seq(Line \cup {Hole})
    BY <1>1
  <2> QED
    BY <1>2, <1>3, <2>1
<1>5. file' \in [Zones -> Seq(Line \cup {Hole})]
  BY <1>1, <1>3, <1>4
<1>6. hurt' \in [Zones -> SUBSET {"raced", "crossed", "cut", "soa"}]
  BY <1>1, <1>2, ZenonT(30)
<1>7. \A z : Writing(z)' = {} /\ Changing(z)' = {}
  BY <1>2, ZenonT(30) DEF Writing, Changing, Idle
<1>8. DOMAIN call' = Calls /\ \A c \in Calls : CallOK(call[c])'
  BY <1>2 DEF CallOK
<1>9. ASSUME NEW z \in Zones
      PROVE  ZoneOK(z)' /\ (StoreOf(z)' = StoreOf(z) \/ StoreOf(z)' = Unpromised)
  <2>1. ZoneOK(z)
    BY DEF ZoneInv
  <2>2. CASE Writing(z) = {}
    <3>1. file'[z] = file[z] /\ hurt'[z] = hurt[z] /\ Writing(z)' = {} /\ Changing(z)' = {}
      BY <1>4, <1>7, <2>2, ZenonT(30)
    <3>2. Loads(z)' = Loads(z)
      BY <3>1, Zenon DEF Loads, Lines
    <3>3. ZoneOK(z)'
      BY <2>1, <2>2, <3>1, <3>2, ZenonT(30) DEF ZoneOK
    <3>4. StoreOf(z)' = StoreOf(z)
      BY <2>2, <3>1, ZenonT(30) DEF StoreOf
    <3> QED
      BY <3>3, <3>4
  <2>3. CASE Writing(z) # {}
    <3>1. hurt'[z] = hurt[z] \cup {"cut"} /\ Writing(z)' = {} /\ Changing(z)' = {}
      BY <1>4, <1>7, <2>3, ZenonT(30)
    <3>2. Len(file'[z]) <= MaxLines
      <4>1. Cardinality(Line) \in Nat /\ MaxLines \in Nat /\ Cardinality(Line) < MaxLines
        BY BoundsAssumption, LineFacts, FS_CardinalityType
      <4>2. Len(file[z]) \in Nat /\ Len(file[z]) <= Cardinality(Line)
        BY <1>4, <2>1, <2>3, ZenonT(30) DEF ZoneOK
      <4>3. Len(file'[z]) = Len(file[z]) \/ Len(file'[z]) = Len(file[z]) + 1
        BY <1>4, ZenonT(30)
      <4> QED
        BY <4>1, <4>2, <4>3
    <3>3. "crossed" \in hurt'[z] => "raced" \in hurt'[z]
      BY <2>1, <3>1, ZenonT(30) DEF ZoneOK
    <3>4. ZoneOK(z)'
      BY <3>1, <3>2, <3>3, ZenonT(30) DEF ZoneOK
    <3>5. StoreOf(z)' = Unpromised
      BY <3>1 DEF StoreOf
    <3> QED
      BY <3>4, <3>5
  <2> QED
    BY <2>2, <2>3
<1> QED
  BY <1>5, <1>6, <1>8, <1>9, ZenonT(30) DEF ZoneInv

\* A request, an answer without a change, and the options call move nothing.
LEMMA QuietInv ==
  ASSUME ZoneInv, NEW c \in Calls,
         \/ \E req \in Requests : Request(c, req)
         \/ Load(c) /\ Respond(c)
         \/ SaveOptions(c) \/ OptionsSaved(c)
  PROVE  ZoneInv' /\ \A y \in Zones : StoreOf(y)' = StoreOf(y)
<1>1. DOMAIN call = Calls
  BY DEF ZoneInv
<1>2. CASE \E req \in Requests : Request(c, req)
  <2>1. PICK req \in Requests : Request(c, req)
    BY <1>2
  <2> DEFINE r == [at |-> "load", zone |-> req.zone, req |-> req]
  <2>2. req.zone \in Zones
    BY Zenon DEF Requests
  <2>3. r \in Loading /\ r.at = "load"
    BY <2>2 DEF Loading
  <2>4. call' = [call EXCEPT ![c] = r] /\ file' = file /\ hurt' = hurt /\ call[c].at = "idle"
    BY <2>1 DEF Request, Running
  <2> HIDE DEF r
  <2>5. DOMAIN call' = Calls /\ call'[c] = r /\ \A d \in Calls \ {c} : call'[d] = call[d]
    BY <1>1, <2>4, ZenonT(30)
  <2>6. CallOK(call[c])'
    BY <2>3, <2>5, ZenonT(30) DEF CallOK
  <2> QED
    BY <2>3, <2>4, <2>5, <2>6, QuietCall, ZenonT(30)
<1>3. CASE (Load(c) /\ Respond(c)) \/ OptionsSaved(c)
  <2>1. /\ call' = [call EXCEPT ![c] = Idle] /\ file' = file
        /\ call[c].at \in {"load", "options"}
    BY <1>3, Zenon DEF Load, OptionsSaved, Respond
  <2>2. Idle.at = "idle"
    BY DEF Idle
  <2>3. DOMAIN call' = Calls /\ call'[c] = Idle /\ \A d \in Calls \ {c} : call'[d] = call[d]
    BY <1>1, <2>1
  <2>4. hurt' = hurt
    <3>1. CASE OptionsSaved(c)
      BY <3>1, ZenonT(30) DEF OptionsSaved
    <3>2. CASE Load(c) /\ Respond(c)
      <4> SUFFICES ASSUME NEW z, NEW b, NEW i,
                          call' = [call EXCEPT ![c] = [at |-> "save", zone |-> z, base |-> b,
                                                       image |-> i, off |-> 0]]
                   PROVE  FALSE
        BY <3>2, ZenonT(30) DEF Load
      <4> DEFINE r == [at |-> "save", zone |-> z, base |-> b, image |-> i, off |-> 0]
      <4>1. call'[c] = r /\ r.at = "save"
        BY <1>1
      <4> QED
        BY <2>2, <2>3, <4>1
    <3> QED
      BY <1>3, <3>1, <3>2
  <2>5. CallOK(call[c])'
    BY <2>3, Zenon DEF CallOK
  <2> QED
    BY <2>1, <2>2, <2>3, <2>4, <2>5, QuietCall, ZenonT(30)
<1>4. CASE SaveOptions(c)
  <2> DEFINE r == [at |-> "options"]
  <2>1. /\ call' = [call EXCEPT ![c] = r] /\ file' = file /\ hurt' = hurt
        /\ call[c].at = "idle" /\ r.at = "options"
    BY <1>4 DEF SaveOptions, Running
  <2>2. call'[c] = [at |-> "options"]
    BY <1>1, <2>1
  <2> HIDE DEF r
  <2>3. DOMAIN call' = Calls /\ call'[c] = r /\ \A d \in Calls \ {c} : call'[d] = call[d]
    BY <1>1, <2>1
  <2>4. CallOK(call[c])'
    BY <2>2, Zenon DEF CallOK
  <2> QED
    BY <2>1, <2>3, <2>4, QuietCall, ZenonT(30)
<1> QED
  BY <1>2, <1>3, <1>4

\* The operator's files satisfy the invariant, and are a state of the store.
LEMMA ZoneInitInv == AdminInit => ZoneInv /\ Store!StoreInit
<1> SUFFICES ASSUME AdminInit PROVE ZoneInv /\ Store!StoreInit
  OBVIOUS
<1>1. /\ file \in [Zones -> InitFiles] /\ call = [c \in Calls |-> Idle]
      /\ hurt = [z \in Zones |-> {}]
  BY DEF AdminInit, ZoneInit
<1>2. ASSUME NEW z \in Zones
      PROVE  /\ file[z] \in Seq(Line) /\ Len(file[z]) <= MaxLines
             /\ \E i \in DOMAIN file[z] : file[z][i][1] = SoaKey
  BY <1>1, FilesAssumption, ZenonT(30)
<1>3. \A z : Writing(z) = {} /\ Changing(z) = {}
  BY <1>1 DEF Writing, Changing, Idle
<1>4. ASSUME NEW z \in Zones
      PROVE  Loads(z) /\ ZoneOK(z)
  <2>1. Hole \notin Elements(file[z])
    BY <1>2, BoundsAssumption DEF Elements
  <2>2. PICK i \in DOMAIN file[z] : file[z][i][1] = SoaKey
    BY <1>2, ZenonT(30)
  <2>3. file[z][i] \in Elements(file[z])
    BY <1>2 DEF Elements
  <2>4. Loads(z)
    BY <2>1, <2>2, <2>3, ZenonT(30) DEF Loads, Lines
  <2> QED
    BY <1>1, <1>2, <1>3, <2>4, ZenonT(30) DEF ZoneOK
<1>5. file \in [Zones -> Seq(Line \cup {Hole})]
  BY <1>1, <1>2
<1>6. ZoneInv
  BY <1>1, <1>4, <1>5 DEF ZoneInv, CallOK
<1>7. ASSUME NEW z \in Zones
      PROVE  StoreOf(z) \in [Keys \ Generated -> SUBSET (Vals \cup {"soa"})]
  <2>1. StoreOf(z) = Visible(RecordsOf(file[z]))
    BY <1>1, <1>3 DEF StoreOf
  <2>2. RecordsOf(file[z]) \in ZoneContent
    BY <1>5, RecordsType
  <2> QED
    BY <2>1, <2>2, VisibleType, ZenonT(30)
<1>8. Store!StoreInit
  BY <1>7 DEF Store!StoreInit, Store!Contents
<1> QED
  BY <1>6, <1>8

\* Requests are for zones that are served.
LEMMA RequestsAreKnown ==
  ASSUME AdminInv, ApiRequest
  PROVE  \E c \in Calls, req \in Requests : Request(c, req)
<1>1. DOMAIN served \subseteq Zones
  BY DEF AdminInv, ServedWell, FilesWell
<1>2. PICK c \in Calls, z \in DOMAIN served :
        \/ Request(c, [op |-> "read", zone |-> z])
        \/ \E k \in Keys, v \in Vals \cup {Malformed} :
             Request(c, [op |-> "create", zone |-> z, key |-> k, val |-> v])
        \/ \E k \in Keys, relative \in BOOLEAN :
             Request(c, [op |-> "delete", zone |-> z, key |-> k, relative |-> relative])
  BY Zenon DEF ApiRequest
<1>3. z \in Zones
  BY <1>1, Zenon
<1>4. [op |-> "read", zone |-> z] \in Requests
  BY <1>3, ZenonT(30) DEF Requests
<1>5. \A k \in Keys, v \in Vals \cup {Malformed} :
        [op |-> "create", zone |-> z, key |-> k, val |-> v] \in Requests
  BY <1>3 DEF Requests
<1>6. \A k \in Keys, relative \in BOOLEAN :
        [op |-> "delete", zone |-> z, key |-> k, relative |-> relative] \in Requests
  BY <1>3, Zenon DEF Requests
<1> QED
  BY <1>2, <1>4, <1>5, <1>6, ZenonT(30)

\* Every step keeps the invariant, and is one of the record store.
LEMMA ZoneStep ==
  ASSUME AdminInv, ZoneInv, AdminNext
  PROVE  ZoneInv' /\ Store!StoreNext
<1>1. CASE SetUp /\ UNCHANGED <<zoneVars, faults>>
  <2>1. UNCHANGED <<file, call, hurt>>
    BY <1>1 DEF zoneVars
  <2>2. \A y \in Zones : ZoneOK(y)' /\ StoreOf(y)' = StoreOf(y)
    BY <2>1, Elsewhere DEF ZoneInv
  <2>3. ZoneInv'
    BY <2>1, <2>2, ZenonT(30) DEF ZoneInv, CallOK
  <2> QED
    BY <2>2, <2>3, StoreMoves
<1>2. CASE ApiRequest
  BY <1>2, RequestsAreKnown, QuietInv, StoreMoves
<1>3. CASE ApiStep
  <2>1. PICK c \in Calls : CallStep(c)
    BY <1>3 DEF ApiStep
  <2>2. CASE Load(c) /\ Respond(c)
    BY <2>2, QuietInv, StoreMoves
  <2>3. CASE Load(c) /\ ~ Respond(c)
    BY <2>3, LoadZoneInv, StoreMoves
  <2>4. CASE Truncate(c)
    BY <2>4, TruncateInv, StoreMoves
  <2>5. CASE \E n \in 1 .. MaxLines : Write(c, n)
    BY <2>5, WriteInv, StoreMoves, ZenonT(30)
  <2> QED
    BY <2>1, <2>2, <2>3, <2>4, <2>5, ZenonT(30) DEF CallStep
<1>4. CASE ApiFails
  BY <1>4, OpenFailsInv, WriteFailsInv, StoreMoves DEF ApiFails
<1>5. CASE Die
  BY <1>5, DieZoneInv, StoreMoves
<1>6. CASE \E c \in Calls : SaveOptions(c) \/ OptionsSaved(c)
  BY <1>6, QuietInv, StoreMoves
<1> QED
  BY <1>1, <1>2, <1>3, <1>4, <1>5, <1>6, ZenonT(30) DEF AdminNext

\* A step that changes nothing.
LEMMA ZoneStutter ==
  ASSUME ZoneInv, UNCHANGED adminVars
  PROVE  ZoneInv' /\ \A y \in Zones : StoreOf(y)' = StoreOf(y)
<1>1. UNCHANGED <<file, call, hurt>>
  BY DEF adminVars, zoneVars
<1>2. \A y \in Zones : ZoneOK(y)' /\ StoreOf(y)' = StoreOf(y)
  BY <1>1, Elsewhere DEF ZoneInv
<1> QED
  BY <1>1, <1>2, Zenon DEF ZoneInv, CallOK

\* Calls, failures and deaths keep the invariant of the zone files.
THEOREM ZoneInvariant == AdminSpec => []ZoneInv
<1>1. AdminInv /\ ZoneInv /\ [AdminNext]_adminVars => ZoneInv'
  BY ZoneStep, ZoneStutter
<1> QED
  BY AdminInvariant, ZoneInitInv, <1>1, PTL DEF AdminSpec

\* Truncate and Write leave a zone file that loads, for any zones, records and
\* number of calls at once, unless two writes cross, one is cut short or the SOA
\* is deleted.
THEOREM ZonesLoadable == AdminSpec => []LoadableUnlessHurt
<1>1. ZoneInv => LoadableUnlessHurt
  BY DEF ZoneInv, ZoneOK, LoadableUnlessHurt
<1> QED
  BY ZoneInvariant, <1>1, PTL

\* Load, Truncate and Write together implement the record store.
THEOREM AdminImplementsRecordStore == AdminSpec => ImplementsRecordStore
<1> DEFINE s == [z \in Zones |-> StoreOf(z)]
<1>1. AdminInit => Store!StoreInit
  BY ZoneInitInv
<1>2. AdminInv /\ ZoneInv /\ [AdminNext]_adminVars => [Store!StoreNext]_s
  BY ZoneStep, ZoneStutter
<1> QED
  BY AdminInvariant, ZoneInvariant, <1>1, <1>2, PTL
     DEF AdminSpec, ImplementsRecordStore, Store!StoreSpec

-----------------------------------------------------------------------------
(* Types and limits.                                                       *)

\* The counters within their limits, and the files start-up has made so far.
Bounds ==
  /\ calls \in 0 .. MaxCalls /\ faults \in 0 .. MaxFaults /\ minted \in Nat
  /\ conf \in {Absent, Torn} \cup Beginnings(ZoneOrder)
  /\ zones_cfg \in Beginnings(ZoneOrder)
  /\ key \in [Zones -> {Absent, Torn} \cup 1 .. minted]
  /\ cert \in {Absent, Torn} \cup 1 .. minted
  /\ tls_key \in {Absent, Torn} \cup 1 .. minted

\* Minting a key pair leaves what the files hold in range.
LEMMA BoundsStep ==
  ASSUME AdminInv, Bounds, [AdminNext]_adminVars
  PROVE  Bounds'
<1>e. << >> \in Beginnings(ZoneOrder) /\ ZoneOrder \in Seq(Zones)
  <2>1. ZoneOrder \in Seq(Zones)
    BY BootAssumption
  <2>2. 0 \in 0 .. Len(ZoneOrder) /\ SubSeq(ZoneOrder, 1, 0) = << >>
    BY <2>1
  <2> QED
    BY <2>1, <2>2 DEF Beginnings
<1>1. CASE SetUp /\ UNCHANGED <<zoneVars, faults>>
  <2>1. calls' = calls /\ faults' = faults
    BY <1>1 DEF zoneVars
  <2>2. conf' = conf
    BY <1>1, ZenonT(30) DEF SetUp, Start, LoadConfig, LoadZone, ResolveKey, WriteKey, SignZone, Bind,
                ResolveCert, WriteCert, OpenTlsKey, WriteTlsKey, LoadCert, GoUp
  <2>3. zones_cfg' \in Beginnings(ZoneOrder)
    <3>1. zones_cfg' = zones_cfg \/ zones_cfg' = << >> \/ LoadConfig
      BY <1>1, ZenonT(30) DEF SetUp, Start, LoadZone, ResolveKey, WriteKey, SignZone, Bind, ServeZone,
                  ResolveCert, WriteCert, OpenTlsKey, WriteTlsKey, LoadCert, GoUp, Proceed, EndProcess
    <3>2. CASE LoadConfig
      BY <1>e, <3>2 DEF LoadConfig, EndProcess, Bounds
    <3> QED
      BY <1>e, <3>1, <3>2 DEF Bounds
  <2>4. /\ minted' \in {minted, minted + 1}
        /\ key' = key \/ key' = [key EXCEPT ![NextZone] = Torn]
             \/ (minted' = minted + 1 /\ key' = [key EXCEPT ![NextZone] = minted'])
        /\ cert' \in {cert, Torn} \/ (minted' = minted + 1 /\ cert' = minted')
        /\ tls_key' \in {tls_key, Torn} \/ (phase = "write_tls_key" /\ tls_key' = minted')
    BY <1>1, ZenonT(30) DEF SetUp, Start, LoadConfig, LoadZone, ResolveKey, WriteKey, SignZone, Bind,
                ResolveCert, WriteCert, OpenTlsKey, WriteTlsKey, LoadCert, GoUp, diskVars
  <2>5. phase = "write_tls_key" => minted # 0
    BY BootAssumption DEF AdminInv, Progress, Bounds
  <2> QED
    BY <2>1, <2>2, <2>3, <2>4, <2>5 DEF Bounds
<1>2. CASE ApiRequest
  <2>1. calls' = calls + 1 /\ calls < MaxCalls
    BY <1>2, ZenonT(30) DEF ApiRequest, Request
  <2>2. UNCHANGED <<bootVars, faults>>
    BY <1>2, ZenonT(30) DEF ApiRequest
  <2> QED
    BY <2>1, <2>2, BoundsAssumption DEF bootVars, diskVars, Bounds
<1>3. CASE ApiStep
  BY <1>3, ZenonT(30) DEF ApiStep, CallStep, Load, Truncate, Write, bootVars, diskVars, Bounds
<1>4. CASE ApiFails
  <2>1. calls' = calls /\ faults < MaxFaults /\ faults' = faults + 1
    BY <1>4, Zenon DEF ApiFails, OpenFails, WriteFails, Fault
  <2>2. UNCHANGED bootVars
    BY <1>4, ZenonT(30) DEF ApiFails
  <2> QED
    BY <2>1, <2>2, FaultsAssumption DEF bootVars, diskVars, Bounds
<1>5. CASE Die
  <2>1. /\ faults < MaxFaults /\ faults' = faults + 1 /\ zones_cfg' = << >>
        /\ UNCHANGED <<calls, conf, diskVars>>
    BY <1>5, ZenonT(30) DEF Die, EndProcess, Fault
  <2> QED
    BY <1>e, <2>1, FaultsAssumption DEF diskVars, Bounds
<1>6. CASE \E c \in Calls : SaveOptions(c) \/ OptionsSaved(c)
  <2>1. /\ calls' = calls \/ (calls < MaxCalls /\ calls' = calls + 1)
        /\ faults' = faults \/ (faults < MaxFaults /\ faults' = faults + 1)
        /\ conf' \in {Torn, zones_cfg} /\ UNCHANGED <<zones_cfg, diskVars>>
    BY <1>6, ZenonT(30) DEF SaveOptions, OptionsSaved, Fault
  <2> QED
    BY <2>1, BoundsAssumption, FaultsAssumption DEF diskVars, Bounds
<1>7. CASE UNCHANGED adminVars
  BY <1>7 DEF adminVars, zoneVars, bootVars, diskVars, Bounds
<1> QED
  BY <1>1, <1>2, <1>3, <1>4, <1>5, <1>6, <1>7, ZenonT(30) DEF AdminNext

\* What start-up, the API and deaths leave on disk keeps to its limits: no file
\* grows past what there is to write, no call writes past its image, and every
\* key file is absent, torn or holds a key pair that was minted.
THEOREM AdminTypeCorrect == AdminSpec => []AdminTypeOK
<1>1. AdminInit => Bounds
  <2>1. ZoneOrder \in Seq(Zones)
    BY BootAssumption
  <2>2. SubSeq(ZoneOrder, 1, 0) = << >> /\ SubSeq(ZoneOrder, 1, Len(ZoneOrder)) = ZoneOrder
        /\ 0 \in 0 .. Len(ZoneOrder) /\ Len(ZoneOrder) \in 0 .. Len(ZoneOrder)
    BY <2>1
  <2>3. << >> \in Beginnings(ZoneOrder) /\ ZoneOrder \in Beginnings(ZoneOrder)
    BY <2>2, ZenonT(30) DEF Beginnings
  <2> QED
    BY <2>3, BoundsAssumption, FaultsAssumption DEF AdminInit, ZoneInit, BootInit, Bounds
<1>2. ZoneInv /\ AdminInv /\ Bounds => AdminTypeOK
  <2> SUFFICES ASSUME ZoneInv, AdminInv, Bounds PROVE AdminTypeOK
    BY Zenon
  <2>1. \A z \in Zones : Len(file[z]) <= MaxLines
    BY ZenonT(30) DEF ZoneInv, ZoneOK
  <2>2. \A c \in Calls : call[c].at = "write" => call[c].off < Len(call[c].image)
    BY CallIs
  <2>3. hurt \in [Zones -> SUBSET {"raced", "crossed", "cut", "soa"}]
    BY DEF ZoneInv
  <2>4. step \in 0 .. Len(zones_cfg)
    BY DEF AdminInv, FilesWell
  <2>5. \A f \in {cert, tls_key} \cup {key[z] : z \in Zones} : f \in {Absent, Torn} \cup 1 .. minted
    BY DEF Bounds
  <2> QED
    BY <2>1, <2>2, <2>3, <2>4, <2>5, ZenonT(30) DEF Bounds, AdminTypeOK
<1> QED
  BY AdminInvariant, ZoneInvariant, <1>1, <1>2, BoundsStep, PTL DEF AdminSpec
=============================================================================
