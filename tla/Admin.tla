------------------------------- MODULE Admin --------------------------------
(***************************************************************************)
(* The server as an administrator meets it: start-up (Boot), the record    *)
(* API on zone files (ZoneRecords) and the options call that rewrites the  *)
(* configuration (rec_options_update, src/api/mod.rs), over files that     *)
(* outlive the process, which may die at any point.                        *)
(***************************************************************************)
EXTENDS Boot

CONSTANT MaxFaults \* bound: deaths of the process and failing file operations

ASSUME FaultsAssumption == MaxFaults \in Nat

VARIABLE faults

adminVars == <<zoneVars, bootVars, faults>>

Fault == faults < MaxFaults /\ faults' = faults + 1

-----------------------------------------------------------------------------
(* The options call: the running configuration is written over the file if *)
(* there is one; the payload is not looked at.                             *)

SaveOptions(c) ==
  /\ phase = "up" /\ ~ Running(c) /\ calls < MaxCalls
  /\ conf # Absent
  /\ calls' = calls + 1
  /\ conf' = Torn
  /\ call' = [call EXCEPT ![c] = [at |-> "options"]]
  /\ UNCHANGED <<file, hurt, phase, step, tls, zones_cfg, served, used, diskVars, faults>>

\* The call answers the same whether or not the write succeeds.  Of two calls
\* the one that finishes last leaves the file whole.
OptionsSaved(c) ==
  /\ call[c].at = "options"
  /\ \/ /\ conf' = IF \E d \in Calls \ {c} : call[d].at = "options" THEN Torn ELSE zones_cfg
        /\ UNCHANGED faults
     \/ Fault /\ conf' = Torn
  /\ Respond(c)
  /\ UNCHANGED <<file, calls, hurt, phase, step, tls, zones_cfg, served, used, diskVars>>

-----------------------------------------------------------------------------
(* The API while the server is up.                                         *)

ApiRequest ==
  /\ phase = "up"
  /\ \E c \in Calls, z \in DOMAIN served :
       \/ Request(c, [op |-> "read", zone |-> z])
       \/ \E k \in Keys, v \in Vals \cup {Malformed} :
            Request(c, [op |-> "create", zone |-> z, key |-> k, val |-> v])
       \/ \E k \in Keys, relative \in BOOLEAN :
            Request(c, [op |-> "delete", zone |-> z, key |-> k, relative |-> relative])
  /\ UNCHANGED <<bootVars, faults>>

ApiStep ==
  /\ \E c \in Calls : Running(c) /\ call[c].at # "options" /\ CallStep(c)
  /\ UNCHANGED <<bootVars, faults>>

ApiFails ==
  /\ Fault
  /\ \E c \in Calls : Running(c) /\ call[c].at # "options" /\ (OpenFails(c) \/ WriteFails(c))
  /\ UNCHANGED bootVars

-----------------------------------------------------------------------------
(* The end of a process.                                                   *)

\* The process dies: killed, at a system call that fails during start-up, or
\* because the API's listener fails.  Calls go with it; of a write in progress
\* the file keeps what was written, its last line perhaps in part.
Die ==
  /\ phase # "down"
  /\ Fault
  /\ EndProcess
  /\ call' = [c \in Calls |-> Idle]
  /\ \E partial \in SUBSET {z \in Zones : Writing(z) # {}} :
       file' = [z \in Zones |-> IF z \in partial THEN Append(file[z], Hole) ELSE file[z]]
  /\ hurt' = [z \in Zones |-> IF Writing(z) # {} THEN hurt[z] \cup {"cut"} ELSE hurt[z]]
  /\ UNCHANGED <<calls, tls, conf, used, diskVars>>

AdminInit == ZoneInit /\ BootInit /\ faults = 0

AdminNext ==
  \/ SetUp /\ UNCHANGED <<zoneVars, faults>>
  \/ ApiRequest \/ ApiStep \/ ApiFails \/ Die
  \/ \E c \in Calls : SaveOptions(c) \/ OptionsSaved(c)

\* Restart=on-failure in the unit file restarts a process that ended, and
\* start-up does not wait for anything.
AdminSpec == AdminInit /\ [][AdminNext]_adminVars /\ WF_adminVars(SetUp /\ UNCHANGED <<zoneVars, faults>>)

-----------------------------------------------------------------------------
(* Properties.                                                             *)

\* Type invariant, with the limits of what zone files hold and of the files
\* start-up makes.
AdminTypeOK ==
  /\ \A z \in Zones : Len(file[z]) <= MaxLines
  /\ \A c \in Calls : call[c].at = "write" => call[c].off < Len(call[c].image)
  /\ calls \in 0 .. MaxCalls
  /\ hurt \in [Zones -> SUBSET {"raced", "crossed", "cut", "soa"}]
  /\ conf \in {Absent, Torn} \cup Beginnings(ZoneOrder)
  /\ zones_cfg \in Beginnings(ZoneOrder) /\ step \in 0 .. Len(zones_cfg)
  /\ \A f \in {cert, tls_key} \cup {key[z] : z \in Zones} : f \in {Absent, Torn} \cup 1 .. minted
  /\ faults \in 0 .. MaxFaults

\* load_all is all or nothing: a server that is up serves every zone of its
\* configuration, under the configured RNAME whatever the API wrote before, each
\* signed one with the key in its file; and without a fault the configuration
\* is the one the operator wrote, however often the options were saved.
ServesEveryZone ==
  phase = "up" =>
    /\ DOMAIN served = Elements(zones_cfg)
    /\ \A z \in DOMAIN served :
         /\ served[z].content[SoaKey] = {"configured"}
         /\ served[z].key = IF z \in Signed THEN key[z] ELSE 0
    /\ faults = 0 /\ conf # Absent => zones_cfg = ZoneOrder

\* Zones keep their signing key and the server its certificate through any
\* number of restarts, crashes during start-up included.
KeysOutliveRestarts ==
  \A u, w \in used : u[1] = w[1] => u = w

\* Files that keep the server from starting until someone repairs them.
NeedsRepair ==
  \/ conf = Torn
  \/ tls = "missing"
  \/ \E z \in Zones : ~ Loads(z) \/ key[z] = Torn
  \/ Torn \in {cert, tls_key}
  \/ Absent \notin {cert, tls_key} /\ cert # tls_key

\* After any crash the server comes up again, unless a file was left torn: in
\* particular a start that died between two of its files is simply made again.
ComesBack == []<>(phase = "up") \/ <>[]NeedsRepair
=============================================================================
