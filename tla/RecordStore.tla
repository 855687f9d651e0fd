---------------------------- MODULE RecordStore -----------------------------
(***************************************************************************)
(* What the record API promises of each zone: creating a record adds it,   *)
(* deleting a name and type removes it, one call at a time and nothing     *)
(* else changes.  Once calls have raced, or a write was cut short, nothing *)
(* is promised of the zone any more.                                       *)
(***************************************************************************)
CONSTANTS StoreZones, StoreKeys, StoreVals, Unknown

VARIABLE store

Contents == [StoreKeys -> SUBSET StoreVals]

StoreInit == store \in [StoreZones -> Contents]

Put(z, k, v) ==
  /\ store[z] # Unknown
  /\ store' = [store EXCEPT ![z][k] = @ \cup {v}]

Remove(z, k) ==
  /\ store[z] # Unknown
  /\ store' = [store EXCEPT ![z][k] = {}]

Lose(zones) == store' = [z \in StoreZones |-> IF z \in zones THEN Unknown ELSE store[z]]

StoreNext ==
  \/ \E z \in StoreZones, k \in StoreKeys, v \in StoreVals : Put(z, k, v)
  \/ \E z \in StoreZones, k \in StoreKeys : Remove(z, k)
  \/ \E zones \in SUBSET StoreZones : Lose(zones)

StoreSpec == StoreInit /\ [][StoreNext]_store
=============================================================================
