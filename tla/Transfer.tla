------------------------------ MODULE Transfer ------------------------------
(***************************************************************************)
(* Secondary zones: the transfer (AXFR) of a zone from its primaries       *)
(* (src/core/zone/secondary.rs), started in the background when the zones  *)
(* are loaded (load_secondary in src/core/zone/mod.rs) and by every NOTIFY *)
(* (src/net/handler.rs).  Any number of transfers may run side by side.    *)
(*                                                                         *)
(* A connection delivers some sequence of messages and may end or fail     *)
(* after any of them.  A record keeps its kind, its primary and an         *)
(* identity; SOA serials are only logged and left out, and so are the      *)
(* reply to a NOTIFY, always NoError for one that parses, and its serial.  *)
(***************************************************************************)
EXTENDS VecOps

CONSTANTS
  Zones,        \* the configured secondary zones
  PrimariesOf,  \* PrimariesOf[z]: the primaries of z, in the order configured
  Streams,      \* Streams[p]: the message sequences primary p may send
  Tasks,        \* sync tasks
  NoZone

VARIABLES
  state,          \* idle, connecting, reading, synced or failed
  zone,           \* the zone a task transfers
  at,             \* which of the zone's primaries it is at
  stream,         \* what that primary sends on this connection
  read,           \* how many messages of it were read
  saw_soa_start,  \* the opening SOA was seen
  records         \* the records collected

transferVars == <<state, zone, at, stream, read, saw_soa_start, records>>

Primary(t) == PrimariesOf[zone[t]][at[t]]

\* The records of some primaries, and the messages that carry them.
RecordOf(ps) == [kind : {"SOA", "RR"}, from : ps, id : Nat]
MessageOf(ps) == [noerror : BOOLEAN, truncation : BOOLEAN, answers : Seq(RecordOf(ps))]

\* Every zone has a list of primaries, perhaps empty; a record says which
\* primary sent it, whatever else is in it.
ASSUME PrimariesAssumption == PrimariesOf \in [Zones -> Seq(DOMAIN Streams)]
ASSUME StreamsAssumption == \A p \in DOMAIN Streams : Streams[p] \subseteq Seq(MessageOf({p}))

-----------------------------------------------------------------------------
(* One message.                                                            *)

\* Mutant: the closing SOA is collected too.
TakeRecord_KeepClosing(acc, rr) ==
  [saw |-> acc.saw \/ rr.kind = "SOA", records |-> Append(acc.records, rr)]

\* One answer record: an SOA after the first is the end mark and left out.
TakeRecord(acc, rr) ==
  IF acc.saw /\ rr.kind = "SOA" THEN acc
  ELSE [saw |-> acc.saw \/ rr.kind = "SOA", records |-> Append(acc.records, rr)]

\* The loop over the answers of a message.
TakeAll(acc, answers) ==
  LET upto[i \in 0 .. Len(answers)] ==
        IF i = 0 THEN acc ELSE TakeRecord(upto[i - 1], answers[i])
  IN  upto[Len(answers)]

TakeMessage(t, m) ==
  TakeAll([saw |-> saw_soa_start[t], records |-> records[t]], m.answers)

\* The loop leaves after a message that is not truncated once an SOA was kept.
IsLast(m, taken) ==
  /\ ~m.truncation
  /\ taken.saw
  /\ \E i \in DOMAIN taken.records : taken.records[i].kind = "SOA"

-----------------------------------------------------------------------------
(* The steps of a sync task.                                               *)

\* A task is spawned for zone z; without primaries it has nothing to do.
Spawn(t, z) ==
  /\ state[t] = "idle"
  /\ zone' = [zone EXCEPT ![t] = z]
  /\ at' = [at EXCEPT ![t] = 1]
  /\ state' = [state EXCEPT ![t] =
                 IF PrimariesOf[z] = << >> THEN "failed" ELSE "connecting"]

\* Mutant: what was collected is carried over to the next connection.
Connect_KeepRecords(t) ==
  /\ state[t] = "connecting"
  /\ \E s \in Streams[Primary(t)] : stream' = [stream EXCEPT ![t] = s]
  /\ state' = [state EXCEPT ![t] = "reading"]
  /\ read' = [read EXCEPT ![t] = 0]
  /\ UNCHANGED <<zone, at, saw_soa_start, records>>

\* Every connection starts with nothing collected.
Connect(t) ==
  /\ state[t] = "connecting"
  /\ \E s \in Streams[Primary(t)] : stream' = [stream EXCEPT ![t] = s]
  /\ state' = [state EXCEPT ![t] = "reading"]
  /\ read' = [read EXCEPT ![t] = 0]
  /\ saw_soa_start' = [saw_soa_start EXCEPT ![t] = FALSE]
  /\ records' = [records EXCEPT ![t] = << >>]
  /\ UNCHANGED <<zone, at>>

\* Mutant: the index may run past the last primary.
TryNext_PastEnd(t) ==
  /\ at[t] <= Len(PrimariesOf[zone[t]])
  /\ at' = [at EXCEPT ![t] = @ + 1]
  /\ state' = [state EXCEPT ![t] = "connecting"]
  /\ UNCHANGED <<zone, stream, read, saw_soa_start, records>>

\* The transfer from this primary failed: on to the next one, if any.
TryNext(t) ==
  /\ \/ /\ at[t] < Len(PrimariesOf[zone[t]])
        /\ at' = [at EXCEPT ![t] = @ + 1]
        /\ state' = [state EXCEPT ![t] = "connecting"]
     \/ /\ at[t] = Len(PrimariesOf[zone[t]])
        /\ state' = [state EXCEPT ![t] = "failed"]
        /\ UNCHANGED at
  /\ UNCHANGED <<zone, stream, read, saw_soa_start, records>>

\* The address does not parse, or the connection is refused.
ConnectFails(t) == state[t] = "connecting" /\ TryNext(t)

\* A read fails, or ends inside a message, or the message does not parse.
ReadFails(t) == state[t] = "reading" /\ TryNext(t)

\* The stream ends between two messages, or a length of 0 is read: what was
\* collected is the result.
StreamEnds(t) ==
  /\ state[t] = "reading"
  /\ state' = [state EXCEPT ![t] = "synced"]
  /\ UNCHANGED <<zone, at, stream, read, saw_soa_start, records>>

\* Mutant: the response code is not looked at.
ReadMessage_AnyCode(t) ==
  /\ state[t] = "reading"
  /\ read[t] < Len(stream[t])
  /\ LET m == stream[t][read[t] + 1]
         taken == TakeMessage(t, m)
     IN /\ read' = [read EXCEPT ![t] = @ + 1]
        /\ saw_soa_start' = [saw_soa_start EXCEPT ![t] = taken.saw]
        /\ records' = [records EXCEPT ![t] = taken.records]
        /\ state' = [state EXCEPT ![t] =
                       IF IsLast(m, taken) THEN "synced" ELSE "reading"]
  /\ UNCHANGED <<zone, at, stream>>

\* A message without error is read whole, and may be the last.
ReadMessage(t) ==
  /\ state[t] = "reading"
  /\ read[t] < Len(stream[t])
  /\ LET m == stream[t][read[t] + 1]
         taken == TakeMessage(t, m)
     IN /\ m.noerror
        /\ read' = [read EXCEPT ![t] = @ + 1]
        /\ saw_soa_start' = [saw_soa_start EXCEPT ![t] = taken.saw]
        /\ records' = [records EXCEPT ![t] = taken.records]
        /\ state' = [state EXCEPT ![t] =
                       IF IsLast(m, taken) THEN "synced" ELSE "reading"]
  /\ UNCHANGED <<zone, at, stream>>

\* The primary answers with an error code.
ReadErrorCode(t) ==
  /\ state[t] = "reading"
  /\ read[t] < Len(stream[t])
  /\ ~stream[t][read[t] + 1].noerror
  /\ TryNext(t)

-----------------------------------------------------------------------------
\* A NOTIFY for a configured zone spawns a task of its own, also while others
\* for the zone run; one for any other zone is acknowledged and ignored.
Notify(t, z) ==
  /\ Spawn(t, z)
  /\ UNCHANGED <<stream, read, saw_soa_start, records>>

\* load_secondary has spawned one task per configured zone: a distinct task for
\* each, chosen once.
TransferInit ==
  \E own \in {f \in [Zones -> Tasks] : \A y, z \in Zones : f[y] = f[z] => y = z} :
    LET started == {own[z] : z \in Zones}
        zoneOf(t) == CHOOSE z \in Zones : own[z] = t
    IN /\ zone = [t \in Tasks |-> IF t \in started THEN zoneOf(t) ELSE NoZone]
       /\ at = [t \in Tasks |-> IF t \in started THEN 1 ELSE 0]
       /\ state = [t \in Tasks |->
                     IF t \notin started THEN "idle"
                     ELSE IF PrimariesOf[zoneOf(t)] = << >> THEN "failed"
                     ELSE "connecting"]
       /\ stream = [t \in Tasks |-> << >>]
       /\ read = [t \in Tasks |-> 0]
       /\ saw_soa_start = [t \in Tasks |-> FALSE]
       /\ records = [t \in Tasks |-> << >>]

TransferNext ==
  \E t \in Tasks :
    \/ \E z \in Zones : Notify(t, z)
    \/ Connect(t)
    \/ ConnectFails(t)
    \/ ReadMessage(t)
    \/ ReadErrorCode(t)
    \/ ReadFails(t)
    \/ StreamEnds(t)

TransferSpec == TransferInit /\ [][TransferNext]_transferVars

-----------------------------------------------------------------------------
(* Properties.                                                             *)

\* Type invariant of the sync tasks: among others, a task that connects or reads
\* is at a primary its zone has.
TransferTypeOK ==
  /\ state \in [Tasks -> {"idle", "connecting", "reading", "synced", "failed"}]
  /\ zone \in [Tasks -> Zones \cup {NoZone}]
  /\ at \in [Tasks -> Nat]
  /\ stream \in [Tasks -> Seq(MessageOf(DOMAIN Streams))]
  /\ read \in [Tasks -> Nat]
  /\ saw_soa_start \in [Tasks -> BOOLEAN]
  /\ records \in [Tasks -> Seq(RecordOf(DOMAIN Streams))]
  /\ \A t \in Tasks :
       /\ state[t] # "idle" => zone[t] \in Zones
       /\ state[t] \in {"connecting", "reading", "synced"} =>
            at[t] \in DOMAIN PrimariesOf[zone[t]]
       /\ read[t] <= Len(stream[t])

\* A zone never mixes two primaries, whatever failed half way before and
\* whatever other transfers of the zone run: all that a reading or synced task
\* holds comes from the primary it is at.
OneSource ==
  \A t \in Tasks : state[t] \in {"reading", "synced"} =>
    \A i \in DOMAIN records[t] : records[t][i].from = Primary(t)

\* All that the messages read so far said, and where it repeats an SOA.
Said(t) == Joined([i \in 1 .. read[t] |-> stream[t][i].answers])
IsSoa(said, i) == said[i].kind = "SOA"
Repeats(said) == {i \in DOMAIN said : IsSoa(said, i) /\ \E j \in 1 .. i - 1 : IsSoa(said, j)}

\* What a task holds is what the messages read so far said, in order and in
\* full, except that only the first SOA is kept.
HoldsWhatWasRead ==
  \A t \in Tasks : state[t] \in {"reading", "synced"} =>
    records[t] = Pick(Said(t), DOMAIN Said(t) \ Repeats(Said(t)))

\* Nothing a primary sent with an error code becomes part of a synced zone.
ErrorsAreNotZones ==
  \A t \in Tasks : state[t] = "synced" =>
    \A i \in 1 .. read[t] : stream[t][i].noerror

\* The comment on axfr_from_primary, "receives all response messages, and
\* assembles the complete zone": a synced task read all its primary sent.  The
\* loop leaves after the first message with the opening SOA, and takes an early
\* end of the stream for the end of the zone.
AssemblesCompleteZone ==
  \A t \in Tasks : state[t] = "synced" => read[t] = Len(stream[t])
=============================================================================
