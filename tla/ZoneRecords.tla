---------------------------- MODULE ZoneRecords -----------------------------
(***************************************************************************)
(* The record API on zone files (src/core/zone/record.rs and the record    *)
(* handlers of src/api/mod.rs, with the loader of src/core/zone/file.rs).  *)
(*                                                                         *)
(* Every call loads the whole file, changes its own copy and writes the    *)
(* whole file back, with no lock: fs::write truncates the file and then    *)
(* writes at its own offset.  Handlers run on several threads, so any      *)
(* number of calls may be between these steps at once.                     *)
(*                                                                         *)
(* A record is a line <<key, value>>; a key is a name and type, numbered   *)
(* in the order BTreeMap lists them.  The value of the SOA line is its     *)
(* RNAME.  A file that is missing is taken for an empty one: neither can   *)
(* be loaded.  Zone names end in a dot, as find_zone requires.             *)
(***************************************************************************)
EXTENDS VecOps

CONSTANTS
  Zones,       \* zones with a file
  Keys,        \* names and types, the numbers from 1
  SoaKey,      \* the SOA at the apex
  Generated,   \* keys of DNSSEC types, which the API does not write
  Vals,        \* record data
  Rnames,      \* RNAMEs an SOA may have
  Malformed,   \* data that cannot be parsed
  Calls,       \* API calls that may be running at once
  MaxCalls,    \* bound: calls made in a behaviour
  InitFiles,   \* files the operator may have put there
  MaxLines,    \* bound: lines of the longest file
  Hole,        \* a line that cannot be parsed
  Unpromised   \* a zone of which the record store promises nothing

\* $ORIGIN and $TTL.
Header == <<0, "origin">>

\* Config::default().soa_rname(), whatever the server was configured with.
DefaultRname == "hostadmin.localhost"

\* The lines a zone file may hold.
Line == {Header} \cup ({SoaKey} \X Rnames) \cup ((Keys \ {SoaKey}) \X Vals)

ASSUME KeysAssumption ==
  IsFiniteSet(Keys) /\ Keys = 1 .. Cardinality(Keys) /\ SoaKey \in Keys \ Generated

ASSUME DataAssumption ==
  /\ IsFiniteSet(Vals) /\ IsFiniteSet(Rnames) /\ Vals \cup {DefaultRname} \subseteq Rnames
  /\ Unpromised \notin [Keys \ Generated -> SUBSET (Vals \cup {"soa"})]

\* Files have room for every line there is, and a torn one behind them.
ASSUME BoundsAssumption ==
  /\ Hole \notin Line
  /\ MaxCalls \in Nat /\ MaxLines \in Nat /\ Cardinality(Line) < MaxLines

\* The operator's files load.
ASSUME FilesAssumption ==
  \A f \in InitFiles : /\ f \in Seq(Line) /\ Len(f) <= MaxLines
                       /\ \E i \in DOMAIN f : f[i][1] = SoaKey

VARIABLES
  file,        \* the file of each zone: a sequence of lines
  call,        \* the state of each API call
  calls,       \* number of calls made
  hurt         \* history: what has happened to each file

zoneVars == <<file, call, calls, hurt>>

-----------------------------------------------------------------------------
(* Loading and writing a file.                                             *)

Lines(z) == Elements(file[z])

\* External: the parser refuses a file with an unreadable line or without SOA.
Loads(z) == Hole \notin Lines(z) /\ \E l \in Lines(z) : l[1] = SoaKey

\* load_zone_file_with_proof: what a file holds, with the RNAME of its SOA
\* replaced by patch_soa_rname.
Loaded(z, rname) ==
  [k \in Keys |-> IF k = SoaKey THEN {rname} ELSE {l[2] : l \in {m \in Lines(z) : m[1] = k}}]

\* Mutant: only the first record of a record set is written.
Image_FirstOnly(content) ==
  <<Header>> \o Joined([k \in 1 .. Cardinality(Keys) |->
    IF k \in Generated \/ content[k] = {} THEN << >> ELSE <<<<k, CHOOSE v \in content[k] : TRUE>>>>])

\* persist_zone: the header, and the lines of a zone in key order without
\* the generated types.
Image(content) ==
  <<Header>> \o Joined([k \in 1 .. Cardinality(Keys) |->
    IF k \in Generated THEN << >> ELSE Listing({<<k, v>> : v \in content[k]})])

\* External: upsert_mut adds to the record set; there is only one SOA, and the
\* library keeps the one with the newer serial.
Upserted(content, k, v) ==
  IF k = SoaKey THEN {content, [content EXCEPT ![k] = {v}]}
                ELSE {[content EXCEPT ![k] = @ \cup {v}]}

-----------------------------------------------------------------------------
(* API calls.                                                              *)

Idle == [at |-> "idle"]
Running(c) == call[c].at # "idle"
Writing(z) == {c \in Calls : call[c].at = "write" /\ call[c].zone = z}
Changing(z) == {c \in Calls : call[c].at \in {"save", "write"} /\ call[c].zone = z}

\* A call for a zone find_zone knows.  The name in a request is the full name of
\* the key or one without the final dot, relative until it is in the file.
Request(c, req) ==
  /\ ~ Running(c)
  /\ calls < MaxCalls
  /\ calls' = calls + 1
  /\ call' = [call EXCEPT ![c] = [at |-> "load", zone |-> req.zone, req |-> req]]
  /\ UNCHANGED <<file, hurt>>

Respond(c) == call' = [call EXCEPT ![c] = Idle]

\* parse_record_type and parse_rdata: the DNSSEC types are known types, but no
\* data is ever parsed for them.
Insertable(r) == r.key \notin Generated /\ r.val # Malformed

\* The in-memory copy after the change.  A relative name is completed only when
\* the file is read back, so a delete does not find it.
Changed(r, content) ==
  CASE r.op = "create" -> Upserted(content, r.key, r.val)
    [] r.op = "delete" -> {[content EXCEPT ![r.key] = {}]}

ChangesNothing(r, content) ==
  \/ r.op = "read"
  \/ r.op = "create" /\ ~ Insertable(r)
  \/ r.op = "delete" /\ (r.relative \/ content[r.key] = {})

\* Mutant: a file that cannot be loaded is taken for an empty zone.
Load_EmptyOnError(c) ==
  LET z == call[c].zone
      req == call[c].req
      content == IF Loads(z) THEN Loaded(z, DefaultRname) ELSE [k \in Keys |-> {}]
  IN /\ call[c].at = "load"
     /\ \/ ChangesNothing(req, content) /\ Respond(c) /\ UNCHANGED hurt
        \/ /\ ~ ChangesNothing(req, content)
           /\ \E new \in Changed(req, content) :
                call' = [call EXCEPT ![c] = [at |-> "save", zone |-> z, base |-> content,
                                             image |-> Image(new), off |-> 0]]
           /\ hurt' = [hurt EXCEPT ![z] = @ \cup (IF Changing(z) # {} THEN {"raced"} ELSE {})
                         \cup (IF req.op = "delete" /\ req.key = SoaKey THEN {"soa"} ELSE {})]
     /\ UNCHANGED <<file, calls>>

\* load_handler and what follows up to persist_zone.  An error, a read and a
\* delete that removes nothing answer here.
Load(c) ==
  LET z == call[c].zone
      req == call[c].req
      content == Loaded(z, DefaultRname)
  IN /\ call[c].at = "load"
     /\ \/ /\ ~ Loads(z) \/ ChangesNothing(req, content)
           /\ Respond(c)
           /\ UNCHANGED hurt
        \/ /\ Loads(z) /\ ~ ChangesNothing(req, content)
           /\ \E new \in Changed(req, content) :
                call' = [call EXCEPT ![c] = [at |-> "save", zone |-> z, base |-> content,
                                             image |-> Image(new), off |-> 0]]
           /\ hurt' = [hurt EXCEPT ![z] =
                         @ \cup (IF Changing(z) # {} THEN {"raced"} ELSE {})
                           \cup (IF req.op = "delete" /\ req.key = SoaKey THEN {"soa"} ELSE {})]
     /\ UNCHANGED <<file, calls>>

\* fs::write opens and truncates.
Truncate(c) ==
  LET z == call[c].zone
  IN /\ call[c].at = "save"
     /\ file' = [file EXCEPT ![z] = << >>]
     /\ call' = [call EXCEPT ![c].at = "write"]
     /\ hurt' = [hurt EXCEPT ![z] = @ \cup (IF Writing(z) # {} THEN {"crossed"} ELSE {})]
     /\ UNCHANGED calls

\* The directory cannot be made or the file not opened: it stays as it was.
OpenFails(c) ==
  /\ call[c].at = "save"
  /\ Respond(c)
  /\ UNCHANGED <<file, calls, hurt>>

\* The file with lines written at an offset; what lies between its end and the
\* offset is a hole, what lies behind stays.
Overlaid(lines, off, new) ==
  LET end == off + Len(new)
  IN [i \in 1 .. (IF Len(lines) > end THEN Len(lines) ELSE end) |->
        IF i \in off + 1 .. end THEN new[i - off]
        ELSE IF i <= Len(lines) THEN lines[i] ELSE Hole]

\* Mutant: the end of the image is missed.
Write_NeverDone(c, n) ==
  LET r == call[c]
  IN /\ r.at = "write"
     /\ n \in 1 .. Len(r.image) - r.off
     /\ file' = [file EXCEPT ![r.zone] = Overlaid(@, r.off, SubSeq(r.image, r.off + 1, r.off + n))]
     /\ IF r.off + n > Len(r.image)
        THEN Respond(c)
        ELSE call' = [call EXCEPT ![c].off = r.off + n]
     /\ UNCHANGED <<calls, hurt>>

\* One write: some of what is left.  After the last the call answers.
Write(c, n) ==
  LET r == call[c]
  IN /\ r.at = "write"
     /\ n \in 1 .. Len(r.image) - r.off
     /\ file' = [file EXCEPT ![r.zone] = Overlaid(@, r.off, SubSeq(r.image, r.off + 1, r.off + n))]
     /\ IF r.off + n = Len(r.image)
        THEN Respond(c)
        ELSE call' = [call EXCEPT ![c].off = r.off + n]
     /\ UNCHANGED <<calls, hurt>>

\* The disk is full: the call answers with an error, the file is what it is.
WriteFails(c) ==
  /\ call[c].at = "write"
  /\ Respond(c)
  /\ hurt' = [hurt EXCEPT ![call[c].zone] = @ \cup {"cut"}]
  /\ UNCHANGED <<file, calls>>

-----------------------------------------------------------------------------
ZoneInit ==
  /\ file \in [Zones -> InitFiles]
  /\ call = [c \in Calls |-> Idle]
  /\ calls = 0
  /\ hurt = [z \in Zones |-> {}]

CallStep(c) == Load(c) \/ Truncate(c) \/ \E n \in 1 .. MaxLines : Write(c, n)

-----------------------------------------------------------------------------
(* Properties.                                                             *)

\* What a client sees of a zone: its records, and that there is an SOA.
Visible(content) ==
  [k \in Keys \ Generated |->
     IF k = SoaKey /\ content[k] # {} THEN {"soa"} ELSE content[k]]

\* The records on the lines that can be read.
RecordsOf(lines) == [k \in Keys |-> {l[2] : l \in {m \in Elements(lines) \ {Hole} : m[1] = k}}]

\* While a single call writes, the zone still stands for what that call found.
StoreOf(z) ==
  IF hurt[z] \cap {"raced", "cut"} # {} THEN Unpromised
  ELSE IF Writing(z) # {} THEN Visible(call[CHOOSE c \in Writing(z) : TRUE].base)
  ELSE Visible(RecordsOf(file[z]))

\* insert_record and delete_records implement the record store: as long as the
\* calls that change a zone do not overlap and no write is cut short, each adds
\* or removes just what it was asked to, reads back everything the calls before
\* it wrote, and changes nothing when it answers with an error.
Store == INSTANCE RecordStore WITH StoreZones <- Zones, StoreKeys <- Keys \ Generated,
           StoreVals <- Vals \cup {"soa"}, Unknown <- Unpromised,
           store <- [z \in Zones |-> StoreOf(z)]
ImplementsRecordStore == Store!StoreSpec

\* Even racing calls leave a file that loads, except while one is writing: only
\* two writes at once, a write cut short or deleting the SOA make a zone
\* unloadable, for the API as for the next start.
LoadableUnlessHurt ==
  \A z \in Zones :
    Writing(z) = {} /\ hurt[z] \cap {"crossed", "cut", "soa"} = {} => Loads(z)
=============================================================================
