--------------------------- MODULE TransferProofs ---------------------------
(***************************************************************************)
(* Every transfer, of any zones from any primaries that send anything:     *)
(* what a task holds is what it was told, by one primary, without errors.  *)
(***************************************************************************)
EXTENDS Transfer, VecProofs

\* A leaf is tried with SMT, then with Zenon and with Z3 alone, for up to 30
\* seconds each, unless it names another prover.
USE SMTT(30), ZenonT(30), Z3T(30)

\* What the loops have collected after all of said.
HasSoa(said) == \E i \in 1 .. Len(said) : IsSoa(said, i)
Kept(said) == Pick(said, DOMAIN said \ Repeats(said))
Taken(said) == [saw |-> HasSoa(said), records |-> Kept(said)]

-----------------------------------------------------------------------------
(* One record, one message.                                                *)

\* One record more is collected the way TakeRecord collects it.
LEMMA TakenAppend ==
  ASSUME NEW R, NEW said \in Seq(R), NEW r \in R
  PROVE  /\ Kept(said) \in Seq(R)
         /\ Taken(Append(said, r)) = TakeRecord(Taken(said), r)
<1> DEFINE n == Len(said)
           more == Append(said, r)
           K == DOMAIN said \ Repeats(said)
<1>1. n \in Nat /\ DOMAIN said = 1 .. n
  OBVIOUS
<1>2. /\ DOMAIN more = 1 .. n + 1 /\ Len(more) = n + 1 /\ more[n + 1] = r
      /\ \A i \in 1 .. n : more[i] = said[i]
  BY PushedAt
<1>3. K \in SUBSET (1 .. n)
  BY <1>1
<1> HIDE DEF n, more
<1>4. \A i \in 1 .. n : IsSoa(more, i) <=> IsSoa(said, i)
  BY <1>2 DEF IsSoa
<1>5. IsSoa(more, n + 1) <=> r.kind = "SOA"
  BY <1>2 DEF IsSoa
<1>6. HasSoa(more) <=> HasSoa(said) \/ r.kind = "SOA"
  <2>1. \A i \in 1 .. n + 1 : i \in 1 .. n \/ i = n + 1
    BY <1>1
  <2>2. 1 .. n \subseteq 1 .. n + 1 /\ n + 1 \in 1 .. n + 1
    BY <1>1
  <2>3. HasSoa(said) <=> \E i \in 1 .. n : IsSoa(said, i)
    BY DEF HasSoa, n
  <2>4. HasSoa(more) <=> \E i \in 1 .. n + 1 : IsSoa(more, i)
    BY <1>2 DEF HasSoa
  <2> QED
    BY <1>4, <1>5, <2>1, <2>2, <2>3, <2>4, ZenonT(30)
<1>7. \A i \in 1 .. n : i \in Repeats(more) <=> i \in Repeats(said)
  <2> SUFFICES ASSUME NEW i \in 1 .. n
               PROVE  i \in Repeats(more) <=> i \in Repeats(said)
    OBVIOUS
  <2>1. i \in 1 .. n + 1 /\ \A j \in 1 .. i - 1 : j \in 1 .. n
    BY <1>1
  <2> QED
    BY <1>1, <1>2, <1>4, <2>1 DEF Repeats
<1>8. n + 1 \in Repeats(more) <=> HasSoa(said) /\ r.kind = "SOA"
  <2>1. (n + 1) - 1 = n /\ n + 1 \in 1 .. n + 1
    BY <1>1
  <2>2. HasSoa(said) <=> \E i \in 1 .. n : IsSoa(said, i)
    BY DEF HasSoa, n
  <2> QED
    BY <1>2, <1>4, <1>5, <2>1, <2>2 DEF Repeats
<1>9. Kept(said) = Pick(said, K) /\ Kept(more) = Pick(more, DOMAIN more \ Repeats(more))
  BY DEF Kept
<1>10. /\ Pick(said, K) \in Seq(R)
       /\ Pick(more, K) = Pick(said, K)
       /\ Pick(more, K \cup {n + 1}) = Append(Pick(said, K), r)
  <2>1. K \in SUBSET (1 .. Len(said))
    BY <1>3 DEF n
  <2> HIDE DEF K
  <2> QED
    BY <2>1, PickAppend DEF more, n
<1>11. CASE HasSoa(said) /\ r.kind = "SOA"
  <2>1. DOMAIN more \ Repeats(more) = K
    <3>1. \A i \in DOMAIN more : i \in 1 .. n \/ i = n + 1
      BY <1>1, <1>2
    <3>2. \A i \in 1 .. n : i \in DOMAIN more
      BY <1>1, <1>2
    <3> QED
      BY <1>1, <1>7, <1>8, <1>11, <3>1, <3>2
  <2>2. Kept(more) = Kept(said)
    BY <1>9, <1>10, <2>1, Zenon
  <2> QED
    BY <1>6, <1>9, <1>10, <1>11, <2>2, Zenon DEF Taken, TakeRecord, more
<1>12. CASE ~ (HasSoa(said) /\ r.kind = "SOA")
  <2>1. DOMAIN more \ Repeats(more) = K \cup {n + 1}
    <3>1. \A i \in DOMAIN more : i \in 1 .. n \/ i = n + 1
      BY <1>1, <1>2
    <3>2. n + 1 \in DOMAIN more /\ \A i \in 1 .. n : i \in DOMAIN more
      BY <1>1, <1>2
    <3> QED
      BY <1>1, <1>7, <1>8, <1>12, <3>1, <3>2, ZenonT(30)
  <2>2. Kept(more) = Append(Kept(said), r)
    BY <1>9, <1>10, <2>1, ZenonT(30)
  <2>3. HasSoa(more) = (HasSoa(said) \/ r.kind = "SOA")
    BY <1>6, Zenon DEF HasSoa
  <2>4. TakeRecord(Taken(said), r) =
          [saw |-> HasSoa(said) \/ r.kind = "SOA", records |-> Append(Kept(said), r)]
    BY <1>12 DEF Taken, TakeRecord
  <2>5. Taken(more) = TakeRecord(Taken(said), r)
    BY <2>2, <2>3, <2>4, ZenonT(30) DEF Taken
  <2> QED
    BY <1>9, <1>10, <2>5, ZenonT(30) DEF more
<1> QED
  BY <1>11, <1>12

\* The loop over a message's answers collects what they say.
LEMMA TakeAllTaken ==
  ASSUME NEW R, NEW said \in Seq(R), NEW answers \in Seq(R)
  PROVE  TakeAll(Taken(said), answers) = Taken(said \o answers)
<1> DEFINE n == Len(answers)
           to(i) == said \o SubSeq(answers, 1, i)
           g == [i \in 0 .. n |-> Taken(to(i))]
           Takes(h) == h = [i \in 0 .. n |->
                              IF i = 0 THEN Taken(said) ELSE TakeRecord(h[i - 1], answers[i])]
           F == CHOOSE h : Takes(h)
<1>1. n \in Nat
  OBVIOUS
<1>2. TakeAll(Taken(said), answers) = F[n]
  BY DEF TakeAll
<1>3. to(0) = said /\ to(n) = said \o answers
  OBVIOUS
<1>4. ASSUME NEW i \in 1 .. n
      PROVE  to(i - 1) \in Seq(R) /\ to(i) = Append(to(i - 1), answers[i])
  <2>1. SubSeq(answers, 1, i - 1) \in Seq(R) /\ answers[i] \in R
    OBVIOUS
  <2>2. SubSeq(answers, 1, i) = Append(SubSeq(answers, 1, i - 1), answers[i])
    OBVIOUS
  <2> DEFINE pre == SubSeq(answers, 1, i - 1)
  <2> HIDE DEF pre
  <2>3. said \o Append(pre, answers[i]) = Append(said \o pre, answers[i])
    BY <2>1 DEF pre
  <2> QED
    BY <2>1, <2>2, <2>3 DEF pre
<1> HIDE DEF to, n
<1>5. \A i \in 1 .. n : Taken(to(i)) = TakeRecord(Taken(to(i - 1)), answers[i])
  <2> SUFFICES ASSUME NEW i \in 1 .. n
               PROVE  Taken(to(i)) = TakeRecord(Taken(to(i - 1)), answers[i])
    OBVIOUS
  <2>1. answers[i] \in R
    BY DEF n
  <2> DEFINE pre == to(i - 1)
  <2>2. pre \in Seq(R) /\ to(i) = Append(pre, answers[i])
    BY <1>4
  <2> HIDE DEF pre
  <2>3. Taken(Append(pre, answers[i])) = TakeRecord(Taken(pre), answers[i])
    BY <2>1, <2>2, TakenAppend, ZenonT(30)
  <2> QED
    BY <2>2, <2>3 DEF pre
<1>6. \A i \in 0 .. n : g[i] = IF i = 0 THEN Taken(said) ELSE TakeRecord(g[i - 1], answers[i])
  <2> SUFFICES ASSUME NEW i \in 0 .. n
               PROVE  g[i] = IF i = 0 THEN Taken(said) ELSE TakeRecord(g[i - 1], answers[i])
    OBVIOUS
  <2>1. CASE i = 0
    BY <1>3, <2>1
  <2>2. CASE i # 0
    <3>1. i \in 1 .. n /\ i - 1 \in 0 .. n
      BY <1>1, <2>2
    <3>2. g[i] = Taken(to(i)) /\ g[i - 1] = Taken(to(i - 1))
      BY <3>1
    <3> QED
      BY <1>5, <2>2, <3>1, <3>2
  <2> QED
    BY <2>1, <2>2
<1>7. Takes(g)
  BY <1>6
<1>8. Takes(F)
  <2> HIDE DEF Takes, g
  <2> QED
    BY <1>7, Zenon
<1> HIDE DEF F
<1>9. \A i \in 0 .. n : F[i] = IF i = 0 THEN Taken(said) ELSE TakeRecord(F[i - 1], answers[i])
  BY <1>8, Zenon
<1>10. g[n] = Taken(to(n))
  BY <1>1
<1>11. InStep(n, F, g)
  <2> HIDE DEF g
  <2>1. F[0] = g[0]
    BY <1>1, <1>6, <1>9
  <2>2. ASSUME NEW i \in 1 .. n, F[i - 1] = g[i - 1] PROVE F[i] = g[i]
    <3>1. i \in 0 .. n /\ i # 0
      BY <1>1
    <3> QED
      BY <1>6, <1>9, <2>2, <3>1, Zenon
  <2> QED
    BY <2>1, <2>2 DEF InStep
<1>12. F[n] = g[n]
  <2> HIDE DEF g
  <2> QED
    BY <1>1, <1>11, LoopsAgree
<1> QED
  BY <1>2, <1>3, <1>10, <1>12

-----------------------------------------------------------------------------
(* The inductive invariant.                                                *)

\* A task that reads, or is done, is connected to the primary it is at, holds
\* what that one has said, and has met no error code.
Whole(t) ==
  /\ stream[t] \in Streams[Primary(t)]
  /\ [saw |-> saw_soa_start[t], records |-> records[t]] = Taken(Said(t))
  /\ \A i \in 1 .. read[t] : stream[t][i].noerror

TransferInv ==
  /\ TransferTypeOK
  /\ \A t \in Tasks : state[t] \in {"reading", "synced"} => Whole(t)

\* What one primary sends is of the types of any.
LEMMA Narrower ==
  ASSUME NEW p \in DOMAIN Streams
  PROVE  /\ RecordOf({p}) \subseteq RecordOf(DOMAIN Streams)
         /\ \A s \in Seq(RecordOf({p})) : s \in Seq(RecordOf(DOMAIN Streams))
         /\ \A s \in Streams[p] : /\ s \in Seq(MessageOf({p}))
                                 /\ s \in Seq(MessageOf(DOMAIN Streams))
<1>1. RecordOf({p}) \subseteq RecordOf(DOMAIN Streams)
  BY DEF RecordOf
<1>2. \A s \in Seq(RecordOf({p})) : s \in Seq(RecordOf(DOMAIN Streams))
  <2> DEFINE A == RecordOf({p})
             B == RecordOf(DOMAIN Streams)
  <2>1. A \subseteq B
    BY <1>1
  <2> HIDE DEF A, B
  <2>2. \A s \in Seq(A) : s \in Seq(B)
    BY <2>1
  <2> QED
    BY <2>2 DEF A, B
<1>3. MessageOf({p}) \subseteq MessageOf(DOMAIN Streams)
  BY <1>2, Zenon DEF MessageOf
<1>4. \A s \in Seq(MessageOf({p})) : s \in Seq(MessageOf(DOMAIN Streams))
  <2> DEFINE A == MessageOf({p})
             B == MessageOf(DOMAIN Streams)
  <2>1. A \subseteq B
    BY <1>3
  <2> HIDE DEF A, B
  <2>2. \A s \in Seq(A) : s \in Seq(B)
    BY <2>1
  <2> QED
    BY <2>2 DEF A, B
<1> QED
  BY <1>1, <1>2, <1>4, StreamsAssumption, Zenon

\* What the messages so far said, and the next one's part of it.
LEMMA SaidNext ==
  ASSUME NEW R, NEW s, NEW n \in Nat,
         \A i \in 1 .. n + 1 : s[i].answers \in Seq(R)
  PROVE  LET said(k) == Joined([i \in 1 .. k |-> s[i].answers])
         IN /\ said(n) \in Seq(R)
            /\ said(n + 1) = said(n) \o s[n + 1].answers
<1> DEFINE vs == [i \in 1 .. n |-> s[i].answers]
           more == [i \in 1 .. n + 1 |-> s[i].answers]
           next == s[n + 1].answers
<1>1. n + 1 \in 1 .. n + 1 /\ 1 .. n \subseteq 1 .. n + 1
  OBVIOUS
<1>2. next \in Seq(R)
  BY <1>1
<1>3. vs \in Seq(Seq(R)) /\ Len(vs) = n
  <2>1. vs \in [1 .. n -> Seq(R)]
    BY <1>1
  <2> HIDE DEF vs
  <2> QED
    BY <2>1
<1>4. more = Append(vs, next)
  OBVIOUS
<1> HIDE DEF vs, more, next
<1>5. Joined(vs) \in Seq(R) /\ Joined(more) = Joined(vs) \o next
  BY <1>2, <1>3, <1>4, JoinedAppend, ZenonT(30)
<1> QED
  BY <1>5, Zenon DEF vs, more, next

\* What is said, and so what is kept of it, is of the type of the answers.
LEMMA SaidType ==
  ASSUME NEW R, NEW s, NEW n \in Nat, \A i \in 1 .. n : s[i].answers \in Seq(R)
  PROVE  LET said == Joined([i \in 1 .. n |-> s[i].answers])
         IN said \in Seq(R) /\ Kept(said) \in Seq(R)
<1> DEFINE vs == [i \in 1 .. n |-> s[i].answers]
           said == Joined(vs)
<1>1. vs \in Seq(Seq(R))
  <2>1. vs \in [1 .. n -> Seq(R)]
    OBVIOUS
  <2> HIDE DEF vs
  <2> QED
    BY <2>1
<1> HIDE DEF vs
<1>2. << >> \in Seq(R)
  OBVIOUS
<1>3. said \in Seq(R)
  BY <1>1, <1>2, JoinedAppend
<1> HIDE DEF said
<1> DEFINE K == DOMAIN said \ Repeats(said)
<1>4. K \in SUBSET (1 .. Len(said))
  BY <1>3
<1>5. Pick(said, K) \in Seq(R)
  <2> HIDE DEF K
  <2> QED
    BY <1>3, <1>4, PickPositions
<1> QED
  BY <1>3, <1>5 DEF Kept, said, vs

\* Before the first message nothing was said.
LEMMA NothingSaid ==
  ASSUME NEW s
  PROVE  /\ Joined([i \in 1 .. 0 |-> s[i].answers]) = << >>
         /\ Taken(<< >>) = [saw |-> FALSE, records |-> << >>]
<1> DEFINE vs == [i \in 1 .. 0 |-> s[i].answers]
           f == [i \in 0 .. 0 |-> << >>]
<1>1. vs = << >>
  OBVIOUS
<1> HIDE DEF vs
<1>2. vs \in Seq(Seq({})) /\ Len(vs) = 0
  BY <1>1
<1>3. f \in [0 .. 0 -> Seq({})] /\ f[0] = << >>
  OBVIOUS
<1>4. Joined(vs) = << >>
  <2>1. f \in [0 .. Len(vs) -> Seq({})] /\ \A i \in 1 .. Len(vs) : f[i] = f[i - 1] \o vs[i]
    BY <1>2, <1>3
  <2>2. Joined(vs) = f[Len(vs)]
    <3> HIDE DEF f
    <3> QED
      BY <1>2, <1>3, <2>1, JoinedIsRun
  <2> QED
    BY <1>2, <1>3, <2>2
<1>5. HasSoa(<< >>) = FALSE
  BY DEF HasSoa
<1>6. Kept(<< >>) = << >>
  <2>1. DOMAIN << >> \ Repeats(<< >>) = {}
    OBVIOUS
  <2>2. Cardinality({}) = 0
    BY FS_EmptySet
  <2>3. Pick(<< >>, {}) = << >>
    BY <2>2 DEF Pick
  <2> QED
    BY <2>1, <2>3 DEF Kept
<1> QED
  BY <1>4, <1>5, <1>6, Zenon DEF Taken, vs

\* A connected task reads what the primary it is at says.
LEMMA Connected ==
  ASSUME TransferTypeOK, NEW t \in Tasks, state[t] \in {"connecting", "reading", "synced"}
  PROVE  Primary(t) \in DOMAIN Streams
<1>1. zone[t] \in Zones /\ at[t] \in DOMAIN PrimariesOf[zone[t]]
  BY DEF TransferTypeOK
<1>2. PrimariesOf[zone[t]] \in Seq(DOMAIN Streams)
  BY <1>1, PrimariesAssumption
<1> QED
  BY <1>1, <1>2 DEF Primary

\* Its records are all that primary's.
LEMMA HeldTypes ==
  ASSUME TransferTypeOK, NEW t \in Tasks, state[t] \in {"reading", "synced"}, Whole(t)
  PROVE  /\ stream[t] \in Seq(MessageOf({Primary(t)}))
         /\ Said(t) \in Seq(RecordOf({Primary(t)}))
         /\ records[t] \in Seq(RecordOf({Primary(t)}))
<1> DEFINE p == Primary(t)
           R == RecordOf({p})
<1>1. p \in DOMAIN Streams
  BY Connected
<1>2. stream[t] \in Seq(MessageOf({p}))
  BY <1>1, Narrower, ZenonT(30) DEF Whole
<1>3. read[t] \in Nat /\ read[t] <= Len(stream[t])
  BY DEF TransferTypeOK
<1>4. \A i \in 1 .. read[t] : stream[t][i].answers \in Seq(R)
  <2>1. \A m \in MessageOf({p}) : m.answers \in Seq(R)
    BY DEF MessageOf
  <2>2. \A i \in 1 .. read[t] : stream[t][i] \in MessageOf({p})
    BY <1>2, <1>3
  <2> QED
    BY <2>1, <2>2, Zenon
<1> HIDE DEF R, p
<1>5. Said(t) \in Seq(R) /\ Kept(Said(t)) \in Seq(R)
  BY <1>3, <1>4, SaidType, ZenonT(30) DEF Said
<1>6. records[t] = Kept(Said(t))
  BY ZenonT(30) DEF Whole, Taken
<1> QED
  BY <1>2, <1>5, <1>6 DEF R, p

\* A step of one task leaves the others alone.
LEMMA OthersWhole ==
  ASSUME NEW t \in Tasks, Whole(t),
         zone'[t] = zone[t], at'[t] = at[t], stream'[t] = stream[t], read'[t] = read[t],
         saw_soa_start'[t] = saw_soa_start[t], records'[t] = records[t]
  PROVE  Whole(t)'
BY DEF Whole, Primary, Said

\* The loaded zones' tasks have not read anything.
LEMMA TransferInitInv == TransferInit => TransferInv
<1> SUFFICES ASSUME TransferInit PROVE TransferInv
  OBVIOUS
<1>1. PICK own \in [Zones -> Tasks] :
        LET started == {own[z] : z \in Zones}
            zoneOf(t) == CHOOSE z \in Zones : own[z] = t
        IN /\ zone = [t \in Tasks |-> IF t \in started THEN zoneOf(t) ELSE NoZone]
           /\ at = [t \in Tasks |-> IF t \in started THEN 1 ELSE 0]
           /\ state = [t \in Tasks |->
                         IF t \notin started THEN "idle"
                         ELSE IF PrimariesOf[zoneOf(t)] = << >> THEN "failed"
                         ELSE "connecting"]
           /\ stream = [t \in Tasks |-> << >>]
           /\ read = [t \in Tasks |-> 0]
           /\ saw_soa_start = [t \in Tasks |-> FALSE]
           /\ records = [t \in Tasks |-> << >>]
  BY DEF TransferInit
<1> DEFINE started == {own[z] : z \in Zones}
           zoneOf(t) == CHOOSE z \in Zones : own[z] = t
<1>2. \A t \in started : zoneOf(t) \in Zones
  OBVIOUS
<1> HIDE DEF zoneOf, started
<1>3. /\ zone = [t \in Tasks |-> IF t \in started THEN zoneOf(t) ELSE NoZone]
      /\ at = [t \in Tasks |-> IF t \in started THEN 1 ELSE 0]
      /\ state = [t \in Tasks |->
                    IF t \notin started THEN "idle"
                    ELSE IF PrimariesOf[zoneOf(t)] = << >> THEN "failed"
                    ELSE "connecting"]
  BY <1>1 DEF zoneOf, started
<1>4. /\ state \in [Tasks -> {"idle", "connecting", "reading", "synced", "failed"}]
      /\ zone \in [Tasks -> Zones \cup {NoZone}]
      /\ at \in [Tasks -> Nat]
  BY <1>2, <1>3
<1>5. /\ stream \in [Tasks -> Seq(MessageOf(DOMAIN Streams))]
      /\ read \in [Tasks -> Nat]
      /\ saw_soa_start \in [Tasks -> BOOLEAN]
      /\ records \in [Tasks -> Seq(RecordOf(DOMAIN Streams))]
  BY <1>1
<1>6. ASSUME NEW t \in Tasks
      PROVE  /\ state[t] \in {"idle", "connecting", "failed"}
             /\ state[t] # "idle" => zone[t] \in Zones
             /\ state[t] = "connecting" => at[t] \in DOMAIN PrimariesOf[zone[t]]
             /\ read[t] <= Len(stream[t])
  <2>1. CASE t \in started
    <3>1. zone[t] = zoneOf(t) /\ at[t] = 1 /\ zoneOf(t) \in Zones
      BY <1>2, <1>3, <2>1
    <3>2. PrimariesOf[zone[t]] \in Seq(DOMAIN Streams)
      BY <3>1, PrimariesAssumption
    <3>3. PrimariesOf[zone[t]] # << >> => 1 \in DOMAIN PrimariesOf[zone[t]]
      BY <3>2
    <3>4. state[t] = IF PrimariesOf[zone[t]] = << >> THEN "failed" ELSE "connecting"
      BY <1>3, <2>1, <3>1
    <3>5. read[t] <= Len(stream[t])
      BY <1>1
    <3> QED
      BY <3>1, <3>3, <3>4, <3>5, ZenonT(30)
  <2>2. CASE t \notin started
    BY <1>1, <1>3, <2>2
  <2> QED
    BY <2>1, <2>2, ZenonT(30)
<1> QED
  BY <1>4, <1>5, <1>6, ZenonT(30) DEF TransferInv, TransferTypeOK

-----------------------------------------------------------------------------
(* The steps.                                                              *)

\* A failure moves on to the next primary, or ends the task.
LEMMA TryNextInv ==
  ASSUME TransferInv, NEW t \in Tasks, state[t] \in {"connecting", "reading"}, TryNext(t)
  PROVE  TransferInv'
<1>1. TransferTypeOK
  BY DEF TransferInv
<1>2. zone[t] \in Zones /\ at[t] \in Nat /\ PrimariesOf[zone[t]] \in Seq(DOMAIN Streams)
  BY <1>1, PrimariesAssumption DEF TransferTypeOK
<1>3. UNCHANGED <<zone, stream, read, saw_soa_start, records>>
  BY DEF TryNext
<1>4. /\ at' \in [Tasks -> Nat]
      /\ state' \in [Tasks -> {"idle", "connecting", "reading", "synced", "failed"}]
      /\ state'[t] \in {"connecting", "failed"}
      /\ state'[t] = "connecting" => at'[t] \in DOMAIN PrimariesOf[zone[t]]
      /\ \A u \in Tasks \ {t} : state'[u] = state[u] /\ at'[u] = at[u]
  <2>1. at[t] \in DOMAIN PrimariesOf[zone[t]]
    BY <1>1 DEF TransferTypeOK
  <2>2. CASE /\ at[t] < Len(PrimariesOf[zone[t]])
             /\ at' = [at EXCEPT ![t] = @ + 1]
             /\ state' = [state EXCEPT ![t] = "connecting"]
    <3>1. at[t] + 1 \in DOMAIN PrimariesOf[zone[t]]
      BY <1>2, <2>1, <2>2
    <3> QED
      BY <1>1, <1>2, <2>2, <3>1 DEF TransferTypeOK
  <2>3. CASE state' = [state EXCEPT ![t] = "failed"] /\ UNCHANGED at
    BY <1>1, <2>3 DEF TransferTypeOK
  <2> QED
    BY <2>2, <2>3 DEF TryNext
<1>5. TransferTypeOK'
  BY <1>1, <1>2, <1>3, <1>4, ZenonT(30) DEF TransferTypeOK
<1>6. ASSUME NEW u \in Tasks, state'[u] \in {"reading", "synced"}
      PROVE  Whole(u)'
  <2>1. u # t
    BY <1>4, <1>6
  <2>2. state'[u] = state[u] /\ at'[u] = at[u]
    BY <1>4, <2>1
  <2>3. Whole(u)
    BY <1>6, <2>2 DEF TransferInv
  <2> QED
    BY <1>3, <2>2, <2>3, OthersWhole
<1> QED
  BY <1>5, <1>6 DEF TransferInv

\* Neither does a task for a NOTIFY.
LEMMA NotifyInv ==
  ASSUME TransferInv, NEW t \in Tasks, NEW z \in Zones, Notify(t, z)
  PROVE  TransferInv'
<1>1. TransferTypeOK
  BY DEF TransferInv
<1>2. /\ UNCHANGED <<stream, read, saw_soa_start, records>>
      /\ zone' = [zone EXCEPT ![t] = z]
      /\ at' = [at EXCEPT ![t] = 1]
      /\ state' = [state EXCEPT ![t] =
                     IF PrimariesOf[z] = << >> THEN "failed" ELSE "connecting"]
  BY DEF Notify, Spawn
<1>3. PrimariesOf[z] \in Seq(DOMAIN Streams)
  BY PrimariesAssumption
<1>4. PrimariesOf[z] # << >> => 1 \in DOMAIN PrimariesOf[z]
  BY <1>3
<1>5. /\ at' \in [Tasks -> Nat] /\ at'[t] = 1
      /\ zone' \in [Tasks -> Zones \cup {NoZone}] /\ zone'[t] = z
      /\ state' \in [Tasks -> {"idle", "connecting", "reading", "synced", "failed"}]
      /\ state'[t] = IF PrimariesOf[z] = << >> THEN "failed" ELSE "connecting"
      /\ \A u \in Tasks \ {t} : state'[u] = state[u] /\ at'[u] = at[u] /\ zone'[u] = zone[u]
  BY <1>1, <1>2, ZenonT(30) DEF TransferTypeOK
<1>6. TransferTypeOK'
  BY <1>1, <1>2, <1>4, <1>5 DEF TransferTypeOK
<1>7. ASSUME NEW u \in Tasks, state'[u] \in {"reading", "synced"}
      PROVE  Whole(u)'
  <2>1. u # t
    BY <1>5, <1>7
  <2>2. state'[u] = state[u] /\ at'[u] = at[u] /\ zone'[u] = zone[u]
    BY <1>5, <2>1
  <2>3. Whole(u)
    BY <1>7, <2>2 DEF TransferInv
  <2> QED
    BY <1>2, <2>2, <2>3, OthersWhole, ZenonT(30)
<1> QED
  BY <1>6, <1>7 DEF TransferInv

\* A new connection starts from nothing, whatever an earlier one left.
LEMMA ConnectInv ==
  ASSUME TransferInv, NEW t \in Tasks, Connect(t)
  PROVE  TransferInv'
<1>1. TransferTypeOK
  BY DEF TransferInv
<1>2. PICK s \in Streams[Primary(t)] : stream' = [stream EXCEPT ![t] = s]
  BY Zenon DEF Connect
<1>3. /\ state[t] = "connecting"
      /\ state' = [state EXCEPT ![t] = "reading"]
      /\ read' = [read EXCEPT ![t] = 0]
      /\ saw_soa_start' = [saw_soa_start EXCEPT ![t] = FALSE]
      /\ records' = [records EXCEPT ![t] = << >>]
      /\ UNCHANGED <<zone, at>>
  BY DEF Connect
<1>4. Primary(t) \in DOMAIN Streams
  BY <1>1, <1>3, Connected
<1>5. s \in Seq(MessageOf(DOMAIN Streams))
  BY <1>4, Narrower, Zenon
<1>6. /\ state' \in [Tasks -> {"idle", "connecting", "reading", "synced", "failed"}]
      /\ stream' \in [Tasks -> Seq(MessageOf(DOMAIN Streams))]
      /\ read' \in [Tasks -> Nat]
      /\ saw_soa_start' \in [Tasks -> BOOLEAN]
      /\ records' \in [Tasks -> Seq(RecordOf(DOMAIN Streams))]
  BY <1>1, <1>2, <1>3, <1>5 DEF TransferTypeOK
<1>7. /\ state'[t] = "reading" /\ stream'[t] = s /\ read'[t] = 0
      /\ saw_soa_start'[t] = FALSE /\ records'[t] = << >>
  BY <1>1, <1>2, <1>3, ZenonT(30) DEF TransferTypeOK
<1>8. \A u \in Tasks \ {t} :
        /\ state'[u] = state[u] /\ stream'[u] = stream[u] /\ read'[u] = read[u]
        /\ saw_soa_start'[u] = saw_soa_start[u] /\ records'[u] = records[u]
  BY <1>1, <1>2, <1>3, ZenonT(30) DEF TransferTypeOK
<1>9. TransferTypeOK'
  <2>1. read'[t] <= Len(stream'[t])
    BY <1>5, <1>7
  <2> QED
    BY <1>1, <1>3, <1>6, <1>8, <2>1 DEF TransferTypeOK
<1>10. Whole(t)'
  <2>1. Said(t)' = Joined([i \in 1 .. 0 |-> s[i].answers])
    BY <1>7 DEF Said
  <2>2. Said(t)' = << >>
    BY <2>1, NothingSaid
  <2>3. Primary(t)' = Primary(t)
    BY <1>3 DEF Primary
  <2>4. Taken(<< >>) = [saw |-> FALSE, records |-> << >>]
    BY NothingSaid
  <2>5. [saw |-> saw_soa_start'[t], records |-> records'[t]] = Taken(Said(t)')
    BY <1>7, <2>2, <2>4, Zenon
  <2>6. stream'[t] \in Streams[Primary(t)']
    BY <1>7, <2>3
  <2>7. \A i \in 1 .. read'[t] : stream'[t][i].noerror
    BY <1>7
  <2>8. Taken(Said(t)') = Taken(Said(t))'
    BY DEF Taken, HasSoa, Kept, Repeats, IsSoa, Pick, Rank
  <2> QED
    BY <2>5, <2>6, <2>7, <2>8 DEF Whole
<1>11. ASSUME NEW u \in Tasks \ {t}, state'[u] \in {"reading", "synced"}
       PROVE  Whole(u)'
  <2>1. Whole(u)
    BY <1>8, <1>11 DEF TransferInv
  <2> QED
    BY <1>3, <1>8, <2>1, OthersWhole, ZenonT(30)
<1> QED
  BY <1>9, <1>10, <1>11 DEF TransferInv

\* A message adds what it says; the loop over its answers is TakeAll.
LEMMA ReadMessageInv ==
  ASSUME TransferInv, NEW t \in Tasks, ReadMessage(t)
  PROVE  TransferInv'
<1> DEFINE m == stream[t][read[t] + 1]
           acc == [saw |-> saw_soa_start[t], records |-> records[t]]
           taken == TakeMessage(t, m)
           p == Primary(t)
           R == RecordOf({p})
           n == read[t]
<1>1. TransferTypeOK /\ Whole(t)
  BY DEF TransferInv, ReadMessage
<1>2. /\ state[t] = "reading" /\ n < Len(stream[t]) /\ m.noerror
      /\ read' = [read EXCEPT ![t] = n + 1]
      /\ saw_soa_start' = [saw_soa_start EXCEPT ![t] = taken.saw]
      /\ records' = [records EXCEPT ![t] = taken.records]
      /\ state' = [state EXCEPT ![t] = IF IsLast(m, taken) THEN "synced" ELSE "reading"]
      /\ UNCHANGED <<zone, at, stream>>
  BY DEF ReadMessage
<1>3. stream[t] \in Seq(MessageOf({p})) /\ Said(t) \in Seq(R) /\ p \in DOMAIN Streams
  BY <1>1, <1>2, HeldTypes, Connected, ZenonT(30)
<1>4. n \in Nat
  BY <1>1 DEF TransferTypeOK
<1>5. \A i \in 1 .. n + 1 : stream[t][i].answers \in Seq(R)
  <2>1. \A i \in 1 .. n + 1 : i \in 1 .. Len(stream[t])
    BY <1>2, <1>3, <1>4
  <2>2. \A i \in 1 .. n + 1 : stream[t][i] \in MessageOf({p})
    BY <1>3, <2>1
  <2> QED
    BY <2>2, ZenonT(30) DEF MessageOf
<1>6. m.answers \in Seq(R)
  <2>1. n + 1 \in 1 .. n + 1
    BY <1>4
  <2> HIDE DEF R
  <2> QED
    BY <1>5, <2>1
<1> DEFINE told == Said(t) \o m.answers
<1>7. Joined([i \in 1 .. n + 1 |-> stream[t][i].answers]) = told
  <2> HIDE DEF R
  <2> QED
    BY <1>4, <1>5, SaidNext, Zenon DEF Said
<1>8. taken = Taken(told)
  <2>1. acc = Taken(Said(t))
    BY <1>1 DEF Whole
  <2>2. taken = TakeAll(Taken(Said(t)), m.answers)
    BY <2>1, Zenon DEF TakeMessage
  <2> HIDE DEF taken, R, m
  <2> QED
    BY <1>3, <1>6, <2>2, TakeAllTaken
<1>9. Kept(told) \in Seq(R) /\ HasSoa(told) \in BOOLEAN
  <2>1. Kept(told) \in Seq(R)
    <3> HIDE DEF R
    <3>1. n + 1 \in Nat
      BY <1>4
    <3> QED
      BY <1>5, <1>7, <3>1, SaidType, Zenon
  <2> QED
    BY <2>1 DEF HasSoa
<1>10. /\ taken.saw = HasSoa(told) /\ taken.records = Kept(told)
       /\ taken = [saw |-> taken.saw, records |-> taken.records]
  BY <1>8 DEF Taken
<1>11. taken.records \in Seq(RecordOf(DOMAIN Streams)) /\ taken.saw \in BOOLEAN
  BY <1>3, <1>9, <1>10, Narrower, ZenonT(30)
<1> HIDE DEF taken, told, m
<1>12. /\ state' \in [Tasks -> {"idle", "connecting", "reading", "synced", "failed"}]
       /\ read' \in [Tasks -> Nat]
       /\ saw_soa_start' \in [Tasks -> BOOLEAN]
       /\ records' \in [Tasks -> Seq(RecordOf(DOMAIN Streams))]
  BY <1>1, <1>2, <1>4, <1>11 DEF TransferTypeOK
<1>13. /\ state'[t] \in {"reading", "synced"} /\ stream'[t] = stream[t] /\ read'[t] = n + 1
       /\ saw_soa_start'[t] = taken.saw /\ records'[t] = taken.records
  BY <1>1, <1>2 DEF TransferTypeOK
<1>14. \A u \in Tasks \ {t} :
         /\ state'[u] = state[u] /\ read'[u] = read[u]
         /\ saw_soa_start'[u] = saw_soa_start[u] /\ records'[u] = records[u]
  BY <1>1, <1>2, ZenonT(30) DEF TransferTypeOK
<1>15. TransferTypeOK'
  <2>1. read'[t] <= Len(stream'[t])
    BY <1>2, <1>3, <1>4, <1>13
  <2> QED
    BY <1>1, <1>2, <1>12, <1>13, <1>14, <2>1, ZenonT(30) DEF TransferTypeOK
<1>16. Whole(t)'
  <2>1. Said(t)' = told
    BY <1>2, <1>7, <1>13, Zenon DEF Said
  <2>2. Primary(t)' = p
    BY <1>2 DEF Primary
  <2>3. [saw |-> saw_soa_start'[t], records |-> records'[t]] = Taken(told)
    BY <1>8, <1>10, <1>13
  <2>4. \A i \in 1 .. read'[t] : stream'[t][i].noerror
    <3>1. \A i \in 1 .. n + 1 : i \in 1 .. n \/ i = n + 1
      BY <1>4
    <3>2. \A i \in 1 .. n : stream[t][i].noerror
      BY <1>1 DEF Whole
    <3> QED
      BY <1>2, <1>13, <3>1, <3>2 DEF m
  <2>5. stream'[t] \in Streams[p]
    BY <1>1, <1>13 DEF Whole
  <2> QED
    BY <2>1, <2>2, <2>3, <2>4, <2>5 DEF Whole
<1>17. ASSUME NEW u \in Tasks \ {t}, state'[u] \in {"reading", "synced"}
       PROVE  Whole(u)'
  <2>1. Whole(u)
    BY <1>14, <1>17 DEF TransferInv
  <2> QED
    BY <1>2, <1>14, <2>1, OthersWhole
<1> QED
  BY <1>15, <1>16, <1>17, ZenonT(30) DEF TransferInv

\* The end of the stream changes what the task is at, not what it holds.
LEMMA StreamEndsInv ==
  ASSUME TransferInv, NEW t \in Tasks, StreamEnds(t)
  PROVE  TransferInv'
<1>1. TransferTypeOK /\ state[t] = "reading"
  BY DEF TransferInv, StreamEnds
<1>2. /\ state' = [state EXCEPT ![t] = "synced"]
      /\ UNCHANGED <<zone, at, stream, read, saw_soa_start, records>>
  BY DEF StreamEnds
<1>3. /\ state' \in [Tasks -> {"idle", "connecting", "reading", "synced", "failed"}]
      /\ state'[t] = "synced" /\ \A u \in Tasks \ {t} : state'[u] = state[u]
  BY <1>1, <1>2 DEF TransferTypeOK
<1>4. TransferTypeOK'
  BY <1>1, <1>2, <1>3 DEF TransferTypeOK
<1>5. ASSUME NEW u \in Tasks, state'[u] \in {"reading", "synced"}
      PROVE  Whole(u)'
  <2>1. state[u] \in {"reading", "synced"}
    BY <1>1, <1>3, <1>5
  <2>2. Whole(u)
    BY <2>1 DEF TransferInv
  <2> QED
    BY <1>2, <2>2, OthersWhole
<1> QED
  BY <1>4, <1>5 DEF TransferInv

-----------------------------------------------------------------------------
(* The theorems.                                                           *)

\* Every step of every task keeps the invariant: transfers side by side, also
\* of the same zone, do not meet.
THEOREM TransferInvariant == TransferSpec => []TransferInv
<1>1. TransferInit => TransferInv
  BY TransferInitInv
<1>2. TransferInv /\ [TransferNext]_transferVars => TransferInv'
  <2> SUFFICES ASSUME TransferInv, [TransferNext]_transferVars PROVE TransferInv'
    OBVIOUS
  <2>1. CASE UNCHANGED transferVars
    <3>1. TransferTypeOK'
      BY <2>1 DEF TransferInv, TransferTypeOK, transferVars
    <3>2. ASSUME NEW u \in Tasks, state'[u] \in {"reading", "synced"} PROVE Whole(u)'
      <4>1. Whole(u)
        BY <2>1, <3>2 DEF TransferInv, transferVars
      <4> QED
        BY <2>1, <4>1, OthersWhole DEF transferVars
    <3> QED
      BY <3>1, <3>2 DEF TransferInv
  <2>2. CASE TransferNext
    <3>1. PICK t \in Tasks :
            \/ \E z \in Zones : Notify(t, z)
            \/ Connect(t)
            \/ ConnectFails(t) \/ ReadErrorCode(t) \/ ReadFails(t)
            \/ ReadMessage(t)
            \/ StreamEnds(t)
      BY <2>2, Zenon DEF TransferNext
    <3>2. CASE \E z \in Zones : Notify(t, z)
      BY <3>2, NotifyInv
    <3>3. CASE Connect(t)
      BY <3>3, ConnectInv
    <3>4. CASE ConnectFails(t) \/ ReadErrorCode(t) \/ ReadFails(t)
      <4>1. TryNext(t) /\ state[t] \in {"connecting", "reading"}
        BY <3>4 DEF ConnectFails, ReadErrorCode, ReadFails
      <4> QED
        BY <4>1, TryNextInv
    <3>5. CASE ReadMessage(t)
      BY <3>5, ReadMessageInv
    <3>6. CASE StreamEnds(t)
      BY <3>6, StreamEndsInv
    <3> QED
      BY <3>1, <3>2, <3>3, <3>4, <3>5, <3>6
  <2> QED
    BY <2>1, <2>2
<1> QED
  BY <1>1, <1>2, PTL DEF TransferSpec

\* The tasks keep to their types, and to primaries their zones have.
THEOREM TransferTypeCorrect == TransferSpec => []TransferTypeOK
<1>1. TransferInv => TransferTypeOK
  BY DEF TransferInv
<1> QED
  BY <1>1, TransferInvariant, PTL

\* A zone never mixes two primaries, whatever failed half way before.
THEOREM TransferOneSource == TransferSpec => []OneSource
<1>1. TransferInv => OneSource
  <2> SUFFICES ASSUME TransferInv, NEW t \in Tasks, state[t] \in {"reading", "synced"},
                      NEW i \in DOMAIN records[t]
               PROVE  records[t][i].from = Primary(t)
    BY DEF OneSource
  <2>1. records[t] \in Seq(RecordOf({Primary(t)}))
    BY HeldTypes DEF TransferInv
  <2>2. records[t][i] \in RecordOf({Primary(t)})
    BY <2>1
  <2> QED
    BY <2>2 DEF RecordOf
<1> QED
  BY <1>1, TransferInvariant, PTL

\* What a task holds is what it was told, in order and in full, with the SOA
\* once: for messages of any length and number, and zones of any size.
THEOREM TransferHoldsWhatWasRead == TransferSpec => []HoldsWhatWasRead
<1>1. TransferInv => HoldsWhatWasRead
  <2> SUFFICES ASSUME TransferInv, NEW t \in Tasks, state[t] \in {"reading", "synced"}
               PROVE  records[t] = Kept(Said(t))
    BY DEF HoldsWhatWasRead, Kept
  <2>1. [saw |-> saw_soa_start[t], records |-> records[t]] = Taken(Said(t))
    BY DEF TransferInv, Whole
  <2> QED
    BY <2>1 DEF Taken
<1> QED
  BY <1>1, TransferInvariant, PTL

\* A zone that is synced holds nothing sent with an error code.
THEOREM TransferWithoutErrors == TransferSpec => []ErrorsAreNotZones
<1>1. TransferInv => ErrorsAreNotZones
  BY DEF TransferInv, Whole, ErrorsAreNotZones
<1> QED
  BY <1>1, TransferInvariant, PTL
=============================================================================
