----------------------------- MODULE TaskProofs -----------------------------
(***************************************************************************)
(* Proofs about the tasks that work through a stream on their own: the     *)
(* query log writer of QueryLog, for every set of events, channel capacity *)
(* and buffer size, and a TCP connection of Connection, for every PROXY    *)
(* header, every sequence of frames and every way of cutting the bytes.    *)
(***************************************************************************)
EXTENDS QueryLog, Connection, TLAPS

\* A leaf is tried with SMT, then with Zenon and with Z3 alone, for up to 30
\* seconds each, unless it names another prover.
USE SMTT(30), ZenonT(30), Z3T(30)

-----------------------------------------------------------------------------
(* Sequences: what the steps do to the concatenation InFlight.             *)

\* Handing the head of c to the end of p leaves their concatenation as it is.
LEMMA HandOver ==
  ASSUME NEW S, NEW p \in Seq(S), NEW c \in Seq(S), c # << >>
  PROVE  /\ Append(p, Head(c)) \o Tail(c) = p \o c
         /\ Append(p, Head(c)) \in Seq(S)
         /\ Len(Append(p, Head(c))) = Len(p) + 1
         /\ Tail(c) \in Seq(S)
         /\ Len(Tail(c)) = Len(c) - 1
         /\ Head(c) \in S
OBVIOUS

\* Appending to the channel appends to the concatenation.
LEMMA AppendOutside ==
  ASSUME NEW S, NEW p \in Seq(S), NEW c \in Seq(S), NEW e \in S
  PROVE  /\ p \o Append(c, e) = Append(p \o c, e)
         /\ Append(c, e) \in Seq(S)
         /\ Len(Append(c, e)) = Len(c) + 1
OBVIOUS

\* Taking the head of a non-empty batch takes the head of the concatenation.
LEMMA TakeFront ==
  ASSUME NEW S, NEW b \in Seq(S), NEW c \in Seq(S), b # << >>
  PROVE  /\ b \o c # << >>
         /\ Head(b \o c) = Head(b)
         /\ Tail(b) \o c = Tail(b \o c)
         /\ SubSeq(b \o c, 2, Len(b \o c)) = Tail(b) \o c
         /\ 1 \in 1 .. Len(b \o c)
OBVIOUS

\* Dropping as many elements as the batch has leaves the channel.
LEMMA DropFront ==
  ASSUME NEW S, NEW b \in Seq(S), NEW c \in Seq(S)
  PROVE  /\ SubSeq(b \o c, Len(b) + 1, Len(b \o c)) = c
         /\ Len(b \o c) = Len(b) + Len(c)
         /\ << >> \o c = c
OBVIOUS

\* The elements of a concatenation, of an extension, and of what is left after
\* the head.
LEMMA RangeFacts ==
  ASSUME NEW S, NEW s \in Seq(S), NEW t \in Seq(S), NEW e \in S
  PROVE  /\ RangeOf(s \o t) = RangeOf(s) \cup RangeOf(t)
         /\ RangeOf(Append(s, e)) = RangeOf(s) \cup {e}
         /\ s # << >> => RangeOf(s) = {Head(s)} \cup RangeOf(Tail(s))
         /\ RangeOf(s) \subseteq S
<1>1. RangeOf(s \o t) = RangeOf(s) \cup RangeOf(t)
  <2>1. \A i \in DOMAIN s : i \in DOMAIN (s \o t) /\ (s \o t)[i] = s[i]
    OBVIOUS
  <2>2. \A i \in DOMAIN t : Len(s) + i \in DOMAIN (s \o t) /\ (s \o t)[Len(s) + i] = t[i]
    OBVIOUS
  <2>3. \A i \in DOMAIN (s \o t) :
          \/ i \in DOMAIN s /\ (s \o t)[i] = s[i]
          \/ i - Len(s) \in DOMAIN t /\ (s \o t)[i] = t[i - Len(s)]
    OBVIOUS
  <2>4. \A x \in RangeOf(s \o t) : x \in RangeOf(s) \cup RangeOf(t)
    BY <2>3, Zenon DEF RangeOf
  <2>5. \A x \in RangeOf(s) : x \in RangeOf(s \o t)
    BY <2>1, Zenon DEF RangeOf
  <2>6. \A x \in RangeOf(t) : x \in RangeOf(s \o t)
    BY <2>2, Zenon DEF RangeOf
  <2> QED
    BY <2>4, <2>5, <2>6, Zenon
<1>2. RangeOf(Append(s, e)) = RangeOf(s) \cup {e}
  <2>1. /\ Append(s, e)[Len(s) + 1] = e
        /\ Len(s) + 1 \in DOMAIN Append(s, e)
        /\ \A i \in DOMAIN s : i \in DOMAIN Append(s, e) /\ Append(s, e)[i] = s[i]
        /\ \A i \in DOMAIN Append(s, e) : i \in DOMAIN s \/ i = Len(s) + 1
    OBVIOUS
  <2>2. \A x \in RangeOf(Append(s, e)) : x \in RangeOf(s) \cup {e}
    BY <2>1, Zenon DEF RangeOf
  <2>3. \A x \in RangeOf(s) \cup {e} : x \in RangeOf(Append(s, e))
    BY <2>1, Zenon DEF RangeOf
  <2> QED
    BY <2>2, <2>3, Zenon
<1>3. ASSUME s # << >> PROVE RangeOf(s) = {Head(s)} \cup RangeOf(Tail(s))
  <2>1. /\ 1 \in DOMAIN s /\ s[1] = Head(s)
        /\ \A i \in DOMAIN Tail(s) : i + 1 \in DOMAIN s /\ s[i + 1] = Tail(s)[i]
        /\ \A i \in DOMAIN s : i = 1 \/ (i - 1 \in DOMAIN Tail(s) /\ s[i] = Tail(s)[i - 1])
    BY <1>3
  <2>2. ASSUME NEW i \in DOMAIN s PROVE s[i] = Head(s) \/ s[i] \in RangeOf(Tail(s))
    <3>1. CASE i = 1
      BY <2>1, <3>1
    <3>2. CASE i - 1 \in DOMAIN Tail(s) /\ s[i] = Tail(s)[i - 1]
      BY <3>2, Zenon DEF RangeOf
    <3> QED
      BY <2>1, <3>1, <3>2
  <2>3. \A x \in RangeOf(Tail(s)) : x \in RangeOf(s)
    BY <2>1, SMT DEF RangeOf
  <2>4. Head(s) \in RangeOf(s)
    BY <2>1, Zenon DEF RangeOf
  <2> QED
    BY <2>2, <2>3, <2>4, Zenon DEF RangeOf
<1>4. RangeOf(s) \subseteq S
  BY DEF RangeOf
<1> QED
  BY <1>1, <1>2, <1>3, <1>4

NoRepeats(s) == \A i, j \in DOMAIN s : s[i] = s[j] => i = j

\* Extending with a new element, and dropping the head, keep elements distinct.
LEMMA NoRepeatsFacts ==
  ASSUME NEW S, NEW s \in Seq(S), NEW e \in S, NoRepeats(s)
  PROVE  /\ e \notin RangeOf(s) => NoRepeats(Append(s, e))
         /\ s # << >> => NoRepeats(Tail(s)) /\ Head(s) \notin RangeOf(Tail(s))
<1>1. ASSUME e \notin RangeOf(s) PROVE NoRepeats(Append(s, e))
  BY <1>1 DEF NoRepeats, RangeOf
<1>2. ASSUME s # << >> PROVE NoRepeats(Tail(s)) /\ Head(s) \notin RangeOf(Tail(s))
  BY <1>2 DEF NoRepeats, RangeOf
<1> QED
  BY <1>1, <1>2

\* The elements of the two parts of a concatenation without repeats are
\* disjoint, and the second part has no repeats either.
LEMMA NoRepeatsConcat ==
  ASSUME NEW S, NEW s \in Seq(S), NEW t \in Seq(S), NoRepeats(s \o t)
  PROVE  NoRepeats(t) /\ RangeOf(s) \cap RangeOf(t) = {}
<1>1. \A i \in DOMAIN s : i \in DOMAIN (s \o t) /\ (s \o t)[i] = s[i]
  OBVIOUS
<1>2. \A i \in DOMAIN t : Len(s) + i \in DOMAIN (s \o t) /\ (s \o t)[Len(s) + i] = t[i]
  OBVIOUS
<1>3. NoRepeats(t)
  <2> SUFFICES ASSUME NEW i \in DOMAIN t, NEW j \in DOMAIN t, t[i] = t[j] PROVE i = j
    BY DEF NoRepeats
  <2>1. Len(s) + i = Len(s) + j
    BY <1>2, Zenon DEF NoRepeats
  <2> QED
    BY <2>1
<1>4. \A i \in DOMAIN s, j \in DOMAIN t : i # Len(s) + j
  OBVIOUS
<1>5. \A i \in DOMAIN s, j \in DOMAIN t : s[i] # t[j]
  BY <1>1, <1>2, <1>4, ZenonT(30) DEF NoRepeats
<1> QED
  BY <1>3, <1>5, Zenon DEF RangeOf

-----------------------------------------------------------------------------
(* The inductive invariant.                                                *)

\* A buffer that fills is flushed at once, the batch exists only while a flush
\* runs, and nothing is left behind when the process is gone.
Phases ==
  /\ writer = "select" => batch = << >> /\ Len(buffer) < BufferSize
  /\ writer = "gone" => batch = << >> /\ buffer = << >> /\ channel = << >>

LogInv == QueryLogTypeOK /\ Phases

\* The writer starts with everything empty.
LEMMA LogInvInit == QueryLogInit => LogInv
BY QueryLogAssumption DEF QueryLogInit, LogInv, QueryLogTypeOK, Phases

\* What is collected and what is on its way are sequences of events.
LEMMA InFlightType == LogInv => InFlight \in Seq(Events) /\ Collected \in Seq(Events)
BY DEF LogInv, QueryLogTypeOK, InFlight, Collected

\* What a step does to the events in flight and to what became of the others:
\* one is accepted, one is turned away, the oldest is written, the oldest few
\* are lost, or nothing moves.
Moves ==
  \/ \E e \in Events \ logged :
       /\ logged' = logged \cup {e}
       /\ UNCHANGED <<table, lost>>
       /\ \/ InFlight' = Append(InFlight, e) /\ UNCHANGED dropped
          \/ InFlight' = InFlight /\ dropped' = dropped \cup {e}
  \/ /\ InFlight # << >>
     /\ table' = Append(table, Head(InFlight))
     /\ InFlight' = Tail(InFlight)
     /\ UNCHANGED <<logged, dropped, lost>>
  \/ \E b \in Seq(Events), c \in Seq(Events) :
       /\ b # << >>
       /\ InFlight = b \o c
       /\ InFlight' = c
       /\ lost' = lost \cup RangeOf(b)
       /\ UNCHANGED <<logged, dropped, table>>
  \/ UNCHANGED <<InFlight, logged, dropped, lost, table>>

\* Every step keeps the invariant and is one of the moves.
LEMMA LogStep ==
  ASSUME LogInv, QueryLogNext
  PROVE  LogInv' /\ Moves
<1> USE QueryLogAssumption
<1>0. /\ channel \in Seq(Events) /\ buffer \in Seq(Events) /\ batch \in Seq(Events)
      /\ table \in Seq(Events)
  BY DEF LogInv, QueryLogTypeOK
<1>1. ASSUME NEW e \in Events, writer # "gone", Log(e) PROVE LogInv' /\ Moves
  <2>1. CASE Len(channel) < Capacity /\ channel' = Append(channel, e) /\ UNCHANGED dropped
    <3>1. Collected' = Collected
      BY <1>1 DEF Log, Collected
    <3>2. InFlight' = Append(InFlight, e)
      BY <2>1, <3>1, <1>0, AppendOutside, InFlightType DEF InFlight
    <3>3. LogInv'
      BY <1>1, <2>1, <1>0, AppendOutside DEF Log, LogInv, QueryLogTypeOK, Phases
    <3>4. Moves
      BY <1>1, <2>1, <3>2 DEF Log, Moves
    <3> QED
      BY <3>3, <3>4
  <2>2. CASE dropped' = dropped \cup {e} /\ UNCHANGED channel
    <3>1. InFlight' = InFlight
      BY <1>1, <2>2 DEF Log, Collected, InFlight
    <3>2. LogInv'
      BY <1>1, <2>2 DEF Log, LogInv, QueryLogTypeOK, Phases
    <3>3. Moves
      BY <1>1, <2>2, <3>1 DEF Log, Moves
    <3> QED
      BY <3>2, <3>3
  <2> QED
    BY <1>1, <2>1, <2>2 DEF Log
<1>2. ASSUME Recv PROVE LogInv' /\ Moves
  <2>1. /\ buffer' \o channel' = buffer \o channel
        /\ buffer' \in Seq(Events) /\ Len(buffer') = Len(buffer) + 1
        /\ channel' \in Seq(Events) /\ Len(channel') = Len(channel) - 1
    BY <1>2, <1>0, HandOver, ZenonT(30) DEF Recv
  <2>a. ASSUME Len(buffer') < BufferSize, UNCHANGED <<writer, batch>> PROVE LogInv'
    BY <1>2, <2>1, <2>a DEF Recv, LogInv, QueryLogTypeOK, Phases
  <2>b. ASSUME Len(buffer') >= BufferSize, StartFlush(buffer') PROVE LogInv'
    BY <1>2, <2>1, <2>b DEF Recv, StartFlush, LogInv, QueryLogTypeOK, Phases
  <2>2. LogInv'
    BY <1>2, <2>a, <2>b DEF Recv
  <2>3. InFlight' = InFlight
    BY <1>2, <2>1, Zenon DEF Recv, StartFlush, InFlight, Collected
  <2> QED
    BY <1>2, <2>2, <2>3 DEF Recv, Moves
<1>3. ASSUME Tick PROVE LogInv' /\ Moves
  <2>1. LogInv'
    BY <1>3 DEF Tick, StartFlush, LogInv, QueryLogTypeOK, Phases
  <2>2. InFlight' = InFlight
    BY <1>3 DEF Tick, StartFlush, InFlight, Collected
  <2> QED
    BY <1>3, <2>1, <2>2 DEF Tick, Moves
<1>4. ASSUME Connect PROVE LogInv' /\ Moves
  <2>1. LogInv'
    BY <1>4 DEF Connect, LogInv, QueryLogTypeOK, Phases
  <2>2. InFlight' = InFlight
    BY <1>4 DEF Connect, InFlight, Collected
  <2> QED
    BY <1>4, <2>1, <2>2 DEF Connect, Moves
<1>5. ASSUME ConnectFails PROVE LogInv' /\ Moves
  <2>0. InFlight = batch \o channel /\ InFlight' = << >> \o channel
    BY <1>5 DEF ConnectFails, InFlight, Collected
  <2>1. InFlight' = channel
    BY <2>0, <1>0, DropFront
  <2>2. RangeOf(batch) \subseteq Events
    BY <1>0 DEF RangeOf
  <2>x. lost' \subseteq Events
    BY <1>5, <2>2, Zenon DEF ConnectFails, LogInv, QueryLogTypeOK
  <2>3. LogInv'
    BY <1>5, <2>x DEF ConnectFails, LogInv, QueryLogTypeOK, Phases
  <2>4. CASE batch = << >>
    <3>1. InFlight' = InFlight /\ RangeOf(batch) = {}
      BY <2>0, <2>4 DEF RangeOf
    <3> QED
      BY <1>5, <2>3, <3>1 DEF ConnectFails, Moves
  <2>5. CASE batch # << >>
    BY <1>5, <1>0, <2>0, <2>1, <2>3, <2>5, Zenon DEF ConnectFails, Moves
  <2> QED
    BY <2>4, <2>5
<1>6. ASSUME NEW ok \in BOOLEAN, Insert(ok) PROVE LogInv' /\ Moves
  <2>0. InFlight = batch \o channel /\ InFlight' = Tail(batch) \o channel
    BY <1>6 DEF Insert, InFlight, Collected
  <2>a. batch # << >>
    BY <1>6 DEF Insert
  <2>b. /\ InFlight # << >> /\ Head(InFlight) = Head(batch) /\ InFlight' = Tail(InFlight)
    <3>1. /\ batch \o channel # << >> /\ Head(batch \o channel) = Head(batch)
          /\ Tail(batch) \o channel = Tail(batch \o channel)
      BY <1>0, <2>a, TakeFront, ZenonT(30)
    <3> QED
      BY <2>0, <3>1, Zenon
  <2>c. /\ Tail(batch) \in Seq(Events) /\ Len(Tail(batch)) = Len(batch) - 1
        /\ Head(batch) \in Events
    BY <1>0, <2>a
  <2>1. /\ InFlight # << >> /\ Head(InFlight) = Head(batch) /\ InFlight' = Tail(InFlight)
        /\ Tail(batch) \in Seq(Events) /\ Len(Tail(batch)) = Len(batch) - 1
        /\ Head(batch) \in Events
    BY <2>b, <2>c
  <2>2. CASE ok
    <3>1. table' = Append(table, Head(batch)) /\ UNCHANGED lost
      BY <1>6, <2>2 DEF Insert
    <3>2. LogInv'
      BY <1>6, <1>0, <2>1, <3>1 DEF Insert, LogInv, QueryLogTypeOK, Phases
    <3> QED
      BY <1>6, <2>1, <3>1, <3>2 DEF Insert, Moves
  <2>3. CASE ~ ok
    <3>1. lost' = lost \cup {Head(batch)} /\ UNCHANGED table
      BY <1>6, <2>3 DEF Insert
    <3>x. lost' \subseteq Events
      BY <2>1, <3>1, Zenon DEF LogInv, QueryLogTypeOK
    <3>2. LogInv'
      BY <1>6, <1>0, <2>1, <3>1, <3>x DEF Insert, LogInv, QueryLogTypeOK, Phases
    <3> DEFINE b == <<Head(batch)>>
               c == Tail(batch) \o channel
    <3>3. b \in Seq(Events) /\ c \in Seq(Events) /\ b # << >> /\ RangeOf(b) = {Head(batch)}
      BY <2>1, <1>0 DEF RangeOf
    <3>4. InFlight = b \o c
      BY <1>6, <1>0, <2>0, <2>1 DEF Insert
    <3> QED
      BY <1>6, <2>0, <3>1, <3>2, <3>3, <3>4, Zenon DEF Insert, Moves
  <2> QED
    BY <2>2, <2>3
<1>7. ASSUME Flushed PROVE LogInv' /\ Moves
  <2>1. LogInv'
    BY <1>7 DEF Flushed, LogInv, QueryLogTypeOK, Phases
  <2>2. InFlight' = InFlight
    BY <1>7, Zenon DEF Flushed, InFlight, Collected
  <2> QED
    BY <1>7, <2>1, <2>2 DEF Flushed, Moves
<1>8. ASSUME Exit PROVE LogInv' /\ Moves
  <2>0. InFlight \in Seq(Events) /\ RangeOf(InFlight) \subseteq Events
    BY InFlightType DEF RangeOf
  <2>x. lost' \subseteq Events
    BY <1>8, <2>0, Zenon DEF Exit, LogInv, QueryLogTypeOK
  <2>1. LogInv'
    BY <1>8, <2>x DEF Exit, LogInv, QueryLogTypeOK, Phases
  <2>2. InFlight' = << >>
    BY <1>8 DEF Exit, InFlight, Collected
  <2>3. CASE InFlight = << >>
    <3>1. RangeOf(InFlight) = {}
      BY <2>3 DEF RangeOf
    <3> QED
      BY <1>8, <2>1, <2>2, <2>3, <3>1 DEF Exit, Moves
  <2>4. CASE InFlight # << >>
    <3>1. InFlight = InFlight \o << >> /\ << >> \in Seq(Events)
      BY <2>0
    <3> QED
      BY <1>8, <2>0, <2>1, <2>2, <2>4, <3>1, Zenon DEF Exit, Moves
  <2> QED
    BY <2>3, <2>4
<1> QED
  BY <1>1, <1>2, <1>3, <1>4, <1>5, <1>6, <1>7, <1>8 DEF QueryLogNext, WriterStep

-----------------------------------------------------------------------------
(* The theorems.                                                           *)

\* So the invariant holds at all times.
LEMMA LogInvariant == QueryLogSpec => []LogInv
<1>1. LogInv /\ [QueryLogNext]_logVars => LogInv'
  <2>1. ASSUME LogInv, UNCHANGED logVars PROVE LogInv'
    BY <2>1 DEF logVars, LogInv, QueryLogTypeOK, Phases
  <2> QED
    BY <2>1, LogStep
<1> QED
  BY <1>1, LogInvInit, PTL DEF QueryLogSpec

\* Neither the channel nor the buffer of spawn ever grows past its limit,
\* whatever the callers, the timer and the database do.
THEOREM QueryLogTypeCorrect == QueryLogSpec => []QueryLogTypeOK
BY LogInvariant, PTL DEF LogInv

\* The writer task implements the best-effort log: rows in the order of
\* acceptance, none twice, events lost only from the front.
THEOREM QueryLogImplementsLossyLog == QueryLogSpec => ImplementsLossyLog
<1> DEFINE lossyVars == <<InFlight, table>>
<1>1. QueryLogInit => Lossy!LogInit
  BY DEF QueryLogInit, Lossy!LogInit, InFlight, Collected
<1>2. LogInv /\ [QueryLogNext]_logVars => [Lossy!LogNext]_lossyVars
  <2> SUFFICES ASSUME LogInv, [QueryLogNext]_logVars PROVE [Lossy!LogNext]_lossyVars
    OBVIOUS
  <2>0. InFlight \in Seq(Events)
    BY InFlightType
  <2>1. CASE UNCHANGED logVars
    BY <2>1 DEF logVars, InFlight, Collected
  <2>2. CASE QueryLogNext
    <3>0. Moves
      BY <2>2, LogStep
    <3>1. ASSUME NEW e \in Events, InFlight' = Append(InFlight, e), UNCHANGED table
          PROVE  Lossy!LogNext
      BY <3>1 DEF Lossy!LogNext, Lossy!Accept
    <3>2. ASSUME InFlight # << >>, table' = Append(table, Head(InFlight)),
                 InFlight' = Tail(InFlight)
          PROVE  Lossy!LogNext
      BY <3>2 DEF Lossy!LogNext, Lossy!WriteOldest
    <3>3. ASSUME NEW b \in Seq(Events), NEW c \in Seq(Events), b # << >>,
                 InFlight = b \o c, InFlight' = c, UNCHANGED table
          PROVE  Lossy!LogNext
      <4>1. SubSeq(InFlight, Len(b) + 1, Len(InFlight)) = c /\ Len(b) \in 1 .. Len(InFlight)
        BY <3>3, DropFront
      <4> QED
        BY <3>3, <4>1, Zenon DEF Lossy!LogNext, Lossy!LoseOldest
    <3> QED
      BY <3>0, <3>1, <3>2, <3>3, Zenon DEF Moves
  <2> QED
    BY <2>1, <2>2
<1> QED
  BY <1>1, <1>2, LogInvariant, PTL DEF QueryLogSpec, ImplementsLossyLog, Lossy!LogSpec

\* EveryEventAccounted alone is not inductive: the event written must not be
\* in flight a second time.
Accounted == EveryEventAccounted /\ NoRepeats(InFlight)

\* No step of callers or of the writer loses track of an event or keeps it twice.
LEMMA AccountedStep ==
  ASSUME LogInv, Accounted, Moves
  PROVE  Accounted'
<1> DEFINE F == RangeOf(InFlight)
           T == RangeOf(table)
<1>0. InFlight \in Seq(Events) /\ table \in Seq(Events)
  BY InFlightType DEF LogInv, QueryLogTypeOK
<1>1. /\ logged = dropped \cup F \cup T \cup lost
      /\ dropped \cap (F \cup T \cup lost) = {}
      /\ lost \cap (F \cup T) = {}
      /\ F \cap T = {}
      /\ NoRepeats(InFlight)
  BY DEF Accounted, EveryEventAccounted
<1>2. ASSUME NEW e \in Events \ logged, logged' = logged \cup {e}, UNCHANGED <<table, lost>>,
             InFlight' = Append(InFlight, e), UNCHANGED dropped
      PROVE  Accounted'
  <2>1. F' = F \cup {e} /\ T' = T
    BY <1>0, <1>2, RangeFacts
  <2>2. NoRepeats(InFlight)'
    BY <1>0, <1>1, <1>2, NoRepeatsFacts DEF NoRepeats
  <2> HIDE DEF F, T
  <2>3. /\ logged' = dropped' \cup F' \cup T' \cup lost'
        /\ dropped' \cap (F' \cup T' \cup lost') = {}
        /\ lost' \cap (F' \cup T') = {}
        /\ F' \cap T' = {}
    BY <1>1, <1>2, <2>1
  <2> QED
    BY <2>2, <2>3 DEF Accounted, EveryEventAccounted, F, T
<1>3. ASSUME NEW e \in Events \ logged, logged' = logged \cup {e}, UNCHANGED <<table, lost>>,
             InFlight' = InFlight, dropped' = dropped \cup {e}
      PROVE  Accounted'
  <2>1. F' = F /\ T' = T /\ NoRepeats(InFlight)'
    BY <1>1, <1>3 DEF NoRepeats
  <2> HIDE DEF F, T
  <2>2. /\ logged' = dropped' \cup F' \cup T' \cup lost'
        /\ dropped' \cap (F' \cup T' \cup lost') = {}
        /\ lost' \cap (F' \cup T') = {}
        /\ F' \cap T' = {}
    BY <1>1, <1>3, <2>1
  <2> QED
    BY <2>1, <2>2 DEF Accounted, EveryEventAccounted, F, T
<1>4. ASSUME InFlight # << >>, table' = Append(table, Head(InFlight)),
             InFlight' = Tail(InFlight), UNCHANGED <<logged, dropped, lost>>
      PROVE  Accounted'
  <2> DEFINE h == Head(InFlight)
  <2>1. h \in Events
    BY <1>0, <1>4
  <2>2. F = {h} \cup F' /\ T' = T \cup {h}
    BY <1>0, <1>4, <2>1, RangeFacts
  <2>3. h \notin F' /\ NoRepeats(InFlight)'
    BY <1>0, <1>1, <1>4, <2>1, NoRepeatsFacts DEF NoRepeats
  <2> HIDE DEF F, T, h
  <2>4. /\ logged' = dropped' \cup F' \cup T' \cup lost'
        /\ dropped' \cap (F' \cup T' \cup lost') = {}
        /\ lost' \cap (F' \cup T') = {}
        /\ F' \cap T' = {}
    BY <1>1, <1>4, <2>2, <2>3
  <2> QED
    BY <2>3, <2>4 DEF Accounted, EveryEventAccounted, F, T
<1>5. ASSUME NEW b \in Seq(Events), NEW c \in Seq(Events), b # << >>, InFlight = b \o c,
             InFlight' = c, lost' = lost \cup RangeOf(b), UNCHANGED <<logged, dropped, table>>
      PROVE  Accounted'
  <2> DEFINE B == RangeOf(b)
  <2>1. Head(b) \in Events
    BY <1>5
  <2>2. F = B \cup F' /\ T' = T
    BY <1>5, <2>1, RangeFacts
  <2>a. NoRepeats(b \o c)
    BY <1>1, <1>5
  <2>b. NoRepeats(c) /\ RangeOf(b) \cap RangeOf(c) = {}
    BY <2>a, NoRepeatsConcat
  <2>3. B \cap F' = {} /\ NoRepeats(InFlight)'
    BY <1>5, <2>b DEF NoRepeats
  <2>4. lost' = lost \cup B
    BY <1>5
  <2> HIDE DEF F, T, B
  <2>5. /\ logged' = dropped' \cup F' \cup T' \cup lost'
        /\ dropped' \cap (F' \cup T' \cup lost') = {}
        /\ lost' \cap (F' \cup T') = {}
        /\ F' \cap T' = {}
    BY <1>1, <1>5, <2>2, <2>3, <2>4
  <2> QED
    BY <2>3, <2>5 DEF Accounted, EveryEventAccounted, F, T
<1>6. ASSUME UNCHANGED <<InFlight, logged, dropped, lost, table>> PROVE Accounted'
  BY <1>1, <1>6 DEF Accounted, EveryEventAccounted, NoRepeats
<1> QED
  BY <1>2, <1>3, <1>4, <1>5, <1>6, Zenon DEF Moves

\* Every event given to log() is in exactly one place at any time.
THEOREM QueryLogAccountsForEvents == QueryLogSpec => []EveryEventAccounted
<1>1. QueryLogInit => Accounted
  BY DEF QueryLogInit, Accounted, EveryEventAccounted, NoRepeats, RangeOf, InFlight, Collected
<1>2. LogInv /\ Accounted /\ [QueryLogNext]_logVars => Accounted'
  <2>1. ASSUME Accounted, UNCHANGED logVars PROVE Accounted'
    <3>1. UNCHANGED <<InFlight, logged, dropped, lost, table>>
      BY <2>1 DEF logVars, InFlight, Collected
    <3> QED
      BY <2>1, <3>1 DEF Accounted, EveryEventAccounted, NoRepeats
  <2> QED
    BY <2>1, LogStep, AccountedStep
<1>3. Accounted => EveryEventAccounted
  BY DEF Accounted
<1> QED
  BY <1>1, <1>2, <1>3, LogInvariant, PTL DEF QueryLogSpec

-----------------------------------------------------------------------------
(* The connection.                                                         *)

\* The parser of proxy.rs accepts a header only when all of it is in the buffer.
LEMMA AcceptedIsWhole ==
  ASSUME NEW h, h.len \in Nat, NEW n \in Nat, ParseProxyHeader(h, n) = "some"
  PROVE  h.len <= n
BY DEF ParseProxyHeader, ParseV1, ParseV2

-----------------------------------------------------------------------------
(* The inductive invariant.                                                *)

ConnTypes ==
  /\ header \in Headers /\ frames \in Bodies
  /\ at \in {"peek", "discard", "length", "body", "handle", "closed"}
  /\ arrived \in 0 .. Total
  /\ pos \in 0 .. arrived
  /\ msg_len \in Nat
  /\ handled \in Seq(Nat \X Nat)
  /\ ended \in {"open", "proxy", "short", "zero", "reset"}
  /\ (at = "closed") <=> (ended # "open")

\* Nothing is read before the source is known, and a header being stripped has
\* arrived whole.
Start ==
  /\ at \in {"peek", "discard"} => pos = 0 /\ handled = << >>
  /\ at = "peek" => src_addr = "peer"
  /\ at = "discard" => header.len <= arrived

\* The connections whose frames the server sees at their own boundaries.
Aligned == header.kind = "none" \/ src_addr # "peer"

\* Where the reader stands: at the start of the first frame not handled, or
\* inside it with its length in msg_len.
InStep ==
  Aligned =>
    /\ Len(handled) <= Len(frames)
    /\ at \in {"length", "handle"} => pos = FrameStart(Len(handled) + 1)
    /\ at = "body" => /\ Len(handled) < Len(frames)
                      /\ pos = FrameStart(Len(handled) + 1) + 2
                      /\ msg_len = frames[Len(handled) + 1]

ConnInv == ConnTypes /\ Start /\ InStep /\ MessagesAreFrames

\* The layout of the frames, in terms of the state.
LEMMA FrameFacts ==
  ASSUME ConnTypes
  PROVE  /\ header.len \in Nat /\ (header.kind = "none" => header.len = 0)
         /\ frames \in Seq(Nat) /\ Len(frames) \in Nat
         /\ Total \in Nat
         /\ FrameStart(1) = header.len
         /\ \A i \in 1 .. Len(frames) + 1 : FrameStart(i) \in Nat
         /\ \A i \in 1 .. Len(frames) : FrameStart(i + 1) = FrameStart(i) + 2 + frames[i]
         /\ \A i, j \in 1 .. Len(frames) + 1 : i < j => FrameStart(i) < FrameStart(j)
         /\ arrived \in Nat /\ pos \in Nat /\ Len(handled) \in Nat
<1>1. header \in Headers /\ frames \in Bodies
  BY DEF ConnTypes
<1>2. frames \in Seq(Nat) /\ Len(frames) \in Nat
  BY <1>1, ConnAssumption
<1>3. /\ Layout(header, frames) \in [1 .. Len(frames) + 1 -> Nat]
      /\ Layout(header, frames)[1] = header.len
      /\ \A i \in 1 .. Len(frames) :
           Layout(header, frames)[i + 1] = Layout(header, frames)[i] + 2 + frames[i]
      /\ \A i, j \in 1 .. Len(frames) + 1 :
           i < j => Layout(header, frames)[i] < Layout(header, frames)[j]
  BY <1>1, ConnAssumption
<1>4. \A i \in 1 .. Len(frames) + 1 : FrameStart(i) \in Nat
  BY <1>2, <1>3, Zenon DEF FrameStart
<1>5. Total \in Nat
  BY <1>2, <1>4 DEF Total
<1> QED
  BY <1>1, <1>2, <1>3, <1>4, <1>5, ConnAssumption DEF FrameStart, ConnTypes

\* A read that lacks bytes of a frame's length or body lacks bytes of the frame.
LEMMA FrameCutShort ==
  ASSUME NEW a \in Nat, NEW s \in Nat, NEW n \in Nat, NEW p,
         \/ p = s /\ ~ (a - p >= 2)
         \/ p = s + 2 /\ ~ (a - p >= n)
  PROVE  a < s + 2 + n
OBVIOUS

\* A connection just accepted satisfies the invariant.
LEMMA ConnInit_Inv == ConnInit => ConnInv
<1> SUFFICES ASSUME ConnInit PROVE ConnInv
  OBVIOUS
<1>1. header \in Headers /\ frames \in Bodies /\ frames \in Seq(Nat) /\ Len(frames) \in Nat
  BY ConnAssumption DEF ConnInit
<1>2. Total \in Nat
  BY <1>1, ConnAssumption DEF Total, FrameStart
<1>3. ConnTypes
  BY <1>1, <1>2 DEF ConnInit, ConnTypes
<1> QED
  BY <1>1, <1>3 DEF ConnInit, ConnInv, Start, InStep, MessagesAreFrames

\* What a step leaves alone when it changes nothing of what the client sends.
LEMMA SameFrames ==
  ASSUME UNCHANGED input
  PROVE  /\ header' = header /\ frames' = frames /\ Total' = Total
         /\ \A i : FrameStart(i)' = FrameStart(i)
BY DEF input, FrameStart, Total

\* A step that only ends the connection, for want of bytes only when the next
\* frame is incomplete, keeps the invariant.
LEMMA ClosingStep ==
  ASSUME ConnInv, at # "closed", at' = "closed",
         UNCHANGED <<input, arrived, closing, pos, handled>>, msg_len' \in Nat,
         src_addr' = src_addr,
         ended' \in {"proxy", "short", "zero", "reset"},
         (ended' = "short" /\ Aligned /\ Len(handled) < Len(frames)) =>
           arrived < FrameStart(Len(handled) + 2)
  PROVE  ConnInv'
<1>1. UNCHANGED input
  OBVIOUS
<1>2. header' = header /\ frames' = frames /\ Total' = Total
      /\ \A i : FrameStart(i)' = FrameStart(i)
  BY <1>1, SameFrames
<1>3. ConnTypes' /\ Start'
  BY <1>2 DEF ConnInv, ConnTypes, Start
<1>4. InStep'
  BY <1>2 DEF ConnInv, InStep, Aligned
<1>5. MessagesAreFrames'
  BY <1>2 DEF ConnInv, MessagesAreFrames, Aligned
<1> QED
  BY <1>3, <1>4, <1>5 DEF ConnInv

\* Every step of the client, the network and the server keeps it.
LEMMA ConnStep ==
  ASSUME ConnInv, ConnNext
  PROVE  ConnInv'
<1> DEFINE k == Len(handled) + 1
<1>0. ConnTypes
  BY DEF ConnInv
<1>f. /\ header.len \in Nat /\ (header.kind = "none" => header.len = 0)
      /\ frames \in Seq(Nat) /\ Len(frames) \in Nat
      /\ Total \in Nat
      /\ FrameStart(1) = header.len
      /\ \A i \in 1 .. Len(frames) + 1 : FrameStart(i) \in Nat
      /\ \A i \in 1 .. Len(frames) : FrameStart(i + 1) = FrameStart(i) + 2 + frames[i]
      /\ \A i, j \in 1 .. Len(frames) + 1 : i < j => FrameStart(i) < FrameStart(j)
      /\ arrived \in Nat /\ pos \in Nat /\ Len(handled) \in Nat
  BY <1>0, FrameFacts
<1>n. /\ Len(frames) \in Nat /\ DOMAIN frames = 1 .. Len(frames)
      /\ Len(handled) \in Nat /\ arrived \in Nat /\ pos \in Nat
  BY <1>f
<1>t. \A i \in 1 .. Len(frames) + 1 : FrameStart(i) \in Nat
  BY <1>f
<1>l. \A i \in 1 .. Len(frames) : FrameStart(i + 1) = FrameStart(i) + 2 + frames[i]
  BY <1>f
<1>g. \A i, j \in 1 .. Len(frames) : FrameStart(i) = FrameStart(j) => i = j
  <2> SUFFICES ASSUME NEW i \in 1 .. Len(frames), NEW j \in 1 .. Len(frames), i # j
               PROVE  FrameStart(i) # FrameStart(j)
    OBVIOUS
  <2>1. (i < j \/ j < i) /\ i \in 1 .. Len(frames) + 1 /\ j \in 1 .. Len(frames) + 1
    BY <1>n
  <2>2. FrameStart(i) \in Nat /\ FrameStart(j) \in Nat
    BY <1>t, <2>1
  <2>3. FrameStart(i) < FrameStart(j) \/ FrameStart(j) < FrameStart(i)
    BY <1>f, <2>1, Zenon
  <2> QED
    BY <2>2, <2>3
<1>s. UNCHANGED input => /\ header' = header /\ frames' = frames /\ Total' = Total
                         /\ \A i : FrameStart(i)' = FrameStart(i)
  BY SameFrames
<1>1. ASSUME Arrive PROVE ConnInv'
  <2>1. UNCHANGED input /\ arrived' \in arrived + 1 .. Total
    BY <1>1 DEF Arrive
  <2>2. ConnTypes' /\ Start'
    BY <1>1, <1>s, <1>f, <2>1 DEF Arrive, ConnInv, ConnTypes, Start
  <2>3. InStep'
    BY <1>1, <1>s, <2>1 DEF Arrive, ConnInv, InStep, Aligned
  <2>4. MessagesAreFrames'
    BY <1>1, <1>s, <2>1 DEF Arrive, ConnInv, ConnTypes, MessagesAreFrames
  <2> QED
    BY <2>2, <2>3, <2>4 DEF ConnInv
<1>2. ASSUME ClientCloses PROVE ConnInv'
  <2>1. UNCHANGED input
    BY <1>2 DEF ClientCloses
  <2> QED
    BY <1>2, <1>s, <2>1 DEF ClientCloses, ConnInv, ConnTypes, Start, InStep, Aligned, MessagesAreFrames
<1>3. ASSUME Reset PROVE ConnInv'
  BY <1>3, ClosingStep DEF Reset, Close, ConnInv, ConnTypes
<1>4. ASSUME Peek PROVE ConnInv'
  <2>0. UNCHANGED input /\ at = "peek" /\ ended = "open"
    BY <1>4 DEF Peek, ConnInv, ConnTypes
  <2>1. ASSUME at' = "length", UNCHANGED <<src_addr, ended>> PROVE ConnInv'
    BY <1>4, <1>s, <1>f, <2>0, <2>1
       DEF Peek, ConnInv, ConnTypes, Start, InStep, Aligned, MessagesAreFrames
  <2>2. ASSUME Verdict = "some", src_addr' = ClaimedSource(header), at' = "discard",
               UNCHANGED ended
        PROVE  ConnInv'
    <3>1. Peeked \in Nat /\ Peeked <= arrived
      BY <1>f, ConnAssumption DEF Peeked
    <3>2. ParseProxyHeader(header, Peeked) = "some"
      BY <2>2 DEF Verdict
    <3>3. header.len <= arrived
      BY <1>f, <3>1, <3>2, AcceptedIsWhole
    <3> QED
      BY <1>4, <1>s, <1>f, <2>0, <2>2, <3>3
         DEF Peek, ConnInv, ConnTypes, Start, InStep, Aligned, MessagesAreFrames
  <2>3. ASSUME Close("proxy"), UNCHANGED src_addr PROVE ConnInv'
    BY <1>4, <2>3, ClosingStep DEF Peek, Close, ConnInv, ConnTypes
  <2> QED
    BY <1>4, <2>1, <2>2, <2>3 DEF Peek
<1>5. ASSUME Discard PROVE ConnInv'
  <2>0. UNCHANGED input /\ at = "discard" /\ ended = "open" /\ handled = << >>
    BY <1>5 DEF Discard, ConnInv, ConnTypes, Start
  <2>1. pos' = FrameStart(1) /\ pos' \in 0 .. arrived
    BY <1>5, <1>f, <2>0 DEF Discard, Available, ConnInv, Start
  <2> QED
    BY <1>5, <1>s, <1>f, <2>0, <2>1
       DEF Discard, ConnInv, ConnTypes, Start, InStep, Aligned, MessagesAreFrames
<1>6. ASSUME ReadLength PROVE ConnInv'
  <2>0. UNCHANGED input /\ at = "length" /\ ended = "open"
    BY <1>6 DEF ReadLength, ConnInv, ConnTypes
  <2>1. pos' = pos + 2 /\ pos' \in 0 .. arrived
    BY <1>6, <1>f DEF ReadLength, Available
  <2>2. msg_len' \in Nat
    BY <1>6, <1>f, ConnAssumption DEF ReadLength, LengthsAt
  <2>3. ASSUME Aligned
        PROVE  k <= Len(frames) /\ pos = FrameStart(k) /\ msg_len' = frames[k]
    <3>1. k \in 1 .. Len(frames) + 1 /\ pos = FrameStart(k)
      BY <1>f, <2>0, <2>3 DEF ConnInv, InStep
    <3>2. k # Len(frames) + 1
      <4>1. arrived <= Total /\ pos + 2 <= arrived
        BY <1>f, <2>1 DEF ConnInv, ConnTypes
      <4> QED
        BY <1>f, <3>1, <4>1 DEF Total
    <3>3. k \in 1 .. Len(frames)
      BY <1>f, <3>1, <3>2
    <3>4. \A i \in 1 .. Len(frames) : FrameStart(i) = pos => i = k
      BY <1>g, <3>1, <3>3
    <3>5. {i \in DOMAIN frames : FrameStart(i) = pos} = {k}
      BY <1>n, <3>1, <3>3, <3>4
    <3>6. LengthsAt(pos) = {frames[k]}
      BY <3>5 DEF LengthsAt
    <3> QED
      BY <1>6, <3>1, <3>3, <3>6 DEF ReadLength
  <2>4. CASE msg_len' = 0
    <3>1. at' = "closed" /\ ended' = "zero"
      BY <1>6, <2>4 DEF ReadLength, Close
    <3>2. ConnTypes' /\ Start'
      BY <1>6, <1>s, <2>0, <2>1, <2>2, <3>1, ZenonT(30) DEF ReadLength, ConnInv, ConnTypes, Start
    <3> QED
      BY <1>6, <1>s, <2>0, <3>1, <3>2
         DEF ReadLength, ConnInv, InStep, Aligned, MessagesAreFrames
  <2>5. CASE msg_len' # 0
    <3>1. at' = "body" /\ UNCHANGED ended
      BY <1>6, <2>5 DEF ReadLength
    <3>2. ConnTypes' /\ Start'
      BY <1>6, <1>s, <2>0, <2>1, <2>2, <3>1 DEF ReadLength, ConnInv, ConnTypes, Start
    <3>3. InStep'
      BY <1>6, <1>s, <1>f, <2>0, <2>1, <2>3, <3>1
         DEF ReadLength, ConnInv, InStep, Aligned
    <3> QED
      BY <1>6, <1>s, <2>0, <3>1, <3>2, <3>3 DEF ReadLength, ConnInv, MessagesAreFrames
  <2> QED
    BY <2>4, <2>5
<1>7. ASSUME ReadBody PROVE ConnInv'
  <2>0. UNCHANGED input /\ at = "body" /\ at' = "handle" /\ ended = "open" /\ ended' = "open"
    BY <1>7 DEF ReadBody, ConnInv, ConnTypes
  <2>1. msg_len \in Nat /\ pos' = pos + msg_len /\ pos' \in 0 .. arrived
    BY <1>7, <1>f DEF ReadBody, Available, ConnInv, ConnTypes
  <2>2. /\ handled' = Append(handled, <<pos, msg_len>>)
        /\ handled \in Seq(Nat \X Nat) /\ handled' \in Seq(Nat \X Nat)
        /\ Len(handled') = k
        /\ \A i \in DOMAIN handled' :
             \/ i \in DOMAIN handled /\ handled'[i] = handled[i]
             \/ i = k /\ handled'[i] = <<pos, msg_len>>
    <3>1. handled \in Seq(Nat \X Nat) /\ <<pos, msg_len>> \in Nat \X Nat
      BY <1>f, <2>1 DEF ConnInv, ConnTypes
    <3>2. handled' = Append(handled, <<pos, msg_len>>)
      BY <1>7 DEF ReadBody
    <3> QED
      BY <3>1, <3>2
  <2>3. ConnTypes' /\ Start'
    BY <1>7, <1>s, <2>0, <2>1, <2>2 DEF ReadBody, ConnInv, ConnTypes, Start
  <2>4. ASSUME Aligned
        PROVE  /\ k \in 1 .. Len(frames)
               /\ pos = FrameStart(k) + 2 /\ msg_len = frames[k]
               /\ pos' = FrameStart(k + 1)
    <3>1. /\ Len(handled) < Len(frames)
          /\ pos = FrameStart(k) + 2 /\ msg_len = frames[k]
      BY <2>0, <2>4 DEF ConnInv, InStep
    <3>2. k \in 1 .. Len(frames) /\ k \in 1 .. Len(frames) + 1
      BY <1>n, <3>1
    <3>3. FrameStart(k) \in Nat /\ FrameStart(k + 1) = FrameStart(k) + 2 + frames[k]
      BY <1>t, <1>l, <3>2
    <3> HIDE DEF k
    <3> QED
      BY <2>1, <3>1, <3>2, <3>3
  <2>5. Aligned' => Aligned
    BY <1>7, <1>s, <2>0 DEF ReadBody, Aligned
  <2>6. InStep'
    BY <1>f, <1>s, <2>0, <2>2, <2>4, <2>5 DEF InStep
  <2>7. MessagesAreFrames'
    <3> SUFFICES ASSUME Aligned'
                 PROVE  /\ Len(handled') <= Len(frames)
                        /\ \A i \in DOMAIN handled' :
                             handled'[i] = <<FrameStart(i) + 2, frames[i]>>
      BY <1>s, <2>0 DEF MessagesAreFrames, Aligned
    <3>1. \A i \in DOMAIN handled : handled[i] = <<FrameStart(i) + 2, frames[i]>>
      BY <2>5 DEF ConnInv, MessagesAreFrames, Aligned
    <3>2. k \in 1 .. Len(frames) /\ <<pos, msg_len>> = <<FrameStart(k) + 2, frames[k]>>
      BY <2>4, <2>5
    <3>3. Len(handled') <= Len(frames)
      BY <1>f, <2>2, <3>2
    <3>4. ASSUME NEW i \in DOMAIN handled'
          PROVE  handled'[i] = <<FrameStart(i) + 2, frames[i]>>
      BY <2>2, <3>1, <3>2, Zenon
    <3> QED
      BY <3>3, <3>4
  <2> QED
    BY <2>3, <2>6, <2>7 DEF ConnInv
<1>8. ASSUME ReadFails PROVE ConnInv'
  <2>0. at \in {"length", "body", "discard"} /\ ~ Available(Wanted)
    BY <1>8 DEF ReadFails
  <2>1. at # "discard"
    <3>1. ASSUME at = "discard" PROVE Available(Wanted)
      BY <1>f, <3>1 DEF Wanted, Available, ConnInv, Start
    <3> QED
      BY <2>0, <3>1
  <2>2. ASSUME Aligned, Len(handled) < Len(frames)
        PROVE  arrived < FrameStart(Len(handled) + 2)
    <3>0. k \in 1 .. Len(frames) /\ k \in 1 .. Len(frames) + 1 /\ Len(handled) + 2 = k + 1
      BY <1>n, <2>2
    <3>1. /\ arrived \in Nat /\ FrameStart(k) \in Nat /\ frames[k] \in Nat
          /\ FrameStart(k + 1) = FrameStart(k) + 2 + frames[k]
      BY <1>f, <3>0
    <3> HIDE DEF k
    <3> SUFFICES arrived < FrameStart(k) + 2 + frames[k]
      BY <3>0, <3>1
    <3>2. CASE at = "length"
      <4>1. pos = FrameStart(k) /\ ~ (arrived - pos >= 2)
        BY <2>0, <2>2, <3>2 DEF k, Wanted, Available, ConnInv, InStep
      <4> QED
        BY <3>1, <4>1, FrameCutShort
    <3>3. CASE at = "body"
      <4>1. pos = FrameStart(k) + 2 /\ msg_len = frames[k] /\ ~ (arrived - pos >= msg_len)
        BY <2>0, <2>2, <3>3 DEF k, Wanted, Available, ConnInv, InStep
      <4> QED
        BY <3>1, <4>1, FrameCutShort
    <3> QED
      BY <2>0, <2>1, <3>2, <3>3
  <2>3. at # "closed" /\ msg_len \in Nat
    BY <2>0 DEF ConnInv, ConnTypes
  <2> QED
    BY <1>8, <2>2, <2>3, ClosingStep DEF ReadFails, Close
<1>9. ASSUME Handle PROVE ConnInv'
  <2>0. UNCHANGED input /\ at = "handle" /\ at' = "length"
    BY <1>9 DEF Handle
  <2> QED
    BY <1>9, <1>s, <2>0, Zenon DEF Handle, ConnInv, ConnTypes, Start, InStep, Aligned, MessagesAreFrames
<1> QED
  BY <1>1, <1>2, <1>3, <1>4, <1>5, <1>6, <1>7, <1>8, <1>9 DEF ConnNext, ServerStep

\* So it holds throughout a connection.
LEMMA ConnInvariant == ConnSpec => []ConnInv
<1>1. ConnInv /\ [ConnNext]_connVars => ConnInv'
  <2>1. ASSUME ConnInv, UNCHANGED connVars PROVE ConnInv'
    <3>1. UNCHANGED input
      BY <2>1 DEF connVars
    <3>2. header' = header /\ frames' = frames /\ Total' = Total
          /\ \A i : FrameStart(i)' = FrameStart(i)
      BY <3>1, SameFrames
    <3> QED
      BY <2>1, <3>2, ZenonT(30) DEF connVars, ConnInv, ConnTypes, Start, InStep, Aligned, MessagesAreFrames
  <2> QED
    BY <2>1, ConnStep
<1> QED
  BY <1>1, ConnInit_Inv, PTL DEF ConnSpec

-----------------------------------------------------------------------------
(* The theorems.                                                           *)

\* handle_connection hands over exactly the client's frames, in order and
\* whole, for every stream and every way its bytes arrive, when the client
\* sends no PROXY header or sent one that was accepted.
THEOREM ConnectionKeepsBoundaries == ConnSpec => []MessagesAreFrames
BY ConnInvariant, PTL DEF ConnInv

\* resolve_src_addr never waits for the bytes of the header it strips.
THEOREM ConnectionStripsAtOnce == ConnSpec => []StrippingNeverWaits
<1>1. ConnInv => StrippingNeverWaits
  <2> SUFFICES ASSUME ConnInv, at = "discard" PROVE Available(header.len)
    BY DEF StrippingNeverWaits
  <2> QED
    BY FrameFacts DEF ConnInv, ConnTypes, Start, Available
<1> QED
  BY <1>1, ConnInvariant, PTL

\* The server never reads past the bytes that have arrived.
THEOREM ConnectionTypeCorrect == ConnSpec => []ConnTypeOK
<1>1. ConnInv => ConnTypeOK
  BY DEF ConnInv, ConnTypes, ConnTypeOK
<1> QED
  BY <1>1, ConnInvariant, PTL
=============================================================================
