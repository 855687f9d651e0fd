------------------------------ MODULE QueryLog ------------------------------
(***************************************************************************)
(* The query log writer (src/core/log/query_log.rs): callers hand events   *)
(* to a bounded channel without waiting, one task collects them into a     *)
(* buffer and flushes it to the database when it is full or at a tick.     *)
(*                                                                         *)
(* An event is its identity.  The interval timer is a tick that may come   *)
(* at any time the task waits in select!; a tick on an empty buffer        *)
(* changes nothing.  The database may refuse the connection or any insert. *)
(***************************************************************************)
EXTENDS Naturals, Sequences

CONSTANTS
  Events,     \* the events callers may log, each once
  Capacity,   \* of the channel
  BufferSize  \* buffer_size of QueryLogConfig

ASSUME QueryLogAssumption ==
  /\ Capacity \in Nat \ {0}
  /\ BufferSize \in Nat \ {0}
  /\ Events \subseteq Nat

VARIABLES
  channel,   \* the mpsc channel
  buffer,    \* the events collected
  writer,    \* where the task is: select, connect, insert or gone
  batch,     \* the events of the running flush not yet inserted
  table,     \* the rows inserted
  logged,    \* history: the events callers have logged so far
  dropped,   \* history: those the full channel turned away
  lost       \* history: those a failed flush or the end of the process took

logVars == <<channel, buffer, writer, batch, table, logged, dropped, lost>>

RangeOf(s) == {s[i] : i \in DOMAIN s}

\* Accepted and not yet written or given up, oldest first.
Collected == IF writer \in {"connect", "insert"} THEN batch ELSE buffer
InFlight == Collected \o channel

-----------------------------------------------------------------------------
(* The callers.                                                            *)

\* Mutant: the channel takes one event more than it has room for.
Log_OverCapacity(e) ==
  /\ e \notin logged
  /\ logged' = logged \cup {e}
  /\ \/ /\ Len(channel) <= Capacity
        /\ channel' = Append(channel, e)
        /\ UNCHANGED dropped
     \/ /\ Len(channel) > Capacity
        /\ dropped' = dropped \cup {e}
        /\ UNCHANGED channel
  /\ UNCHANGED <<buffer, writer, batch, table, lost>>

\* try_send never waits: the event is queued, or dropped if the channel is
\* full.
Log(e) ==
  /\ e \notin logged
  /\ logged' = logged \cup {e}
  /\ \/ /\ Len(channel) < Capacity
        /\ channel' = Append(channel, e)
        /\ UNCHANGED dropped
     \/ /\ Len(channel) = Capacity
        /\ dropped' = dropped \cup {e}
        /\ UNCHANGED channel
  /\ UNCHANGED <<buffer, writer, batch, table, lost>>

-----------------------------------------------------------------------------
(* The writer task.                                                        *)

\* A flush works on a copy of the buffer, which is cleared after it.
StartFlush(events) == writer' = "connect" /\ batch' = events

\* Mutant: the buffer is cleared before the flush looks at it.
Recv_ClearedEarly ==
  /\ writer = "select"
  /\ channel # << >>
  /\ channel' = Tail(channel)
  /\ LET collected == Append(buffer, Head(channel))
     IN \/ /\ Len(collected) < BufferSize
           /\ buffer' = collected
           /\ UNCHANGED <<writer, batch>>
        \/ /\ Len(collected) >= BufferSize
           /\ buffer' = << >>
           /\ writer' = "connect" /\ batch' = << >>
  /\ UNCHANGED <<table, logged, dropped, lost>>

\* rx.recv() is ready: the event is collected, and a full buffer flushed.
Recv ==
  /\ writer = "select"
  /\ channel # << >>
  /\ channel' = Tail(channel)
  /\ buffer' = Append(buffer, Head(channel))
  /\ \/ /\ Len(buffer') < BufferSize
        /\ UNCHANGED <<writer, batch>>
     \/ /\ Len(buffer') >= BufferSize
        /\ StartFlush(buffer')
  /\ UNCHANGED <<table, logged, dropped, lost>>

\* Mutant: only a full buffer is flushed at a tick.
Tick_OnlyFull ==
  /\ writer = "select"
  /\ Len(buffer) >= BufferSize
  /\ StartFlush(buffer)
  /\ UNCHANGED <<channel, buffer, table, logged, dropped, lost>>

\* timer.tick() is ready: what was collected is flushed.
Tick ==
  /\ writer = "select"
  /\ buffer # << >>
  /\ StartFlush(buffer)
  /\ UNCHANGED <<channel, buffer, table, logged, dropped, lost>>

Connect ==
  /\ writer = "connect"
  /\ writer' = "insert"
  /\ UNCHANGED <<channel, buffer, batch, table, logged, dropped, lost>>

\* Without a connection the whole batch is given up.
ConnectFails ==
  /\ writer = "connect"
  /\ writer' = "select"
  /\ lost' = lost \cup RangeOf(batch)
  /\ batch' = << >>
  /\ buffer' = << >>
  /\ UNCHANGED <<channel, table, logged, dropped>>

\* One row; the result of the insert is not looked at.
Insert(ok) ==
  /\ writer = "insert"
  /\ batch # << >>
  /\ batch' = Tail(batch)
  /\ IF ok THEN table' = Append(table, Head(batch)) /\ UNCHANGED lost
           ELSE lost' = lost \cup {Head(batch)} /\ UNCHANGED table
  /\ UNCHANGED <<channel, buffer, writer, logged, dropped>>

\* Mutant: the buffer is not cleared after the flush.
Flushed_NotCleared ==
  /\ writer = "insert"
  /\ batch = << >>
  /\ writer' = "select"
  /\ UNCHANGED <<channel, buffer, batch, table, logged, dropped, lost>>

Flushed ==
  /\ writer = "insert"
  /\ batch = << >>
  /\ writer' = "select"
  /\ buffer' = << >>
  /\ UNCHANGED <<channel, batch, table, logged, dropped, lost>>

\* The process ends at any point and takes channel and buffer with it.  The
\* task itself never leaves its loop: the timer branch of select! is always
\* there, so the flush after the loop is not reached.
Exit ==
  /\ writer # "gone"
  /\ writer' = "gone"
  /\ lost' = lost \cup RangeOf(InFlight)
  /\ channel' = << >>
  /\ buffer' = << >>
  /\ batch' = << >>
  /\ UNCHANGED <<table, logged, dropped>>

-----------------------------------------------------------------------------
QueryLogInit ==
  /\ channel = << >>
  /\ buffer = << >>
  /\ writer = "select"
  /\ batch = << >>
  /\ table = << >>
  /\ logged = {}
  /\ dropped = {}
  /\ lost = {}

WriterStep == Recv \/ Tick \/ Connect \/ ConnectFails \/ Flushed
              \/ \E ok \in BOOLEAN : Insert(ok)

QueryLogNext ==
  \/ \E e \in Events : writer # "gone" /\ Log(e)
  \/ WriterStep
  \/ Exit

\* The runtime polls a task that is ready, ticks keep coming, and connect and
\* execute return.
QueryLogSpec == QueryLogInit /\ [][QueryLogNext]_logVars /\ WF_logVars(WriterStep)

-----------------------------------------------------------------------------
(* Properties.                                                             *)

\* Type invariant, with the limits of the channel and of the buffer: however
\* long a flush takes and however fast callers log, neither grows past them.
QueryLogTypeOK ==
  /\ channel \in Seq(Events) /\ Len(channel) <= Capacity
  /\ buffer \in Seq(Events) /\ Len(buffer) <= BufferSize
  /\ writer \in {"select", "connect", "insert", "gone"}
  /\ batch \in Seq(Events) /\ Len(batch) <= Len(buffer)
  /\ table \in Seq(Events)
  /\ logged \subseteq Events
  /\ dropped \subseteq Events
  /\ lost \subseteq Events

\* Every event log() was given is in exactly one place: turned away by the full
\* channel, on its way, a row of the table, or lost to a database failure or to
\* the end of the process; never two of them, and never silently gone.
EveryEventAccounted ==
  /\ logged = dropped \cup RangeOf(InFlight) \cup RangeOf(table) \cup lost
  /\ dropped \cap (RangeOf(InFlight) \cup RangeOf(table) \cup lost) = {}
  /\ lost \cap (RangeOf(InFlight) \cup RangeOf(table)) = {}
  /\ RangeOf(InFlight) \cap RangeOf(table) = {}

\* The writer is a best-effort log: rows appear in the order the events were
\* accepted, none twice, and an event lost is lost from the front.
Lossy == INSTANCE LossyLog WITH waiting <- InFlight, written <- table
ImplementsLossyLog == Lossy!LogSpec

\* Every event logged is settled in the end: a partly filled buffer does not
\* wait for more events, and a failing database does not hold up the rest.
EventsSettle ==
  \A e \in Events :
    e \in logged ~> e \in dropped \cup lost \cup RangeOf(table)
=============================================================================
