------------------------------ MODULE LossyLog ------------------------------
(***************************************************************************)
(* What a best-effort log promises: events wait in the order they were     *)
(* accepted, and the oldest leave first, either written to the table or    *)
(* lost.  Nothing is reordered, repeated or made up.                       *)
(***************************************************************************)
EXTENDS Naturals, Sequences

CONSTANT Events

VARIABLES
  waiting,  \* accepted and not yet written or lost, oldest first
  written   \* the rows of the table, in the order they were inserted

LogInit == waiting = << >> /\ written = << >>

Accept(e) ==
  /\ waiting' = Append(waiting, e)
  /\ UNCHANGED written

WriteOldest ==
  /\ waiting # << >>
  /\ written' = Append(written, Head(waiting))
  /\ waiting' = Tail(waiting)

LoseOldest(n) ==
  /\ waiting' = SubSeq(waiting, n + 1, Len(waiting))
  /\ UNCHANGED written

LogNext ==
  \/ \E e \in Events : Accept(e)
  \/ WriteOldest
  \/ \E n \in 1 .. Len(waiting) : LoseOldest(n)

LogSpec == LogInit /\ [][LogNext]_<<waiting, written>>
=============================================================================
