----------------------------- MODULE MCQueryLog -----------------------------
(* Five events, a channel of two and a buffer of two: the channel fills while *)
(* a flush is running, and a last event waits for a tick.                     *)
EXTENDS QueryLog

MCEvents == 1 .. 5
=============================================================================
