------------------------------ MODULE QnameMin ------------------------------
(***************************************************************************)
(* The QNAME minimisation driver (src/core/resolver/qname_min.rs) as an    *)
(* operator from the replies of the resolver to the driver's result.       *)
(*                                                                         *)
(* A name of n labels and the names above it are the numbers n .. 0; the   *)
(* resolver's reply to a lookup is "records", "empty" or "error".          *)
(***************************************************************************)
EXTENDS Integers, Sequences, FiniteSetsExt

Replies == {"records", "empty", "error"}

\* The name itself first, the root last.
PeelLabels(n) == [i \in 1 .. n + 1 |-> n + 1 - i]

\* The names the driver looks up, in order.
Planned(n, max_iterations) ==
  SubSeq(PeelLabels(n), 1, Min({Max({1, max_iterations}), n + 1}))

\* Mutant: an empty reply takes the place of an answer.
AfterLookup_Forgets(st, name, reply) ==
  [answer |-> CASE reply = "records" -> name [] reply = "empty" -> -1 [] OTHER -> st.answer,
   failed |-> reply = "error"]

\* One turn of the loop: an answer replaces the one kept, any success forgets
\* the error, a failure is remembered.
AfterLookup(st, name, reply) ==
  [answer |-> IF reply = "records" THEN name ELSE st.answer,
   failed |-> reply = "error"]

\* The loop over the names, given the resolver's reply to each.
Lookups(names, reply) ==
  LET after[i \in 0 .. Len(names)] ==
        IF i = 0 THEN [answer |-> -1, failed |-> FALSE]
        ELSE AfterLookup(after[i - 1], names[i], reply[names[i]])
  IN after[Len(names)]

\* resolve_with_minimization: reply gives the resolver's reply to each name,
\* again its reply to the second lookup of the whole name.  An error is that of
\* the last step if that failed, else that of the second lookup.
Resolve(n, max_iterations, reply, again) ==
  LET names == Planned(n, max_iterations)
      last == Lookups(names, reply)
  IN IF n = 0 THEN [error |-> "root", lookups |-> 0]
     ELSE IF last.answer # -1
       THEN [qname |-> last.answer, got |-> "records", lookups |-> Len(names)]
     ELSE IF again # "error"
       THEN [qname |-> n, got |-> again, lookups |-> Len(names) + 1]
     ELSE [error |-> IF last.failed THEN "last" ELSE "second", lookups |-> Len(names) + 1]

Failed(result) == "error" \in DOMAIN result
=============================================================================
