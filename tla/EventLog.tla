------------------------------ MODULE EventLog ------------------------------
(***************************************************************************)
(* What the logger and its database promise to whoever reads the events:   *)
(* rows are kept in the order in which they were logged, each at most      *)
(* once; a row that is durable stays; and of the others either all or none *)
(* survive a failure.                                                      *)
(***************************************************************************)
EXTENDS Naturals, Sequences

CONSTANT Rows   \* the numbers of the rows

VARIABLES log,      \* the rows logged, by number
          durable   \* how many of them no failure can take away

vars == <<log, durable>>

Init ==
  /\ log = <<>>
  /\ durable = 0

Next_row(n) == \A i \in DOMAIN log : log[i] < n

Append_row(n) ==
  /\ Next_row(n)
  /\ log' = Append(log, n)
  /\ UNCHANGED durable

(* A row logged outside of a transaction is durable at once.               *)
Append_durable(n) ==
  /\ Next_row(n)
  /\ durable = Len(log)
  /\ log' = Append(log, n)
  /\ durable' = Len(log')

Commit ==
  /\ durable' = Len(log)
  /\ UNCHANGED log

Lose ==
  /\ log' = SubSeq(log, 1, durable)
  /\ UNCHANGED durable

Next ==
  \/ \E n \in Rows : Append_row(n) \/ Append_durable(n)
  \/ Commit
  \/ Lose

Spec == Init /\ [][Next]_vars
=============================================================================
