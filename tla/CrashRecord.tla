---------------------------- MODULE CrashRecord ----------------------------
(***************************************************************************)
(* What the recorder of safety/status.cpp promises to whoever reads the    *)
(* event log: a record is opened by a crash, gains rows only while it is   *)
(* open, no series ever gains more than AfterSize of them, and it is       *)
(* closed only when every series has all its rows.  A restart of the       *)
(* safety thread abandons the record.                                      *)
(***************************************************************************)
EXTENDS Integers

CONSTANTS Series,     \* the recorded series
          AfterSize   \* rows of each series after the crash

VARIABLES open,   \* a record is open
          rows    \* rows[s]: rows of series s since the thread started

vars == <<open, rows>>

TypeOK ==
  /\ open \in BOOLEAN
  /\ rows \in [Series -> 0 .. AfterSize]

Init ==
  /\ open = FALSE
  /\ rows = [s \in Series |-> 0]

Open ==
  /\ ~open
  /\ open' = TRUE
  /\ UNCHANGED rows

(* One sample carries a row of each of several series.                     *)
Record(S) ==
  /\ open
  /\ \A s \in S : rows[s] < AfterSize
  /\ rows' = [s \in Series |-> IF s \in S THEN rows[s] + 1 ELSE rows[s]]
  /\ UNCHANGED open

Close ==
  /\ open
  /\ \A s \in Series : rows[s] = AfterSize
  /\ open' = FALSE
  /\ UNCHANGED rows

Abandon == 
  /\ open' = FALSE
  /\ rows' = [s \in Series |-> 0]

Next ==
  \/ Open
  \/ \E S \in SUBSET Series : Record(S)
  \/ Close
  \/ Abandon

Spec == Init /\ [][Next]_vars
=============================================================================
