------------------------------- MODULE Logger -------------------------------
(***************************************************************************)
(* The logger (logger/logger.cpp) and the local database it writes to      *)
(* (db/sqlite.c, db/db_utils.c), up to the end of the program that the end *)
(* of a crash record brings about (safeguard/safeguard.cpp).               *)
(*                                                                         *)
(* A row is a number and the table it goes to.  SQLite itself is external: *)
(* a transaction that is open or not, its rows, the rows that are durable, *)
(* and for each table the prepared statement, which after a failed step is *)
(* never reset and refuses every later row (SQLITE_MISUSE).  Any insert,   *)
(* begin and end of a transaction may fail, an insert and an end with or   *)
(* without a rollback; the hash of a row or the binding of its values may  *)
(* fail before SQLite takes it; and the power may fail between two calls.  *)
(*                                                                         *)
(* The logger may be restarted where it waits for a mail.  That changes    *)
(* nothing here, for the transaction counter, the database and the box all *)
(* outlive the thread.                                                     *)
(***************************************************************************)
EXTENDS Naturals, Sequences

CONSTANTS
  TRANSACTION_COUNT,  \* calls of sqlite_local_db_log per transaction (1)
  MaxRows,            \* bound on the rows
  MaxMissed,          \* bound on the failed ends of a transaction in a row
  MaxDepth            \* bound on the nested calls

ASSUME CountAssumption == TRANSACTION_COUNT \in Nat \ {0}
ASSUME Bounds == MaxRows \in Nat /\ MaxMissed \in Nat /\ MaxDepth \in Nat

Tables == {"LOGS", "DATA", "ERRORS"}

VARIABLES
  pc,          \* where the logger is, or how the program ended
  row,         \* the row it logs: its number, table, and whether it is a
               \* CRASH_END
  depth,       \* calls of sqlite_local_db_log to itself on the stack
  transact_n,  \* calls counted in the current batch
  open,        \* a transaction is open (no autocommit)
  broken,      \* tables whose statement refuses rows
  pending,     \* entries of the open transaction
  stored,      \* durable entries
  missed,      \* history: failed ends of a transaction since it was begun
  lost         \* history: rows that a rollback took

sqlite == <<open, broken, pending, stored>>
vars == <<pc, row, depth, transact_n, sqlite, missed, lost>>

(* An entry of a table: a row, or the report that it could not be written. *)
Entry == [n : Nat, report : BOOLEAN]

Init ==
  /\ pc = "idle"
  /\ row = [n |-> 0, table |-> "LOGS", end |-> FALSE]
  /\ depth = 0
  /\ transact_n = 0
  /\ open = FALSE
  /\ broken = {}
  /\ pending = <<>>
  /\ stored = <<>>
  /\ missed = 0
  /\ lost = {}

-----------------------------------------------------------------------------
Numbers(entries) == {entries[i].n : i \in DOMAIN entries}

(* SQLite: a failure that takes the whole transaction with it.             *)
Rollback ==
  /\ open
  /\ open' = FALSE
  /\ lost' = lost \cup Numbers(pending)
  /\ pending' = <<>>
  /\ missed' = 0
  /\ UNCHANGED stored

(* SQLite: the transaction ends and its entries are durable.               *)
Commit ==
  /\ open
  /\ open' = FALSE
  /\ stored' = stored \o pending
  /\ pending' = <<>>
  /\ missed' = 0
  /\ UNCHANGED lost

(* SQLite: END TRANSACTION.  Without a transaction it is an error, which   *)
(* the code reports and ignores, as it does a busy database.               *)
EndTransaction ==
  /\ UNCHANGED broken
  /\ \/ Commit
     \/ Rollback
     \/ /\ open
        /\ missed < MaxMissed
        /\ missed' = missed + 1
        /\ UNCHANGED <<open, pending, stored, lost>>
     \/ /\ ~open
        /\ UNCHANGED <<open, pending, stored, missed, lost>>

(* SQLite: an insert that succeeds, durable at once out of a transaction.  *)
Insert(table, entry) ==
  /\ table \notin broken
  /\ pending' = IF open THEN Append(pending, entry) ELSE pending
  /\ stored' = IF open THEN stored ELSE Append(stored, entry)
  /\ UNCHANGED <<open, broken, missed, lost>>

(* An insert that fails before SQLite has stepped.                         *)
Refused(table) ==
  /\ table \notin broken
  /\ UNCHANGED <<sqlite, missed, lost>>

(* SQLite: a step that fails, or a statement that was never reset.         *)
StepFails(table) ==
  /\ broken' = broken \cup {table}
  /\ \/ table \notin broken /\ Rollback
     \/ UNCHANGED <<open, pending, stored, missed, lost>>

InsertFails(table) == Refused(table) \/ StepFails(table)

-----------------------------------------------------------------------------
(* logger: the next row, of some table; the end of a record is a LOGS row. *)
Receive(table, end) ==
  /\ pc = "idle"
  /\ row.n < MaxRows
  /\ end => table = "LOGS"
  /\ row' = [n |-> row.n + 1, table |-> table, end |-> end]
  /\ pc' = "begin"
  /\ UNCHANGED <<depth, transact_n, sqlite, missed, lost>>

(* sqlite_local_db_log: the first call of a batch begins a transaction.    *)
(* BEGIN fails if one is still open, and may fail if none is; both are     *)
(* ignored, and without a transaction each row is durable by itself.       *)
Begin ==
  /\ pc = "begin"
  /\ pc' = "write"
  /\ open' \in {open, open \/ transact_n = 0}
  /\ UNCHANGED <<row, depth, transact_n, broken, pending, stored, missed, lost>>

(* Mutant: a row that cannot be written is passed over.                    *)
WriteSilent ==
  /\ pc = "write" /\ depth = 0
  /\ pc' = "count"
  /\ \/ Insert(row.table, [n |-> row.n, report |-> FALSE])
     \/ InsertFails(row.table)
  /\ UNCHANGED <<row, depth, transact_n>>

(* Mutant: a row is reported although it was written.                      *)
WriteReportsAll ==
  /\ pc = "write" /\ depth = 0
  /\ pc' = "begin" /\ depth' = 1
  /\ \/ Insert(row.table, [n |-> row.n, report |-> FALSE])
     \/ InsertFails(row.table)
  /\ UNCHANGED <<row, transact_n>>

(* sqlite_local_db_log: the row; if it fails, its report is logged by a    *)
(* call of the function to itself.                                         *)
Write ==
  /\ pc = "write" /\ depth = 0
  /\ \/ /\ Insert(row.table, [n |-> row.n, report |-> FALSE])
        /\ pc' = "count" /\ depth' = 0
     \/ /\ InsertFails(row.table)
        /\ pc' = "begin" /\ depth' = 1
  /\ UNCHANGED <<row, transact_n>>

(* An inner call writes the report; if it fails, that is reported in turn. *)
WriteReport ==
  /\ pc = "write" /\ depth > 0
  /\ \/ /\ Insert("ERRORS", [n |-> row.n, report |-> TRUE])
        /\ pc' = "count" /\ depth' = depth
     \/ /\ Refused("ERRORS")
        /\ depth < MaxDepth
        /\ pc' = "begin" /\ depth' = depth + 1
  /\ UNCHANGED <<row, transact_n>>

(* A report that SQLite fails to step leaves a statement that refuses the  *)
(* report of this, and so on until the stack is used up.                   *)
Overflow ==
  /\ pc = "write" /\ depth > 0
  /\ pc' = "overflow"
  /\ open' = FALSE
  /\ broken' = broken \cup {"ERRORS"}
  /\ pending' = <<>>
  /\ UNCHANGED <<row, depth, transact_n, stored, missed, lost>>

(* Mutant: the loop goes on after the end of a record.                     *)
ReturnToLoop ==
  /\ pc = "count"
  /\ \/ depth > 0 /\ depth' = depth - 1 /\ pc' = "count"
     \/ depth = 0 /\ depth' = 0 /\ pc' = "idle"

(* Where a call returns to: the outer call, the loop of the logger, or,    *)
(* after the end of a record, the sleep with crashed = 1.                  *)
Return ==
  /\ pc = "count"
  /\ \/ depth > 0 /\ depth' = depth - 1 /\ pc' = "count"
     \/ depth = 0 /\ depth' = 0 /\ pc' = IF row.end THEN "asleep" ELSE "idle"

(* Mutant: a batch is one call too long.                                   *)
CountLate ==
  /\ Return
  /\ \/ /\ transact_n + 1 > TRANSACTION_COUNT
        /\ transact_n' = 0
        /\ EndTransaction
     \/ /\ transact_n + 1 <= TRANSACTION_COUNT
        /\ transact_n' = transact_n + 1
        /\ UNCHANGED <<sqlite, missed, lost>>
  /\ UNCHANGED row

(* Mutant: the counter is not reset at the end of a batch.                 *)
CountKeeps ==
  /\ Return
  /\ transact_n' = transact_n + 1
  /\ \/ /\ transact_n + 1 >= TRANSACTION_COUNT
        /\ EndTransaction
     \/ /\ transact_n + 1 < TRANSACTION_COUNT
        /\ UNCHANGED <<sqlite, missed, lost>>
  /\ UNCHANGED row

(* sqlite_local_db_log: every call counts, the outer one too.              *)
Count ==
  /\ Return
  /\ \/ /\ transact_n + 1 >= TRANSACTION_COUNT
        /\ transact_n' = 0
        /\ EndTransaction
     \/ /\ transact_n + 1 < TRANSACTION_COUNT
        /\ transact_n' = transact_n + 1
        /\ UNCHANGED <<sqlite, missed, lost>>
  /\ UNCHANGED row

(* Mutant: the database is closed as it is.                                *)
ExitAbandons ==
  /\ pc = "asleep"
  /\ pc' = "exited"
  /\ open' = FALSE
  /\ pending' = <<>>
  /\ UNCHANGED <<row, depth, transact_n, broken, stored, missed, lost>>

(* safeguard_deinit: the end of the program ends an open transaction.  If  *)
(* that fails, closing the database takes its rows.                        *)
Exit ==
  /\ pc = "asleep"
  /\ pc' = "exited"
  /\ \/ Commit
     \/ Rollback
     \/ ~open /\ UNCHANGED <<open, pending, stored, missed, lost>>
  /\ UNCHANGED <<row, depth, transact_n, broken>>

(* The power fails, or the program is killed.                              *)
PowerFails ==
  /\ pc \notin {"exited", "overflow", "off"}
  /\ pc' = "off"
  /\ open' = FALSE
  /\ pending' = <<>>
  /\ UNCHANGED <<row, depth, transact_n, broken, stored, missed, lost>>

Call == Begin \/ Write \/ WriteReport \/ Overflow \/ Count

Next ==
  \/ \E table \in Tables, end \in BOOLEAN : Receive(table, end)
  \/ Call
  \/ Exit
  \/ PowerFails

Spec == Init /\ [][Next]_vars

(* The logger and the main thread are scheduled; no row has to come.       *)
FairSpec == Spec /\ WF_vars(Call) /\ WF_vars(Exit)

-----------------------------------------------------------------------------
(* The types of the variables.                                             *)
TypeOK ==
  /\ pc \in {"idle", "begin", "write", "count", "asleep", "exited",
             "overflow", "off"}
  /\ row \in [n : Nat, table : Tables, end : BOOLEAN]
  /\ depth \in Nat
  /\ transact_n \in 0 .. TRANSACTION_COUNT - 1
  /\ open \in BOOLEAN
  /\ broken \subseteq Tables
  /\ pending \in Seq(Entry)
  /\ stored \in Seq(Entry)
  /\ missed \in Nat
  /\ lost \subseteq Nat

(* What a power failure can take is one batch, and one more for every end  *)
(* of the transaction that failed: also a report counts as a call, and a   *)
(* transaction that was not begun anew is not a batch without bound.       *)
AtRisk == Len(pending) <= (missed + 1) * TRANSACTION_COUNT

Entries == stored \o pending

(* The rows of which the logger is done.                                   *)
Done ==
  IF pc \in {"idle", "count", "asleep", "exited"} THEN 1 .. row.n ELSE 1 .. row.n - 1

(* While the program runs, each row it is done with has one entry, itself  *)
(* or its report, in the order of the rows, unless a rollback took it.     *)
EveryRowOnceInOrder ==
  /\ \A i, j \in DOMAIN Entries : i < j => Entries[i].n < Entries[j].n
  /\ pc \notin {"overflow", "off"} => Done \subseteq Numbers(Entries) \cup lost

(* The program that ends by itself leaves nothing of the record behind in  *)
(* an open transaction: every row is stored or was lost to a failure of    *)
(* the database, whatever the size of a batch and the counts in it.        *)
RecordIsKept ==
  pc = "exited" => ~open /\ 1 .. row.n \subseteq Numbers(stored) \cup lost

E == INSTANCE EventLog
     WITH Rows    <- 1 .. MaxRows,
          log     <- [i \in DOMAIN Entries |-> Entries[i].n],
          durable <- Len(stored)

(* The logger implements the promise of EventLog.                          *)
ImplementsEventLog == E!Spec

(* The end of a record that the logger takes ends the program.             *)
EndOfRecordEnds ==
  (pc = "begin" /\ row.end) ~> pc \in {"exited", "overflow", "off"}
=============================================================================
