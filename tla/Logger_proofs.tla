---------------------------- MODULE Logger_proofs ----------------------------
(***************************************************************************)
(* What is proved of the logger and its database for every number of calls *)
(* per transaction.                                                        *)
(***************************************************************************)
EXTENDS Logger, SequenceTheorems, TLAPS

(* A batch has at least one call.                                          *)
LEMMA CountNat == TRANSACTION_COUNT \in Nat /\ TRANSACTION_COUNT >= 1
  BY CountAssumption

(* The types at the start.                                                 *)
LEMMA InitType == Init => TypeOK
<1> SUFFICES ASSUME Init PROVE TypeOK
  OBVIOUS
<1>1. pending \in Seq(Entry) /\ stored \in Seq(Entry)
  BY DEF Init
<1>2. row \in [n : Nat, table : Tables, end : BOOLEAN]
  BY DEF Init, Tables
<1>3. transact_n \in 0 .. TRANSACTION_COUNT - 1
  BY CountNat DEF Init
<1>4. depth \in Nat /\ missed \in Nat /\ open \in BOOLEAN
  BY DEF Init
<1>5. broken \subseteq Tables /\ lost \subseteq Nat
  BY DEF Init
<1>6. pc = "idle"
  BY DEF Init
<1> QED
  BY <1>1, <1>2, <1>3, <1>4, <1>5, <1>6 DEF TypeOK

(* A row's entry is an entry, and tables of tables stay tables.            *)
LEMMA InsertType ==
  ASSUME TypeOK, NEW table \in Tables, NEW entry \in Entry, Insert(table, entry)
  PROVE  /\ pending' \in Seq(Entry) /\ stored' \in Seq(Entry)
         /\ open' = open /\ broken' = broken /\ missed' = missed /\ lost' = lost
BY DEF TypeOK, Insert

(* What the database does to its log keeps the types: a rollback,          *)
LEMMA RollbackType ==
  ASSUME TypeOK, Rollback
  PROVE  /\ pending' \in Seq(Entry) /\ stored' \in Seq(Entry)
         /\ open' \in BOOLEAN /\ missed' \in Nat /\ lost' \subseteq Nat
<1>1. \A i \in DOMAIN pending : pending[i].n \in Nat
  <2> TAKE i \in DOMAIN pending
  <2>1. pending[i] \in Entry
    BY DEF TypeOK
  <2> QED
    BY <2>1 DEF Entry
<1>3. Numbers(pending) \subseteq Nat
  BY <1>1 DEF Numbers
<1>2. pending' = <<>> /\ <<>> \in Seq(Entry)
  BY DEF Rollback
<1> QED
  BY <1>2, <1>3 DEF TypeOK, Rollback

(* a commit,                                                               *)
LEMMA CommitType ==
  ASSUME TypeOK, Commit
  PROVE  /\ pending' \in Seq(Entry) /\ stored' \in Seq(Entry)
         /\ open' \in BOOLEAN /\ missed' \in Nat /\ lost' \subseteq Nat
<1>1. stored \o pending \in Seq(Entry)
  BY DEF TypeOK
<1>2. pending' = <<>> /\ <<>> \in Seq(Entry)
  BY DEF Commit
<1> QED
  BY <1>1, <1>2 DEF TypeOK, Commit

(* an insert that fails,                                                   *)
LEMMA InsertFailsType ==
  ASSUME TypeOK, NEW table \in Tables, InsertFails(table)
  PROVE  /\ pending' \in Seq(Entry) /\ stored' \in Seq(Entry)
         /\ open' \in BOOLEAN /\ missed' \in Nat /\ lost' \subseteq Nat
         /\ broken' \subseteq Tables
<1>1. CASE Refused(table)
  BY <1>1 DEF Refused, sqlite, TypeOK
<1>2. CASE StepFails(table) /\ Rollback
  BY <1>2, RollbackType DEF StepFails, TypeOK
<1>3. CASE StepFails(table) /\ UNCHANGED <<open, pending, stored, missed, lost>>
  BY <1>3 DEF StepFails, TypeOK
<1> QED
  BY <1>1, <1>2, <1>3 DEF InsertFails, StepFails

(* and the end of a transaction.                                           *)
LEMMA EndType ==
  ASSUME TypeOK, EndTransaction
  PROVE  /\ pending' \in Seq(Entry) /\ stored' \in Seq(Entry)
         /\ open' \in BOOLEAN /\ missed' \in Nat /\ lost' \subseteq Nat
         /\ broken' = broken
<1>1. CASE Commit
  BY <1>1, CommitType DEF EndTransaction
<1>2. CASE Rollback
  BY <1>2, RollbackType DEF EndTransaction
<1>3. CASE UNCHANGED <<open, pending, stored, lost>> /\ missed' = missed + 1
  BY <1>3 DEF EndTransaction, TypeOK
<1>4. CASE UNCHANGED <<open, pending, stored, missed, lost>>
  BY <1>4 DEF EndTransaction, TypeOK
<1> QED
  BY <1>1, <1>2, <1>3, <1>4 DEF EndTransaction

-----------------------------------------------------------------------------
(* Each step keeps the types.                                              *)
LEMMA NextType ==
  ASSUME TypeOK, [Next]_vars
  PROVE  TypeOK'
<1> USE CountNat
<1>1. ASSUME NEW table \in Tables, NEW end \in BOOLEAN, Receive(table, end)
      PROVE  TypeOK'
  BY <1>1 DEF TypeOK, Receive, sqlite
<1>2. CASE Begin
  BY <1>2 DEF TypeOK, Begin
<1>3. CASE Write
  <2> DEFINE entry == [n |-> row.n, report |-> FALSE]
  <2>1. row.table \in Tables /\ entry \in Entry
    BY DEF TypeOK, Entry
  <2>2. CASE Insert(row.table, entry) /\ pc' = "count" /\ depth' = 0
    <3>1. pending' \in Seq(Entry) /\ stored' \in Seq(Entry)
          /\ open' = open /\ broken' = broken /\ missed' = missed /\ lost' = lost
      BY <2>1, <2>2, InsertType
    <3> QED
      BY <1>3, <2>2, <3>1 DEF Write, TypeOK
  <2>3. CASE InsertFails(row.table) /\ pc' = "begin" /\ depth' = 1
    <3>1. /\ pending' \in Seq(Entry) /\ stored' \in Seq(Entry)
          /\ open' \in BOOLEAN /\ missed' \in Nat /\ lost' \subseteq Nat
          /\ broken' \subseteq Tables
      BY <2>1, <2>3, InsertFailsType
    <3> QED
      BY <1>3, <2>3, <3>1 DEF Write, TypeOK
  <2> QED
    BY <1>3, <2>2, <2>3 DEF Write
<1>4. CASE WriteReport
  <2> DEFINE entry == [n |-> row.n, report |-> TRUE]
  <2>1. "ERRORS" \in Tables /\ entry \in Entry
    BY DEF TypeOK, Entry, Tables
  <2>2. CASE Insert("ERRORS", entry) /\ pc' = "count" /\ depth' = depth
    <3>1. pending' \in Seq(Entry) /\ stored' \in Seq(Entry)
          /\ open' = open /\ broken' = broken /\ missed' = missed /\ lost' = lost
      BY <2>1, <2>2, InsertType
    <3> QED
      BY <1>4, <2>2, <3>1 DEF WriteReport, TypeOK
  <2>3. CASE Refused("ERRORS") /\ pc' = "begin" /\ depth' = depth + 1
    BY <1>4, <2>3 DEF WriteReport, Refused, sqlite, TypeOK
  <2> QED
    BY <1>4, <2>2, <2>3 DEF WriteReport
<1>9. CASE Overflow
  <2>1. pending' \in Seq(Entry)
    BY <1>9 DEF Overflow
  <2>2. broken' \subseteq Tables
    BY <1>9 DEF Overflow, Tables, TypeOK
  <2> QED
    BY <1>9, <2>1, <2>2 DEF Overflow, TypeOK
<1>5. CASE Count
  <2>1. pc' \in {"idle", "count", "asleep"} /\ row' = row /\ depth' \in Nat
    BY <1>5 DEF Count, Return, TypeOK
  <2>2. CASE transact_n + 1 >= TRANSACTION_COUNT
    <3>1. transact_n' = 0 /\ EndTransaction
      BY <1>5, <2>2 DEF Count, TypeOK
    <3>2. /\ pending' \in Seq(Entry) /\ stored' \in Seq(Entry)
          /\ open' \in BOOLEAN /\ missed' \in Nat /\ lost' \subseteq Nat
          /\ broken' = broken
      BY <3>1, EndType
    <3> QED
      BY <2>1, <3>1, <3>2 DEF TypeOK
  <2>3. CASE transact_n + 1 < TRANSACTION_COUNT
    <3>1. transact_n' = transact_n + 1 /\ UNCHANGED <<sqlite, missed, lost>>
      BY <1>5, <2>3 DEF Count, TypeOK
    <3> QED
      BY <2>1, <2>3, <3>1 DEF TypeOK, sqlite
  <2> QED
    BY <2>2, <2>3 DEF TypeOK
<1>6. CASE Exit
  <2>1. CASE Commit
    BY <1>6, <2>1, CommitType DEF Exit, TypeOK
  <2>2. CASE Rollback
    BY <1>6, <2>2, RollbackType DEF Exit, TypeOK
  <2>3. CASE UNCHANGED <<open, pending, stored, missed, lost>>
    BY <1>6, <2>3 DEF Exit, TypeOK
  <2> QED
    BY <1>6, <2>1, <2>2, <2>3 DEF Exit
<1>7. CASE PowerFails
  <2>1. pending' = <<>> /\ <<>> \in Seq(Entry)
    BY <1>7 DEF PowerFails
  <2> QED
    BY <1>7, <2>1 DEF PowerFails, TypeOK
<1>8. CASE UNCHANGED vars
  BY <1>8 DEF TypeOK, vars, sqlite
<1> QED
  BY <1>1, <1>2, <1>3, <1>4, <1>5, <1>6, <1>7, <1>8, <1>9
     DEF Next, Call

(* The batch counter stays below TRANSACTION_COUNT, whatever fails.        *)
THEOREM TypeCorrect == Spec => []TypeOK
<1> QED
  BY InitType, NextType, PTL DEF Spec

-----------------------------------------------------------------------------
(* The entries of the open transaction are covered by the calls counted,   *)
(* by a full batch for each failed end, and by the call that returns.      *)
Covered ==
  /\ Len(pending) <=
       missed * TRANSACTION_COUNT + transact_n + IF pc = "count" THEN 1 ELSE 0
  /\ ~open => pending = <<>>

(* One batch more.                                                         *)
LEMMA Product ==
  ASSUME NEW m \in Nat
  PROVE  /\ m * TRANSACTION_COUNT \in Nat
         /\ 0 * TRANSACTION_COUNT = 0
         /\ (m + 1) * TRANSACTION_COUNT = m * TRANSACTION_COUNT + TRANSACTION_COUNT
BY CountNat

(* Nothing is at risk at the start.                                        *)
LEMMA InitCovered == Init => Covered
BY Product DEF Init, Covered

(* What an insert and a failed insert do to the open transaction.          *)
LEMMA InsertCovered ==
  ASSUME TypeOK, Covered, pc = "write",
         NEW table \in Tables, NEW entry \in Entry, Insert(table, entry)
  PROVE  /\ Len(pending') <= missed * TRANSACTION_COUNT + transact_n + 1
         /\ ~open' => pending' = <<>>
         /\ missed' = missed
<1>1. Len(pending') <= Len(pending) + 1 /\ Len(pending) \in Nat
  BY DEF TypeOK, Insert
<1>2. Len(pending) <= missed * TRANSACTION_COUNT + transact_n
  BY Product, CountNat DEF Covered, TypeOK
<1>3. missed * TRANSACTION_COUNT + transact_n \in Nat
  BY Product, CountNat DEF TypeOK
<1>4. ~open' => pending' = <<>>
  BY DEF Insert, Covered
<1>5. missed' = missed
  BY DEF Insert
<1>6. Len(pending') \in Nat
  BY InsertType
<1>7. Len(pending') <= missed * TRANSACTION_COUNT + transact_n + 1
  <2> DEFINE bound == missed * TRANSACTION_COUNT + transact_n
  <2>1. bound \in Nat /\ Len(pending) <= bound
    BY <1>2, <1>3
  <2> HIDE DEF bound
  <2>2. Len(pending') <= bound + 1
    BY <1>1, <1>6, <2>1
  <2> QED
    BY <2>2 DEF bound
<1> QED
  BY <1>4, <1>5, <1>7

(* A failed insert puts nothing at risk, and may lose the transaction.     *)
LEMMA FailCovered ==
  ASSUME TypeOK, Covered, pc = "write",
         NEW table \in Tables, InsertFails(table)
  PROVE  /\ Len(pending') <= missed' * TRANSACTION_COUNT + transact_n + 0
         /\ ~open' => pending' = <<>>
<1>1. Len(pending) <= missed * TRANSACTION_COUNT + transact_n
  BY Product, CountNat DEF Covered, TypeOK
<1>2. CASE Rollback
  BY <1>2, Product, CountNat DEF Rollback, TypeOK
<1>3. CASE UNCHANGED <<open, pending, missed>>
  BY <1>1, <1>3 DEF Covered
<1> QED
  BY <1>2, <1>3 DEF InsertFails, Refused, StepFails, sqlite

(* At the end of a batch its calls are no longer counted: the transaction  *)
(* is empty, or its end is missed.                                         *)
LEMMA EndCovered ==
  ASSUME TypeOK, Covered, pc = "count", EndTransaction,
         transact_n + 1 >= TRANSACTION_COUNT
  PROVE  /\ Len(pending') <= missed' * TRANSACTION_COUNT
         /\ ~open' => pending' = <<>>
<1> USE CountNat
<1>1. CASE Commit \/ Rollback
  BY <1>1, Product DEF Commit, Rollback, TypeOK
<1>2. CASE open /\ missed' = missed + 1 /\ UNCHANGED <<open, pending>>
  <2> DEFINE full == missed * TRANSACTION_COUNT
  <2>1. /\ full \in Nat
        /\ missed' * TRANSACTION_COUNT = full + TRANSACTION_COUNT
    BY <1>2, Product DEF TypeOK
  <2>2. Len(pending) \in Nat /\ Len(pending) <= full + transact_n + 1
    BY DEF Covered, TypeOK
  <2>3. transact_n \in Nat /\ transact_n + 1 = TRANSACTION_COUNT
    BY DEF TypeOK
  <2> HIDE DEF full
  <2> QED
    BY <1>2, <2>1, <2>2, <2>3
<1>3. CASE ~open /\ UNCHANGED <<open, pending, missed>>
  BY <1>3, Product DEF Covered, TypeOK
<1> QED
  BY <1>1, <1>2, <1>3 DEF EndTransaction

(* Each step keeps the bound.                                              *)
LEMMA NextCovered ==
  ASSUME TypeOK, Covered, [Next]_vars
  PROVE  Covered'
<1> USE CountNat
<1>1. ASSUME NEW table \in Tables, NEW end \in BOOLEAN, Receive(table, end)
      PROVE  Covered'
  BY <1>1 DEF Covered, Receive, sqlite
<1>2. CASE Begin
  BY <1>2 DEF Covered, Begin
<1>3. CASE Write
  <2> DEFINE entry == [n |-> row.n, report |-> FALSE]
  <2>1. pc = "write" /\ row.table \in Tables /\ entry \in Entry
        /\ transact_n' = transact_n
    BY <1>3 DEF Write, TypeOK, Entry
  <2>2. CASE Insert(row.table, entry) /\ pc' = "count"
    BY <2>1, <2>2, InsertCovered DEF Covered
  <2>3. CASE InsertFails(row.table) /\ pc' = "begin"
    <3>1. /\ Len(pending') <= missed' * TRANSACTION_COUNT + transact_n + 0
          /\ ~open' => pending' = <<>>
      BY <2>1, <2>3, FailCovered
    <3> QED
      BY <2>1, <2>3, <3>1 DEF Covered
  <2> QED
    BY <1>3, <2>2, <2>3 DEF Write
<1>4. CASE WriteReport
  <2> DEFINE entry == [n |-> row.n, report |-> TRUE]
  <2>1. pc = "write" /\ "ERRORS" \in Tables /\ entry \in Entry
        /\ transact_n' = transact_n
    BY <1>4 DEF WriteReport, TypeOK, Entry, Tables
  <2>2. CASE Insert("ERRORS", entry) /\ pc' = "count"
    BY <2>1, <2>2, InsertCovered DEF Covered
  <2>3. CASE Refused("ERRORS") /\ pc' = "begin"
    BY <2>1, <2>3 DEF Covered, Refused, sqlite
  <2> QED
    BY <1>4, <2>2, <2>3 DEF WriteReport
<1>5. CASE Overflow \/ PowerFails
  <2>1. pending' = <<>> /\ pc' # "count" /\ UNCHANGED <<missed, transact_n>>
    BY <1>5 DEF Overflow, PowerFails
  <2> QED
    BY <2>1, Product DEF Covered, TypeOK
<1>6. CASE Count
  <2>1. pc = "count"
    BY <1>6 DEF Count, Return
  <2>2. CASE transact_n + 1 >= TRANSACTION_COUNT
    <3>1. transact_n' = 0 /\ EndTransaction
      BY <1>6, <2>2 DEF Count, TypeOK
    <3>2. /\ Len(pending') <= missed' * TRANSACTION_COUNT
          /\ ~open' => pending' = <<>>
      BY <2>1, <2>2, <3>1, EndCovered
    <3>3. missed' * TRANSACTION_COUNT \in Nat /\ Len(pending') \in Nat
      BY <3>1, EndType, Product
    <3> QED
      BY <3>1, <3>2, <3>3 DEF Covered
  <2>3. CASE transact_n + 1 < TRANSACTION_COUNT
    <3>1. transact_n' = transact_n + 1 /\ UNCHANGED <<open, pending, missed>>
      BY <1>6, <2>3 DEF Count, TypeOK, sqlite
    <3>2. missed * TRANSACTION_COUNT \in Nat /\ Len(pending) \in Nat
      BY Product DEF TypeOK
    <3> QED
      BY <2>1, <3>1, <3>2 DEF Covered, TypeOK
  <2> QED
    BY <2>2, <2>3 DEF TypeOK
<1>7. CASE Exit
  <2>1. pc' = "exited" /\ pc = "asleep" /\ transact_n' = transact_n
    BY <1>7 DEF Exit
  <2>2. CASE Commit \/ Rollback
    BY <2>1, <2>2, Product DEF Commit, Rollback, Covered, TypeOK
  <2>3. CASE UNCHANGED <<open, pending, missed>>
    BY <2>1, <2>3 DEF Covered
  <2> QED
    BY <1>7, <2>2, <2>3 DEF Exit
<1>8. CASE UNCHANGED vars
  BY <1>8 DEF Covered, vars, sqlite
<1> QED
  BY <1>1, <1>2, <1>3, <1>4, <1>5, <1>6, <1>7, <1>8 DEF Next, Call

(* A failure takes at most one batch, and one more for every failed end of *)
(* the transaction, for every size of a batch: the nested calls that       *)
(* report a failed row count as rows of the batch too.                     *)
THEOREM RiskBounded == Spec => []AtRisk
<1>1. TypeOK /\ Covered => AtRisk
  <2> SUFFICES ASSUME TypeOK, Covered PROVE AtRisk
    OBVIOUS
  <2> DEFINE full == missed * TRANSACTION_COUNT
  <2>1. /\ full \in Nat
        /\ (missed + 1) * TRANSACTION_COUNT = full + TRANSACTION_COUNT
    BY Product DEF TypeOK
  <2>2. /\ Len(pending) \in Nat
        /\ Len(pending) <= full + transact_n + IF pc = "count" THEN 1 ELSE 0
    BY DEF Covered, TypeOK
  <2>3. transact_n \in 0 .. TRANSACTION_COUNT - 1
    BY DEF TypeOK
  <2> HIDE DEF full
  <2>4. Len(pending) <= full + TRANSACTION_COUNT
    BY <2>1, <2>2, <2>3, CountNat
  <2> QED
    BY <2>1, <2>4 DEF AtRisk
<1>2. Spec => [](TypeOK /\ Covered)
  BY InitType, NextType, InitCovered, NextCovered, PTL DEF Spec
<1> QED
  BY <1>1, <1>2, PTL
-----------------------------------------------------------------------------
(* What a step does to the entries, seen by a reader of the log: nothing,  *)
(* one more, all of them durable, or back to the durable ones.             *)
Same    == UNCHANGED <<stored, pending, lost>>
Durable == /\ stored' = Entries /\ pending' = <<>>
           /\ UNCHANGED lost
Dropped == /\ UNCHANGED stored /\ pending' = <<>>
           /\ lost' = lost \cup Numbers(pending) \/ pc' \in {"overflow", "off"}
Added   == /\ pc = "write" /\ pc' = "count" /\ UNCHANGED <<row, lost>>
           /\ \E entry \in Entry :
                /\ entry.n = row.n
                /\ \/ UNCHANGED stored /\ pending' = Append(pending, entry)
                   \/ /\ pending = <<>> /\ pending' = <<>>
                      /\ stored' = Append(stored, entry)

(* A row that is inserted, itself or its report, is the last entry.        *)
LEMMA InsertAdds ==
  ASSUME TypeOK, Covered, pc = "write", pc' = "count", UNCHANGED row,
         NEW table, NEW report \in BOOLEAN,
         Insert(table, [n |-> row.n, report |-> report])
  PROVE  Added
<1> DEFINE entry == [n |-> row.n, report |-> report]
<1>1. entry \in Entry /\ entry.n = row.n
  BY DEF Entry, TypeOK
<1>2. CASE open
  BY <1>1, <1>2 DEF Insert, Added
<1>3. CASE ~open
  BY <1>1, <1>3 DEF Insert, Added, Covered
<1> QED
  BY <1>2, <1>3

(* A step leaves the entries as they are, makes them durable, drops the    *)
(* open ones or adds the row at hand.                                      *)
LEMMA Shape ==
  ASSUME TypeOK, Covered, [Next]_vars
  PROVE  /\ Same \/ Durable \/ Dropped \/ Added
         /\ pc = "write" /\ pc' = "count" => Added
<1>0. ASSUME Commit \/ Rollback
      PROVE  Durable \/ Dropped
  BY <1>0 DEF Commit, Rollback, Durable, Dropped, Entries
<1>1. ASSUME NEW table \in Tables, NEW end \in BOOLEAN, Receive(table, end)
      PROVE  Same /\ pc # "write"
  BY <1>1 DEF Receive, sqlite, Same
<1>2. ASSUME Begin
      PROVE  Same /\ pc # "write"
  BY <1>2 DEF Begin, Same
<1>3. ASSUME Write
      PROVE  \/ Added
             \/ (Same \/ Durable \/ Dropped) /\ pc' = "begin"
  <2>1. CASE Insert(row.table, [n |-> row.n, report |-> FALSE]) /\ pc' = "count"
    BY <1>3, <2>1, InsertAdds DEF Write
  <2>2. CASE InsertFails(row.table) /\ pc' = "begin"
    BY <1>0, <2>2 DEF InsertFails, Refused, StepFails, sqlite, Same
  <2> QED
    BY <1>3, <2>1, <2>2 DEF Write
<1>4. ASSUME WriteReport
      PROVE  Added \/ (Same /\ pc' = "begin")
  <2>1. CASE Insert("ERRORS", [n |-> row.n, report |-> TRUE]) /\ pc' = "count"
    BY <1>4, <2>1, InsertAdds DEF WriteReport
  <2>2. CASE Refused("ERRORS") /\ pc' = "begin"
    BY <2>2 DEF Refused, sqlite, Same
  <2> QED
    BY <1>4, <2>1, <2>2 DEF WriteReport
<1>5. ASSUME Overflow \/ PowerFails
      PROVE  Dropped /\ pc' # "count"
  BY <1>5 DEF Overflow, PowerFails, Dropped
<1>6. ASSUME Count
      PROVE  (Same \/ Durable \/ Dropped) /\ pc # "write"
  <2>1. pc = "count"
    BY <1>6 DEF Count, Return
  <2>2. EndTransaction \/ Same
    BY <1>6 DEF Count, Same, sqlite
  <2> QED
    BY <1>0, <2>1, <2>2 DEF EndTransaction, Same
<1>7. ASSUME Exit
      PROVE  (Same \/ Durable \/ Dropped) /\ pc # "write"
  BY <1>0, <1>7 DEF Exit, Same
<1>8. ASSUME UNCHANGED vars
      PROVE  Same /\ (pc' = "count" => pc # "write")
  BY <1>8 DEF vars, sqlite, Same
<1> QED
  BY <1>1, <1>2, <1>3, <1>4, <1>5, <1>6, <1>7, <1>8 DEF Next, Call

(* The same, of the entries as one sequence.                               *)
LEMMA EntriesShape ==
  ASSUME TypeOK
  PROVE  /\ Entries \in Seq(Entry)
         /\ Same \/ Durable => Entries' = Entries
         /\ Dropped => Entries' = stored
         /\ Added => \E entry \in Entry :
                       entry.n = row.n /\ Entries' = Append(Entries, entry)
<1>1. stored \in Seq(Entry) /\ pending \in Seq(Entry)
  BY DEF TypeOK
<1>2. Entries \in Seq(Entry)
  BY <1>1 DEF Entries
<1>3. ASSUME Same \/ Durable
      PROVE  Entries' = Entries
  BY <1>1, <1>2, <1>3, ConcatEmptySeq DEF Same, Durable, Entries
<1>4. ASSUME Dropped
      PROVE  Entries' = stored
  BY <1>1, <1>4, ConcatEmptySeq DEF Dropped, Entries
<1>5. ASSUME Added
      PROVE  \E entry \in Entry :
               entry.n = row.n /\ Entries' = Append(Entries, entry)
  <2>1. PICK entry \in Entry :
          /\ entry.n = row.n
          /\ \/ UNCHANGED stored /\ pending' = Append(pending, entry)
             \/ /\ pending = <<>> /\ pending' = <<>>
                /\ stored' = Append(stored, entry)
    BY <1>5 DEF Added
  <2>2. stored \o Append(pending, entry) = Append(stored \o pending, entry)
    <3>1. <<entry>> \in Seq(Entry)
      OBVIOUS
    <3> QED
      BY <1>1, <1>2, <3>1, AppendIsConcat, ConcatAssociative DEF Entries
  <2>3. Append(stored, entry) \o <<>> = Append(stored \o <<>>, entry)
    <3>1. Append(stored, entry) \in Seq(Entry)
      BY <1>1
    <3> QED
      BY <1>1, <3>1, ConcatEmptySeq
  <2> QED
    BY <2>1, <2>2, <2>3 DEF Entries
<1> QED
  BY <1>2, <1>3, <1>4, <1>5

-----------------------------------------------------------------------------
(* Why the order holds: an entry is of a row received, and while a row has *)
(* still to be written all entries are of earlier ones.                    *)
EarlierRows ==
  \A i \in DOMAIN Entries :
    Entries[i].n <= row.n /\ (pc \in {"begin", "write"} => Entries[i].n < row.n)

InOrder == \A i, j \in DOMAIN Entries : i < j => Entries[i].n < Entries[j].n

Accounted == pc \notin {"overflow", "off"} => Done \subseteq Numbers(Entries) \cup lost

RowInv ==
  /\ row.n <= MaxRows
  /\ pc \in {"begin", "write"} => row.n >= 1
  /\ EarlierRows
  /\ InOrder
  /\ Accounted
  /\ pc = "exited" => ~open

(* How a step moves on from row to row.                                    *)
LEMMA Control ==
  ASSUME TypeOK, RowInv, [Next]_vars
  PROVE  /\ row'.n <= MaxRows
         /\ pc' \in {"begin", "write"} => row'.n >= 1
         /\ row'.n = row.n \/ row'.n = row.n + 1
         /\ pc' \in {"begin", "write"} =>
              \/ pc \in {"begin", "write"} /\ row' = row
              \/ row'.n = row.n + 1
         /\ pc' \notin {"overflow", "off"} =>
              /\ pc \notin {"overflow", "off"}
              /\ \/ Done' = Done
                 \/ pc = "write" /\ pc' = "count" /\ Done' \subseteq Done \cup {row.n}
         /\ pc' = "exited" => ~open'
<1> USE DEF TypeOK, RowInv
<1>1. ASSUME NEW table \in Tables, NEW end \in BOOLEAN, Receive(table, end)
      PROVE  /\ pc = "idle" /\ pc' = "begin" /\ row'.n = row.n + 1
             /\ row'.n <= MaxRows
  BY <1>1, Bounds DEF Receive
<1>2. ASSUME Begin \/ (Write /\ pc' = "begin") \/ (WriteReport /\ pc' = "begin")
      PROVE  /\ pc \in {"begin", "write"} /\ pc' \in {"begin", "write"}
             /\ row' = row
  BY <1>2 DEF Begin, Write, WriteReport
<1>3. ASSUME (Write /\ pc' # "begin") \/ (WriteReport /\ pc' # "begin")
      PROVE  pc = "write" /\ pc' = "count" /\ row' = row
  BY <1>3 DEF Write, WriteReport
<1>4. ASSUME Overflow \/ PowerFails
      PROVE  pc' \in {"overflow", "off"} /\ row' = row
  BY <1>4 DEF Overflow, PowerFails
<1>5. ASSUME Count
      PROVE  pc = "count" /\ pc' \in {"idle", "count", "asleep"} /\ row' = row
  BY <1>5 DEF Count, Return
<1>6. ASSUME Exit
      PROVE  pc = "asleep" /\ pc' = "exited" /\ row' = row /\ ~open'
  BY <1>6 DEF Exit, Commit, Rollback
<1>7. ASSUME UNCHANGED vars
      PROVE  row' = row /\ pc' = pc /\ open' = open
  BY <1>7 DEF vars, sqlite
<1>8. row.n \in Nat
  OBVIOUS
<1> QED
  BY <1>1, <1>2, <1>3, <1>4, <1>5, <1>6, <1>7, <1>8 DEF Next, Call, Done

(* The rows of two parts of the log.                                       *)
LEMMA NumbersOfConcat ==
  ASSUME NEW s \in Seq(Entry), NEW t \in Seq(Entry)
  PROVE  Numbers(s \o t) = Numbers(s) \cup Numbers(t)
<1>1. ASSUME NEW i \in DOMAIN (s \o t)
      PROVE  (s \o t)[i].n \in Numbers(s) \cup Numbers(t)
  <2>1. i \in 1 .. Len(s) + Len(t) /\ Len(s) \in Nat /\ Len(t) \in Nat
    BY <1>1
  <2>2. CASE i <= Len(s)
    BY <2>1, <2>2, ConcatProperties DEF Numbers
  <2>3. CASE i > Len(s)
    <3>1. (s \o t)[i] = t[i - Len(s)] /\ i - Len(s) \in DOMAIN t
      BY <2>1, <2>3, ConcatProperties
    <3> QED
      BY <3>1 DEF Numbers
  <2> QED
    BY <2>1, <2>2, <2>3
<1>2. ASSUME NEW i \in DOMAIN s
      PROVE  s[i].n \in Numbers(s \o t)
  BY <1>2, ConcatProperties DEF Numbers
<1>3. ASSUME NEW i \in DOMAIN t
      PROVE  t[i].n \in Numbers(s \o t)
  <2>1. /\ i + Len(s) \in DOMAIN (s \o t)
        /\ (s \o t)[i + Len(s)] = t[i]
    BY <1>3, ConcatProperties
  <2> QED
    BY <2>1 DEF Numbers
<1> QED
  BY <1>1, <1>2, <1>3 DEF Numbers

(* The order at the start.                                                 *)
LEMMA InitRows == Init => RowInv
<1> SUFFICES ASSUME Init PROVE RowInv
  OBVIOUS
<1>1. Entries = <<>>
  BY DEF Init, Entries
<1>2. Done = {} /\ row.n = 0 /\ pc = "idle"
  BY DEF Init, Done
<1> QED
  BY <1>1, <1>2, Bounds DEF RowInv, EarlierRows, InOrder, Accounted

(* Each step keeps the order of the rows.                                  *)
LEMMA NextRows ==
  ASSUME TypeOK, Covered, RowInv, [Next]_vars
  PROVE  RowInv'
<1> DEFINE Grown(entry) == entry.n = row.n /\ Entries' = Append(Entries, entry)
<1>0. row.n \in Nat /\ Entries \in Seq(Entry) /\ stored \in Seq(Entry)
  BY EntriesShape DEF TypeOK
<1>1. \A i \in DOMAIN stored : i \in DOMAIN Entries /\ Entries[i] = stored[i]
  BY ConcatProperties DEF TypeOK, Entries
<1>2. \A i \in DOMAIN Entries : Entries[i].n \in Nat
  <2> TAKE i \in DOMAIN Entries
  <2>1. Entries[i] \in Entry
    BY <1>0
  <2> QED
    BY <2>1 DEF Entry
<1>3. CASE Same \/ Durable
  <2>1. Entries' = Entries /\ lost' = lost
    BY <1>3, EntriesShape DEF Same, Durable
  <2>2. Added => FALSE
    BY <2>1, <1>0, EntriesShape, AppendProperties
  <2>3. EarlierRows' /\ InOrder'
    BY <1>0, <1>2, <2>1, Control DEF RowInv, EarlierRows, InOrder
  <2>4. Accounted'
    BY <2>1, <2>2, Shape, Control DEF RowInv, Accounted
  <2> QED
    BY <2>3, <2>4, Control DEF RowInv
<1>4. CASE Dropped
  <2>1. Entries' = stored
    BY <1>4, EntriesShape
  <2>3. EarlierRows' /\ InOrder'
    BY <1>0, <1>1, <1>2, <2>1, Control DEF RowInv, EarlierRows, InOrder
  <2>4. Accounted'
    <3> SUFFICES ASSUME pc' \notin {"overflow", "off"}
                 PROVE  Done' \subseteq Numbers(stored) \cup lost'
      BY <2>1 DEF Accounted
    <3>1. lost' = lost \cup Numbers(pending)
      BY <1>4 DEF Dropped
    <3>2. Numbers(Entries) = Numbers(stored) \cup Numbers(pending)
      BY NumbersOfConcat DEF TypeOK, Entries
    <3>3. Added => FALSE
      <4>1. Len(stored) <= Len(Entries) /\ Len(Entries) \in Nat
        BY ConcatProperties DEF TypeOK, Entries
      <4>2. \A entry \in Entry : Append(Entries, entry) # stored
        BY <1>0, <4>1, AppendProperties
      <4> QED
        BY <2>1, <4>2, EntriesShape
    <3> QED
      BY <3>1, <3>2, <3>3, Shape, Control DEF RowInv, Accounted
  <2> QED
    BY <2>3, <2>4, Control DEF RowInv
<1>5. CASE Added
  <2>1. PICK entry \in Entry : Grown(entry)
    BY <1>5, EntriesShape
  <2> DEFINE len == Len(Entries)
  <2>2. /\ DOMAIN Entries = 1 .. len /\ DOMAIN Entries' = 1 .. len + 1
        /\ len \in Nat
        /\ \A i \in 1 .. len : Entries'[i] = Entries[i]
        /\ Entries'[len + 1].n = row.n
    BY <1>0, <2>1, AppendProperties
  <2>3. pc = "write" /\ pc' = "count" /\ row' = row /\ lost' = lost
    BY <1>5 DEF Added
  <2> HIDE DEF len
  <2>4. EarlierRows'
    BY <1>0, <2>2, <2>3 DEF RowInv, EarlierRows
  <2>5. InOrder'
    BY <1>0, <1>2, <2>2, <2>3 DEF RowInv, EarlierRows, InOrder
  <2>6. Numbers(Entries)' = Numbers(Entries) \cup {row.n}
    <3>1. ASSUME NEW i \in 1 .. len + 1
          PROVE  i \in 1 .. len \/ i = len + 1
      BY <2>2
    <3> QED
      BY <2>2, <3>1 DEF Numbers
  <2>7. Accounted'
    BY <2>3, <2>6, Control DEF RowInv, Accounted
  <2> QED
    BY <2>4, <2>5, <2>7, Control DEF RowInv
<1> QED
  BY <1>3, <1>4, <1>5, Shape

(* The order of the rows holds always.                                     *)
LEMMA RowInvariant == Spec => [](TypeOK /\ Covered /\ RowInv)
  BY InitType, NextType, InitCovered, NextCovered, InitRows, NextRows, PTL
  DEF Spec

(* Each row the program is done with has one entry, in the order of the    *)
(* rows, or a rollback took it: however many inserts, reports and ends of  *)
(* a transaction fail, for every size of a batch and depth of the stack.   *)
THEOREM RowsInOrder == Spec => []EveryRowOnceInOrder
<1>1. RowInv => EveryRowOnceInOrder
  BY DEF RowInv, InOrder, Accounted, EveryRowOnceInOrder
<1> QED
  BY <1>1, RowInvariant, PTL

(* The program that ends after a record leaves none of its rows in an open *)
(* transaction.                                                            *)
THEOREM RecordKept == Spec => []RecordIsKept
<1>1. TypeOK /\ Covered /\ RowInv => RecordIsKept
  <2> SUFFICES ASSUME TypeOK, Covered, RowInv, pc = "exited"
               PROVE  ~open /\ 1 .. row.n \subseteq Numbers(stored) \cup lost
    BY DEF RecordIsKept
  <2>1. ~open /\ pending = <<>>
    BY DEF RowInv, Covered
  <2>2. Entries = stored
    BY <2>1, ConcatEmptySeq DEF TypeOK, Entries
  <2> QED
    BY <2>1, <2>2 DEF RowInv, Accounted, Done
<1> QED
  BY <1>1, RowInvariant, PTL

-----------------------------------------------------------------------------
(* The refinement: the numbers of the entries are the log of EventLog.     *)
Log == [i \in DOMAIN Entries |-> Entries[i].n]

(* The log of the promise, and its durable part.                           *)
LEMMA LogIsSeq ==
  ASSUME TypeOK
  PROVE  /\ Log \in Seq(Nat)
         /\ Len(Log) = Len(Entries) /\ DOMAIN Log = 1 .. Len(Entries)
         /\ Len(stored) \in Nat /\ Len(stored) <= Len(Entries)
         /\ \A i \in 1 .. Len(stored) : Log[i] = stored[i].n
<1>1. Entries \in Seq(Entry)
  BY EntriesShape
<1>2. \A i \in 1 .. Len(Entries) : Entries[i].n \in Nat
  <2> TAKE i \in 1 .. Len(Entries)
  <2>1. Entries[i] \in Entry
    BY <1>1
  <2> QED
    BY <2>1 DEF Entry
<1>3. Log \in [1 .. Len(Entries) -> Nat] /\ Len(Entries) \in Nat
  BY <1>1, <1>2 DEF Log
<1>4. Log \in Seq(Nat) /\ Len(Log) = Len(Entries)
  BY <1>3
<1>5. /\ Len(Entries) = Len(stored) + Len(pending)
      /\ \A i \in 1 .. Len(stored) : Entries[i] = stored[i]
      /\ Len(stored) \in Nat /\ Len(pending) \in Nat
  BY ConcatProperties DEF TypeOK, Entries
<1> QED
  BY <1>3, <1>4, <1>5 DEF Log

(* The log is empty at the start.                                          *)
LEMMA LogInit ==
  ASSUME Init
  PROVE  E!Init
<1>1. Entries = <<>> /\ Len(stored) = 0
  BY DEF Init, Entries
<1>2. Log = <<>>
  BY <1>1 DEF Log
<1> QED
  BY <1>1, <1>2 DEF E!Init, Log

(* Each step is one of the promise, or none.                               *)
LEMMA LogNext ==
  ASSUME TypeOK, Covered, RowInv, [Next]_vars, TypeOK'
  PROVE  [E!Next]_(E!vars)
<1>0. /\ Entries \in Seq(Entry) /\ Entries' \in Seq(Entry)
      /\ stored \in Seq(Entry) /\ pending \in Seq(Entry)
      /\ Len(Entries) = Len(stored) + Len(pending)
  BY EntriesShape, ConcatProperties DEF TypeOK, Entries
<1>1. CASE Same
  BY <1>1 DEF Same, Entries, E!vars
<1>2. CASE Durable
  <2>1. Log' = Log /\ Len(stored') = Len(Log)
    BY <1>2, EntriesShape, LogIsSeq DEF Durable, Log
  <2> QED
    BY <2>1 DEF E!Next, E!Commit, Log
<1>3. CASE Dropped
  <2>1. Entries' = stored /\ stored' = stored
    BY <1>3, EntriesShape DEF Dropped
  <2>2. Log' = SubSeq(Log, 1, Len(stored))
    <3> DEFINE new == [i \in DOMAIN stored |-> stored[i].n]
               cut == SubSeq(Log, 1, Len(stored))
    <3>1. /\ cut \in Seq(Nat) /\ Len(cut) = Len(stored)
          /\ \A i \in 1 .. Len(stored) : cut[i] = stored[i].n
      BY LogIsSeq, SubSeqProperties
    <3>2. cut = new
      BY <1>0, <3>1
    <3> QED
      BY <2>1, <3>2 DEF Log
  <2> QED
    BY <2>1, <2>2 DEF E!Next, E!Lose, Log
<1>4. CASE Added
  <2>1. PICK entry \in Entry :
          entry.n = row.n /\ Entries' = Append(Entries, entry)
    BY <1>4, EntriesShape
  <2>2. row.n \in 1 .. MaxRows /\ row.n \in Nat
    BY <1>4, Bounds DEF Added, RowInv, TypeOK
  <2>3. Log' = Append(Log, row.n)
    <3> DEFINE len == Len(Entries)
               new == [i \in 1 .. len + 1 |-> Entries'[i].n]
               app == Append(Log, row.n)
    <3>1. /\ len \in Nat /\ DOMAIN Entries' = 1 .. len + 1
          /\ \A i \in 1 .. len : Entries'[i] = Entries[i]
          /\ Entries'[len + 1] = entry
      BY <1>0, <2>1, AppendProperties
    <3>2. /\ Log \in Seq(Nat) /\ Len(Log) = len
          /\ \A i \in 1 .. len : Log[i] = Entries[i].n
      BY <1>0, LogIsSeq DEF Log
    <3>3. /\ DOMAIN app = 1 .. len + 1 /\ app[len + 1] = row.n
          /\ \A i \in 1 .. len : app[i] = Log[i]
          /\ app \in Seq(Nat)
      BY <2>2, <3>2, AppendProperties
    <3> HIDE DEF len, app
    <3>4. \A i \in 1 .. len + 1 : app[i] = Entries'[i].n
      <4> TAKE i \in 1 .. len + 1
      <4>1. i \in 1 .. len \/ i = len + 1
        BY <3>1
      <4> QED
        BY <2>1, <3>1, <3>2, <3>3, <4>1
    <3>5. app = [i \in DOMAIN app |-> app[i]]
      BY <3>3
    <3>6. app = new
      BY <3>3, <3>4, <3>5
    <3> QED
      BY <3>1, <3>6 DEF Log, app
  <2>4. \A i \in DOMAIN Log : Log[i] < row.n
    BY <1>4 DEF Log, Added, RowInv, EarlierRows
  <2>5. CASE UNCHANGED stored
    BY <2>2, <2>3, <2>4, <2>5 DEF E!Next, E!Append_row, E!Next_row, Log
  <2>6. CASE pending = <<>> /\ pending' = <<>>
    <3>1. Len(stored) = Len(Log) /\ Len(stored') = Len(Log')
      <4>1. Len(Log) = Len(Entries) /\ Len(Log') = Len(Entries')
        <5>1. Len(Log) = Len(Entries)
          BY LogIsSeq
        <5>2. Len(Log') = Len(Log) + 1
          BY <2>2, <2>3, LogIsSeq, AppendProperties
        <5>3. Len(Entries') = Len(Entries) + 1
          BY <1>0, <2>1, AppendProperties
        <5> QED
          BY <5>1, <5>2, <5>3
      <4>2. Entries = stored /\ Entries' = stored'
        <5>1. stored' \in Seq(Entry)
          BY DEF TypeOK
        <5> QED
          BY <1>0, <2>6, <5>1, ConcatEmptySeq DEF Entries
      <4> QED
        BY <4>1, <4>2
    <3> QED
      BY <2>2, <2>3, <2>4, <3>1 DEF E!Next, E!Append_durable, E!Next_row, Log
  <2> QED
    BY <1>4, <2>5, <2>6 DEF Added
<1> QED
  BY <1>1, <1>2, <1>3, <1>4, Shape

(* The logger and its database keep the promise of EventLog.               *)
THEOREM Refinement == Spec => ImplementsEventLog
<1>1. TypeOK /\ Covered /\ RowInv /\ [Next]_vars => [E!Next]_(E!vars)
  BY LogNext, NextType
<1> QED
  BY <1>1, LogInit, RowInvariant, PTL DEF Spec, ImplementsEventLog, E!Spec
=============================================================================
