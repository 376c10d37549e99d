-------------------------- MODULE Safeguard_proofs --------------------------
(***************************************************************************)
(* Proofs about the safeguard's accounting, for every number of threads,   *)
(* every leniency and every width of the counters above two values.        *)
(***************************************************************************)
EXTENDS Safeguard, TLAPS

(* How many answers of thread i the safeguard has not seen, as far as the  *)
(* low words tell: the conversion to an int leaves these alone.            *)
Distance(a, s) == IF a.lo >= s.lo THEN a.lo - s.lo ELSE a.lo - s.lo + Word

Unseen(i) == Distance(answers[i], seen[i])

One(b) == IF b THEN 1 ELSE 0

(* The check of thread i in this round has yet to come, or to store.       *)
Due(i) ==
  /\ pc \in {"check", "store", "restart", "undefined"}
  /\ i > k \/ (i = k /\ pc \in {"check", "store"})

(* The answers not seen and those to come are never a full turn of the low *)
(* word: a round adds one signal, a check takes all that are counted.      *)
Open(i) == Unseen(i) + One(pending[i]) + One(handler[i] # "none")

FewUnseen(i) == Open(i) <= IF Due(i) THEN 3 ELSE 2

Signalled(i) ==
  Due(i) /\ alive[i] => pending[i] \/ handler[i] = "own" \/ Unseen(i) # 0

(* The least number an int can hold.                                       *)
Least == [hi |-> Words - 1, lo |-> Half]

(* The answers fit an int, also without the last one if that can have been *)
(* a stray one.                                                            *)
Fits(i) == AsInt(answers[i]) = answers[i] /\ (handler[i] # "stray" => answers[i] # Least)

(* A check of thread i would find an answer that no store is about to keep.*)
Unstored(i) == seen[i] # answers[i] /\ ~(pc = "store" /\ k = i)

(* A thread that returned answers no more: its last answer, and a stray    *)
(* one, are each seen by one check, as long as they fit an int.            *)
Silenced(i) ==
  /\ ~alive[i] => ~pending[i] /\ handler[i] # "own"
  /\ alive[i] => gone[i] = 0
  /\ Fits(i) =>
       gone[i] + One(Unstored(i)) + One(handler[i] = "stray") <= tickcount[i] + 2

Earned(i) == tickcount[i] <= late[i] + gone[i]

IInv ==
  /\ TypeOK
  /\ pc = "round" => k = 0
  /\ \A i \in Indices : FewUnseen(i) /\ Signalled(i) /\ Silenced(i) /\ Earned(i)

-----------------------------------------------------------------------------
(* The counters: what one more answer, and the way through an int, make of *)
(* a counter.                                                              *)
LEMMA IncCounter ==
  ASSUME NEW n \in Counters
  PROVE  /\ Inc(n) \in Counters
         /\ \A s \in Counters :
              /\ Distance(n, s) \in 0 .. Word - 1
              /\ Distance(n, s) + 1 < Word => Distance(Inc(n), s) = Distance(n, s) + 1
<1>1. PICK h \in 0 .. Words - 1, l \in 0 .. Word - 1 : n = [hi |-> h, lo |-> l]
  BY DEF Counters
<1>2. CASE l + 1 < Word
  <2>1. Inc(n) = [hi |-> h, lo |-> l + 1]
    BY <1>1, <1>2 DEF Inc
  <2> QED
    BY <1>1, <1>2, <2>1, WidthAssumption DEF Counters, Distance, Word
<1>3. CASE ~(l + 1 < Word)
  <2>1. PICK g \in 0 .. Words - 1 : Inc(n) = [hi |-> g, lo |-> 0]
    BY <1>1, <1>3, WidthAssumption DEF Inc
  <2>2. l = Word - 1
    BY <1>3, WidthAssumption DEF Word
  <2> QED
    BY <1>1, <2>1, <2>2, WidthAssumption DEF Counters, Distance, Word
<1> QED
  BY <1>2, <1>3

LEMMA AsIntCounter ==
  ASSUME NEW n \in Counters
  PROVE  AsInt(n) \in Counters /\ AsInt(n).lo = n.lo
BY WidthAssumption DEF Counters, AsInt

(* No counter is at a distance of itself, nor of its copy as an int.       *)
LEMMA NoDistance ==
  ASSUME NEW n \in Counters
  PROVE  Distance(n, n) = 0 /\ Distance(n, AsInt(n)) = 0
BY AsIntCounter, WidthAssumption DEF Counters, Distance, Word

(* A counter that one more answer has taken into the range of an int was   *)
(* in it before, unless it was taken to the least number.                  *)
LEMMA FitsBefore ==
  ASSUME NEW n \in Counters, AsInt(Inc(n)) = Inc(n), Inc(n) # Least
  PROVE  AsInt(n) = n
<1>1. PICK h \in 0 .. Words - 1, l \in 0 .. Word - 1 : n = [hi |-> h, lo |-> l]
  BY DEF Counters
<1>2. CASE l + 1 < Word
  <2>1. Inc(n) = [hi |-> h, lo |-> l + 1]
    BY <1>1, <1>2 DEF Inc
  <2>2. h = IF l + 1 < Half THEN 0 ELSE Words - 1
    BY <2>1 DEF AsInt
  <2>3. l + 1 # Half \/ h # Words - 1
    BY <2>1 DEF Least
  <2> QED
    BY <1>1, <2>2, <2>3, WidthAssumption DEF AsInt, Word
<1>3. CASE ~(l + 1 < Word)
  <2>1. Inc(n) = [hi |-> IF h + 1 = Words THEN 0 ELSE h + 1, lo |-> 0]
    BY <1>1, <1>3 DEF Inc
  <2>2. (IF h + 1 = Words THEN 0 ELSE h + 1) = 0
    BY <2>1, WidthAssumption DEF AsInt
  <2>3. h = Words - 1 /\ l = Word - 1
    BY <1>3, <2>2, WidthAssumption DEF Word
  <2> QED
    BY <1>1, <2>3, WidthAssumption DEF AsInt, Word
<1> QED
  BY <1>2, <1>3

LEMMA SmallFits == ASSUME NEW n \in Counters, Small(n) PROVE AsInt(n) = n /\ n # Least
BY WidthAssumption DEF Small, AsInt, Counters, Least, Word

(* The distance is a number below a full turn.                             *)
LEMMA UnseenType == ASSUME TypeOK, NEW i \in Indices PROVE Unseen(i) \in 0 .. Word - 1
BY IncCounter DEF TypeOK, Unseen

-----------------------------------------------------------------------------
(* The invariant holds at the start.                                       *)
LEMMA InitInv == Init => IInv
<1> SUFFICES ASSUME Init PROVE IInv
  OBVIOUS
<1>1. Zero \in Counters
  BY WidthAssumption DEF Zero, Counters, Word
<1>2. TypeOK
  <2>1. 0 \in Indices
    BY SizeAssumption DEF Indices
  <2>2. \A i \in Indices : tickcount[i] <= leniency[i]
    BY LeniencyAssumption DEF Init
  <2> QED
    BY <1>1, <2>1, <2>2 DEF Init, TypeOK
<1>3. Distance(Zero, Zero) = 0
  BY <1>1, NoDistance
<1>4. \A i \in Indices : FewUnseen(i) /\ Signalled(i) /\ Silenced(i) /\ Earned(i)
  BY <1>3 DEF Init, FewUnseen, Open, One, Unseen, Signalled, Silenced, Unstored,
              Earned, Due
<1> QED
  BY <1>2, <1>4 DEF Init, IInv

(* A new round keeps it.                                                   *)
LEMMA RoundInv == IInv /\ Round => IInv'
<1> SUFFICES ASSUME IInv, Round PROVE IInv'
  OBVIOUS
<1>1. /\ k' = k /\ k = 0 /\ pc = "round"
      /\ pc' \in {"check", "stopped"}
      /\ pc' = "check" => pending' = alive
      /\ pc' = "stopped" => pending' = pending
      /\ UNCHANGED <<tickcount, seen, answers, handler, alive, crashed, late, gone>>
  BY DEF Round, IInv, keep_alive, history
<1>2. TypeOK'
  BY <1>1 DEF IInv, TypeOK
<1>3. \A i \in Indices : ~Due(i) /\ (Due(i)' <=> pc' = "check")
  BY <1>1, SizeAssumption DEF Due, Indices
<1>4. ASSUME NEW i \in Indices
      PROVE  FewUnseen(i)' /\ Signalled(i)'
  <2>1. Unseen(i)' = Unseen(i) /\ Unseen(i) \in Nat
    BY <1>1, UnseenType, WidthAssumption DEF IInv, Unseen, Word
  <2>2. Open(i)' <= Open(i) + 1 /\ Open(i) \in Nat /\ Open(i)' \in Nat
    BY <1>1, <2>1 DEF Open, One
  <2>3. Open(i) <= 2
    BY <1>3 DEF IInv, FewUnseen
  <2>4. pc' = "stopped" => Open(i)' = Open(i)
    BY <1>1, <2>1 DEF Open
  <2>5. FewUnseen(i)'
    BY <1>1, <1>3, <2>2, <2>3, <2>4 DEF FewUnseen
  <2> QED
    BY <1>1, <1>3, <2>5 DEF Signalled
<1>5. \A i \in Indices : Silenced(i)' /\ Earned(i)'
  BY <1>1 DEF IInv, TypeOK, Silenced, Fits, Unstored, Earned
<1> QED
  BY <1>1, <1>2, <1>4, <1>5 DEF IInv

(* So does a handler that finds its index,                                 *)
LEMMA FindInv == ASSUME NEW i \in Indices, IInv, Find(i) PROVE IInv'
<1>1. /\ pending[i] /\ alive[i] /\ handler[i] = "none"
      /\ ~pending'[i] /\ handler'[i] = "own"
      /\ \A j \in Indices : j # i => pending'[j] = pending[j] /\ handler'[j] = handler[j]
      /\ UNCHANGED <<pc, k, tickcount, seen, answers, alive, late, gone>>
  BY DEF Find, IInv, TypeOK, main, keep_alive, history
<1>2. TypeOK'
  BY DEF Find, IInv, TypeOK, main, keep_alive, history
<1>3. \A j \in Indices : Unseen(j)' = Unseen(j) /\ Unseen(j) \in Nat
  BY <1>1, UnseenType, WidthAssumption DEF IInv, Unseen, Word
<1>4. \A j \in Indices : Open(j)' = Open(j)
  BY <1>1, <1>3 DEF Open, One
<1>5. \A j \in Indices : FewUnseen(j)' /\ Signalled(j)'
  BY <1>1, <1>3, <1>4 DEF IInv, FewUnseen, Signalled, Due
<1>6. \A j \in Indices : Silenced(j)' /\ Earned(j)'
  BY <1>1 DEF IInv, Silenced, Fits, Unstored, Earned
<1> QED
  BY <1>1, <1>2, <1>5, <1>6 DEF IInv

(* and one that counts, at any moment of the round,                        *)
LEMMA AnswerInv == ASSUME NEW i \in Indices, IInv, Answer(i) PROVE IInv'
<1>1. /\ handler[i] \in {"own", "stray"} /\ handler'[i] = "none"
      /\ answers'[i] = Inc(answers[i])
      /\ \A j \in Indices : j # i => answers'[j] = answers[j] /\ handler'[j] = handler[j]
      /\ UNCHANGED <<pc, k, tickcount, seen, pending, alive, late, gone>>
  BY DEF Answer, IInv, TypeOK, main, history
<1>2. answers[i] \in Counters /\ seen[i] \in Counters
  BY DEF IInv, TypeOK
<1>3. TypeOK'
  BY <1>2, IncCounter DEF Answer, IInv, TypeOK, main, history
<1>4. Unseen(i) + 1 < Word /\ Unseen(i) \in Nat
  <2>1. Unseen(i) \in Nat
    BY UnseenType, WidthAssumption DEF IInv, Word
  <2>2. Open(i) <= 3
    BY <2>1 DEF IInv, FewUnseen, Open, One
  <2> QED
    BY <1>1, <2>1, <2>2, WidthAssumption DEF Open, One, Word
<1>5. Unseen(i)' = Unseen(i) + 1
  BY <1>1, <1>2, <1>4, IncCounter DEF Unseen
<1>6. Open(i)' = Open(i)
  BY <1>1, <1>4, <1>5 DEF Open, One
<1>7. \A j \in Indices : j # i => Unseen(j)' = Unseen(j) /\ Open(j)' = Open(j)
  BY <1>1 DEF Unseen, Open
<1>8. \A j \in Indices : FewUnseen(j)' /\ Signalled(j)'
  BY <1>1, <1>4, <1>5, <1>6, <1>7 DEF IInv, FewUnseen, Signalled, Due
<1>9. Silenced(i)'
  <2>1. CASE alive[i]
    BY <1>1, <2>1 DEF IInv, TypeOK, Silenced, One
  <2>2. CASE ~alive[i]
    <3>1. handler[i] = "stray"
      BY <1>1, <2>2 DEF IInv, Silenced
    <3>2. Fits(i)' => Fits(i)
      BY <1>1, <1>2, <3>1, FitsBefore DEF Fits
    <3>3. Fits(i) => gone[i] + One(Unstored(i)) + 1 <= tickcount[i] + 2
      BY <3>1 DEF IInv, Silenced, One
    <3>4. gone[i] \in Nat /\ tickcount[i] \in Nat
      BY DEF IInv, TypeOK
    <3>5. Fits(i)' => gone'[i] + One(Unstored(i))' + One(handler'[i] = "stray")
                        <= tickcount'[i] + 2
      BY <1>1, <3>2, <3>3, <3>4 DEF One
    <3> QED
      BY <1>1, <2>2, <3>5 DEF IInv, Silenced
  <2> QED
    BY <2>1, <2>2
<1>10. \A j \in Indices : j # i => Silenced(j)'
  BY <1>1 DEF IInv, Silenced, Fits, Unstored
<1>11. \A j \in Indices : Earned(j)'
  BY <1>1 DEF IInv, Earned
<1> QED
  BY <1>1, <1>3, <1>8, <1>9, <1>10, <1>11 DEF IInv

(* The turn of the loop leaves the threads due that were due, but for k.   *)
LEMMA NextTurn ==
  ASSUME TypeOK, Next_k, pc \in {"check", "store", "restart"}
  PROVE  /\ k' \in Indices /\ pc' \in {"check", "round"}
         /\ pc' = "round" => k' = 0
         /\ \A j \in Indices : Due(j)' <=> Due(j) /\ j # k
<1>0. /\ k \in Nat /\ size \in Nat /\ Indices = 0 .. size - 1
      /\ pc \in {"check", "store", "restart"}
  BY SizeAssumption DEF TypeOK, Indices
<1> USE SizeAssumption DEF TypeOK, Indices
<1>1. CASE k + 1 < size /\ pc' = "check" /\ k' = k + 1
  <2>1. ASSUME NEW j \in Indices PROVE Due(j)' <=> j >= k + 1
    BY <1>1 DEF Due
  <2>2. ASSUME NEW j \in Indices PROVE (Due(j) /\ j # k) <=> j >= k + 1
    <3>1. j \in Nat
      OBVIOUS
    <3>2. Due(j) /\ j # k <=> j > k
      BY <1>0, <3>1 DEF Due
    <3> QED
      BY <1>0, <3>1, <3>2
  <2>3. k' \in Indices
    BY <1>1
  <2> QED
    BY <1>1, <2>1, <2>2, <2>3
<1>2. CASE k + 1 = size /\ pc' = "round" /\ k' = 0
  BY <1>2 DEF Due
<1> QED
  BY <1>1, <1>2 DEF Next_k

(* the comparison with the last counter,                                   *)
LEMMA CheckInv == IInv /\ Check => IInv'
<1> SUFFICES ASSUME IInv, Check, NEW c \in Indices, c = k PROVE IInv'
  BY DEF IInv, TypeOK
<1> USE DEF IInv
<1>1. /\ late' \in [Indices -> Nat] /\ gone' \in [Indices -> Nat]
      /\ \A j \in Indices : j # c => late'[j] = late[j] /\ gone'[j] = gone[j]
      /\ UNCHANGED <<seen, answers, pending, handler, alive>>
  BY LeniencyAssumption DEF Check, Counted, TypeOK, keep_alive, signals
<1>2. \A j \in Indices : Unseen(j)' = Unseen(j) /\ Open(j)' = Open(j)
  BY <1>1 DEF Unseen, Open
<1>3. gone'[c] \in {gone[c], gone[c] + 1} /\ (alive[c] => gone'[c] = gone[c])
  BY <1>1, LeniencyAssumption DEF Check, Counted, TypeOK
<1>4. gone[c] \in Nat /\ tickcount[c] \in Nat /\ late[c] \in Nat
  BY DEF TypeOK
<1>5. CASE Answered(c) /\ pc' = "store" /\ UNCHANGED <<k, tickcount>>
  <2>1. TypeOK'
    BY <1>1, <1>5 DEF Check, TypeOK, keep_alive, signals
  <2>2. \A j \in Indices : Due(j)' <=> Due(j)
    BY <1>1, <1>5 DEF Check, Due
  <2>3. \A j \in Indices : FewUnseen(j)' /\ Signalled(j)'
    BY <1>1, <1>2, <2>2 DEF FewUnseen, Signalled
  <2>4. \A j \in Indices : j # c => Silenced(j)' /\ Earned(j)'
    BY <1>1, <1>5 DEF Check, Silenced, Fits, Unstored, Earned
  <2>5. Silenced(c)'
    <3>1. Unstored(c) /\ ~Unstored(c)'
      BY <1>5 DEF Check, Unstored, Answered
    <3>2. Fits(c) => gone[c] + 1 + One(handler[c] = "stray") <= tickcount[c] + 2
      BY <3>1 DEF Silenced, One
    <3>3. Fits(c)' => gone'[c] + One(Unstored(c))' + One(handler'[c] = "stray")
                        <= tickcount'[c] + 2
      BY <1>1, <1>3, <1>4, <1>5, <3>1, <3>2 DEF Fits, One
    <3> QED
      BY <1>1, <1>3, <3>3 DEF Silenced
  <2>6. Earned(c)'
    <3>1. late'[c] >= late[c] /\ late'[c] \in Nat
      BY <1>1, LeniencyAssumption DEF Check, Counted, TypeOK
    <3> QED
      BY <1>3, <1>4, <1>5, <3>1 DEF Earned
  <2> QED
    BY <1>5, <2>1, <2>3, <2>4, <2>5, <2>6
<1>6. CASE /\ ~Answered(c)
           /\ tickcount' = [tickcount EXCEPT ![c] = @ + 1]
           /\ \/ Exceeded(c) /\ pc' = "restart" /\ UNCHANGED k
              \/ ~Exceeded(c) /\ Next_k
  <2>1. /\ tickcount' \in [Indices -> Nat] /\ tickcount'[c] = tickcount[c] + 1
        /\ \A j \in Indices : j # c => tickcount'[j] = tickcount[j]
        /\ tickcount[c] <= leniency[c] /\ leniency[c] \in Nat
    <3>1. tickcount' \in [Indices -> Nat] /\ tickcount'[c] = tickcount[c] + 1
      BY <1>6 DEF TypeOK
    <3>2. \A j \in Indices : j # c => tickcount'[j] = tickcount[j]
      BY <1>6 DEF TypeOK
    <3>3. tickcount[c] <= leniency[c] /\ leniency[c] \in Nat
      BY LeniencyAssumption DEF TypeOK, Check
    <3> QED
      BY <3>1, <3>2, <3>3
  <2>2. /\ k' \in Indices /\ pc' \in {"check", "round", "restart"}
        /\ pc' = "round" => k' = 0
        /\ \A j \in Indices : Due(j)' <=> Due(j) /\ j # c
    <3>1. CASE Exceeded(c) /\ pc' = "restart" /\ UNCHANGED k
      BY <1>1, <3>1 DEF Check, Due, TypeOK, Indices
    <3>2. CASE Next_k
      BY <3>2, NextTurn DEF Check
    <3> QED
      BY <1>6, <3>1, <3>2
  <2>3. TypeOK'
    <3>1. \A j \in Indices : j # c => tickcount'[j] <= leniency[j]
      BY <2>1 DEF Check, TypeOK
    <3>2. \/ tickcount'[c] <= leniency[c]
          \/ pc' = "restart" /\ k' = c /\ tickcount'[c] = leniency[c] + 1
      BY <1>6, <2>1 DEF Exceeded, TypeOK
    <3>3. \A j \in Indices :
            \/ tickcount'[j] <= leniency[j]
            \/ pc' = "restart" /\ k' = j /\ tickcount'[j] = leniency[j] + 1
      BY <3>1, <3>2
    <3> QED
      BY <1>1, <2>1, <2>2, <3>3 DEF TypeOK, Check
  <2>4. Unseen(c) = 0
    BY <1>6, NoDistance DEF Answered, Unseen, TypeOK
  <2>5. Open(c) <= 2
    BY <2>4 DEF Open, One
  <2>6. \A j \in Indices : FewUnseen(j)' /\ Signalled(j)'
    BY <1>1, <1>2, <2>2, <2>5 DEF FewUnseen, Signalled
  <2>7. \A j \in Indices : j # c => Silenced(j)' /\ Earned(j)'
    BY <1>1, <2>1, <2>2 DEF Check, Silenced, Fits, Unstored, Earned
  <2>8. Silenced(c)'
    <3>1. ~Unstored(c) /\ ~Unstored(c)'
      BY <1>1, <1>6 DEF Unstored, Answered
    <3>2. Fits(c) => gone[c] + One(handler[c] = "stray") <= tickcount[c] + 2
      BY <1>4, <3>1 DEF Silenced, One
    <3>3. Fits(c)' => gone'[c] + One(Unstored(c))' + One(handler'[c] = "stray")
                        <= tickcount'[c] + 2
      BY <1>1, <1>3, <1>4, <2>1, <3>1, <3>2 DEF Fits, One
    <3> QED
      BY <1>1, <1>3, <3>3 DEF Silenced
  <2>9. Earned(c)'
    <3>1. ~alive[c] \/ pending[c] \/ handler[c] = "own"
      BY <2>4 DEF Check, Signalled, Due
    <3>2. tickcount[c] + 1 <= late'[c] + gone'[c]
      BY <1>1, <2>1, <3>1, LeniencyAssumption
      DEF Check, Counted, Earned, TypeOK, Silenced
    <3> QED
      BY <2>1, <3>2 DEF Earned
  <2> QED
    BY <2>2, <2>3, <2>6, <2>7, <2>8, <2>9
<1> QED
  BY <1>5, <1>6 DEF Check

(* the counter kept for the next round, a step of its own,                 *)
LEMMA StoreInv == IInv /\ Store => IInv'
<1> SUFFICES ASSUME IInv, Store, NEW c \in Indices, c = k PROVE IInv'
  BY DEF IInv, TypeOK
<1> USE DEF IInv
<1>1. /\ k' \in Indices /\ pc' \in {"check", "round"}
      /\ pc' = "round" => k' = 0
      /\ \A j \in Indices : Due(j)' <=> Due(j) /\ j # c
  BY NextTurn DEF Store
<1>2. /\ seen'[c] = AsInt(answers[c])
      /\ \A j \in Indices : j # c => seen'[j] = seen[j]
      /\ UNCHANGED <<tickcount, answers, pending, handler, alive, late, gone>>
  BY DEF Store, TypeOK, history, signals
<1>3. answers[c] \in Counters /\ AsInt(answers[c]) \in Counters
  BY AsIntCounter DEF TypeOK
<1>4. TypeOK'
  BY <1>1, <1>2, <1>3 DEF Store, TypeOK, signals
<1>5. ~Due(c)'
  BY <1>1 DEF TypeOK
<1>6. Unseen(c)' = 0
  BY <1>2, <1>3, NoDistance DEF Unseen
<1>7. Open(c)' <= 2
  BY <1>6 DEF Open, One
<1>8. \A j \in Indices : j # c => Unseen(j)' = Unseen(j) /\ Open(j)' = Open(j)
  BY <1>2 DEF Unseen, Open
<1>9. \A j \in Indices : FewUnseen(j)' /\ Signalled(j)'
  BY <1>1, <1>2, <1>5, <1>7, <1>8 DEF FewUnseen, Signalled
<1>10. Silenced(c)'
  <2>1. ~Unstored(c) /\ (Fits(c)' => ~Unstored(c)')
    BY <1>2 DEF Store, Unstored, Fits
  <2> QED
    BY <1>2, <2>1 DEF Silenced, Fits, One
<1>11. \A j \in Indices : j # c => Silenced(j)'
  BY <1>1, <1>2 DEF Store, Silenced, Fits, Unstored
<1>12. \A j \in Indices : Earned(j)'
  BY <1>2 DEF Earned
<1> QED
  BY <1>1, <1>4, <1>9, <1>10, <1>11, <1>12

(* a restart,                                                              *)
LEMMA RestartInv == IInv /\ Restart => IInv'
<1> SUFFICES ASSUME IInv, Restart, NEW c \in Indices, c = k PROVE IInv'
  BY DEF IInv, TypeOK
<1> USE DEF IInv
<1>1. /\ k' \in Indices /\ pc' \in {"check", "round", "undefined"}
      /\ pc' = "round" => k' = 0
      /\ \A j \in Indices : Due(j)' <=> Due(j) /\ j # c
  <2>1. CASE Next_k
    BY <2>1, NextTurn DEF Restart
  <2>2. CASE pc' = "undefined" /\ UNCHANGED k
    BY <2>2 DEF Restart, Due, TypeOK, Indices
  <2> QED
    BY <2>1, <2>2 DEF Restart
<1>2. /\ ~pending'[c] /\ alive'[c] /\ handler'[c] # "own"
      /\ handler'[c] # "none" <=> handler[c] # "none"
      /\ tickcount'[c] = 0 /\ late'[c] = 0 /\ gone'[c] = 0
      /\ \A j \in Indices : j # c =>
           /\ pending'[j] = pending[j] /\ alive'[j] = alive[j]
           /\ handler'[j] = handler[j]
           /\ tickcount'[j] = tickcount[j] /\ late'[j] = late[j] /\ gone'[j] = gone[j]
      /\ UNCHANGED <<seen, answers>>
  BY DEF Restart, TypeOK, keep_alive
<1>3. TypeOK'
  <2>1. \A j \in Indices : tickcount'[j] <= leniency[j]
    <3>1. \A j \in Indices : j # c => tickcount[j] <= leniency[j]
      BY DEF TypeOK
    <3>2. tickcount'[c] <= leniency[c]
      BY <1>2, LeniencyAssumption
    <3> QED
      BY <1>2, <3>1, <3>2
  <2>2. /\ tickcount' \in [Indices -> Nat]
        /\ late' \in [Indices -> Nat] /\ gone' \in [Indices -> Nat]
        /\ pending' \in [Indices -> BOOLEAN] /\ alive' \in [Indices -> BOOLEAN]
        /\ handler' \in [Indices -> {"none", "own", "stray"}]
    BY DEF Restart, TypeOK
  <2> QED
    BY <1>1, <1>2, <2>1, <2>2 DEF Restart, TypeOK
<1>4. ~Due(c) /\ ~Due(c)'
  BY <1>1 DEF Restart, Due, TypeOK, Indices
<1>5. \A j \in Indices :
        /\ Unseen(j)' = Unseen(j) /\ Unseen(j) \in Nat
        /\ j # c => Open(j)' = Open(j)
  BY <1>2, UnseenType, WidthAssumption DEF Unseen, Open, Word
<1>6. Open(c)' <= 2
  <2>1. Open(c) <= 2
    BY <1>4 DEF FewUnseen
  <2> QED
    BY <1>2, <1>5, <2>1 DEF Open, One
<1>7. \A j \in Indices : FewUnseen(j)' /\ Signalled(j)'
  BY <1>1, <1>2, <1>4, <1>5, <1>6 DEF FewUnseen, Signalled
<1>8. Silenced(c)'
  BY <1>2 DEF Silenced, One
<1>9. \A j \in Indices : j # c => Silenced(j)'
  BY <1>1, <1>2 DEF Restart, Silenced, Fits, Unstored
<1>10. \A j \in Indices : Earned(j)'
  BY <1>2 DEF Earned
<1> QED
  BY <1>1, <1>3, <1>7, <1>8, <1>9, <1>10

(* and a thread that returns.                                              *)
LEMMA ReturnInv == ASSUME NEW i \in Indices, IInv, Return(i) PROVE IInv'
<1>1. /\ ~pending'[i] /\ ~alive'[i] /\ handler[i] # "own" /\ alive[i]
      /\ \A j \in Indices : j # i => pending'[j] = pending[j] /\ alive'[j] = alive[j]
      /\ UNCHANGED <<pc, k, tickcount, seen, answers, handler, late, gone>>
  BY DEF Return, IInv, TypeOK, main, keep_alive, history
<1>2. TypeOK'
  BY DEF Return, IInv, TypeOK, main, keep_alive, history
<1>3. \A j \in Indices :
        /\ Unseen(j)' = Unseen(j) /\ Unseen(j) \in Nat
        /\ Due(j)' <=> Due(j)
        /\ j # i => Open(j)' = Open(j)
  BY <1>1, UnseenType, WidthAssumption DEF IInv, Unseen, Open, Due, Word
<1>4. Open(i)' <= Open(i) /\ Open(i) \in Nat /\ Open(i)' \in Nat
  BY <1>1, <1>3 DEF Open, One
<1>5. \A j \in Indices : FewUnseen(j)'
  BY <1>3, <1>4 DEF IInv, FewUnseen
<1>6. \A j \in Indices : Signalled(j)'
  BY <1>1, <1>3 DEF IInv, Signalled
<1>7. \A j \in Indices : Silenced(j)' /\ Earned(j)'
  BY <1>1 DEF IInv, Silenced, Fits, Unstored, Earned
<1> QED
  BY <1>1, <1>2, <1>5, <1>6, <1>7 DEF IInv

(* The accounting of answers, checks and ticks is an invariant.            *)
LEMMA Inductive == Spec => []IInv
<1>1. IInv /\ [Next]_vars => IInv'
  <2> SUFFICES ASSUME IInv, [Next]_vars PROVE IInv'
    OBVIOUS
  <2>1. CASE Main
    BY <2>1, RoundInv, CheckInv, StoreInv, RestartInv DEF Main
  <2>2. CASE RecordEnds
    BY <2>2 DEF RecordEnds, IInv, TypeOK, FewUnseen, Open, Unseen, Signalled,
                Silenced, Fits, Unstored, Earned, Due, main, keep_alive, signals,
                history
  <2>3. CASE \E i \in Indices : Find(i) \/ Answer(i) \/ Return(i)
    BY <2>3, FindInv, AnswerInv, ReturnInv
  <2>4. CASE UNCHANGED vars
    BY <2>4 DEF vars, IInv, TypeOK, FewUnseen, Open, Unseen, Signalled, Silenced,
                Fits, Unstored, Earned, Due, main, keep_alive, signals, history
  <2> QED
    BY <2>1, <2>2, <2>3, <2>4 DEF Next
<1> QED
  BY <1>1, InitInv, PTL DEF Spec

(* The ticks of a thread never exceed its leniency by more than the one    *)
(* that restarts it, in the loop of safeguard_check_responce.              *)
THEOREM TypeCorrect == Spec => []TypeOK
  BY Inductive, PTL DEF IInv

(* A thread that returned is restarted within its leniency, for as long as *)
(* its answers, which safeguard_check_responce keeps by way of an int, fit *)
(* one: no check can take an old answer for a new one twice, and at most   *)
(* one answer of a predecessor can come.                                   *)
THEOREM ReturnNoticed == Spec => []ReturnIsNoticed
<1>1. IInv => ReturnIsNoticed
  <2> SUFFICES ASSUME IInv, NEW i \in Indices, Small(answers[i])
               PROVE  \/ gone[i] <= leniency[i] + 2
                      \/ pc = "restart" /\ k = i /\ gone[i] = leniency[i] + 3
    BY DEF ReturnIsNoticed
  <2>1. Fits(i)
    BY SmallFits DEF IInv, TypeOK, Fits
  <2>2. gone[i] <= tickcount[i] + 2
    BY <2>1 DEF IInv, TypeOK, Silenced, One
  <2> QED
    BY <2>2, LeniencyAssumption DEF IInv, TypeOK
<1> QED
  BY <1>1, Inductive, PTL

(* No thread is charged a tick for a check it was in time for, whatever    *)
(* answers come between the steps of safeguard_check_responce, and however *)
(* many have come before.                                                  *)
THEOREM TicksEarned == Spec => []TicksAreEarned
<1>1. IInv => TicksAreEarned
  BY DEF IInv, Earned, TicksAreEarned
<1> QED
  BY <1>1, Inductive, PTL
=============================================================================
