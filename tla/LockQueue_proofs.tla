-------------------------- MODULE LockQueue_proofs --------------------------
(***************************************************************************)
(* What is proved of the queue with a mutex for every number of threads,   *)
(* every capacity and every size of a mail: it is a mailbox.               *)
(***************************************************************************)
EXTENDS LockQueue, SequenceTheorems, TLAPS

-----------------------------------------------------------------------------
(* The block: mails that fit in it, and one that does not when it shrank.  *)

(* A slot below the size of the array lies in the block.                   *)
LEMMA RoomInBlock ==
  ASSUME NEW n \in Nat, NEW c \in Nat, NEW m \in Nat, n < c
  PROVE  (n + 1) * m <= c * m
<1>1. PICK k \in Nat : c = n + 1 + k
  <2>1. c - (n + 1) \in Nat
    OBVIOUS
  <2> QED BY <2>1
<1>2. c * m = (n + 1) * m + k * m
  BY <1>1
<1>3. k * m \in Nat /\ (n + 1) * m \in Nat
  OBVIOUS
<1> QED
  BY <1>2, <1>3

(* A block of smaller items ends before the slot after its last one.       *)
LEMMA NoRoomInShrunkBlock ==
  ASSUME NEW c \in Nat, NEW s \in Nat, NEW m \in Nat, s < m
  PROVE  c * s < (c + 1) * m
<1>1. PICK k \in Nat : m = s + 1 + k
  <2>1. m - (s + 1) \in Nat
    OBVIOUS
  <2> QED BY <2>1
<1>2. (c + 1) * m = c * s + c + c * k + m
  BY <1>1
<1>3. c * s \in Nat /\ c * k \in Nat
  OBVIOUS
<1> QED
  BY <1>1, <1>2, <1>3

-----------------------------------------------------------------------------
(* The window between start and end, as a sequence.                        *)

(* The mails from f to e, for any array of them.                           *)
LEMMA WindowType ==
  ASSUME NEW M, NEW b \in [Slots -> M], NEW f \in Nat, NEW e \in Nat,
         f <= e, e <= Capacity
  PROVE  /\ Window(b, f, e) \in Seq(M)
         /\ Len(Window(b, f, e)) = e - f
<1> DEFINE n == e - f
           x(i) == b[f + i - 1]
<1>1. n \in Nat /\ Capacity \in Nat
  BY SizeAssumption
<1>2. \A i \in 1 .. n : x(i) \in M
  <2> TAKE i \in 1 .. n
  <2>1. f + i - 1 \in Slots
    BY <1>1 DEF Slots
  <2> QED
    BY <2>1
<1>3. Window(b, f, e) = [i \in 1 .. n |-> x(i)]
  BY DEF Window
<1> HIDE DEF n, x
<1>4. [i \in 1 .. n |-> x(i)] \in Seq(M) /\ Len([i \in 1 .. n |-> x(i)]) = n
  BY <1>1, <1>2
<1> QED
  BY <1>3, <1>4 DEF n, x

(* There are none if the indices meet.                                     *)
LEMMA WindowEmpty ==
  ASSUME NEW b, NEW f \in Nat, NEW e \in Nat, e <= f
  PROVE  Window(b, f, e) = <<>>
<1>1. 1 .. e - f = {}
  OBVIOUS
<1> QED
  BY <1>1 DEF Window

(* A pop takes the first of them.                                          *)
LEMMA WindowTaken ==
  ASSUME NEW M, NEW b \in [Slots -> M], NEW f \in Nat, NEW e \in Nat,
         f < e, e <= Capacity
  PROVE  /\ Window(b, f, e) # <<>>
         /\ Head(Window(b, f, e)) = b[f]
         /\ Tail(Window(b, f, e)) = Window(b, f + 1, e)
<1> DEFINE w == Window(b, f, e)
           v == Window(b, f + 1, e)
<1>0. f <= e /\ f + 1 \in Nat /\ f + 1 <= e
  OBVIOUS
<1>1. w \in Seq(M) /\ Len(w) = e - f
  BY <1>0, WindowType
<1>2. v \in Seq(M) /\ Len(v) = e - (f + 1)
  BY <1>0, WindowType
<1>3. \A i \in 1 .. e - f : w[i] = b[f + i - 1]
  BY DEF Window
<1>4. \A i \in 1 .. e - (f + 1) : v[i] = b[(f + 1) + i - 1]
  BY DEF Window
<1> HIDE DEF w, v
<1>5. w # <<>> /\ Head(w) = b[f]
  BY <1>0, <1>1, <1>3
<1>6. /\ Tail(w) \in Seq(M) /\ Len(Tail(w)) = e - (f + 1)
      /\ \A i \in 1 .. e - (f + 1) : Tail(w)[i] = w[i + 1]
  BY <1>1, <1>5
<1>7. \A i \in 1 .. e - (f + 1) : Tail(w)[i] = v[i]
  BY <1>0, <1>6, <1>3, <1>4
<1>8. Tail(w) = v
  BY <1>2, <1>6, <1>7, SeqEqual
<1> QED
  BY <1>5, <1>8 DEF w, v

(* A push adds one at the end.                                             *)
LEMMA WindowPut ==
  ASSUME NEW M, NEW b \in [Slots -> M], NEW f \in Nat, NEW e \in Nat,
         f <= e, e < Capacity
  PROVE  Window(b, f, e + 1) = Append(Window(b, f, e), b[e])
<1> DEFINE w == Window(b, f, e)
           v == Window(b, f, e + 1)
<1>1. /\ e <= Capacity /\ f <= e + 1 /\ e + 1 \in Nat /\ e + 1 <= Capacity
      /\ b[e] \in M
  BY SizeAssumption DEF Slots
<1>2. w \in Seq(M) /\ Len(w) = e - f
  BY <1>1, WindowType
<1>3. v \in Seq(M) /\ Len(v) = (e + 1) - f
  BY <1>1, WindowType
<1>4. \A i \in 1 .. e - f : w[i] = b[f + i - 1]
  BY DEF Window
<1>5. \A i \in 1 .. (e + 1) - f : v[i] = b[f + i - 1]
  BY DEF Window
<1> HIDE DEF w, v
<1>6. /\ Append(w, b[e]) \in Seq(M) /\ Len(Append(w, b[e])) = (e + 1) - f
      /\ \A i \in 1 .. e - f : Append(w, b[e])[i] = w[i]
      /\ Append(w, b[e])[(e + 1) - f] = b[e]
  BY <1>1, <1>2
<1>7. ASSUME NEW i \in 1 .. (e + 1) - f
      PROVE  Append(w, b[e])[i] = v[i]
  <2>1. CASE i = (e + 1) - f
    <3>1. f + i - 1 = e
      BY <2>1
    <3>2. v[i] = b[f + i - 1]
      BY <1>5, Zenon
    <3> QED
      BY <1>6, <2>1, <3>1, <3>2
  <2>2. CASE i < (e + 1) - f
    BY <1>6, <1>4, <1>5, <2>2
  <2>3. i = (e + 1) - f \/ i < (e + 1) - f
    OBVIOUS
  <2> QED
    BY <2>1, <2>2, <2>3
<1>8. Append(w, b[e]) = v
  BY <1>3, <1>6, <1>7, SeqEqual
<1> QED
  BY <1>8 DEF w, v

(* A write at the end changes none of them.                                *)
LEMMA WindowWritten ==
  ASSUME NEW b \in [Slots -> Mails \cup {Nothing}], NEW f \in Nat, NEW e \in Nat, NEW m
  PROVE  Window([b EXCEPT ![e] = m], f, e) = Window(b, f, e)
<1>1. \A i \in 1 .. e - f : f + i - 1 # e /\ [b EXCEPT ![e] = m][f + i - 1] = b[f + i - 1]
  BY DEF Slots
<1> QED
  BY <1>1 DEF Window

(* memmove to the front, locks.c:109.                                      *)
LEMMA WindowMoved ==
  ASSUME start \in Nat, end \in 0 .. Capacity, start <= end
  PROVE  Window(Moved, 0, end - start) = Window(buffer, start, end)
<1>0. Capacity \in Nat
  BY SizeAssumption
<1>1. \A i \in 1 .. end - start :
        /\ i - 1 \in Slots /\ i - 1 < end - start
        /\ Moved[0 + i - 1] = buffer[start + i - 1]
  BY <1>0 DEF Moved, Slots
<1>2. (end - start) - 0 = end - start
  BY <1>0
<1> QED
  BY <1>1, <1>2 DEF Window

-----------------------------------------------------------------------------
(* The thread inside is alone.                                             *)
LEMMA Alone ==
  ASSUME Exclusive, NEW t \in Threads, pc[t] \in Critical
  PROVE  mutex = t /\ \A u \in Threads : u # t => pc[u] \notin Critical
BY DEF Exclusive

(* The types at the start.                                                 *)
LEMMA InitType == Init => TypeOK
<1> SUFFICES ASSUME Init PROVE TypeOK
  OBVIOUS
<1>1. Typed
  <2>1. Capacity \in Nat /\ 0 \in 0 .. Capacity /\ 0 \in 0 .. 0
    BY SizeAssumption
  <2> QED
    BY <2>1 DEF Init, Typed
<1>2. Exclusive
  BY ThreadAssumption DEF Init, Exclusive, Critical
<1>3. InBounds
  BY DEF Init, InBounds, Adding
<1>4. BlockFits
  BY DEF Init, BlockFits, Whole
<1> QED
  BY <1>1, <1>2, <1>3, <1>4 DEF TypeOK

(* A step outside the mutex, that takes it, or that gives it back.         *)
LEMMA CallType ==
  ASSUME TypeOK, NEW t \in Threads, Call(t)
  PROVE  TypeOK'
<1>1. PICK label \in {"lock pop", "lock add", "lock reset"} :
        pc[t] = "idle" /\ Goto(t, label)
  BY DEF Call, CallPop, CallAdd, CallReset
<1>2. /\ UNCHANGED <<array, mutex, got, wild>>
      /\ item' \in [Threads -> Mails \cup {Nothing}]
  <2>1. CASE UNCHANGED item
    BY <2>1 DEF Call, CallPop, CallAdd, CallReset, TypeOK, Typed
  <2>2. CASE CallAdd(t)
    BY <2>2 DEF CallAdd, TypeOK, Typed
  <2> QED
    BY <2>1, <2>2 DEF Call, CallPop, CallReset
<1>3. \A u \in Threads : u # t => pc'[u] = pc[u]
  BY <1>1 DEF Goto, TypeOK, Typed
<1>4. pc'[t] = label /\ label \notin Critical /\ pc[t] \notin Critical
  BY <1>1 DEF Goto, TypeOK, Typed, Critical
<1>5. Typed'
  BY <1>1, <1>2 DEF Goto, TypeOK, Typed, array
<1>6. Exclusive'
  BY <1>2, <1>3, <1>4 DEF TypeOK, Exclusive
<1>7. InBounds'
  <2>1. ASSUME NEW u \in Threads, u # t
        PROVE  item'[u] = item[u]
    BY <2>1 DEF Call, CallPop, CallAdd, CallReset, TypeOK, Typed
  <2>2. label = "lock add" => item'[t] \in Mails
    BY <1>1, <1>4 DEF Call, CallPop, CallAdd, CallReset, Goto, TypeOK, Typed
  <2>3. UNCHANGED <<buffer, start, end>>
    BY <1>2 DEF array
  <2> QED
    BY <1>1, <1>3, <1>4, <2>1, <2>2, <2>3 DEF TypeOK, InBounds, Adding, Critical
<1>8. BlockFits'
  <2>1. CASE Shrunk
    BY <1>1, <1>2, <1>3, <2>1 DEF BlockFits, Shrunk, array
  <2>2. CASE ~Shrunk
    BY <1>1, <1>2, <1>3, <1>4, <2>2 DEF TypeOK, BlockFits, Whole, array
  <2> QED
    BY <2>1, <2>2
<1> QED
  BY <1>5, <1>6, <1>7, <1>8 DEF TypeOK

(* The mutex goes to one thread.                                           *)
LEMMA LockType ==
  ASSUME TypeOK, NEW t \in Threads, Lock(t)
  PROVE  TypeOK'
<1>1. PICK label \in {"pop", "add", "reset"} : Goto(t, label)
  BY DEF Lock, Enter
<1>2. /\ UNCHANGED <<array, item, got, wild>>
      /\ mutex = NoThread /\ mutex' = t
  BY DEF Lock
<1>3. \A u \in Threads : u # t => pc'[u] = pc[u] /\ pc[u] \notin Critical
  BY <1>1, <1>2, ThreadAssumption DEF Goto, TypeOK, Typed, Exclusive
<1>4. pc'[t] = label /\ label \in Critical
  BY <1>1 DEF Goto, TypeOK, Typed, Critical
<1>5. Typed'
  BY <1>1, <1>2, <1>4 DEF Goto, TypeOK, Typed, array
<1>6. Exclusive'
  BY <1>2, <1>3, <1>4 DEF TypeOK, Exclusive
<1>7. InBounds'
  <2>1. label = "add" => pc[t] = "lock add"
    BY <1>1, <1>4 DEF Lock, Enter, Goto, TypeOK, Typed
  <2>2. UNCHANGED <<buffer, start, end, item>>
    BY <1>2 DEF array
  <2> QED
    BY <1>1, <1>3, <1>4, <2>1, <2>2 DEF TypeOK, InBounds, Adding, Critical
<1>8. BlockFits'
  BY <1>1, <1>2, <1>3, <1>4, ThreadAssumption
  DEF TypeOK, BlockFits, Whole, Shrunk, Critical, array
<1> QED
  BY <1>5, <1>6, <1>7, <1>8 DEF TypeOK

(* A step inside the mutex, to another one or out of it.                   *)
LEMMA InsideExclusive ==
  ASSUME TypeOK, NEW t \in Threads, pc[t] \in Critical,
         NEW label \in Critical \cup {"idle"}, Goto(t, label),
         mutex' = IF label = "idle" THEN NoThread ELSE t
  PROVE  /\ Exclusive'
         /\ mutex' \in Threads \cup {NoThread}
         /\ pc' \in [Threads ->
              {"idle", "lock pop", "lock add", "lock reset"} \cup Critical]
         /\ pc'[t] = label
         /\ \A u \in Threads : u # t => pc'[u] = pc[u] /\ pc'[u] \notin Critical
<1>1. mutex = t /\ \A u \in Threads : u # t => pc[u] \notin Critical
  BY Alone DEF TypeOK
<1>2. pc'[t] = label /\ \A u \in Threads : u # t => pc'[u] = pc[u]
  BY DEF Goto, TypeOK, Typed
<1>3. Exclusive'
  <2>1. "idle" \notin Critical
    BY DEF Critical
  <2> QED
    BY <1>1, <1>2, <2>1, ThreadAssumption DEF Exclusive
<1>4. pc' \in [Threads ->
              {"idle", "lock pop", "lock add", "lock reset"} \cup Critical]
  BY DEF Goto, TypeOK, Typed
<1> QED
  BY <1>1, <1>2, <1>3, <1>4

(* The thread inside keeps the types.                                      *)
LEMMA InsideType ==
  ASSUME TypeOK, NEW t \in Threads, Inside(t)
  PROVE  TypeOK'
<1> USE SizeAssumption
<1> DEFINE Moves(label) ==
             /\ Exclusive' /\ pc'[t] = label
             /\ \A u \in Threads : u # t => pc'[u] = pc[u] /\ pc'[u] \notin Critical
             /\ mutex' \in Threads \cup {NoThread}
             /\ pc' \in [Threads ->
                  {"idle", "lock pop", "lock add", "lock reset"} \cup Critical]
<1>0. ASSUME NEW label \in Critical, Goto(t, label), UNCHANGED mutex, pc[t] \in Critical
      PROVE  Moves(label)
  <2>1. mutex' = t /\ label # "idle"
    BY <1>0, Alone DEF TypeOK, Critical
  <2> QED
    BY <1>0, <2>1, InsideExclusive
<1>t. pc[t] \in Critical => mutex = t
  BY Alone DEF TypeOK
<1>b. /\ Capacity \in Nat /\ end \in Nat /\ start \in Nat
      /\ start <= end /\ end <= Capacity
  <2>1. end \in 0 .. Capacity /\ start \in 0 .. end
    BY DEF TypeOK, Typed
  <2> QED
    BY <2>1
<1>1. CASE PopEmpty(t)
  <2>1. pc[t] \in Critical /\ Goto(t, "unlock") /\ UNCHANGED mutex
    BY <1>1 DEF PopEmpty, Critical
  <2>2. Moves("unlock")
    BY <1>0, <2>1 DEF Critical
  <2>3. got' \in [Threads -> Mails \cup {Nothing}]
    BY <1>1 DEF PopEmpty, TypeOK, Typed, Slots
  <2>4. Typed' /\ InBounds' /\ BlockFits'
    BY <1>1, <1>t, <2>1, <2>2, <2>3
    DEF PopEmpty, TypeOK, Typed, InBounds, BlockFits, Whole, Shrunk, Critical,
       Adding, array
  <2> QED
    BY <2>2, <2>4 DEF TypeOK
<1>2. CASE Pop(t)
  <2>1. pc[t] \in Critical /\ Goto(t, "advance") /\ UNCHANGED mutex
    BY <1>2 DEF Pop, Critical
  <2>2. Moves("advance")
    BY <1>0, <2>1 DEF Critical
  <2>3. start \in Slots
    BY <1>2, <1>b DEF Pop, Slots
  <2>4. got' \in [Threads -> Mails \cup {Nothing}]
    BY <1>2, <2>3 DEF Pop, TypeOK, Typed
  <2>5. Typed'
    BY <1>2, <2>2, <2>4 DEF Pop, TypeOK, Typed, array
  <2>6. InBounds'
    BY <1>2, <1>t, <2>1, <2>2, <2>4 DEF Pop, TypeOK, Typed, InBounds, BlockFits, Whole,
         Shrunk, Critical, Adding, array
  <2>7. BlockFits'
    BY <1>2, <1>t, <2>1, <2>2, <2>4 DEF Pop, TypeOK, Typed, InBounds, BlockFits, Whole,
         Shrunk, Critical, Adding, array
  <2> QED
    BY <2>2, <2>5, <2>6, <2>7 DEF TypeOK
<1>3. CASE Advance(t)
  <2>1. pc[t] \in Critical /\ Goto(t, "unlock") /\ UNCHANGED mutex
    BY <1>3 DEF Advance, Critical
  <2>2. Moves("unlock")
    BY <1>0, <2>1 DEF Critical
  <2>3. start < end
    BY <1>3 DEF Advance, TypeOK, InBounds
  <2>4. end' \in 0 .. Capacity /\ start' \in 0 .. end'
    BY <1>3, <1>b, <2>3 DEF Advance
  <2>5. Typed'
    BY <1>3, <2>2, <2>3, <2>4 DEF Advance, TypeOK, Typed, array
  <2>6. InBounds'
    BY <1>3, <1>t, <2>1, <2>2, <2>3, <2>4 DEF Advance, TypeOK, Typed, InBounds, BlockFits,
         Whole, Shrunk, Critical, Adding, array
  <2>7. BlockFits'
    BY <1>3, <1>t, <2>1, <2>2, <2>3, <2>4 DEF Advance, TypeOK, Typed, InBounds, BlockFits,
         Whole, Shrunk, Critical, Adding, array
  <2> QED
    BY <2>2, <2>5, <2>6, <2>7 DEF TypeOK
<1>4. CASE Room(t)
  <2>1. pc[t] \in Critical /\ Goto(t, "write") /\ UNCHANGED mutex
    BY <1>4 DEF Room, Critical
  <2>2. Moves("write")
    BY <1>0, <2>1 DEF Critical
  <2>3. Typed' /\ InBounds' /\ BlockFits'
    BY <1>4, <1>t, <2>1, <2>2
    DEF Room, TypeOK, Typed, InBounds, BlockFits, Whole, Shrunk, Critical, Adding, array
  <2> QED
    BY <2>2, <2>3 DEF TypeOK
<1>5. CASE Grow(t)
  <2>1. pc[t] \in Critical /\ Goto(t, "write") /\ UNCHANGED mutex
    BY <1>5 DEF Grow, Critical
  <2>2. Moves("write")
    BY <1>0, <2>1 DEF Critical
  <2>3. ~Shrunk
    BY <1>5, <1>t, <2>1 DEF Grow, Shrunk, Critical
  <2>4. Shrunk'
    <3>1. capacity = Capacity /\ end = Capacity
      BY <1>5, <1>b, <2>3 DEF Grow, TypeOK, BlockFits, Whole
    <3> QED
      BY <1>5, <1>t, <2>1, <2>2, <3>1 DEF Grow, Shrunk
  <2>5. Typed'
    BY <1>5, <2>2, <2>3, <2>4 DEF Grow, TypeOK, Typed, array
  <2>6. InBounds'
    BY <1>5, <1>t, <2>1, <2>2, <2>3, <2>4 DEF Grow, TypeOK, Typed, InBounds, BlockFits,
         Whole, Shrunk, Critical, Adding, array
  <2>7. BlockFits'
    BY <1>5, <1>t, <2>1, <2>2, <2>3, <2>4 DEF Grow, TypeOK, Typed, InBounds, BlockFits,
         Whole, Shrunk, Critical, Adding, array
  <2> QED
    BY <2>2, <2>5, <2>6, <2>7 DEF TypeOK
<1>6. CASE GrowFails(t)
  <2>1. pc[t] \in Critical /\ Goto(t, "unlock") /\ UNCHANGED mutex
    BY <1>6 DEF GrowFails, Critical
  <2>2. Moves("unlock")
    BY <1>0, <2>1 DEF Critical
  <2>3. Typed' /\ InBounds' /\ BlockFits'
    BY <1>6, <1>t, <2>1, <2>2
    DEF GrowFails, TypeOK, Typed, InBounds, BlockFits, Whole, Shrunk, Critical,
       Adding, array
  <2> QED
    BY <2>2, <2>3 DEF TypeOK
<1>7. CASE Compact(t)
  <2>1. pc[t] \in Critical /\ Goto(t, "write") /\ UNCHANGED mutex
    BY <1>7 DEF Compact, Critical
  <2>2. Moves("write")
    BY <1>0, <2>1 DEF Critical
  <2>3. ~Shrunk /\ start > 0
    BY <1>7 DEF Compact, Shrunk
  <2>4. end' \in 0 .. Capacity /\ start' \in 0 .. end' /\ end' < Capacity
    BY <1>7, <1>b, <2>3 DEF Compact
  <2>5. buffer' \in [Slots -> Mails \cup {Nothing}]
    <3>1. \A i \in Slots : i < end - start => i + start \in Slots
      BY <1>b DEF Slots
    <3>2. Moved \in [Slots -> Mails \cup {Nothing}]
      BY <3>1 DEF Moved, TypeOK, Typed
    <3> QED
      BY <1>7, <3>2 DEF Compact
  <2>6. Typed'
    BY <1>7, <2>2, <2>3, <2>4, <2>5 DEF Compact, TypeOK, Typed, array
  <2>7. InBounds'
    BY <1>7, <1>t, <2>1, <2>2, <2>3, <2>4, <2>5 DEF Compact, TypeOK, Typed, InBounds,
         BlockFits, Whole, Shrunk, Critical, Adding, array
  <2>8. BlockFits'
    BY <1>7, <1>t, <2>1, <2>2, <2>3, <2>4, <2>5 DEF Compact, TypeOK, Typed, InBounds,
         BlockFits, Whole, Shrunk, Critical, Adding, array
  <2> QED
    BY <2>2, <2>6, <2>7, <2>8 DEF TypeOK
<1>8. CASE Write(t)
  <2>1. pc[t] \in Critical /\ mutex = t /\ mutex' = mutex
    BY <1>8, <1>t DEF Write, Critical
  <2>2. CASE (end + 1) * MailSize <= block
    <3>1. Goto(t, "count")
      BY <1>8, <2>2 DEF Write
    <3>2. Moves("count")
      BY <1>0, <2>1, <3>1 DEF Critical
    <3>3. ~Shrunk
      BY <2>2, NoRoomInShrunkBlock DEF Shrunk
    <3>4. buffer' \in [Slots -> Mails \cup {Nothing}]
      BY <1>8, <2>2 DEF Write, TypeOK, Typed
    <3>5. end < Capacity /\ end \in Slots /\ pc[t] = "write"
      BY <1>8, <1>b, <2>1, <3>3 DEF Write, TypeOK, BlockFits, Slots
    <3>6. buffer'[end] = item[t]
      BY <1>8, <2>2, <3>5 DEF Write, TypeOK, Typed
    <3>7. Typed' /\ BlockFits'
      BY <1>8, <2>1, <2>2, <3>2, <3>3, <3>4, <3>5
      DEF Write, TypeOK, Typed, BlockFits, Whole, Critical
    <3>8. InBounds'
      BY <1>8, <2>1, <2>2, <3>2, <3>5, <3>6
      DEF Write, TypeOK, InBounds, Critical, Adding
    <3> QED
      BY <3>2, <3>7, <3>8 DEF TypeOK
  <2>3. CASE ~((end + 1) * MailSize <= block)
    BY <1>8, <2>3 DEF Write, Exclusive, TypeOK, Typed, InBounds, BlockFits, Whole, Shrunk,
         Critical, Adding, array
  <2> QED
    BY <2>2, <2>3
<1>9. CASE Count(t)
  <2>1. pc[t] \in Critical /\ Goto(t, "unlock") /\ UNCHANGED mutex
    BY <1>9 DEF Count, Critical
  <2>2. Moves("unlock")
    BY <1>0, <2>1 DEF Critical
  <2>3. ~Shrunk /\ end < Capacity
    BY <1>9, <1>t, <2>1 DEF Count, TypeOK, InBounds, Shrunk, Critical
  <2>4. end' \in 0 .. Capacity /\ start' \in 0 .. end'
    BY <1>9, <1>b, <2>3 DEF Count
  <2>5. Typed'
    BY <1>9, <2>2, <2>3, <2>4 DEF Count, TypeOK, Typed, array
  <2>6. InBounds'
    BY <1>9, <1>t, <2>1, <2>2, <2>3, <2>4 DEF Count, TypeOK, Typed, InBounds, BlockFits,
         Whole, Shrunk, Critical, Adding, array
  <2>7. BlockFits'
    BY <1>9, <1>t, <2>1, <2>2, <2>3, <2>4 DEF Count, TypeOK, Typed, InBounds, BlockFits,
         Whole, Shrunk, Critical, Adding, array
  <2> QED
    BY <2>2, <2>5, <2>6, <2>7 DEF TypeOK
<1>10. CASE Reset(t)
  <2>1. pc[t] \in Critical /\ Goto(t, "unlock") /\ UNCHANGED mutex
    BY <1>10 DEF Reset, Critical
  <2>2. Moves("unlock")
    BY <1>0, <2>1 DEF Critical
  <2>3. ~Shrunk
    BY <1>10, <1>t, <2>1 DEF Reset, Shrunk, Critical
  <2>4. end' \in 0 .. Capacity /\ start' \in 0 .. end'
    BY <1>10 DEF Reset
  <2>5. Typed'
    BY <1>10, <2>2, <2>3, <2>4 DEF Reset, TypeOK, Typed, array
  <2>6. InBounds'
    BY <1>10, <1>t, <2>1, <2>2, <2>3, <2>4 DEF Reset, TypeOK, Typed, InBounds, BlockFits,
         Whole, Shrunk, Critical, Adding, array
  <2>7. BlockFits'
    BY <1>10, <1>t, <2>1, <2>2, <2>3, <2>4 DEF Reset, TypeOK, Typed, InBounds, BlockFits,
         Whole, Shrunk, Critical, Adding, array
  <2> QED
    BY <2>2, <2>5, <2>6, <2>7 DEF TypeOK
<1>11. CASE Unlock(t)
  <2>1. pc[t] \in Critical /\ Goto(t, "idle") /\ mutex' = NoThread
    BY <1>11 DEF Unlock, Critical
  <2>2. Moves("idle")
    BY <2>1, InsideExclusive
  <2>3. Typed' /\ InBounds' /\ BlockFits'
    BY <1>11, <1>t, <2>1, <2>2
    DEF Unlock, TypeOK, Typed, InBounds, BlockFits, Whole, Shrunk, Critical, Adding, array
  <2> QED
    BY <2>2, <2>3 DEF TypeOK
<1> QED
  BY <1>1, <1>2, <1>3, <1>4, <1>5, <1>6, <1>7, <1>8, <1>9, <1>10, <1>11 DEF Inside

(* The type invariant, with the discipline of the mutex and the places of  *)
(* the mails, holds of queue_mail_t's functions.                           *)
THEOREM TypeCorrect == Spec => []TypeOK
<1>1. Init => TypeOK
  BY InitType
<1>2. TypeOK /\ [Next]_vars => TypeOK'
  <2> SUFFICES ASSUME TypeOK, [Next]_vars PROVE TypeOK'
    OBVIOUS
  <2>1. CASE UNCHANGED vars
    BY <2>1 DEF vars, array, TypeOK, Typed, Exclusive, InBounds, BlockFits, Whole, Shrunk
  <2>2. CASE Next
    BY <2>2, CallType, LockType, InsideType DEF Next
  <2> QED
    BY <2>1, <2>2
<1> QED
  BY <1>1, <1>2, PTL DEF Spec

-----------------------------------------------------------------------------
(* What the abstract mailbox sees of a step.                               *)

(* The window of the queue lies in its array.                              *)
LEMMA Bounds ==
  ASSUME TypeOK
  PROVE  /\ Capacity \in Nat /\ start \in Nat /\ end \in Nat
         /\ start <= end /\ end <= Capacity
         /\ buffer \in [Slots -> Mails \cup {Nothing}]
<1>1. end \in 0 .. Capacity /\ start \in 0 .. end
  BY DEF TypeOK, Typed
<1>2. buffer \in [Slots -> Mails \cup {Nothing}]
  BY DEF TypeOK, Typed
<1> QED
  BY <1>1, <1>2, SizeAssumption

(* The window begins after start only while the thread inside has still    *)
(* to advance it.                                                          *)
LEMMA FirstInside ==
  ASSUME TypeOK, NEW t \in Threads, pc[t] \in Critical
  PROVE  First = IF pc[t] = "advance" THEN start + 1 ELSE start
BY Alone DEF TypeOK, First, Critical

(* With the mutex free the window begins at start.                         *)
LEMMA FirstFree ==
  ASSUME TypeOK, mutex = NoThread
  PROVE  First = start
BY ThreadAssumption DEF TypeOK, Exclusive, First, Critical

(* A step of t in the mutex to label: of the others nothing is seen.       *)
LEMMA FirstNext ==
  ASSUME TypeOK, NEW t \in Threads, mutex = t \/ mutex = NoThread,
         NEW label, Goto(t, label)
  PROVE  First' = IF label = "advance" THEN start' + 1 ELSE start'
<1>1. \A u \in Threads : u # t => pc'[u] = pc[u] /\ pc[u] # "advance"
  BY ThreadAssumption DEF Goto, TypeOK, Typed, Exclusive, Critical
<1>2. pc'[t] = label
  BY DEF Goto, TypeOK, Typed
<1> QED
  BY <1>1, <1>2 DEF First

(* A thread's offer stands until it leaves the steps of an add.            *)
LEMMA OfferStands ==
  ASSUME TypeOK, NEW t \in Threads, NEW label, Goto(t, label), UNCHANGED item,
         pc[t] \in Adding <=> label \in Adding
  PROVE  Offered' = Offered
BY DEF Offered, Goto, TypeOK, Typed

(* The mail of a thread is in the box when the thread leaves the part      *)
(* that adds it.                                                           *)
LEMMA OfferDone ==
  ASSUME TypeOK, NEW t \in Threads, NEW label, Goto(t, label), UNCHANGED item,
         pc[t] \in Adding, label \notin Adding
  PROVE  Box!Done(t) /\ Offered[t] = item[t]
<1>1. Offered[t] = item[t] /\ item[t] \in Mails
  BY DEF Offered, TypeOK, InBounds
<1>2. Offered' = [Offered EXCEPT ![t] = Nothing]
  BY DEF Offered, Goto, TypeOK, Typed
<1> QED
  BY <1>1, <1>2, MailAssumption DEF Box!Done

-----------------------------------------------------------------------------
(* Each step is one of the mailbox, or none of its business.               *)

(* A call is one of the mailbox.                                           *)
LEMMA CallImplements ==
  ASSUME TypeOK, NEW t \in Threads, Call(t)
  PROVE  Box!Next \/ UNCHANGED Box!vars
<1>1. pc[t] = "idle" /\ UNCHANGED <<array, got, wild>>
  BY DEF Call, CallPop, CallAdd, CallReset
<1>2. PICK label \in {"lock pop", "lock add", "lock reset"} : Goto(t, label)
  BY DEF Call, CallPop, CallAdd, CallReset
<1>3. First' = First
  <2>1. \A u \in Threads : pc'[u] = "advance" <=> pc[u] = "advance"
    BY <1>1, <1>2 DEF Goto, TypeOK, Typed
  <2> QED
    BY <1>1, <2>1 DEF First, array
<1>4. Waiting' = Waiting
  BY <1>1, <1>3 DEF Waiting, Window, array
<1>5. CASE CallAdd(t)
  <2>1. Offered[t] = Nothing
    BY <1>1 DEF Offered, Adding
  <2>2. PICK m \in Mails : item' = [item EXCEPT ![t] = m]
    BY <1>5 DEF CallAdd
  <2>3. Offered' = [Offered EXCEPT ![t] = m]
    BY <1>5, <2>2 DEF CallAdd, Goto, Offered, Adding, TypeOK, Typed
  <2>4. Box!Offer(t)
    BY <1>1, <1>4, <2>1, <2>3 DEF Box!Offer
  <2> QED
    BY <2>4 DEF Box!Next
<1>6. CASE ~CallAdd(t)
  <2>1. PICK other \in {"lock pop", "lock reset"} : Goto(t, other) /\ UNCHANGED item
    BY <1>6 DEF Call, CallPop, CallReset
  <2>2. Offered' = Offered
    BY <1>1, <2>1, OfferStands DEF Adding
  <2> QED
    BY <1>1, <1>4, <2>2 DEF Box!vars
<1> QED
  BY <1>5, <1>6

(* The mailbox knows nothing of the mutex.                                 *)
LEMMA LockImplements ==
  ASSUME TypeOK, NEW t \in Threads, Lock(t)
  PROVE  UNCHANGED Box!vars
<1>1. /\ mutex = NoThread /\ UNCHANGED <<array, item, got, wild>>
  BY DEF Lock
<1>2. PICK label \in {"pop", "add", "reset"} :
        Goto(t, label) /\ (pc[t] = "lock add" <=> label = "add")
        /\ pc[t] \in {"lock pop", "lock add", "lock reset"}
  BY DEF Lock, Enter
<1>3. First = start /\ First' = start'
  BY <1>1, <1>2, FirstFree, FirstNext
<1>4. Waiting' = Waiting
  BY <1>1, <1>3 DEF Waiting, Window, array
<1>5. Offered' = Offered
  BY <1>1, <1>2, OfferStands DEF Adding
<1> QED
  BY <1>1, <1>4, <1>5 DEF Box!vars

(* A step inside is one of the mailbox, or none.                           *)
LEMMA InsideImplements ==
  ASSUME TypeOK, NEW t \in Threads, Inside(t), ~wild
  PROVE  Box!Next \/ UNCHANGED Box!vars
<1>m. pc[t] \in Critical => mutex = t
  BY Alone DEF TypeOK
<1>b. /\ Capacity \in Nat /\ start \in Nat /\ end \in Nat
      /\ start <= end /\ end <= Capacity
      /\ buffer \in [Slots -> Mails \cup {Nothing}]
  BY Bounds
<1>w. Len(Window(buffer, start, end)) = end - start
  <2>1. buffer \in [Slots -> Mails \cup {Nothing}]
    BY <1>b
  <2>2. start \in Nat /\ end \in Nat /\ start <= end /\ end <= Capacity
    BY <1>b
  <2> QED
    BY <2>1, <2>2, WindowType, Zenon
<1>1. CASE PopEmpty(t)
  <2>1. /\ pc[t] = "pop" /\ Goto(t, "unlock") /\ UNCHANGED <<array, item, wild>>
        /\ start >= end /\ got' = [got EXCEPT ![t] = Nothing]
    BY <1>1 DEF PopEmpty
  <2>2. First = start /\ First' = start'
    BY <1>m, <2>1, FirstInside, FirstNext DEF Critical
  <2>3. Waiting' = Waiting
    BY <2>1, <2>2 DEF Waiting, Window, array
  <2>4. Waiting = <<>>
    BY <1>b, <2>1, <2>2, WindowEmpty DEF Waiting
  <2>5. Offered' = Offered
    BY <2>1, OfferStands DEF Adding
  <2> QED
    BY <2>1, <2>3, <2>4, <2>5 DEF Box!Next, Box!Miss
<1>2. CASE Pop(t)
  <2>1. /\ pc[t] = "pop" /\ Goto(t, "advance") /\ UNCHANGED <<array, item, wild>>
        /\ start < end /\ got' = [got EXCEPT ![t] = buffer[start]]
    BY <1>2 DEF Pop
  <2>2. First = start /\ First' = start' + 1
    BY <1>m, <2>1, FirstInside, FirstNext DEF Critical
  <2>3. Waiting' = Window(buffer, start + 1, end)
    BY <2>1, <2>2 DEF Waiting, Window, array
  <2>4. /\ Waiting # <<>> /\ Head(Waiting) = buffer[start]
        /\ Tail(Waiting) = Waiting'
    BY <1>b, <2>1, <2>2, <2>3, WindowTaken DEF Waiting
  <2>5. Offered' = Offered
    BY <2>1, OfferStands DEF Adding
  <2> QED
    BY <2>1, <2>4, <2>5 DEF Box!Next, Box!Take
<1>3. CASE Advance(t)
  <2>1. /\ pc[t] = "advance" /\ Goto(t, "unlock") /\ UNCHANGED <<buffer, item, got, wild>>
        /\ IF start + 1 = end THEN start' = 0 /\ end' = 0
           ELSE start' = start + 1 /\ end' = end
    BY <1>3 DEF Advance
  <2>2. First = start + 1 /\ First' = start'
    BY <1>m, <2>1, FirstInside, FirstNext DEF Critical
  <2>3. Waiting' = Waiting
    <3>1. CASE start + 1 = end
      BY <1>b, <2>1, <2>2, <3>1, WindowEmpty DEF Waiting, Window
    <3>2. CASE start + 1 # end
      BY <2>1, <2>2, <3>2 DEF Waiting, Window
    <3> QED
      BY <3>1, <3>2
  <2>4. Offered' = Offered
    BY <2>1, OfferStands DEF Adding
  <2> QED
    BY <2>1, <2>3, <2>4 DEF Box!vars
<1>4. CASE Room(t) \/ Grow(t)
  <2>1. /\ pc[t] = "add" /\ Goto(t, "write")
        /\ UNCHANGED <<buffer, start, end, item, got, wild>>
    BY <1>4 DEF Room, Grow, array
  <2>2. First = start /\ First' = start'
    BY <1>m, <2>1, FirstInside, FirstNext DEF Critical
  <2>3. Waiting' = Waiting
    BY <2>1, <2>2 DEF Waiting, Window
  <2>4. Offered' = Offered
    BY <2>1, OfferStands DEF Adding
  <2> QED
    BY <2>1, <2>3, <2>4 DEF Box!vars
<1>5. CASE GrowFails(t)
  <2>1. /\ pc[t] = "add" /\ Goto(t, "unlock") /\ UNCHANGED <<array, item, got, wild>>
        /\ end >= capacity /\ start = 0
    BY <1>5 DEF GrowFails
  <2>2. First = start /\ First' = start'
    BY <1>m, <2>1, FirstInside, FirstNext DEF Critical
  <2>3. Waiting' = Waiting
    BY <2>1, <2>2 DEF Waiting, Window, array
  <2>4. capacity = Capacity
    BY <1>m, <2>1 DEF TypeOK, BlockFits, Whole, Shrunk, Critical
  <2>5. Len(Waiting) >= Capacity
    BY <1>b, <1>w, <2>1, <2>2, <2>4 DEF Waiting
  <2>6. Box!Done(t)
    BY <2>1, OfferDone DEF Adding
  <2> QED
    BY <2>1, <2>3, <2>5, <2>6 DEF Box!Next, Box!Refuse
<1>6. CASE Compact(t)
  <2>1. /\ pc[t] = "add" /\ Goto(t, "write") /\ UNCHANGED <<item, got, wild>>
        /\ buffer' = Moved /\ end' = end - start /\ start' = 0
    BY <1>6 DEF Compact
  <2>2. First = start /\ First' = 0
    BY <1>m, <2>1, FirstInside, FirstNext DEF Critical
  <2>3. Waiting' = Waiting
    BY <1>b, <2>1, <2>2, WindowMoved DEF Waiting
  <2>4. Offered' = Offered
    BY <2>1, OfferStands DEF Adding
  <2> QED
    BY <2>1, <2>3, <2>4 DEF Box!vars
<1>7. CASE Write(t)
  <2>1. /\ pc[t] = "write" /\ mutex = t
        /\ UNCHANGED <<start, end, item, got>>
    BY <1>7, <1>m DEF Write, Critical
  <2>2. First = start
    BY <2>1, FirstInside DEF Critical
  <2>3. CASE (end + 1) * MailSize <= block
    <3>1. /\ Goto(t, "count") /\ buffer' = [buffer EXCEPT ![end] = item[t]]
          /\ wild' = wild
      BY <1>7, <2>3 DEF Write
    <3>2. First' = start'
      BY <2>1, <3>1, FirstNext
    <3>3. Waiting' = Waiting
      BY <1>b, <2>1, <2>2, <3>1, <3>2, WindowWritten DEF Waiting
    <3>4. Offered' = Offered
      BY <2>1, <3>1, OfferStands DEF Adding
    <3> QED
      BY <2>1, <3>1, <3>3, <3>4 DEF Box!vars
  <2>4. CASE ~((end + 1) * MailSize <= block)
    <3>1. wild' = TRUE /\ UNCHANGED <<buffer, pc>>
      BY <1>7, <2>4 DEF Write
    <3>2. UNCHANGED <<First, Waiting, Offered>>
      BY <2>1, <3>1 DEF First, Waiting, Window, Offered
    <3>3. Shrunk
      <4>1. end < Capacity => (end + 1) * MailSize <= Capacity * MailSize
        BY <1>b, RoomInBlock, SizeAssumption
      <4> QED
        BY <2>1, <2>4, <4>1 DEF TypeOK, BlockFits, Whole
    <3>4. Len(Waiting) >= Capacity
      BY <1>b, <1>w, <2>2, <3>3 DEF Waiting, Shrunk
    <3> QED
      BY <2>1, <3>1, <3>2, <3>4 DEF Box!Next, Box!Overrun
  <2> QED
    BY <2>3, <2>4
<1>8. CASE Count(t)
  <2>1. /\ pc[t] = "count" /\ Goto(t, "unlock")
        /\ UNCHANGED <<buffer, start, item, got, wild>> /\ end' = end + 1
    BY <1>8 DEF Count
  <2>2. First = start /\ First' = start'
    BY <1>m, <2>1, FirstInside, FirstNext DEF Critical
  <2>3. end < Capacity /\ buffer[end] = item[t]
    BY <2>1 DEF TypeOK, InBounds
  <2>4. Waiting' = Append(Waiting, item[t])
    BY <1>b, <2>1, <2>2, <2>3, WindowPut DEF Waiting
  <2>5. Box!Done(t) /\ Offered[t] = item[t]
    BY <2>1, OfferDone DEF Adding
  <2> QED
    BY <2>1, <2>4, <2>5 DEF Box!Next, Box!Put
<1>9. CASE Reset(t)
  <2>1. /\ pc[t] = "reset" /\ Goto(t, "unlock")
        /\ UNCHANGED <<buffer, item, got, wild>> /\ start' = 0 /\ end' = 0
    BY <1>9 DEF Reset
  <2>2. First' = 0
    BY <1>m, <2>1, FirstNext DEF Critical
  <2>3. Waiting' = <<>>
    BY <2>1, <2>2, WindowEmpty DEF Waiting
  <2>4. Offered' = Offered
    BY <2>1, OfferStands DEF Adding
  <2> QED
    BY <2>1, <2>3, <2>4 DEF Box!Next, Box!Clear
<1>10. CASE Unlock(t)
  <2>1. /\ pc[t] = "unlock" /\ Goto(t, "idle") /\ UNCHANGED <<array, item, got, wild>>
    BY <1>10 DEF Unlock
  <2>2. First = start /\ First' = start'
    BY <1>m, <2>1, FirstInside, FirstNext DEF Critical
  <2>3. Waiting' = Waiting
    BY <2>1, <2>2 DEF Waiting, Window, array
  <2>4. Offered' = Offered
    BY <2>1, OfferStands DEF Adding
  <2> QED
    BY <2>1, <2>3, <2>4 DEF Box!vars
<1> QED
  BY <1>1, <1>2, <1>3, <1>4, <1>5, <1>6, <1>7, <1>8, <1>9, <1>10 DEF Inside

(* Whatever the threads interleave, the queue with the mutex is a mailbox: *)
(* locks.c:64-121, as MAIL_SEND and MAIL_RECEIVE of every thread use it.   *)
THEOREM Implementation == Spec => ImplementsMailbox
<1>1. Init => Box!Init
  <2> SUFFICES ASSUME Init PROVE Box!Init
    OBVIOUS
  <2>1. First = 0 /\ end = 0
    BY DEF Init, First
  <2>2. Waiting = <<>>
    BY <2>1, WindowEmpty DEF Waiting
  <2>3. Offered = [t \in Threads |-> Nothing]
    BY DEF Init, Offered, Adding
  <2> QED
    BY <2>2, <2>3 DEF Init, Box!Init
<1>2. TypeOK /\ [Next]_vars => [Box!Next]_(Box!vars)
  <2> SUFFICES ASSUME TypeOK, [Next]_vars PROVE Box!Next \/ UNCHANGED Box!vars
    OBVIOUS
  <2>1. CASE UNCHANGED vars
    BY <2>1 DEF vars, array, Box!vars, Waiting, Window, First, Offered
  <2>2. CASE Next
    BY <2>2, CallImplements, LockImplements, InsideImplements DEF Next
  <2> QED
    BY <2>1, <2>2
<1> QED
  BY <1>1, <1>2, TypeCorrect, PTL DEF Spec, ImplementsMailbox, Box!Spec
=============================================================================
