----------------------------- MODULE LockQueue -----------------------------
(***************************************************************************)
(* The mail queue with a mutex, mail/queue/locks.c (MAIL_QUEUE_IMPL 1): an *)
(* array whose mails lie from start to end.  Mails are written at the end, *)
(* read from the start, and moved to the front when the end is reached.    *)
(*                                                                         *)
(* A thread calls one operation after another.  MAIL_RECEIVE is the        *)
(* repeated pop, MAIL_SEND and its variants are an add whose result is not *)
(* looked at.                                                              *)
(*                                                                         *)
(* When no mail was popped from a full array, it should grow, but          *)
(* reallocp, which like mallocp counts in bytes, is given a number of      *)
(* mails: the block shrinks, and the mail is written past it.  Nothing     *)
(* sensible follows.  The return for an array without capacity (line 97),  *)
(* the only one that keeps the mutex, is left out: init is never given 0.  *)
(***************************************************************************)
EXTENDS Integers, Sequences

CONSTANTS Threads,
          NoThread,  \* not in Threads
          Mails,
          Nothing,   \* not in Mails
          Capacity,  \* mails of the array as it is made (40000)
          Scalar,    \* factor by which it is meant to grow (2)
          MailSize   \* sizeof (mail_t)

ASSUME ThreadAssumption == NoThread \notin Threads
ASSUME MailAssumption == Nothing \notin Mails
ASSUME SizeAssumption ==
  /\ Capacity \in Nat \ {0} /\ Scalar \in Nat \ {0} /\ MailSize \in Nat
  /\ Scalar < MailSize

VARIABLES
  buffer, start, end, capacity,
  block,    \* bytes of the buffer
  mutex,    \* the thread that holds it
  pc,       \* pc[t], the next step of t
  item,     \* item[t], the mail t adds
  got,      \* got[t], the mail t popped last, or Nothing
  wild      \* a mail was written past the block

array == <<buffer, start, end, capacity, block>>
vars  == <<array, mutex, pc, item, got, wild>>

Slots == 0 .. Capacity - 1

(* queue_mail_t_init.                                                      *)
Init ==
  /\ buffer = [i \in Slots |-> Nothing]
  /\ start = 0
  /\ end = 0
  /\ capacity = Capacity
  /\ block = Capacity * MailSize
  /\ mutex = NoThread
  /\ pc = [t \in Threads |-> "idle"]
  /\ item = [t \in Threads |-> Nothing]
  /\ got = [t \in Threads |-> Nothing]
  /\ wild = FALSE

-----------------------------------------------------------------------------
Goto(t, label) == pc' = [pc EXCEPT ![t] = label]

CallPop(t) ==
  /\ pc[t] = "idle"
  /\ Goto(t, "lock pop")
  /\ UNCHANGED <<array, mutex, item, got, wild>>

CallAdd(t) ==
  /\ pc[t] = "idle"
  /\ \E m \in Mails : item' = [item EXCEPT ![t] = m]
  /\ Goto(t, "lock add")
  /\ UNCHANGED <<array, mutex, got, wild>>

CallReset(t) ==
  /\ pc[t] = "idle"
  /\ Goto(t, "lock reset")
  /\ UNCHANGED <<array, mutex, item, got, wild>>

Enter(t) ==
  \/ pc[t] = "lock pop" /\ Goto(t, "pop")
  \/ pc[t] = "lock add" /\ Goto(t, "add")
  \/ pc[t] = "lock reset" /\ Goto(t, "reset")

(* Mutant: the operations do not lock.                                     *)
LockNothing(t) ==
  /\ Enter(t)
  /\ mutex' = t
  /\ UNCHANGED <<array, item, got, wild>>

Lock(t) ==
  /\ mutex = NoThread
  /\ Enter(t)
  /\ mutex' = t
  /\ UNCHANGED <<array, item, got, wild>>

Unlock(t) ==
  /\ pc[t] = "unlock"
  /\ mutex' = NoThread
  /\ Goto(t, "idle")
  /\ UNCHANGED <<array, item, got, wild>>

-----------------------------------------------------------------------------
(* queue_mail_t_pop.                                                       *)

(* Mutant: no mail is found, and the mutex is kept.                        *)
PopEmptyLocked(t) ==
  /\ pc[t] = "pop"
  /\ start >= end
  /\ got' = [got EXCEPT ![t] = Nothing]
  /\ Goto(t, "idle")
  /\ UNCHANGED <<array, mutex, item, wild>>

PopEmpty(t) ==
  /\ pc[t] = "pop"
  /\ start >= end
  /\ got' = [got EXCEPT ![t] = Nothing]
  /\ Goto(t, "unlock")
  /\ UNCHANGED <<array, mutex, item, wild>>

Pop(t) ==
  /\ pc[t] = "pop"
  /\ start < end
  /\ got' = [got EXCEPT ![t] = buffer[start]]
  /\ Goto(t, "advance")
  /\ UNCHANGED <<array, mutex, item, wild>>

(* An array that is empty starts at the front again.                       *)
Advance(t) ==
  /\ pc[t] = "advance"
  /\ IF start + 1 = end
     THEN start' = 0 /\ end' = 0
     ELSE start' = start + 1 /\ UNCHANGED end
  /\ Goto(t, "unlock")
  /\ UNCHANGED <<buffer, capacity, block, mutex, item, got, wild>>

-----------------------------------------------------------------------------
(* queue_mail_t_add.                                                       *)

Room(t) ==
  /\ pc[t] = "add"
  /\ end < capacity
  /\ Goto(t, "write")
  /\ UNCHANGED <<array, mutex, item, got, wild>>

(* Nothing has been popped: more memory, or the mail is not added.         *)
Grow(t) ==
  /\ pc[t] = "add"
  /\ end >= capacity
  /\ start = 0
  /\ block' = capacity * Scalar
  /\ capacity' = capacity * Scalar
  /\ Goto(t, "write")
  /\ UNCHANGED <<buffer, start, end, mutex, item, got, wild>>

GrowFails(t) ==
  /\ pc[t] = "add"
  /\ end >= capacity
  /\ start = 0
  /\ Goto(t, "unlock")
  /\ UNCHANGED <<array, mutex, item, got, wild>>

Moved == [i \in Slots |-> IF i < end - start THEN buffer[i + start] ELSE buffer[i]]

(* Mutant: the end stays where it is.                                      *)
CompactKeepsEnd(t) ==
  /\ pc[t] = "add"
  /\ end >= capacity
  /\ start > 0
  /\ buffer' = Moved
  /\ start' = 0
  /\ Goto(t, "write")
  /\ UNCHANGED <<end, capacity, block, mutex, item, got, wild>>

Compact(t) ==
  /\ pc[t] = "add"
  /\ end >= capacity
  /\ start > 0
  /\ buffer' = Moved
  /\ end' = end - start
  /\ start' = 0
  /\ Goto(t, "write")
  /\ UNCHANGED <<capacity, block, mutex, item, got, wild>>

Write(t) ==
  /\ pc[t] = "write"
  /\ IF (end + 1) * MailSize <= block
     THEN /\ buffer' = [buffer EXCEPT ![end] = item[t]]
          /\ Goto(t, "count")
          /\ UNCHANGED wild
     ELSE /\ wild' = TRUE
          /\ UNCHANGED <<buffer, pc>>
  /\ UNCHANGED <<start, end, capacity, block, mutex, item, got>>

Count(t) ==
  /\ pc[t] = "count"
  /\ end' = end + 1
  /\ Goto(t, "unlock")
  /\ UNCHANGED <<buffer, start, capacity, block, mutex, item, got, wild>>

-----------------------------------------------------------------------------
(* queue_mail_t_reset.                                                     *)
Reset(t) ==
  /\ pc[t] = "reset"
  /\ start' = 0
  /\ end' = 0
  /\ Goto(t, "unlock")
  /\ UNCHANGED <<buffer, capacity, block, mutex, item, got, wild>>

Call(t) == CallPop(t) \/ CallAdd(t) \/ CallReset(t)

Inside(t) ==
  \/ PopEmpty(t) \/ Pop(t) \/ Advance(t)
  \/ Room(t) \/ Grow(t) \/ GrowFails(t) \/ Compact(t) \/ Write(t) \/ Count(t)
  \/ Reset(t)
  \/ Unlock(t)

Next == ~wild /\ \E t \in Threads : Call(t) \/ Lock(t) \/ Inside(t)

Spec == Init /\ [][Next]_vars

(* A thread in an operation runs, and the mutex is handed to each that     *)
(* waits for it: pollers sleep between their calls.                        *)
FairSpec ==
  /\ Spec
  /\ \A t \in Threads : WF_vars(~wild /\ Inside(t)) /\ SF_vars(~wild /\ Lock(t))

-----------------------------------------------------------------------------
Critical == {"pop", "advance", "add", "write", "count", "reset", "unlock"}

Adding == {"lock add", "add", "write", "count"}

Typed ==
  /\ buffer \in [Slots -> Mails \cup {Nothing}]
  /\ end \in 0 .. Capacity /\ start \in 0 .. end
  /\ mutex \in Threads \cup {NoThread}
  /\ pc \in [Threads -> {"idle", "lock pop", "lock add", "lock reset"} \cup Critical]
  /\ item \in [Threads -> Mails \cup {Nothing}]
  /\ got \in [Threads -> Mails \cup {Nothing}]
  /\ wild \in BOOLEAN

(* The thread inside is the holder of the mutex.                           *)
Exclusive == \A t \in Threads : pc[t] \in Critical <=> mutex = t

(* There is a mail to pop, and room for one that is written.               *)
InBounds ==
  \A t \in Threads :
    /\ pc[t] = "advance" => start < end
    /\ pc[t] = "count" => end < Capacity /\ buffer[end] = item[t]
    /\ pc[t] \in Adding => item[t] \in Mails

Whole == capacity = Capacity /\ block = Capacity * MailSize

(* The array was full when the block shrank, and a mail will be written.   *)
Shrunk ==
  /\ capacity = Capacity * Scalar /\ block = Capacity * Scalar
  /\ start = 0 /\ end = Capacity
  /\ mutex \in Threads /\ pc[mutex] = "write"

BlockFits ==
  \/ Whole /\ \A t \in Threads : pc[t] = "write" => end < Capacity
  \/ Shrunk

(* The types, the holder of the mutex, and where the mails lie.            *)
TypeOK == Typed /\ Exclusive /\ InBounds /\ BlockFits

(* The mails that wait: one that is popped has left before start moves.    *)
First == IF \E t \in Threads : pc[t] = "advance" THEN start + 1 ELSE start

Window(b, first, last) == [i \in 1 .. last - first |-> b[first + i - 1]]

Waiting == Window(buffer, First, end)

Offered ==
  [t \in Threads |->
     IF pc[t] \in Adding THEN item[t] ELSE Nothing]

Box == INSTANCE Mailbox WITH mails <- Waiting, offered <- Offered, overrun <- wild

(* Whatever the threads interleave, the queue is a mailbox: each mail is   *)
(* put once, in order, each is popped by one thread, none is lost in a     *)
(* move to the front, and a pop fails only when no mail waits.             *)
ImplementsMailbox == Box!Spec

(* Every operation returns: no path of an array that has capacity keeps    *)
(* the mutex.                                                              *)
EveryCallReturns == \A t \in Threads : pc[t] # "idle" ~> pc[t] = "idle" \/ wild
=============================================================================
