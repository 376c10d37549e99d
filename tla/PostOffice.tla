----------------------------- MODULE PostOffice -----------------------------
(***************************************************************************)
(* The mail service between the threads: subscription and the start-up     *)
(* barrier (post_office/post_office.cpp), the postman's routing            *)
(* (postman/postman.cpp) and the restart of a thread while mails are on    *)
(* the way (safeguard/safeguard.cpp).                                      *)
(*                                                                         *)
(* Every thread sends to one queue, the postman's, which keeps the order   *)
(* of each sender but not between senders (moodycamel's concurrent queue). *)
(* The postman takes a mail and puts it into the box of every thread       *)
(* subscribed to its type.  A mail of no subscribed type is reported to    *)
(* the subscribers of LogType.  What the receivers do with their mails is  *)
(* the subject of other modules: here a box only fills.                    *)
(*                                                                         *)
(* A restart cancels a thread without waiting for its end, and the postman *)
(* notices only when it sleeps on an empty queue: the old and the new      *)
(* postman deliver side by side until then.                                *)
(***************************************************************************)
EXTENDS Naturals, Sequences, FiniteSets, SequencesExt

CONSTANTS
  Boxes,        \* the post office's boxes, one for each subscribing thread
  Postman,      \* the box of the postman
  Threads,      \* threads, the replacements of cancelled ones included
  BoxOf,        \* BoxOf[t], the box thread t serves
  First,        \* First[b], the thread created first for box b
  Main,         \* the safeguard
  Broker,       \* the can thread: it sends, but has no box of its own
  Types,        \* the mail types: bit numbers of the MT enumeration
  PostmanType, LogType, AssistType,
  NoType,       \* the type 0, which is no bit
  Wants,        \* Wants[b], the types box b subscribes to
  Sends,        \* Sends[b], the types its thread, Main or Broker sends
  MaxMail       \* bound on the mails sent, greetings not counted

Senders == Boxes \cup {Main, Broker}

ASSUME BoxAssumption ==
  /\ IsFiniteSet(Boxes)
  /\ Postman \in Boxes
  /\ Main \notin Boxes \cup Threads
  /\ Broker \notin Boxes \cup Threads \cup {Main}
  /\ BoxOf \in [Threads -> Boxes]
  /\ First \in [Boxes -> Threads]
  /\ \A b \in Boxes : BoxOf[First[b]] = b

ASSUME TypeAssumption ==
  /\ Types \subseteq Nat
  /\ {PostmanType, LogType, AssistType} \subseteq Types
  /\ NoType \notin Types
  /\ Wants \in [Boxes -> SUBSET Types]
  /\ Sends \in [Senders -> SUBSET (Types \cup {NoType})]

ASSUME MailAssumption == MaxMail \in Nat

Producers == Threads \cup {Main, Broker}

VARIABLES
  pc,        \* where a thread is: "none" before it is created
  todo,      \* the types a thread has still to subscribe to
  main,      \* where the safeguard is
  subi,      \* the boxes that have subscribed
  subs,      \* subs[type], the boxes subscribed to type
  current,   \* the thread of each box that the safeguard knows of
  queue,     \* queue[p], the mails of p that wait for the postman
  hand,      \* hand[t], the mail postman t delivers, and how far it is
  boxes,     \* boxes[b], the mails put into box b
  sent       \* history: the mails sent, in order

startup == <<pc, todo, main, subi, subs, current>>
mailing == <<queue, hand, boxes>>
vars == <<startup, mailing, sent>>

Mail == [n : Nat, from : Producers, type : Types \cup {NoType}, report : BOOLEAN]

(* The postman's hand: a mail with the number of boxes already served.     *)
Empty == [busy |-> FALSE]

IsPostman(t) == BoxOf[t] = Postman

(* Barrier: the number of boxes and, by barrier_offset, the safeguard.     *)
Parties == Cardinality(Boxes) + 1

Waiting == {t \in Threads : pc[t] = "waiting"}

Init ==
  /\ current = First
  /\ pc = [t \in Threads |-> IF First[BoxOf[t]] = t THEN "start" ELSE "none"]
  /\ todo = [t \in Threads |-> {}]
  /\ main = "start"
  /\ subi = {}
  /\ subs = [type \in Types |-> <<>>]
  /\ queue = [p \in Producers |-> <<>>]
  /\ hand = [t \in Threads |-> Empty]
  /\ boxes = [b \in Boxes |-> <<>>]
  /\ sent = <<>>

-----------------------------------------------------------------------------
(* Mutant: a replacement subscribes again.                                 *)
EnterSubscribeAgain(t) ==
  /\ pc[t] = "start"
  /\ subi' = subi \cup {BoxOf[t]}
  /\ todo' = [todo EXCEPT ![t] = Wants[BoxOf[t]]]
  /\ pc' = [pc EXCEPT ![t] = "subscribing"]
  /\ UNCHANGED <<main, subs, current, mailing, sent>>

(* post_office_subscribe, first part: a replacement of a thread that has   *)
(* subscribed returns at once, and does not wait at the barrier.           *)
EnterSubscribe(t) ==
  /\ pc[t] = "start"
  /\ \/ /\ BoxOf[t] \in subi
        /\ pc' = [pc EXCEPT ![t] = "running"]
        /\ UNCHANGED <<todo, subi>>
     \/ /\ BoxOf[t] \notin subi
        /\ subi' = subi \cup {BoxOf[t]}
        /\ todo' = [todo EXCEPT ![t] = Wants[BoxOf[t]]]
        /\ pc' = [pc EXCEPT ![t] = "subscribing"]
  /\ UNCHANGED <<main, subs, current, mailing, sent>>

(* post_office_subscribe: the next bit of the mask, under the mutex.       *)
Subscribe(t) ==
  /\ pc[t] = "subscribing"
  /\ \E type \in todo[t] :
       /\ \A u \in todo[t] : type <= u
       /\ subs' = [subs EXCEPT ![type] = Append(@, BoxOf[t])]
       /\ todo' = [todo EXCEPT ![t] = @ \ {type}]
  /\ UNCHANGED <<pc, main, subi, current, mailing, sent>>

(* post_office_subscribe: no bit is left, wait at the barrier.             *)
Wait(t) ==
  /\ pc[t] = "subscribing"
  /\ todo[t] = {}
  /\ pc' = [pc EXCEPT ![t] = "waiting"]
  /\ UNCHANGED <<todo, main, subi, subs, current, mailing, sent>>

(* safeguard_init: the safeguard waits without subscribing.                *)
MainWait ==
  /\ main = "start"
  /\ main' = "waiting"
  /\ UNCHANGED <<pc, todo, subi, subs, current, mailing, sent>>

(* Mutant: barrier_offset is 0, so one party fewer opens the barrier.      *)
OpenEarly ==
  /\ Cardinality(Waiting) + (IF main = "waiting" THEN 1 ELSE 0) = Parties - 1
  /\ pc' = [t \in Threads |-> IF t \in Waiting THEN "running" ELSE pc[t]]
  /\ main' = IF main = "waiting" THEN "running" ELSE main
  /\ UNCHANGED <<todo, subi, subs, current, mailing, sent>>

(* Mutant: barrier_offset is 2, one party that never comes.                *)
OpenNever ==
  /\ Cardinality(Waiting) + (IF main = "waiting" THEN 1 ELSE 0) = Parties + 1
  /\ pc' = [t \in Threads |-> IF t \in Waiting THEN "running" ELSE pc[t]]
  /\ main' = IF main = "waiting" THEN "running" ELSE main
  /\ UNCHANGED <<todo, subi, subs, current, mailing, sent>>

(* The barrier opens when all its parties wait.                            *)
Open ==
  /\ Cardinality(Waiting) + (IF main = "waiting" THEN 1 ELSE 0) = Parties
  /\ pc' = [t \in Threads |-> IF t \in Waiting THEN "running" ELSE pc[t]]
  /\ main' = IF main = "waiting" THEN "running" ELSE main
  /\ UNCHANGED <<todo, subi, subs, current, mailing, sent>>

(* safeguard_restart_thread, once safeguard_init has returned: a new       *)
(* thread for the box; the old one is cancelled, but not waited for.       *)
Restart(t) ==
  /\ main = "running"
  /\ pc[t] = "none"
  /\ pc' = [pc EXCEPT ![t] = "start"]
  /\ current' = [current EXCEPT ![BoxOf[t]] = t]
  /\ UNCHANGED <<todo, main, subi, subs, mailing, sent>>

-----------------------------------------------------------------------------
Post(p, type) ==
  LET m == [n |-> Len(sent) + 1, from |-> p, type |-> type, report |-> FALSE]
  IN  /\ sent' = Append(sent, m)
      /\ queue' = [queue EXCEPT ![p] = Append(@, m)]
      /\ UNCHANGED <<hand, boxes>>

(* postman_deliver: a new postman announces itself through its own queue.  *)
Greet(t) ==
  /\ IsPostman(t)
  /\ pc[t] = "running"
  /\ pc' = [pc EXCEPT ![t] = "delivering"]
  /\ Post(t, AssistType)
  /\ UNCHANGED <<todo, main, subi, subs, current>>

(* The threads that may send, and what; the broker waits for nobody.       *)
MaySend(p, type) ==
  \/ p = Broker /\ type \in Sends[Broker]
  \/ p = Main /\ main = "running" /\ type \in Sends[Main]
  \/ /\ p \in Threads
     /\ ~IsPostman(p)
     /\ pc[p] = "running"
     /\ type \in Sends[BoxOf[p]]

Greetings == {i \in DOMAIN sent : sent[i].from \in Threads /\ IsPostman(sent[i].from)}

Send(p, type) ==
  /\ Len(sent) - Cardinality(Greetings) < MaxMail
  /\ MaySend(p, type)
  /\ Post(p, type)
  /\ UNCHANGED startup

-----------------------------------------------------------------------------
Routable(m) == m.type # NoType /\ subs[m.type] # <<>>

ReportOf(m) == [m EXCEPT !.type = LogType, !.report = TRUE]

Holding(m) ==
  IF subs[m.type] = <<>> THEN Empty
  ELSE [busy |-> TRUE, mail |-> m, served |-> 0]

(* The branches on the type: a mail to the postman itself ends here, an    *)
(* unroutable one is replaced by its report.                               *)
Route(t, m) ==
  \/ /\ m.type = PostmanType
     /\ UNCHANGED hand
  \/ /\ m.type # PostmanType /\ ~Routable(m)
     /\ hand' = [hand EXCEPT ![t] = Holding(ReportOf(m))]
  \/ /\ m.type # PostmanType /\ Routable(m)
     /\ hand' = [hand EXCEPT ![t] = Holding(m)]

(* Mutant: the queue hands out a sender's mails last in, first out.        *)
TakeLast(t, p) ==
  /\ IsPostman(t) /\ pc[t] = "delivering"
  /\ ~hand[t].busy
  /\ queue[p] # <<>>
  /\ Route(t, Last(queue[p]))
  /\ queue' = [queue EXCEPT ![p] = Front(@)]
  /\ UNCHANGED <<startup, boxes, sent>>

(* postman_deliver: take the next mail of any sender.                      *)
Take(t, p) ==
  /\ IsPostman(t) /\ pc[t] = "delivering"
  /\ ~hand[t].busy
  /\ queue[p] # <<>>
  /\ Route(t, Head(queue[p]))
  /\ queue' = [queue EXCEPT ![p] = Tail(@)]
  /\ UNCHANGED <<startup, boxes, sent>>

Left(t) == Len(subs[hand[t].mail.type]) - hand[t].served

(* Mutant: the loop counter is advanced twice.                             *)
PutSkips(t) ==
  /\ hand[t].busy
  /\ LET m == hand[t].mail
         i == hand[t].served + 1
     IN  /\ boxes' = [boxes EXCEPT ![subs[m.type][i]] = Append(@, m)]
         /\ hand' = [hand EXCEPT ![t] =
                      IF Left(t) = 1 THEN Empty ELSE [@ EXCEPT !.served = i + 1]]
  /\ UNCHANGED <<startup, queue, sent>>

(* Mutant: the loop over the subscribers ends one too early.               *)
PutStops(t) ==
  /\ hand[t].busy
  /\ LET m == hand[t].mail
         i == hand[t].served + 1
     IN  /\ boxes' = [boxes EXCEPT ![subs[m.type][i]] = Append(@, m)]
         /\ hand' = [hand EXCEPT ![t] =
                      IF Left(t) <= 2 THEN Empty ELSE [@ EXCEPT !.served = i]]
  /\ UNCHANGED <<startup, queue, sent>>

(* postman_send: one turn of the loop over the subscribers, the last of    *)
(* which lays the mail down.                                               *)
Put(t) ==
  /\ hand[t].busy
  /\ LET m == hand[t].mail
         i == hand[t].served + 1
     IN  /\ boxes' = [boxes EXCEPT ![subs[m.type][i]] = Append(@, m)]
         /\ hand' = [hand EXCEPT ![t] =
                      IF Left(t) = 1 THEN Empty ELSE [@ EXCEPT !.served = i]]
  /\ UNCHANGED <<startup, queue, sent>>

(* A cancelled thread ends where it waits for a mail, so never with a mail *)
(* in its hand.                                                            *)
End(t) ==
  /\ t # current[BoxOf[t]]
  /\ pc[t] = IF IsPostman(t) THEN "delivering" ELSE "running"
  /\ ~hand[t].busy
  /\ pc' = [pc EXCEPT ![t] = "ended"]
  /\ UNCHANGED <<todo, main, subi, subs, current, mailing, sent>>

Join(t) == EnterSubscribe(t) \/ Subscribe(t) \/ Wait(t)

Deliver(t) == (\E p \in Producers : Take(t, p)) \/ Put(t)

Next ==
  \/ MainWait
  \/ Open
  \/ \E t \in Threads : Join(t) \/ Greet(t) \/ Deliver(t) \/ Restart(t) \/ End(t)
  \/ \E p \in Producers, type \in Types \cup {NoType} : Send(p, type)

Spec == Init /\ [][Next]_vars

(* The scheduler runs every thread; nothing else has to happen.            *)
FairSpec ==
  /\ Spec
  /\ WF_vars(MainWait)
  /\ WF_vars(Open)
  /\ \A t \in Threads : WF_vars(Join(t)) /\ WF_vars(Greet(t)) /\ WF_vars(Deliver(t))

-----------------------------------------------------------------------------
(* The types of the variables; the postman's loop stays in the table.      *)
TypeOK ==
  /\ pc \in [Threads -> {"none", "start", "subscribing", "waiting", "running",
                         "delivering", "ended"}]
  /\ todo \in [Threads -> SUBSET Types]
  /\ main \in {"start", "waiting", "running"}
  /\ subi \subseteq Boxes
  /\ subs \in [Types -> Seq(Boxes)]
  /\ current \in [Boxes -> Threads]
  /\ queue \in [Producers -> Seq(Mail)]
  /\ hand \in [Threads -> {Empty} \cup
                 [busy : {TRUE}, mail : Mail, served : Nat]]
  /\ \A t \in Threads :
       hand[t].busy => hand[t].served < Len(subs[hand[t].mail.type])
  /\ boxes \in [Boxes -> Seq(Mail)]
  /\ sent \in Seq(Mail)

(* While a postman delivers, the table he reads without the mutex lists    *)
(* every box once under each type it wants, and under no other: nobody     *)
(* writes it any more, restarted threads included.                         *)
TableComplete ==
  \A t \in Threads :
    hand[t].busy => \A type \in Types :
                     /\ ToSet(subs[type]) = {b \in Boxes : type \in Wants[b]}
                     /\ IsInjective(subs[type])

(* Once the safeguard runs, nobody waits at the barrier: it opened for     *)
(* all, and a replacement, which would wait alone for ever, passes it by.  *)
NobodyLeftWaiting == main = "running" => Waiting = {}

Handled(m) ==
  /\ \A p \in Producers : \A i \in DOMAIN queue[p] : queue[p][i].n # m.n
  /\ \A t \in Threads : hand[t].busy => hand[t].mail.n # m.n

(* The boxes a mail, or its report, belongs in.                            *)
Receivers(m) ==
  IF m.type = PostmanType THEN {}
  ELSE LET direct == {b \in Boxes : m.type \in Wants[b]}
       IN  IF direct = {} THEN {b \in Boxes : LogType \in Wants[b]} ELSE direct

Copies(b, m) == {i \in DOMAIN boxes[b] : boxes[b][i].n = m.n}

(* Every mail, or its report, comes exactly once into every box it belongs *)
(* in and into no other, whichever postmen are at work or cancelled.       *)
DeliveredOnce ==
  \A k \in DOMAIN sent, b \in Boxes :
    LET m == sent[k]
    IN  /\ Cardinality(Copies(b, m)) <= 1
        /\ Copies(b, m) # {} => b \in Receivers(m)
        /\ Handled(m) /\ b \in Receivers(m) => Copies(b, m) # {}

Postmen == {t \in Threads : IsPostman(t) /\ pc[t] # "none"}

(* As long as the postman was not restarted, a box gets the mails of each  *)
(* sender in the order they were sent.                                     *)
OrderPerSender ==
  Cardinality(Postmen) = 1 =>
    \A b \in Boxes : \A i, j \in DOMAIN boxes[b] :
      i < j /\ boxes[b][i].from = boxes[b][j].from => boxes[b][i].n < boxes[b][j].n

(* Every mail sent is handled, whatever threads were restarted meanwhile.  *)
EveryMailHandled ==
  \A n \in 1 .. MaxMail :
    n <= Len(sent) ~> n <= Len(sent) /\ Handled(sent[n])
=============================================================================
