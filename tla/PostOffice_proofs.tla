-------------------------- MODULE PostOffice_proofs --------------------------
(***************************************************************************)
(* What is proved of the mail service for every number of boxes, threads   *)
(* and types: the barrier lets everybody pass, the table is complete when  *)
(* the postman reads it, and every mail comes once where it belongs and,   *)
(* as long as there is one postman, in the order of its sender.            *)
(***************************************************************************)
EXTENDS PostOffice, FiniteSetTheorems, SequenceTheorems, TLAPS

-----------------------------------------------------------------------------
(* The start-up.  Before the barrier opens only the threads created first  *)
(* exist, none has passed it, and those that have left the start are those *)
(* whose boxes have subscribed; once it is open nobody subscribes.         *)
Joining ==
  /\ main # "running" =>
       \A t \in Threads :
         /\ pc[t] \in {"none", "start", "subscribing", "waiting"}
         /\ pc[t] # "none" => First[BoxOf[t]] = t
         /\ pc[t] = "start" => BoxOf[t] \notin subi
         /\ pc[t] \in {"subscribing", "waiting"} => BoxOf[t] \in subi
         /\ First[BoxOf[t]] = t => pc[t] # "none"
  /\ main = "running" =>
       /\ subi = Boxes
       /\ \A t \in Threads : pc[t] \notin {"subscribing", "waiting"}

(* What a thread has still to subscribe to.                                *)
ToDo ==
  \A t \in Threads :
    /\ todo[t] \subseteq Wants[BoxOf[t]]
    /\ todo[t] # {} => pc[t] = "subscribing"

(* The table so far: what the boxes want, less what is still to be done.   *)
Subscribed(b, type) == b \in subi /\ type \in Wants[b] /\ type \notin todo[First[b]]

Table ==
  \A type \in Types :
    /\ \A b \in Boxes : b \in ToSet(subs[type]) <=> Subscribed(b, type)
    /\ IsInjective(subs[type])

(* The postman's hand.                                                     *)
Hands ==
  \A t \in Threads : hand[t].busy =>
    /\ pc[t] = "delivering"
    /\ IsPostman(t)
    /\ hand[t].mail.type \in Types
    /\ hand[t].mail.n \in DOMAIN sent
    /\ hand[t].mail.from = sent[hand[t].mail.n].from
    /\ Receivers(sent[hand[t].mail.n]) = ToSet(subs[hand[t].mail.type])

(* A mail is known by its number, wherever it is.                          *)
Numbered ==
  /\ \A k \in DOMAIN sent : sent[k].n = k
  /\ \A p \in Producers : \A i \in DOMAIN queue[p] :
       /\ queue[p][i].n \in DOMAIN sent
       /\ queue[p][i] = sent[queue[p][i].n]
       /\ queue[p][i].from = p
  /\ \A b \in Boxes : \A i \in DOMAIN boxes[b] :
       /\ boxes[b][i].n \in DOMAIN sent
       /\ boxes[b][i].from = sent[boxes[b][i].n].from

InQueue(p, k) == \E i \in DOMAIN queue[p] : queue[p][i].n = k

InBox(b, k) == \E i \in DOMAIN boxes[b] : boxes[b][i].n = k

Carries(t, k) == hand[t].busy /\ hand[t].mail.n = k

(* The boxes that a postman has served with the mail in his hand.          *)
Served(t) == {subs[hand[t].mail.type][i] : i \in 1 .. hand[t].served}

(* A sender's queue holds the last mails he sent, in order.                *)
Queued ==
  \A p \in Producers : \A i \in DOMAIN queue[p] :
    /\ \A j \in DOMAIN queue[p] : i < j => queue[p][i].n < queue[p][j].n
    /\ \A k \in DOMAIN sent :
         sent[k].from = p /\ queue[p][i].n < k => InQueue(p, k)

(* A mail is in one place: in its queue, in one hand, or handled; and what *)
(* the boxes hold of it is what its place says.                            *)
PlaceInHand ==
  \A t \in Threads, k \in DOMAIN sent : Carries(t, k) =>
    /\ \A p \in Producers : ~InQueue(p, k)
    /\ \A u \in Threads : Carries(u, k) => u = t
    /\ \A b \in Boxes : InBox(b, k) <=> b \in Served(t)

PlaceInQueue ==
  \A p \in Producers, k \in DOMAIN sent : InQueue(p, k) =>
    \A b \in Boxes : ~InBox(b, k)

PlaceInBoxes ==
  \A k \in DOMAIN sent :
    (\A p \in Producers : ~InQueue(p, k)) /\ (\A t \in Threads : ~Carries(t, k)) =>
      \A b \in Boxes : InBox(b, k) <=> b \in Receivers(sent[k])

OnePlace == PlaceInHand /\ PlaceInQueue /\ PlaceInBoxes

OneCopy ==
  \A b \in Boxes : \A i, j \in DOMAIN boxes[b] : boxes[b][i].n = boxes[b][j].n => i = j

(* One postman at most.                                                    *)
Lone == \A t, u \in Postmen : t = u

(* A lone postman serves the mails of a sender one after the other.        *)
InTurn ==
  Lone =>
    \A b \in Boxes : \A i \in DOMAIN boxes[b] :
      /\ \A j \in DOMAIN boxes[b] :
           i < j /\ boxes[b][i].from = boxes[b][j].from => boxes[b][i].n < boxes[b][j].n
      /\ \A t \in Threads :
           hand[t].busy /\ hand[t].mail.from = boxes[b][i].from =>
             boxes[b][i].n <= hand[t].mail.n

-----------------------------------------------------------------------------
StartTyped ==
  /\ pc \in [Threads -> {"none", "start", "subscribing", "waiting", "running",
                         "delivering", "ended"}]
  /\ todo \in [Threads -> SUBSET Types]
  /\ main \in {"start", "waiting", "running"}
  /\ subi \subseteq Boxes
  /\ subs \in [Types -> Seq(Boxes)]
  /\ current \in [Boxes -> Threads]

StartInv == StartTyped /\ Joining /\ ToDo /\ Table

(* The table is complete once the safeguard runs.                          *)
LEMMA TableWhenRunning ==
  ASSUME StartInv, main = "running", NEW type \in Types
  PROVE  /\ ToSet(subs[type]) = {b \in Boxes : type \in Wants[b]}
         /\ IsInjective(subs[type])
<1>1. ToSet(subs[type]) \subseteq Boxes
  BY DEF StartInv, StartTyped, ToSet
<1>2. \A b \in Boxes : todo[First[b]] = {} /\ b \in subi
  BY BoxAssumption DEF StartInv, Joining, ToDo
<1>3. \A b \in Boxes : b \in ToSet(subs[type]) <=> type \in Wants[b]
  BY <1>2 DEF StartInv, Table, Subscribed
<1> QED
  BY <1>1, <1>3 DEF StartInv, Table

(* The start's invariant holds at the start, and each step of a thread     *)
(* that subscribes keeps it:                                               *)
LEMMA InitStart == Init => StartInv
<1> SUFFICES ASSUME Init PROVE StartInv
  OBVIOUS
<1>1. StartTyped
  BY BoxAssumption DEF Init, StartTyped
<1>2. Joining
  BY DEF Init, Joining
<1>3. ToDo
  BY DEF Init, ToDo
<1>4. Table
  BY DEF Init, Table, Subscribed, ToSet, IsInjective
<1> QED
  BY <1>1, <1>2, <1>3, <1>4 DEF StartInv

(* Steps that leave the table and its progress alone.                      *)
LEMMA SameTable ==
  ASSUME StartInv, UNCHANGED <<todo, subi, subs>>
  PROVE  Table'
BY DEF StartInv, Table, Subscribed

(* a thread that begins to subscribe,                                      *)
LEMMA EnterKeeps ==
  ASSUME StartInv, NEW t \in Threads, EnterSubscribe(t)
  PROVE  StartInv'
<1>0. BoxOf[t] \in Boxes
  BY BoxAssumption
<1>1. CASE /\ BoxOf[t] \in subi
           /\ pc' = [pc EXCEPT ![t] = "running"]
           /\ UNCHANGED <<todo, subi>>
  <2>1. StartTyped'
    BY <1>1 DEF EnterSubscribe, StartInv, StartTyped
  <2>2. main = "running"
    BY <1>1 DEF EnterSubscribe, StartInv, StartTyped, Joining
  <2>3. Joining'
    BY <1>1, <2>2 DEF EnterSubscribe, StartInv, StartTyped, Joining
  <2>4. ToDo'
    BY <1>1 DEF EnterSubscribe, StartInv, StartTyped, ToDo
  <2>5. Table'
    BY <1>1, SameTable DEF EnterSubscribe
  <2> QED
    BY <2>1, <2>3, <2>4, <2>5 DEF StartInv
<1>2. CASE /\ BoxOf[t] \notin subi
           /\ subi' = subi \cup {BoxOf[t]}
           /\ todo' = [todo EXCEPT ![t] = Wants[BoxOf[t]]]
           /\ pc' = [pc EXCEPT ![t] = "subscribing"]
  <2>1. StartTyped'
    BY <1>0, <1>2, TypeAssumption DEF EnterSubscribe, StartInv, StartTyped
  <2>2. main # "running" /\ First[BoxOf[t]] = t
    BY <1>0, <1>2 DEF EnterSubscribe, StartInv, Joining
  <2>3. Joining'
    <3>1. \A u \in Threads : u # t /\ First[BoxOf[u]] = u => BoxOf[u] # BoxOf[t]
      BY <2>2
    <3> QED
      BY <1>2, <2>2, <3>1 DEF EnterSubscribe, StartInv, StartTyped, Joining
  <2>4. ToDo'
    BY <1>2 DEF EnterSubscribe, StartInv, StartTyped, ToDo
  <2>5. Table'
    <3>1. \A b \in Boxes : b # BoxOf[t] => First[b] # t
      BY BoxAssumption
    <3>2. ASSUME NEW type \in Types, NEW b \in Boxes
          PROVE  Subscribed(b, type)' <=> Subscribed(b, type)
      <4>1. CASE b = BoxOf[t]
        BY <1>2, <2>2, <4>1 DEF Subscribed, StartInv, StartTyped
      <4>2. CASE b # BoxOf[t]
        BY <1>2, <3>1, <4>2 DEF Subscribed, StartInv, StartTyped
      <4> QED
        BY <4>1, <4>2
    <3>3. subs' = subs
      BY DEF EnterSubscribe
    <3> QED
      BY <3>2, <3>3 DEF Table, StartInv
  <2> QED
    BY <2>1, <2>3, <2>4, <2>5 DEF StartInv
<1> QED
  BY <1>1, <1>2 DEF EnterSubscribe

(* one that subscribes to a type,                                          *)
LEMMA SubscribeKeeps ==
  ASSUME StartInv, NEW t \in Threads, Subscribe(t)
  PROVE  StartInv' /\ main # "running"
<1>0. BoxOf[t] \in Boxes
  BY BoxAssumption
<1>1. PICK type \in todo[t] :
        /\ subs' = [subs EXCEPT ![type] = Append(@, BoxOf[t])]
        /\ todo' = [todo EXCEPT ![t] = @ \ {type}]
  BY DEF Subscribe
<1>2. type \in Types /\ pc[t] = "subscribing" /\ UNCHANGED <<pc, main, subi, current>>
  BY DEF Subscribe, StartInv, StartTyped
<1>3. main # "running" /\ First[BoxOf[t]] = t /\ BoxOf[t] \in subi
  BY <1>2 DEF StartInv, Joining
<1>4. subs[type] \in Seq(Boxes)
  BY <1>2 DEF StartInv, StartTyped
<1>5. /\ Append(subs[type], BoxOf[t]) \in Seq(Boxes)
      /\ Len(Append(subs[type], BoxOf[t])) = Len(subs[type]) + 1
      /\ \A i \in 1 .. Len(subs[type]) : Append(subs[type], BoxOf[t])[i] = subs[type][i]
      /\ Append(subs[type], BoxOf[t])[Len(subs[type]) + 1] = BoxOf[t]
      /\ DOMAIN Append(subs[type], BoxOf[t]) = 1 .. Len(subs[type]) + 1
      /\ DOMAIN subs[type] = 1 .. Len(subs[type])
      /\ Len(subs[type]) \in Nat
  BY <1>0, <1>4, AppendProperties
<1>6. StartTyped'
  BY <1>1, <1>2, <1>5 DEF StartInv, StartTyped
<1>7. Joining'
  BY <1>2 DEF StartInv, Joining
<1>8. ToDo'
  BY <1>1, <1>2 DEF StartInv, StartTyped, ToDo
<1>9. ASSUME NEW u \in Types
      PROVE  /\ \A b \in Boxes : b \in ToSet(subs'[u]) <=> Subscribed(b, u)'
             /\ IsInjective(subs'[u])
  <2>1. CASE u # type
    <3>1. subs'[u] = subs[u]
      BY <1>1, <1>2, <2>1 DEF StartInv, StartTyped
    <3>2. \A b \in Boxes : Subscribed(b, u)' <=> Subscribed(b, u)
      BY <1>1, <1>2, <2>1, BoxAssumption DEF Subscribed, StartInv, StartTyped
    <3> QED
      BY <3>1, <3>2 DEF StartInv, Table
  <2>2. CASE u = type
    <3> DEFINE s == subs[type]
               r == Append(s, BoxOf[t])
    <3>1. subs'[u] = r
      BY <1>1, <1>2, <2>2 DEF StartInv, StartTyped
    <3>2. ToSet(r) = ToSet(s) \cup {BoxOf[t]}
      <4>1. ToSet(r) \subseteq ToSet(s) \cup {BoxOf[t]}
        BY <1>5 DEF ToSet
      <4>2. ToSet(s) \subseteq ToSet(r)
        BY <1>5 DEF ToSet
      <4>3. BoxOf[t] \in ToSet(r)
        BY <1>5 DEF ToSet
      <4> QED
        BY <4>1, <4>2, <4>3
    <3>3. \A b \in Boxes : b # BoxOf[t] => (Subscribed(b, type)' <=> Subscribed(b, type))
      BY <1>1, <1>2, BoxAssumption DEF Subscribed, StartInv, StartTyped
    <3>4. Subscribed(BoxOf[t], type)' /\ ~Subscribed(BoxOf[t], type)
      BY <1>1, <1>2, <1>3 DEF Subscribed, StartInv, StartTyped, ToDo
    <3>5. BoxOf[t] \notin ToSet(s)
      BY <1>0, <1>2, <3>4 DEF StartInv, Table
    <3>6. \A b \in Boxes : b \in ToSet(r) <=> Subscribed(b, type)'
      <4> HIDE DEF r, s
      <4>1. \A b \in Boxes : b \in ToSet(s) <=> Subscribed(b, type)
        BY <1>2 DEF s, StartInv, Table
      <4> QED
        BY <3>2, <3>3, <3>4, <4>1
    <3>7. IsInjective(r)
      <4>1. IsInjective(s)
        BY <1>2 DEF StartInv, Table
      <4>2. \A i \in 1 .. Len(s) : s[i] # BoxOf[t]
        BY <1>5, <3>5 DEF ToSet
      <4> QED
        BY <1>5, <4>1, <4>2 DEF IsInjective
    <3> HIDE DEF r
    <3> QED
      BY <3>1, <3>6, <3>7, <2>2
  <2> QED
    BY <2>1, <2>2
<1>10. Table'
  BY <1>9 DEF Table
<1> QED
  BY <1>3, <1>6, <1>7, <1>8, <1>10 DEF StartInv

(* one that comes to the barrier,                                          *)
LEMMA WaitKeeps ==
  ASSUME StartInv, NEW t \in Threads, Wait(t)
  PROVE  StartInv'
<1>1. StartTyped'
  BY DEF Wait, StartInv, StartTyped
<1>2. Joining'
  BY DEF Wait, StartInv, StartTyped, Joining
<1>3. ToDo'
  BY DEF Wait, StartInv, StartTyped, ToDo
<1>4. Table'
  BY SameTable DEF Wait
<1> QED
  BY <1>1, <1>2, <1>3, <1>4 DEF StartInv

(* the main thread that comes to it,                                       *)
LEMMA MainWaitKeeps ==
  ASSUME StartInv, MainWait
  PROVE  StartInv'
<1>1. StartTyped'
  BY DEF MainWait, StartInv, StartTyped
<1>2. Joining'
  BY DEF MainWait, StartInv, StartTyped, Joining
<1>3. ToDo'
  BY DEF MainWait, StartInv, ToDo
<1>4. Table'
  BY SameTable DEF MainWait
<1> QED
  BY <1>1, <1>2, <1>3, <1>4 DEF StartInv

(* The barrier opens only when the first thread of every box, and the      *)
(* safeguard, wait at it.                                                  *)
LEMMA OpenForAll ==
  ASSUME StartInv, Open
  PROVE  main = "waiting" /\ Waiting = {First[b] : b \in Boxes}
<1> DEFINE F == {First[b] : b \in Boxes}
           f == [b \in Boxes |-> First[b]]
<1>1. IsFiniteSet(F) /\ Cardinality(F) = Cardinality(Boxes)
  <2>1. f \in Bijection(Boxes, F)
    BY BoxAssumption DEF Bijection, Injection, Surjection, IsInjective
  <2>2. ExistsBijection(Boxes, F)
    BY <2>1 DEF ExistsBijection
  <2> QED
    BY <2>2, FS_Bijection, BoxAssumption
<1>2. Waiting \subseteq F
  <2>1. main # "running" \/ Waiting = {}
    BY DEF StartInv, Joining, Waiting
  <2> QED
    BY <2>1, BoxAssumption DEF StartInv, Joining, Waiting
<1>3. Cardinality(Waiting) <= Cardinality(F) /\ IsFiniteSet(Waiting)
  BY <1>1, <1>2, FS_Subset
<1>4. Cardinality(Waiting) \in Nat /\ Cardinality(F) \in Nat
  BY <1>1, <1>3, FS_CardinalityType
<1>5. Cardinality(Waiting) + (IF main = "waiting" THEN 1 ELSE 0) = Cardinality(F) + 1
  BY <1>1 DEF Open, Parties
<1>6. main = "waiting" /\ Cardinality(Waiting) = Cardinality(F)
  <2> HIDE DEF F
  <2> QED
    BY <1>3, <1>4, <1>5
<1>7. Waiting = F
  BY <1>1, <1>2, <1>6, FS_Subset
<1> QED
  BY <1>6, <1>7

(* the opening of the barrier,                                             *)
LEMMA OpenKeeps ==
  ASSUME StartInv, Open
  PROVE  StartInv'
<1>1. main = "waiting" /\ Waiting = {First[b] : b \in Boxes}
  BY OpenForAll
<1>2. /\ pc' = [t \in Threads |-> IF t \in Waiting THEN "running" ELSE pc[t]]
      /\ main' = "running" /\ UNCHANGED <<todo, subi, subs, current>>
  BY <1>1 DEF Open
<1>3. StartTyped'
  BY <1>2 DEF StartInv, StartTyped
<1>4. \A b \in Boxes : pc[First[b]] = "waiting"
  BY <1>1 DEF Waiting
<1>5. Boxes \subseteq subi
  <2> SUFFICES ASSUME NEW b \in Boxes PROVE b \in subi
    OBVIOUS
  <2>1. First[b] \in Threads /\ BoxOf[First[b]] = b
    BY BoxAssumption
  <2> QED
    BY <1>1, <1>4, <2>1 DEF StartInv, Joining
<1>6. Joining'
  <2>1. \A t \in Threads : pc[t] \in {"subscribing", "waiting"} => t \in Waiting
    <3> SUFFICES ASSUME NEW t \in Threads, pc[t] \in {"subscribing", "waiting"}
                 PROVE  t \in Waiting
      OBVIOUS
    <3>1. First[BoxOf[t]] = t /\ BoxOf[t] \in Boxes
      BY <1>1, BoxAssumption DEF StartInv, Joining
    <3> QED
      BY <1>1, <3>1
  <2>2. \A t \in Threads : pc'[t] \notin {"subscribing", "waiting"}
    BY <1>2, <2>1
  <2>3. subi' = Boxes
    BY <1>2, <1>5 DEF StartInv, StartTyped
  <2> QED
    BY <1>2, <2>2, <2>3 DEF Joining
<1>7. ToDo'
  <2>1. \A t \in Threads : pc[t] # "subscribing"
    <3> SUFFICES ASSUME NEW t \in Threads, pc[t] = "subscribing" PROVE FALSE
      OBVIOUS
    <3>1. First[BoxOf[t]] = t /\ BoxOf[t] \in Boxes
      BY <1>1, BoxAssumption DEF StartInv, Joining
    <3> QED
      BY <1>4, <3>1
  <2> QED
    BY <1>2, <2>1 DEF StartInv, ToDo
<1>8. Table'
  BY <1>2, SameTable
<1> QED
  BY <1>3, <1>6, <1>7, <1>8 DEF StartInv

(* the restart of a thread, wherever it is,                                *)
LEMMA RestartKeeps ==
  ASSUME StartInv, NEW t \in Threads, Restart(t)
  PROVE  StartInv'
<1>1. StartTyped'
  BY BoxAssumption DEF Restart, StartInv, StartTyped
<1>2. Joining'
  BY DEF Restart, StartInv, StartTyped, Joining
<1>3. ToDo'
  BY DEF Restart, StartInv, StartTyped, ToDo
<1>4. Table'
  BY SameTable DEF Restart
<1> QED
  BY <1>1, <1>2, <1>3, <1>4 DEF StartInv

(* A thread that has passed the barrier goes on, or ends.                  *)
LEMMA PassedKeeps ==
  ASSUME StartInv, NEW t \in Threads, NEW label \in {"delivering", "ended"},
         pc[t] \in {"running", "delivering"}, pc' = [pc EXCEPT ![t] = label],
         UNCHANGED <<todo, main, subi, subs, current>>
  PROVE  StartInv'
<1>1. StartTyped'
  BY DEF StartInv, StartTyped
<1>2. main = "running"
  BY DEF StartInv, StartTyped, Joining
<1>3. Joining'
  BY <1>2 DEF StartInv, StartTyped, Joining
<1>4. ToDo'
  BY DEF StartInv, StartTyped, ToDo
<1>5. Table'
  BY SameTable
<1> QED
  BY <1>1, <1>3, <1>4, <1>5 DEF StartInv

(* its first mail,                                                         *)
LEMMA GreetKeeps ==
  ASSUME StartInv, NEW t \in Threads, Greet(t)
  PROVE  StartInv'
BY PassedKeeps DEF Greet

(* and its end.                                                            *)
LEMMA EndKeeps ==
  ASSUME StartInv, NEW t \in Threads, End(t)
  PROVE  StartInv'
<1>1. pc[t] \in {"running", "delivering"}
  BY DEF End
<1> QED
  BY <1>1, PassedKeeps DEF End

(* Steps that touch nothing of the start keep its invariant.               *)
LEMMA SameStart ==
  ASSUME StartInv, UNCHANGED startup
  PROVE  StartInv'
BY DEF startup, StartInv, StartTyped, Joining, ToDo, Table, Subscribed

(* Each step keeps the start's invariant.                                  *)
LEMMA StartStep == StartInv /\ [Next]_vars => StartInv'
<1> SUFFICES ASSUME StartInv, [Next]_vars PROVE StartInv'
  OBVIOUS
<1>1. CASE MainWait
  BY <1>1, MainWaitKeeps
<1>2. CASE Open
  BY <1>2, OpenKeeps
<1>3. ASSUME NEW t \in Threads, Join(t) \/ Greet(t) \/ Restart(t) \/ End(t)
      PROVE  StartInv'
  BY <1>3, EnterKeeps, SubscribeKeeps, WaitKeeps, GreetKeeps, RestartKeeps, EndKeeps
     DEF Join
<1>4. ASSUME NEW t \in Threads, Deliver(t)
      PROVE  StartInv'
  BY <1>4, SameStart DEF Deliver, Take, Put
<1>5. ASSUME NEW p \in Producers, NEW type \in Types \cup {NoType}, Send(p, type)
      PROVE  StartInv'
  BY <1>5, SameStart DEF Send
<1>6. CASE UNCHANGED vars
  BY <1>6, SameStart DEF vars
<1> QED
  BY <1>1, <1>2, <1>3, <1>4, <1>5, <1>6 DEF Next

-----------------------------------------------------------------------------
MailTyped ==
  /\ queue \in [Producers -> Seq(Mail)]
  /\ hand \in [Threads -> {Empty} \cup
                 [busy : {TRUE}, mail : Mail, served : Nat]]
  /\ \A t \in Threads :
       hand[t].busy => hand[t].served < Len(subs[hand[t].mail.type])
  /\ boxes \in [Boxes -> Seq(Mail)]
  /\ sent \in Seq(Mail)

MailInv ==
  /\ MailTyped
  /\ Hands
  /\ Numbered
  /\ Queued
  /\ OnePlace
  /\ OneCopy
  /\ InTurn

(* No mail is under way at the start.                                      *)
LEMMA InitMail == Init => MailInv
<1> SUFFICES ASSUME Init PROVE MailInv
  OBVIOUS
<1>0. /\ \A p \in Producers : queue[p] = <<>>
      /\ \A t \in Threads : hand[t] = Empty /\ ~hand[t].busy
      /\ \A b \in Boxes : boxes[b] = <<>>
      /\ sent = <<>> /\ DOMAIN sent = {}
  BY DEF Init, Empty
<1>1. MailTyped
  BY <1>0 DEF Init, MailTyped
<1>2. Hands
  BY <1>0 DEF Hands
<1>3. Numbered /\ Queued /\ OneCopy /\ InTurn
  BY <1>0 DEF Numbered, Queued, OneCopy, InTurn
<1>4. OnePlace
  BY <1>0 DEF OnePlace, PlaceInHand, PlaceInQueue, PlaceInBoxes
<1> QED
  BY <1>1, <1>2, <1>3, <1>4 DEF MailInv

(* A step that moves no mail and, if a postman delivers, keeps the table.  *)
LEMMA QuietKeeps ==
  ASSUME MailInv, UNCHANGED <<mailing, sent>>,
         \A t \in Threads : hand[t].busy => pc'[t] = pc[t] /\ subs' = subs,
         \A t \in Threads : pc'[t] = "none" => pc[t] = "none"
  PROVE  MailInv'
<1>0. queue' = queue /\ hand' = hand /\ boxes' = boxes /\ sent' = sent
  BY DEF mailing
<1>1. MailTyped'
  BY <1>0 DEF MailInv, MailTyped
<1>2. Hands'
  <2>1. ASSUME NEW t \in Threads, hand[t].busy
        PROVE  /\ pc'[t] = pc[t] /\ subs' = subs /\ IsPostman(t) /\ pc[t] = "delivering"
               /\ hand[t].mail.type \in Types /\ hand[t].mail.n \in DOMAIN sent
               /\ hand[t].mail.from = sent[hand[t].mail.n].from
               /\ Receivers(sent[hand[t].mail.n]) = ToSet(subs[hand[t].mail.type])
    BY <2>1 DEF MailInv, Hands
  <2> QED
    BY <1>0, <2>1 DEF Hands, Receivers
<1>3. Numbered' /\ Queued' /\ OneCopy'
  BY <1>0 DEF MailInv, Numbered, Queued, OneCopy, InQueue
<1>4. OnePlace'
  <2>1. \A t \in Threads : hand[t].busy => Served(t)' = Served(t)
    BY <1>0 DEF Served
  <2>2. \A t \in Threads, k \in DOMAIN sent : Carries(t, k)' <=> Carries(t, k)
    BY <1>0 DEF Carries
  <2>3. \A p \in Producers, k \in DOMAIN sent : InQueue(p, k)' <=> InQueue(p, k)
    BY <1>0 DEF InQueue
  <2>4. \A b \in Boxes, k \in DOMAIN sent : InBox(b, k)' <=> InBox(b, k)
    BY <1>0 DEF InBox
  <2>5. \A k \in DOMAIN sent : Receivers(sent[k])' = Receivers(sent[k])
    BY <1>0 DEF Receivers
  <2>6. \A t \in Threads, k \in DOMAIN sent : Carries(t, k) => hand[t].busy
    BY DEF Carries
  <2> QED
    BY <1>0, <2>1, <2>2, <2>3, <2>4, <2>5, <2>6
       DEF MailInv, OnePlace, PlaceInHand, PlaceInQueue, PlaceInBoxes
<1>5. InTurn'
  <2>1. Postmen \subseteq Postmen'
    BY DEF Postmen, IsPostman
  <2> QED
    BY <1>0, <2>1 DEF MailInv, InTurn, Lone
<1> QED
  BY <1>1, <1>2, <1>3, <1>4, <1>5 DEF MailInv

(* A busy postman works under a running safeguard.                         *)
LEMMA BusyRunning ==
  ASSUME StartInv, MailInv, NEW t \in Threads, hand[t].busy
  PROVE  /\ main = "running" /\ pc[t] = "delivering" /\ IsPostman(t) /\ t \in Postmen
         /\ hand[t].mail \in Mail /\ hand[t].served \in Nat
         /\ hand[t].mail.type \in Types
         /\ subs[hand[t].mail.type] \in Seq(Boxes)
<1>1. hand[t] \in [busy : {TRUE}, mail : Mail, served : Nat]
  <2>1. Empty.busy = FALSE
    BY DEF Empty
  <2>2. hand[t] # Empty
    BY <2>1
  <2> QED
    BY <2>2 DEF MailInv, MailTyped
<1> QED
  BY <1>1 DEF StartInv, StartTyped, Joining, MailInv, Hands, Postmen

(* Steps that move no mail keep the invariant of the mails.                *)
LEMMA QuietSteps ==
  ASSUME StartInv, MailInv,
         \/ MainWait
         \/ Open
         \/ \E t \in Threads : Join(t) \/ Restart(t) \/ End(t)
         \/ UNCHANGED vars
  PROVE  MailInv'
<1>1. ASSUME NEW t \in Threads, hand[t].busy
      PROVE  main = "running" /\ pc[t] = "delivering"
  BY <1>1, BusyRunning
<1>2. CASE MainWait
  BY <1>2, QuietKeeps DEF MainWait
<1>3. CASE Open
  <2>1. \A t \in Threads : ~hand[t].busy
    BY <1>1, <1>3, OpenForAll
  <2>2. \A t \in Threads : pc'[t] = "none" => pc[t] = "none"
    BY <1>3 DEF Open
  <2> QED
    BY <1>3, <2>1, <2>2, QuietKeeps DEF Open
<1>4. ASSUME NEW u \in Threads, EnterSubscribe(u)
      PROVE  MailInv'
  <2>1. pc[u] = "start" /\ pc' \in {[pc EXCEPT ![u] = "running"], [pc EXCEPT ![u] = "subscribing"]}
    BY <1>4 DEF EnterSubscribe
  <2>2. /\ \A t \in Threads : hand[t].busy => pc'[t] = pc[t]
        /\ \A t \in Threads : pc'[t] = "none" => pc[t] = "none"
    BY <1>1, <2>1 DEF StartInv, StartTyped
  <2> QED
    BY <1>4, <2>2, QuietKeeps DEF EnterSubscribe
<1>5. ASSUME NEW u \in Threads, Subscribe(u)
      PROVE  MailInv'
  <2>1. \A t \in Threads : ~hand[t].busy
    BY <1>1, <1>5, SubscribeKeeps
  <2> QED
    BY <1>5, <2>1, QuietKeeps DEF Subscribe
<1>6. ASSUME NEW u \in Threads, Wait(u)
      PROVE  MailInv'
  <2>1. /\ \A t \in Threads : hand[t].busy => pc'[t] = pc[t]
        /\ \A t \in Threads : pc'[t] = "none" => pc[t] = "none"
    BY <1>1, <1>6 DEF Wait, StartInv, StartTyped
  <2> QED
    BY <1>6, <2>1, QuietKeeps DEF Wait
<1>7. ASSUME NEW u \in Threads, Restart(u)
      PROVE  MailInv'
  <2>1. /\ \A t \in Threads : hand[t].busy => pc'[t] = pc[t]
        /\ \A t \in Threads : pc'[t] = "none" => pc[t] = "none"
    BY <1>1, <1>7 DEF Restart, StartInv, StartTyped
  <2> QED
    BY <1>7, <2>1, QuietKeeps DEF Restart
<1>8. ASSUME NEW u \in Threads, End(u)
      PROVE  MailInv'
  <2>1. /\ \A t \in Threads : hand[t].busy => pc'[t] = pc[t]
        /\ \A t \in Threads : pc'[t] = "none" => pc[t] = "none"
    BY <1>8 DEF End, StartInv, StartTyped
  <2> QED
    BY <1>8, <2>1, QuietKeeps DEF End
<1>9. CASE UNCHANGED vars
  BY <1>9, QuietKeeps DEF vars, startup
<1> QED
  BY <1>2, <1>3, <1>4, <1>5, <1>6, <1>7, <1>8, <1>9 DEF Join

-----------------------------------------------------------------------------
(* Sending.                                                                *)
NextMail(p, type) == [n |-> Len(sent) + 1, from |-> p, type |-> type, report |-> FALSE]

(* A mail that is sent is the last of its sender's queue.                  *)
LEMMA PostFacts ==
  ASSUME MailInv, NEW p \in Producers, NEW type \in Types \cup {NoType}, Post(p, type)
  PROVE  /\ NextMail(p, type) \in Mail
         /\ Len(sent) \in Nat /\ DOMAIN sent = 1 .. Len(sent)
         /\ sent' \in Seq(Mail) /\ DOMAIN sent' = 1 .. Len(sent) + 1
         /\ \A k \in DOMAIN sent : sent'[k] = sent[k]
         /\ sent'[Len(sent) + 1] = NextMail(p, type)
         /\ queue' \in [Producers -> Seq(Mail)]
         /\ \A q \in Producers : q # p => queue'[q] = queue[q]
         /\ Len(queue[p]) \in Nat /\ DOMAIN queue[p] = 1 .. Len(queue[p])
         /\ DOMAIN queue'[p] = 1 .. Len(queue[p]) + 1
         /\ \A i \in DOMAIN queue[p] : queue'[p][i] = queue[p][i]
         /\ queue'[p][Len(queue[p]) + 1] = NextMail(p, type)
         /\ hand' = hand /\ boxes' = boxes
<1> DEFINE m == NextMail(p, type)
<1>0. queue[p] \in Seq(Mail) /\ sent \in Seq(Mail) /\ queue \in [Producers -> Seq(Mail)]
  BY DEF MailInv, MailTyped
<1>1. Len(sent) \in Nat
  BY <1>0
<1>2. m \in Mail
  BY <1>1 DEF NextMail, Mail
<1>3. /\ sent' = Append(sent, m)
      /\ queue' = [queue EXCEPT ![p] = Append(queue[p], m)]
      /\ hand' = hand /\ boxes' = boxes
  BY DEF Post, NextMail
<1> HIDE DEF m
<1>4. /\ sent' \in Seq(Mail) /\ Len(sent') = Len(sent) + 1
      /\ \A k \in 1 .. Len(sent) : sent'[k] = sent[k]
      /\ sent'[Len(sent) + 1] = m
  BY <1>0, <1>2, <1>3, AppendProperties
<1>5. queue'[p] = Append(queue[p], m) /\ \A q \in Producers : q # p => queue'[q] = queue[q]
  BY <1>0, <1>3
<1>6. /\ queue'[p] \in Seq(Mail) /\ Len(queue'[p]) = Len(queue[p]) + 1
      /\ \A i \in 1 .. Len(queue[p]) : queue'[p][i] = queue[p][i]
      /\ queue'[p][Len(queue[p]) + 1] = m
  BY <1>0, <1>2, <1>5, AppendProperties
<1>7. queue' \in [Producers -> Seq(Mail)]
  BY <1>0, <1>3, <1>5, <1>6
<1> QED
  BY <1>0, <1>1, <1>2, <1>3, <1>4, <1>5, <1>6, <1>7 DEF m

(* A mail that is sent is in one place, the queue.                         *)
LEMMA PostKeeps ==
  ASSUME MailInv, NEW p \in Producers, NEW type \in Types \cup {NoType},
         Post(p, type), subs' = subs,
         \A t \in Threads : hand[t].busy => pc'[t] = pc[t],
         \A t \in Threads : pc'[t] = "none" => pc[t] = "none"
  PROVE  MailInv'
<1>m. PICK m : m = NextMail(p, type)
  OBVIOUS
<1>N. PICK N : N = Len(sent) + 1
  OBVIOUS
<1>L. PICK L : L = Len(queue[p]) + 1
  OBVIOUS
<1>1. /\ m \in Mail /\ m.n = N /\ m.from = p
      /\ N \in Nat /\ DOMAIN sent = 1 .. N - 1
      /\ sent' \in Seq(Mail) /\ DOMAIN sent' = 1 .. N
      /\ \A k \in DOMAIN sent : sent'[k] = sent[k]
      /\ sent'[N] = m
      /\ N \notin DOMAIN sent /\ DOMAIN sent' = DOMAIN sent \cup {N}
  <2>1. m.n = N /\ m.from = p
    BY <1>m, <1>N DEF NextMail
  <2>2. Len(sent) \in Nat
    BY PostFacts
  <2>3. N \in Nat /\ N - 1 = Len(sent) /\ N \notin 1 .. Len(sent)
    BY <1>N, <2>2
  <2>4. 1 .. N = (1 .. Len(sent)) \cup {N}
    BY <1>N, <2>2
  <2>5. /\ m \in Mail /\ DOMAIN sent = 1 .. Len(sent)
        /\ sent' \in Seq(Mail) /\ DOMAIN sent' = 1 .. N
        /\ \A k \in DOMAIN sent : sent'[k] = sent[k]
        /\ sent'[N] = m
    BY <1>m, <1>N, PostFacts
  <2> QED
    BY <2>1, <2>3, <2>4, <2>5
<1>2. /\ queue' \in [Producers -> Seq(Mail)]
      /\ \A q \in Producers : q # p => queue'[q] = queue[q]
      /\ L \in Nat /\ DOMAIN queue[p] = 1 .. L - 1
      /\ DOMAIN queue'[p] = 1 .. L
      /\ L \in DOMAIN queue'[p] /\ DOMAIN queue'[p] = DOMAIN queue[p] \cup {L}
      /\ \A i \in DOMAIN queue[p] : queue'[p][i] = queue[p][i] /\ i < L
      /\ queue'[p][L] = m
  BY <1>m, <1>L, PostFacts
<1>3. hand' = hand /\ boxes' = boxes
  BY PostFacts
<1>4. MailTyped'
  BY <1>1, <1>2, <1>3 DEF MailInv, MailTyped
<1>5. \A k \in DOMAIN sent : Receivers(sent'[k]) = Receivers(sent[k])
  BY <1>1 DEF Receivers
<1>6. Hands'
  <2> SUFFICES ASSUME NEW t \in Threads, hand'[t].busy
               PROVE  /\ pc'[t] = "delivering"
                      /\ IsPostman(t)
                      /\ hand'[t].mail.type \in Types
                      /\ hand'[t].mail.n \in DOMAIN sent'
                      /\ hand'[t].mail.from = sent'[hand'[t].mail.n].from
                      /\ Receivers(sent'[hand'[t].mail.n]) = ToSet(subs'[hand'[t].mail.type])
    BY DEF Hands, Receivers, IsPostman
  <2> QED
    BY <1>1, <1>3, <1>5 DEF MailInv, Hands
<1>7. Numbered'
  <2>1. \A k \in DOMAIN sent' : sent'[k].n = k
    BY <1>1 DEF MailInv, Numbered
  <2>2. \A q \in Producers : \A i \in DOMAIN queue'[q] :
          /\ queue'[q][i].n \in DOMAIN sent'
          /\ queue'[q][i] = sent'[queue'[q][i].n]
          /\ queue'[q][i].from = q
    <3> TAKE q \in Producers
    <3> TAKE i \in DOMAIN queue'[q]
    <3>1. CASE q = p /\ i = L
      BY <1>1, <1>2, <3>1
    <3>2. CASE ~(q = p /\ i = L)
      <4>1. i \in DOMAIN queue[q] /\ queue'[q][i] = queue[q][i]
        BY <1>2, <3>2
      <4> QED
        BY <1>1, <4>1 DEF MailInv, Numbered
    <3> QED
      BY <3>1, <3>2
  <2>3. \A b \in Boxes : \A i \in DOMAIN boxes'[b] :
          /\ boxes'[b][i].n \in DOMAIN sent'
          /\ boxes'[b][i].from = sent'[boxes'[b][i].n].from
    BY <1>1, <1>3 DEF MailInv, Numbered
  <2> QED
    BY <2>1, <2>2, <2>3 DEF Numbered
<1>8. /\ \A q \in Producers, k \in DOMAIN sent : InQueue(q, k)' <=> InQueue(q, k)
      /\ \A q \in Producers : InQueue(q, N)' => q = p
      /\ InQueue(p, N)'
  <2>1. InQueue(p, N)'
    BY <1>1, <1>2 DEF InQueue
  <2>2. ASSUME NEW q \in Producers, NEW k \in DOMAIN sent
        PROVE  InQueue(q, k)' <=> InQueue(q, k)
    <3>1. CASE q # p
      BY <1>2, <3>1 DEF InQueue
    <3>2. CASE q = p
      <4>1. \A i \in DOMAIN queue'[p] : queue'[p][i].n = k => i \in DOMAIN queue[p]
        BY <1>1, <1>2
      <4>2. \A i \in DOMAIN queue[p] : i \in DOMAIN queue'[p] /\ queue'[p][i] = queue[p][i]
        BY <1>2
      <4>3. InQueue(p, k)' <=> InQueue(p, k)
        BY <4>1, <4>2 DEF InQueue
      <4> QED
        BY <3>2, <4>3
    <3> QED
      BY <3>1, <3>2
  <2>3. ASSUME NEW q \in Producers, q # p
        PROVE  ~InQueue(q, N)'
    BY <1>1, <1>2, <2>3 DEF InQueue, MailInv, Numbered
  <2> QED
    BY <2>1, <2>2, <2>3
<1>9. /\ \A t \in Threads, k \in DOMAIN sent' : Carries(t, k)' <=> Carries(t, k)
      /\ \A t \in Threads : ~Carries(t, N)
      /\ \A b \in Boxes, k \in DOMAIN sent' : InBox(b, k)' <=> InBox(b, k)
      /\ \A b \in Boxes : ~InBox(b, N)
      /\ \A t \in Threads : Served(t)' = Served(t)
  BY <1>1, <1>3 DEF Carries, InBox, Served, MailInv, Hands, Numbered
<1>10. Queued'
  <2>1. ASSUME NEW q \in Producers, NEW i \in DOMAIN queue'[q], NEW j \in DOMAIN queue'[q], i < j
        PROVE  queue'[q][i].n < queue'[q][j].n
    <3>1. CASE q # p
      BY <1>2, <2>1, <3>1 DEF MailInv, Queued
    <3>2. CASE q = p /\ j # L
      <4>1. i \in DOMAIN queue[p] /\ j \in DOMAIN queue[p]
        BY <1>2, <2>1, <3>2
      <4> QED
        BY <1>2, <2>1, <3>2, <4>1 DEF MailInv, Queued
    <3>3. CASE q = p /\ j = L
      <4>1. i \in DOMAIN queue[p]
        BY <1>2, <2>1, <3>3
      <4>2. queue[p][i].n \in DOMAIN sent /\ queue[p][i].n < N
        BY <1>1, <4>1 DEF MailInv, Numbered
      <4> QED
        BY <1>1, <1>2, <3>3, <4>1, <4>2
    <3> QED
      BY <3>1, <3>2, <3>3
  <2>2. ASSUME NEW q \in Producers, NEW i \in DOMAIN queue'[q], NEW k \in DOMAIN sent',
               sent'[k].from = q, queue'[q][i].n < k
        PROVE  InQueue(q, k)'
    <3>1. CASE k = N
      BY <1>1, <1>8, <2>2, <3>1
    <3>2. CASE k # N
      <4>1. k \in DOMAIN sent /\ sent[k].from = q
        BY <1>1, <2>2, <3>2
      <4>2. i \in DOMAIN queue[q] /\ queue'[q][i] = queue[q][i]
        <5>1. CASE q # p
          BY <1>2, <5>1
        <5>2. CASE q = p
          <6>1. i # L
            BY <1>1, <1>2, <2>2, <3>2, <5>2
          <6> QED
            BY <1>2, <5>2, <6>1
        <5> QED
          BY <5>1, <5>2
      <4>3. InQueue(q, k)
        BY <2>2, <4>1, <4>2 DEF MailInv, Queued
      <4> QED
        BY <1>8, <4>1, <4>3
    <3> QED
      BY <3>1, <3>2
  <2> QED
    BY <2>1, <2>2 DEF Queued, InQueue
<1>11. OnePlace'
  <2>1. \A t \in Threads, k \in DOMAIN sent' : Carries(t, k)' =>
          /\ \A q \in Producers : ~InQueue(q, k)'
          /\ \A u \in Threads : Carries(u, k)' => u = t
          /\ \A b \in Boxes : InBox(b, k)' <=> b \in Served(t)'
    BY <1>1, <1>8, <1>9 DEF MailInv, OnePlace, PlaceInHand, PlaceInQueue, PlaceInBoxes
  <2>2. \A q \in Producers, k \in DOMAIN sent' : InQueue(q, k)' =>
          \A b \in Boxes : ~InBox(b, k)'
    BY <1>1, <1>8, <1>9 DEF MailInv, OnePlace, PlaceInHand, PlaceInQueue, PlaceInBoxes
  <2>3. \A k \in DOMAIN sent' :
          (\A q \in Producers : ~InQueue(q, k)') /\ (\A t \in Threads : ~Carries(t, k)') =>
             \A b \in Boxes : InBox(b, k)' <=> b \in Receivers(sent'[k])
    BY <1>1, <1>5, <1>8, <1>9
       DEF MailInv, OnePlace, PlaceInHand, PlaceInQueue, PlaceInBoxes
  <2>4. PlaceInHand'
    BY <2>1 DEF PlaceInHand
  <2>5. PlaceInQueue'
    BY <2>2 DEF PlaceInQueue
  <2>6. PlaceInBoxes'
    BY <2>3 DEF PlaceInBoxes, Receivers
  <2> QED
    BY <2>4, <2>5, <2>6 DEF OnePlace
<1>12. OneCopy'
  BY <1>3 DEF MailInv, OneCopy
<1>13. InTurn'
  <2>1. Postmen \subseteq Postmen'
    BY DEF Postmen, IsPostman
  <2> QED
    BY <1>3, <2>1 DEF MailInv, InTurn, Lone
<1> QED
  BY <1>4, <1>6, <1>7, <1>10, <1>11, <1>12, <1>13 DEF MailInv

(* A thread's first mail is sent like any other.                           *)
LEMMA GreetMail ==
  ASSUME StartInv, MailInv, NEW t \in Threads, Greet(t)
  PROVE  MailInv'
<1>1. t \in Producers /\ AssistType \in Types \cup {NoType}
  BY TypeAssumption DEF Producers
<1>2. \A u \in Threads : hand[u].busy => pc'[u] = pc[u]
  BY BusyRunning DEF Greet, StartInv, StartTyped
<1>3. \A u \in Threads : pc'[u] = "none" => pc[u] = "none"
  BY DEF Greet, StartInv, StartTyped
<1>4. Post(t, AssistType) /\ subs' = subs
  BY DEF Greet
<1> QED
  BY <1>1, <1>2, <1>3, <1>4, PostKeeps

(* So is each that is sent while the program runs.                         *)
LEMMA SendMail ==
  ASSUME MailInv, NEW p \in Producers, NEW type \in Types \cup {NoType}, Send(p, type)
  PROVE  MailInv'
BY PostKeeps DEF Send, startup

-----------------------------------------------------------------------------
(* Taking.  What the postman then holds, or that nobody is to get it.      *)
LEMMA TakeHand ==
  ASSUME StartInv, MailInv, NEW t \in Threads, NEW p \in Producers, Take(t, p),
         NEW h \in Mail, h = Head(queue[p])
  PROVE  /\ ~hand[t].busy
         /\ hand' \in [Threads -> {Empty} \cup
                         [busy : {TRUE}, mail : Mail, served : Nat]]
         /\ \A u \in Threads : u # t => hand'[u] = hand[u]
         /\ ~hand'[t].busy => Receivers(h) = {}
         /\ hand'[t].busy =>
              /\ hand'[t].mail.n = h.n
              /\ hand'[t].mail.from = h.from
              /\ hand'[t].mail.type \in Types
              /\ ToSet(subs[hand'[t].mail.type]) = Receivers(h)
              /\ hand'[t].served = 0
              /\ 0 < Len(subs[hand'[t].mail.type])
<1>1. pc[t] = "delivering" /\ ~hand[t].busy /\ Route(t, h)
  BY DEF Take
<1>2. main = "running"
  BY <1>1 DEF StartInv, StartTyped, Joining
<1>3. hand \in [Threads -> {Empty} \cup [busy : {TRUE}, mail : Mail, served : Nat]]
  BY DEF MailInv, MailTyped
<1>4. ASSUME NEW type \in Types
      PROVE  /\ ToSet(subs[type]) = {b \in Boxes : type \in Wants[b]}
             /\ subs[type] = <<>> <=> {b \in Boxes : type \in Wants[b]} = {}
             /\ subs[type] # <<>> => 0 < Len(subs[type])
  <2>1. ToSet(subs[type]) = {b \in Boxes : type \in Wants[b]}
    BY <1>2, TableWhenRunning
  <2>2. subs[type] \in Seq(Boxes)
    BY DEF StartInv, StartTyped
  <2>3. subs[type] # <<>> => 0 < Len(subs[type]) /\ subs[type][1] \in ToSet(subs[type])
    BY <2>2, EmptySeq DEF ToSet
  <2>4. subs[type] = <<>> => ToSet(subs[type]) = {}
    BY DEF ToSet
  <2> QED
    BY <2>1, <2>3, <2>4
<1>5. Empty.busy = FALSE
  BY DEF Empty
<1>6. LogType \in Types /\ PostmanType \in Types /\ h.type \in Types \cup {NoType}
  BY TypeAssumption DEF Mail
(* A mail laid in the hand, when somebody subscribed to its type.          *)
<1>7. ASSUME NEW m \in Mail, m.type \in Types, m.n = h.n, m.from = h.from,
             Receivers(h) = {b \in Boxes : m.type \in Wants[b]},
             hand' = [hand EXCEPT ![t] = Holding(m)]
      PROVE  /\ hand' \in [Threads -> {Empty} \cup
                             [busy : {TRUE}, mail : Mail, served : Nat]]
             /\ \A u \in Threads : u # t => hand'[u] = hand[u]
             /\ ~hand'[t].busy => Receivers(h) = {}
             /\ hand'[t].busy =>
                  /\ hand'[t].mail.n = h.n
                  /\ hand'[t].mail.from = h.from
                  /\ hand'[t].mail.type \in Types
                  /\ ToSet(subs[hand'[t].mail.type]) = Receivers(h)
                  /\ hand'[t].served = 0
                  /\ 0 < Len(subs[hand'[t].mail.type])
  <2>1. hand'[t] = Holding(m) /\ \A u \in Threads : u # t => hand'[u] = hand[u]
    BY <1>3, <1>7
  <2>2. CASE subs[m.type] = <<>>
    <3>1. Holding(m) = Empty
      BY <2>2 DEF Holding
    <3> QED
      BY <1>3, <1>4, <1>5, <1>7, <2>1, <2>2, <3>1
  <2>3. CASE subs[m.type] # <<>>
    <3>1. Holding(m) = [busy |-> TRUE, mail |-> m, served |-> 0]
      BY <2>3 DEF Holding
    <3>2. /\ Holding(m) \in [busy : {TRUE}, mail : Mail, served : Nat]
          /\ Holding(m).busy /\ Holding(m).mail = m /\ Holding(m).served = 0
      BY <3>1
    <3>3. hand' \in [Threads -> {Empty} \cup [busy : {TRUE}, mail : Mail, served : Nat]]
      BY <1>3, <1>7, <3>2
    <3> QED
      BY <1>4, <1>7, <2>1, <2>3, <3>2, <3>3
  <2> QED
    BY <2>2, <2>3
<1>8. CASE h.type = PostmanType /\ UNCHANGED hand
  <2>1. Receivers(h) = {}
    BY <1>8 DEF Receivers
  <2> QED
    BY <1>1, <1>3, <1>8, <2>1
<1>9. CASE /\ h.type # PostmanType /\ ~Routable(h)
           /\ hand' = [hand EXCEPT ![t] = Holding(ReportOf(h))]
  <2>1. /\ ReportOf(h) \in Mail /\ ReportOf(h).type = LogType
        /\ ReportOf(h).n = h.n /\ ReportOf(h).from = h.from
    BY <1>6 DEF ReportOf, Mail
  <2>2. {b \in Boxes : h.type \in Wants[b]} = {}
    <3>1. CASE h.type = NoType
      BY <3>1, TypeAssumption
    <3>2. CASE h.type # NoType
      BY <1>4, <1>6, <1>9, <3>2 DEF Routable
    <3> QED
      BY <3>1, <3>2
  <2>3. Receivers(h) = {b \in Boxes : LogType \in Wants[b]}
    BY <1>9, <2>2 DEF Receivers
  <2> QED
    BY <1>1, <1>6, <1>7, <1>9, <2>1, <2>3
<1>10. CASE /\ h.type # PostmanType /\ Routable(h)
            /\ hand' = [hand EXCEPT ![t] = Holding(h)]
  <2>1. h.type \in Types /\ {b \in Boxes : h.type \in Wants[b]} # {}
    BY <1>4, <1>6, <1>10 DEF Routable
  <2>2. Receivers(h) = {b \in Boxes : h.type \in Wants[b]}
    BY <1>10, <2>1 DEF Receivers
  <2> QED
    BY <1>1, <1>7, <1>10, <2>1, <2>2
<1> QED
  BY <1>1, <1>8, <1>9, <1>10 DEF Route

(* A postman takes the first mail of a queue.                              *)
LEMMA TakeQueue ==
  ASSUME MailInv, NEW t \in Threads, NEW p \in Producers, Take(t, p)
  PROVE  /\ 1 \in DOMAIN queue[p] /\ Head(queue[p]) = queue[p][1]
         /\ Head(queue[p]) \in Mail
         /\ queue' \in [Producers -> Seq(Mail)]
         /\ \A q \in Producers : q # p => queue'[q] = queue[q]
         /\ \A i \in DOMAIN queue'[p] :
              i \in Nat /\ i + 1 \in DOMAIN queue[p] /\ 1 < i + 1
              /\ queue'[p][i] = queue[p][i + 1]
         /\ \A i \in DOMAIN queue[p] :
              i # 1 => i - 1 \in DOMAIN queue'[p] /\ queue'[p][i - 1] = queue[p][i]
         /\ boxes' = boxes /\ sent' = sent /\ UNCHANGED startup
<1>1. queue \in [Producers -> Seq(Mail)] /\ queue[p] \in Seq(Mail) /\ queue[p] # <<>>
  BY DEF MailInv, MailTyped, Take
<1>2. queue' = [queue EXCEPT ![p] = Tail(queue[p])] /\ queue'[p] = Tail(queue[p])
  BY <1>1 DEF Take
<1>3. /\ Tail(queue[p]) \in Seq(Mail) /\ Len(Tail(queue[p])) = Len(queue[p]) - 1
      /\ \A i \in 1 .. Len(queue[p]) - 1 : Tail(queue[p])[i] = queue[p][i + 1]
      /\ Len(queue[p]) \in Nat /\ Len(queue[p]) > 0
      /\ DOMAIN queue[p] = 1 .. Len(queue[p])
      /\ DOMAIN Tail(queue[p]) = 1 .. Len(queue[p]) - 1
  BY <1>1, HeadTailProperties, LenProperties, EmptySeq
<1>4. Head(queue[p]) = queue[p][1] /\ queue[p][1] \in Mail
  BY <1>1, <1>3
<1>5. queue' \in [Producers -> Seq(Mail)] /\ \A q \in Producers : q # p => queue'[q] = queue[q]
  BY <1>1, <1>2, <1>3
<1>6. \A i \in DOMAIN queue'[p] :
        i \in Nat /\ i + 1 \in DOMAIN queue[p] /\ 1 < i + 1 /\ queue'[p][i] = queue[p][i + 1]
  <2>1. \A i \in 1 .. Len(queue[p]) - 1 : i \in Nat /\ i + 1 \in 1 .. Len(queue[p]) /\ 1 < i + 1
    BY <1>3
  <2> QED
    BY <1>2, <1>3, <2>1
<1>7. ASSUME NEW i \in DOMAIN queue[p], i # 1
      PROVE  i - 1 \in DOMAIN queue'[p] /\ queue'[p][i - 1] = queue[p][i]
  <2>1. i - 1 \in 1 .. Len(queue[p]) - 1 /\ (i - 1) + 1 = i
    BY <1>3, <1>7
  <2> QED
    BY <1>2, <1>3, <2>1
<1>8. 1 \in DOMAIN queue[p]
  BY <1>3
<1> QED
  BY <1>4, <1>5, <1>6, <1>7, <1>8 DEF Take

(* The mail he takes is in one place, his hand.                            *)
LEMMA TakeKeeps ==
  ASSUME StartInv, MailInv, NEW t \in Threads, NEW p \in Producers, Take(t, p)
  PROVE  MailInv'
<1>h. PICK h : h = Head(queue[p])
  OBVIOUS
<1>1. /\ 1 \in DOMAIN queue[p] /\ h = queue[p][1] /\ h \in Mail
      /\ queue' \in [Producers -> Seq(Mail)]
      /\ \A q \in Producers : q # p => queue'[q] = queue[q]
      /\ \A i \in DOMAIN queue'[p] :
           i \in Nat /\ i + 1 \in DOMAIN queue[p] /\ 1 < i + 1
           /\ queue'[p][i] = queue[p][i + 1]
      /\ \A i \in DOMAIN queue[p] :
           i # 1 => i - 1 \in DOMAIN queue'[p] /\ queue'[p][i - 1] = queue[p][i]
      /\ boxes' = boxes /\ sent' = sent
      /\ pc' = pc /\ subs' = subs
  BY <1>h, TakeQueue DEF startup
<1>2. /\ ~hand[t].busy
      /\ hand' \in [Threads -> {Empty} \cup [busy : {TRUE}, mail : Mail, served : Nat]]
      /\ \A u \in Threads : u # t => hand'[u] = hand[u]
      /\ ~hand'[t].busy => Receivers(h) = {}
      /\ hand'[t].busy =>
           /\ hand'[t].mail.n = h.n
           /\ hand'[t].mail.from = h.from
           /\ hand'[t].mail.type \in Types
           /\ ToSet(subs[hand'[t].mail.type]) = Receivers(h)
           /\ hand'[t].served = 0
           /\ 0 < Len(subs[hand'[t].mail.type])
  <2>1. h \in Mail /\ h = Head(queue[p])
    BY <1>h, <1>1
  <2> QED
    BY <2>1, TakeHand
<1>3. IsPostman(t) /\ pc[t] = "delivering"
  BY DEF Take
<1>4. h.n \in DOMAIN sent /\ h = sent[h.n] /\ h.from = p /\ InQueue(p, h.n)
  BY <1>1 DEF MailInv, Numbered, InQueue
<1>5. MailTyped'
  <2>1. \A u \in Threads : hand'[u].busy => hand'[u].served < Len(subs[hand'[u].mail.type])
    BY <1>2 DEF MailInv, MailTyped
  <2> QED
    BY <1>1, <1>2, <2>1 DEF MailInv, MailTyped
<1>6. Hands'
  <2>0. pc' = pc /\ subs' = subs /\ sent' = sent
    BY <1>1
  <2> SUFFICES ASSUME NEW u \in Threads, hand'[u].busy
               PROVE  /\ pc[u] = "delivering"
                      /\ IsPostman(u)
                      /\ hand'[u].mail.type \in Types
                      /\ hand'[u].mail.n \in DOMAIN sent
                      /\ hand'[u].mail.from = sent[hand'[u].mail.n].from
                      /\ Receivers(sent[hand'[u].mail.n]) = ToSet(subs[hand'[u].mail.type])
    BY <2>0 DEF Hands, Receivers, IsPostman
  <2>1. CASE u = t
    BY <1>2, <1>3, <1>4, <2>1
  <2>2. CASE u # t
    BY <1>2, <2>2 DEF MailInv, Hands
  <2> QED
    BY <2>1, <2>2
<1>7. Numbered'
  <2>1. \A q \in Producers : \A i \in DOMAIN queue'[q] :
          /\ queue'[q][i].n \in DOMAIN sent
          /\ queue'[q][i] = sent[queue'[q][i].n]
          /\ queue'[q][i].from = q
    BY <1>1 DEF MailInv, Numbered
  <2> QED
    BY <1>1, <2>1 DEF MailInv, Numbered
<1>8. /\ \A q \in Producers, k \in DOMAIN sent : q # p => (InQueue(q, k)' <=> InQueue(q, k))
      /\ \A k \in DOMAIN sent : InQueue(p, k)' <=> InQueue(p, k) /\ k # h.n
      /\ \A q \in Producers : ~InQueue(q, h.n)'
  <2>1. \A q \in Producers, k \in DOMAIN sent : q # p => (InQueue(q, k)' <=> InQueue(q, k))
    BY <1>1 DEF InQueue
  <2>2. ASSUME NEW k \in DOMAIN sent, InQueue(p, k)'
        PROVE  InQueue(p, k) /\ k # h.n
    <3>1. PICK i \in DOMAIN queue'[p] : queue'[p][i].n = k
      BY <2>2 DEF InQueue
    <3>2. i + 1 \in DOMAIN queue[p] /\ 1 < i + 1 /\ queue[p][i + 1].n = k
      BY <1>1, <3>1
    <3>3. h.n < k
      BY <1>1, <3>2 DEF MailInv, Queued
    <3>4. h.n \in Nat /\ k \in Nat
      BY <1>4 DEF MailInv, MailTyped
    <3> QED
      BY <3>2, <3>3, <3>4 DEF InQueue
  <2>3. ASSUME NEW k \in DOMAIN sent, InQueue(p, k), k # h.n
        PROVE  InQueue(p, k)'
    <3>1. PICK i \in DOMAIN queue[p] : queue[p][i].n = k
      BY <2>3 DEF InQueue
    <3>2. i # 1
      BY <1>1, <2>3, <3>1
    <3>3. i - 1 \in DOMAIN queue'[p] /\ queue'[p][i - 1].n = k
      BY <1>1, <3>1, <3>2
    <3> QED
      BY <3>3 DEF InQueue
  <2>4. \A q \in Producers : ~InQueue(q, h.n)'
    <3>1. \A q \in Producers : q # p => ~InQueue(q, h.n)
      BY <1>4 DEF InQueue, MailInv, Numbered
    <3> QED
      BY <1>4, <2>1, <2>2, <3>1
  <2> QED
    BY <2>1, <2>2, <2>3, <2>4
<1>9. /\ \A u \in Threads, k \in DOMAIN sent : u # t => (Carries(u, k)' <=> Carries(u, k))
      /\ \A k \in DOMAIN sent : Carries(t, k)' => k = h.n
      /\ Carries(t, h.n)' <=> hand'[t].busy
      /\ \A k \in DOMAIN sent : ~Carries(t, k)
      /\ \A u \in Threads : ~Carries(u, h.n)
  <2>1. \A u \in Threads : ~Carries(u, h.n)
    BY <1>4 DEF MailInv, OnePlace, PlaceInHand, PlaceInQueue, PlaceInBoxes
  <2> QED
    BY <1>2, <2>1 DEF Carries
<1>10. /\ \A b \in Boxes, k \in DOMAIN sent : InBox(b, k)' <=> InBox(b, k)
       /\ \A b \in Boxes : ~InBox(b, h.n)
  <2>1. \A b \in Boxes : ~InBox(b, h.n)
    BY <1>4 DEF MailInv, OnePlace, PlaceInHand, PlaceInQueue, PlaceInBoxes
  <2> QED
    BY <1>1, <2>1 DEF InBox
<1>11. /\ \A u \in Threads : u # t => Served(u)' = Served(u)
       /\ hand'[t].busy => Served(t)' = {}
  <2>1. ASSUME hand'[t].busy
        PROVE  Served(t)' = {}
    <3>1. 1 .. hand'[t].served = {}
      BY <1>2, <2>1
    <3> QED
      BY <3>1 DEF Served
  <2> QED
    BY <1>1, <1>2, <2>1 DEF Served
<1>12. Queued'
  <2>1. ASSUME NEW q \in Producers, NEW i \in DOMAIN queue'[q], NEW j \in DOMAIN queue'[q], i < j
        PROVE  queue'[q][i].n < queue'[q][j].n
    <3>1. CASE q # p
      BY <1>1, <2>1, <3>1 DEF MailInv, Queued
    <3>2. CASE q = p
      <4>1. /\ i + 1 \in DOMAIN queue[p] /\ j + 1 \in DOMAIN queue[p] /\ i + 1 < j + 1
            /\ queue'[p][i] = queue[p][i + 1] /\ queue'[p][j] = queue[p][j + 1]
        BY <1>1, <2>1, <3>2
      <4> QED
        BY <3>2, <4>1 DEF MailInv, Queued
    <3> QED
      BY <3>1, <3>2
  <2>2. ASSUME NEW q \in Producers, NEW i \in DOMAIN queue'[q], NEW k \in DOMAIN sent,
               sent[k].from = q, queue'[q][i].n < k
        PROVE  InQueue(q, k)'
    <3>1. CASE q # p
      BY <1>1, <1>8, <2>2, <3>1 DEF MailInv, Queued
    <3>2. CASE q = p
      <4>1. i + 1 \in DOMAIN queue[p] /\ 1 < i + 1 /\ queue[p][i + 1].n < k
        BY <1>1, <2>2, <3>2
      <4>2. InQueue(p, k)
        BY <2>2, <3>2, <4>1 DEF MailInv, Queued
      <4>3. h.n < queue[p][i + 1].n
        BY <1>1, <4>1 DEF MailInv, Queued
      <4>4. h.n \in Nat /\ k \in Nat /\ queue[p][i + 1].n \in Nat
        BY <1>4, <4>1 DEF MailInv, MailTyped, Numbered
      <4> QED
        BY <1>8, <3>2, <4>1, <4>2, <4>3, <4>4
    <3> QED
      BY <3>1, <3>2
  <2> QED
    BY <1>1, <2>1, <2>2 DEF Queued, InQueue
<1>13. OnePlace'
  <2>1. ASSUME NEW u \in Threads, NEW k \in DOMAIN sent, Carries(u, k)'
        PROVE  /\ \A q \in Producers : ~InQueue(q, k)'
               /\ \A v \in Threads : Carries(v, k)' => v = u
               /\ \A b \in Boxes : InBox(b, k)' <=> b \in Served(u)'
    <3>1. CASE u = t
      BY <1>8, <1>9, <1>10, <1>11, <2>1, <3>1
    <3>2. CASE u # t
      <4>1. Carries(u, k) /\ k # h.n
        BY <1>9, <2>1, <3>2
      <4> QED
        BY <1>8, <1>9, <1>10, <1>11, <3>2, <4>1
           DEF MailInv, OnePlace, PlaceInHand, PlaceInQueue, PlaceInBoxes
    <3> QED
      BY <3>1, <3>2
  <2>2. \A q \in Producers, k \in DOMAIN sent : InQueue(q, k)' =>
          \A b \in Boxes : ~InBox(b, k)'
    BY <1>8, <1>10 DEF MailInv, OnePlace, PlaceInHand, PlaceInQueue, PlaceInBoxes
  <2>3. ASSUME NEW k \in DOMAIN sent,
               \A q \in Producers : ~InQueue(q, k)', \A u \in Threads : ~Carries(u, k)'
        PROVE  \A b \in Boxes : InBox(b, k)' <=> b \in Receivers(sent[k])
    <3>1. CASE k = h.n
      BY <1>2, <1>4, <1>9, <1>10, <2>3, <3>1
    <3>2. CASE k # h.n
      BY <1>8, <1>9, <1>10, <2>3, <3>2
         DEF MailInv, OnePlace, PlaceInHand, PlaceInQueue, PlaceInBoxes
    <3> QED
      BY <3>1, <3>2
  <2>4. PlaceInHand'
    BY <1>1, <2>1 DEF PlaceInHand
  <2>5. PlaceInQueue'
    BY <1>1, <2>2 DEF PlaceInQueue
  <2>6. PlaceInBoxes'
    BY <1>1, <2>3 DEF PlaceInBoxes, Receivers
  <2> QED
    BY <2>4, <2>5, <2>6 DEF OnePlace
<1>14. OneCopy'
  BY <1>1 DEF MailInv, OneCopy
<1>15. InTurn'
  <2>1. ASSUME NEW b \in Boxes, NEW i \in DOMAIN boxes[b], boxes[b][i].from = p
        PROVE  boxes[b][i].n <= h.n
    <3>1. boxes[b][i].n \in DOMAIN sent /\ sent[boxes[b][i].n].from = p
      BY <2>1 DEF MailInv, Numbered
    <3>2. ~InQueue(p, boxes[b][i].n)
      BY <3>1 DEF MailInv, OnePlace, PlaceInHand, PlaceInQueue, PlaceInBoxes, InBox
    <3>3. ~(h.n < boxes[b][i].n)
      BY <1>1, <3>1, <3>2 DEF MailInv, Queued
    <3>4. h.n \in Nat /\ boxes[b][i].n \in Nat
      BY <1>4, <3>1 DEF MailInv, MailTyped
    <3> QED
      BY <3>3, <3>4
  <2>2. Lone' => Lone
    BY <1>1 DEF Lone, Postmen, IsPostman
  <2>3. CASE ~Lone
    BY <2>2, <2>3 DEF InTurn
  <2>4. CASE Lone
    <3>1. ASSUME NEW b \in Boxes, NEW i \in DOMAIN boxes[b], NEW u \in Threads,
                 hand'[u].busy, hand'[u].mail.from = boxes[b][i].from
          PROVE  boxes[b][i].n <= hand'[u].mail.n
      <4>1. CASE u = t
        BY <1>2, <1>4, <2>1, <3>1, <4>1
      <4>2. CASE u # t
        <5>1. hand'[u] = hand[u]
          BY <1>2, <4>2
        <5> QED
          BY <2>4, <3>1, <5>1 DEF MailInv, InTurn
      <4> QED
        BY <4>1, <4>2
    <3>2. \A b \in Boxes : \A i, j \in DOMAIN boxes[b] :
            i < j /\ boxes[b][i].from = boxes[b][j].from => boxes[b][i].n < boxes[b][j].n
      BY <2>4 DEF MailInv, InTurn
    <3>3. boxes' = boxes
      BY <1>1
    <3> QED
      BY <3>1, <3>2, <3>3 DEF InTurn
  <2> QED
    BY <2>3, <2>4
<1> QED
  BY <1>5, <1>6, <1>7, <1>12, <1>13, <1>14, <1>15 DEF MailInv

-----------------------------------------------------------------------------
(* Putting: one box more is served; after the last the hand is empty.      *)
PutResult(t, s, i, h) ==
  /\ s = subs[hand[t].mail.type]
  /\ i = hand[t].served + 1
  /\ h = hand[t].mail
  /\ s \in Seq(Boxes) /\ i \in 1 .. Len(s) /\ s[i] \in Boxes /\ Len(s) \in Nat
  /\ h \in Mail /\ h.n \in DOMAIN sent /\ h.from = sent[h.n].from
  /\ s[i] \notin Served(t)
  /\ Served(t) \cup {s[i]} = {s[j] : j \in 1 .. i}
  /\ boxes' \in [Boxes -> Seq(Mail)]
  /\ \A b \in Boxes : b # s[i] => boxes'[b] = boxes[b]
  /\ boxes'[s[i]] = Append(boxes[s[i]], h)
  /\ hand' = [hand EXCEPT ![t] =
                  IF i = Len(s) THEN Empty ELSE [hand[t] EXCEPT !.served = i]]

(* He puts it in the next box of the table.                                *)
LEMMA PutFacts ==
  ASSUME StartInv, MailInv, NEW t \in Threads, Put(t)
  PROVE  \E s, i, h : PutResult(t, s, i, h)
<1>s. PICK s : s = subs[hand[t].mail.type]
  OBVIOUS
<1>i. PICK i : i = hand[t].served + 1
  OBVIOUS
<1>h. PICK h : h = hand[t].mail
  OBVIOUS
<1>1. /\ main = "running" /\ h \in Mail /\ hand[t].served \in Nat
      /\ h.type \in Types /\ s \in Seq(Boxes)
  BY <1>s, <1>h, BusyRunning DEF Put
<1>2. hand[t].served < Len(s) /\ Len(s) \in Nat
  <2>1. hand[t].busy
    BY DEF Put
  <2>2. hand[t].served < Len(subs[hand[t].mail.type])
    BY <2>1 DEF MailInv, MailTyped
  <2> QED
    BY <1>1, <1>s, <2>2
<1>3. i \in 1 .. Len(s) /\ hand[t].served = i - 1
  BY <1>1, <1>2, <1>i
<1>4. s[i] \in Boxes
  BY <1>1, <1>3
<1>5. IsInjective(s)
  BY <1>1, <1>s, <1>h, TableWhenRunning
<1>6. Served(t) = {s[j] : j \in 1 .. i - 1}
  BY <1>3, <1>s DEF Served
<1>7. s[i] \notin Served(t)
  <2>1. \A j \in 1 .. i - 1 : j \in DOMAIN s /\ i \in DOMAIN s /\ j # i
    BY <1>1, <1>3
  <2> QED
    BY <1>5, <1>6, <2>1 DEF IsInjective
<1>8. Served(t) \cup {s[i]} = {s[j] : j \in 1 .. i}
  <2>1. 1 .. i = (1 .. i - 1) \cup {i}
    BY <1>1, <1>3
  <2> QED
    BY <1>6, <2>1
<1>9. boxes' = [boxes EXCEPT ![s[i]] = Append(boxes[s[i]], h)]
  BY <1>s, <1>i, <1>h DEF Put
<1>10. boxes \in [Boxes -> Seq(Mail)]
  BY DEF MailInv, MailTyped
<1>11. Append(boxes[s[i]], h) \in Seq(Mail)
  BY <1>1, <1>4, <1>10, AppendProperties
<1>12. Left(t) = 1 <=> i = Len(s)
  BY <1>2, <1>3, <1>s DEF Left
<1>13. hand' = [hand EXCEPT ![t] =
                  IF i = Len(s) THEN Empty ELSE [hand[t] EXCEPT !.served = i]]
  BY <1>12, <1>i DEF Put
<1>14. h.n \in DOMAIN sent /\ h.from = sent[h.n].from
  BY <1>h DEF Put, MailInv, Hands
<1>15. /\ boxes' \in [Boxes -> Seq(Mail)] /\ boxes'[s[i]] = Append(boxes[s[i]], h)
       /\ \A b \in Boxes : b # s[i] => boxes'[b] = boxes[b]
  <2> DEFINE r == Append(boxes[s[i]], h)
  <2>1. r \in Seq(Mail) /\ boxes' = [boxes EXCEPT ![s[i]] = r]
    BY <1>9, <1>11
  <2> HIDE DEF r
  <2>2. boxes' \in [Boxes -> Seq(Mail)] /\ boxes'[s[i]] = r
    BY <1>4, <1>10, <2>1
  <2>3. \A b \in Boxes : b # s[i] => boxes'[b] = boxes[b]
    BY <1>4, <1>10, <2>1
  <2> QED
    BY <2>2, <2>3 DEF r
<1> QED
  <2>1. PutResult(t, s, i, h)
    BY <1>s, <1>i, <1>h, <1>1, <1>2, <1>3, <1>4, <1>7, <1>8, <1>13, <1>14,
       <1>15 DEF PutResult
  <2> QED
    BY <2>1

(* A mail is put once in each of its boxes, after the earlier ones of its  *)
(* sender.                                                                 *)
LEMMA PutKeeps ==
  ASSUME StartInv, MailInv, NEW t \in Threads, Put(t)
  PROVE  MailInv'
<1>r. PICK s, i, h : PutResult(t, s, i, h)
  BY PutFacts
<1>s. s = subs[hand[t].mail.type]
  BY <1>r DEF PutResult
<1>i. i = hand[t].served + 1
  BY <1>r DEF PutResult
<1>h. h = hand[t].mail
  BY <1>r DEF PutResult
<1>b. PICK b : b = s[i]
  OBVIOUS
<1>0. /\ hand[t].busy /\ pc' = pc /\ subs' = subs /\ queue' = queue /\ sent' = sent
  BY DEF Put, startup
<1>1. /\ s \in Seq(Boxes) /\ i \in 1 .. Len(s) /\ b \in Boxes /\ Len(s) \in Nat
      /\ h \in Mail /\ h.n \in DOMAIN sent /\ h.from = sent[h.n].from
      /\ b \notin Served(t)
      /\ Served(t) \cup {b} = {s[j] : j \in 1 .. i}
      /\ boxes' \in [Boxes -> Seq(Mail)]
      /\ \A c \in Boxes : c # b => boxes'[c] = boxes[c]
      /\ boxes'[b] = Append(boxes[b], h)
      /\ hand' = [hand EXCEPT ![t] =
                    IF i = Len(s) THEN Empty ELSE [hand[t] EXCEPT !.served = i]]
  BY <1>b, <1>r DEF PutResult
<1>2. hand[t] \in [busy : {TRUE}, mail : Mail, served : Nat]
  <2>1. Empty.busy = FALSE
    BY DEF Empty
  <2>2. hand[t] # Empty
    BY <1>0, <2>1
  <2> QED
    BY <2>2 DEF MailInv, MailTyped
<1>3. /\ hand' \in [Threads -> {Empty} \cup [busy : {TRUE}, mail : Mail, served : Nat]]
      /\ \A u \in Threads : u # t => hand'[u] = hand[u]
      /\ hand'[t].busy <=> i # Len(s)
      /\ i # Len(s) => hand'[t].mail = h /\ hand'[t].served = i
  <2>1. hand \in [Threads -> {Empty} \cup [busy : {TRUE}, mail : Mail, served : Nat]]
    BY DEF MailInv, MailTyped
  <2>2. CASE i = Len(s)
    <3>1. hand' = [hand EXCEPT ![t] = Empty]
      BY <1>1, <2>2
    <3> QED
      BY <2>1, <2>2, <3>1 DEF Empty
  <2>3. CASE i # Len(s)
    <3>1. PICK g : g = [hand[t] EXCEPT !.served = i]
      OBVIOUS
    <3>2. /\ g \in [busy : {TRUE}, mail : Mail, served : Nat]
          /\ g.busy /\ g.mail = h /\ g.served = i
      <4>1. i \in Nat
        BY <1>1
      <4>2. hand[t].busy /\ hand[t].mail = h
        BY <1>0, <1>h
      <4> QED
        BY <1>2, <3>1, <4>1, <4>2
    <3>3. hand' = [hand EXCEPT ![t] = g]
      BY <1>1, <2>3, <3>1
    <3> QED
      BY <2>1, <2>3, <3>2, <3>3
  <2> QED
    BY <2>2, <2>3
<1>4. /\ boxes[b] \in Seq(Mail)
      /\ Len(boxes[b]) \in Nat /\ DOMAIN boxes[b] = 1 .. Len(boxes[b])
      /\ DOMAIN boxes'[b] = 1 .. Len(boxes[b]) + 1
      /\ \A j \in DOMAIN boxes[b] : boxes'[b][j] = boxes[b][j]
      /\ boxes'[b][Len(boxes[b]) + 1] = h
  <2>1. boxes[b] \in Seq(Mail)
    BY <1>1 DEF MailInv, MailTyped
  <2> QED
    BY <1>1, <2>1, AppendProperties
<1>L. PICK L : L = Len(boxes[b]) + 1
  OBVIOUS
<1>5. /\ \A j \in DOMAIN boxes'[b] : j \in DOMAIN boxes[b] \/ j = L
      /\ L \in DOMAIN boxes'[b] /\ boxes'[b][L] = h /\ L \in Nat
      /\ \A j \in DOMAIN boxes[b] :
           j \in Nat /\ j < L /\ j \in DOMAIN boxes'[b] /\ boxes'[b][j] = boxes[b][j]
  BY <1>4, <1>L
<1>6. Carries(t, h.n)
  BY <1>0, <1>h DEF Carries
<1>7. ~InBox(b, h.n)
  BY <1>1, <1>6 DEF MailInv, OnePlace, PlaceInHand, PlaceInQueue, PlaceInBoxes
<1>8. /\ \A c \in Boxes, k \in DOMAIN sent :
           InBox(c, k)' <=> InBox(c, k) \/ (c = b /\ k = h.n)
      /\ \A p \in Producers, k \in DOMAIN sent : InQueue(p, k)' <=> InQueue(p, k)
      /\ \A p \in Producers : ~InQueue(p, h.n)
  <2>1. ASSUME NEW c \in Boxes, NEW k \in DOMAIN sent
        PROVE  InBox(c, k)' <=> InBox(c, k) \/ (c = b /\ k = h.n)
    <3>1. CASE c # b
      BY <1>1, <3>1 DEF InBox
    <3>2. CASE c = b
      <4>1. InBox(b, k)' => InBox(b, k) \/ k = h.n
        BY <1>5 DEF InBox
      <4>2. InBox(b, k) => InBox(b, k)'
        BY <1>5 DEF InBox
      <4>3. k = h.n => InBox(b, k)'
        BY <1>5 DEF InBox
      <4> QED
        BY <3>2, <4>1, <4>2, <4>3
    <3> QED
      BY <3>1, <3>2
  <2>2. \A p \in Producers, k \in DOMAIN sent : InQueue(p, k)' <=> InQueue(p, k)
    BY <1>0 DEF InQueue
  <2>3. \A p \in Producers : ~InQueue(p, h.n)
    BY <1>1, <1>6 DEF MailInv, OnePlace, PlaceInHand, PlaceInQueue, PlaceInBoxes
  <2> QED
    BY <2>1, <2>2, <2>3
<1>9. /\ \A u \in Threads, k \in DOMAIN sent : u # t => (Carries(u, k)' <=> Carries(u, k))
      /\ \A u \in Threads : u # t => ~Carries(u, h.n)
      /\ \A k \in DOMAIN sent : Carries(t, k) <=> k = h.n
      /\ \A k \in DOMAIN sent : Carries(t, k)' <=> k = h.n /\ i # Len(s)
  <2>1. \A u \in Threads : u # t => ~Carries(u, h.n)
    BY <1>1, <1>6 DEF MailInv, OnePlace, PlaceInHand, PlaceInQueue, PlaceInBoxes
  <2>2. \A k \in DOMAIN sent : Carries(t, k)' <=> k = h.n /\ i # Len(s)
    BY <1>3 DEF Carries
  <2> QED
    BY <1>0, <1>3, <1>h, <2>1, <2>2 DEF Carries
<1>10. /\ \A u \in Threads : u # t => Served(u)' = Served(u)
       /\ i # Len(s) => Served(t)' = Served(t) \cup {b}
       /\ i = Len(s) => Receivers(sent[h.n]) = Served(t) \cup {b}
  <2>1. ASSUME i # Len(s)
        PROVE  Served(t)' = Served(t) \cup {b}
    <3>1. hand'[t].mail = h /\ hand'[t].served = i /\ subs'[h.type] = s
      BY <1>0, <1>3, <1>s, <1>h, <2>1
    <3>2. Served(t)' = {s[j] : j \in 1 .. i}
      BY <3>1 DEF Served
    <3> QED
      BY <1>1, <3>2
  <2>2. ASSUME i = Len(s)
        PROVE  Receivers(sent[h.n]) = Served(t) \cup {b}
    <3>1. Receivers(sent[h.n]) = ToSet(s)
      BY <1>0, <1>h, <1>s DEF MailInv, Hands
    <3>2. ToSet(s) = {s[j] : j \in 1 .. i}
      BY <1>1, <2>2 DEF ToSet
    <3> QED
      BY <1>1, <3>1, <3>2
  <2>3. ASSUME NEW u \in Threads, u # t
        PROVE  Served(u)' = Served(u)
    <3>1. hand'[u] = hand[u]
      BY <1>3, <2>3
    <3> QED
      BY <1>0, <3>1 DEF Served
  <2> QED
    BY <2>1, <2>2, <2>3
<1>11. MailTyped'
  <2>1. ASSUME NEW u \in Threads, hand'[u].busy
        PROVE  hand'[u].served < Len(subs[hand'[u].mail.type])
    <3>1. CASE u = t
      <4>1. i # Len(s) /\ i < Len(s)
        BY <1>1, <1>3, <2>1, <3>1
      <4> QED
        BY <1>3, <1>s, <1>h, <3>1, <4>1
    <3>2. CASE u # t
      BY <1>3, <2>1, <3>2 DEF MailInv, MailTyped
    <3> QED
      BY <3>1, <3>2
  <2> QED
    BY <1>0, <1>1, <1>3, <2>1 DEF MailInv, MailTyped
<1>12. Hands'
  <2> SUFFICES ASSUME NEW u \in Threads, hand'[u].busy
               PROVE  /\ pc[u] = "delivering"
                      /\ IsPostman(u)
                      /\ hand'[u].mail.type \in Types
                      /\ hand'[u].mail.n \in DOMAIN sent
                      /\ hand'[u].mail.from = sent[hand'[u].mail.n].from
                      /\ Receivers(sent[hand'[u].mail.n]) = ToSet(subs[hand'[u].mail.type])
    BY <1>0 DEF Hands, Receivers, IsPostman
  <2>1. hand[u].busy /\ hand'[u].mail = hand[u].mail
    BY <1>0, <1>3, <1>h
  <2> QED
    BY <2>1 DEF MailInv, Hands
<1>13. Numbered'
  <2>1. ASSUME NEW c \in Boxes, NEW j \in DOMAIN boxes'[c]
        PROVE  /\ boxes'[c][j].n \in DOMAIN sent
               /\ boxes'[c][j].from = sent[boxes'[c][j].n].from
    <3>1. CASE c = b /\ j = L
      BY <1>1, <1>5, <3>1
    <3>2. CASE ~(c = b /\ j = L)
      <4>1. j \in DOMAIN boxes[c] /\ boxes'[c][j] = boxes[c][j]
        BY <1>1, <1>5, <3>2
      <4> QED
        BY <4>1 DEF MailInv, Numbered
    <3> QED
      BY <3>1, <3>2
  <2> QED
    BY <1>0, <2>1 DEF MailInv, Numbered
<1>14. Queued'
  BY <1>0 DEF MailInv, Queued, InQueue
<1>15. OnePlace'
  <2>1. ASSUME NEW u \in Threads, NEW k \in DOMAIN sent, Carries(u, k)'
        PROVE  /\ \A q \in Producers : ~InQueue(q, k)'
               /\ \A v \in Threads : Carries(v, k)' => v = u
               /\ \A c \in Boxes : InBox(c, k)' <=> c \in Served(u)'
    <3>1. CASE u = t
      <4>1. k = h.n /\ i # Len(s)
        BY <1>9, <2>1, <3>1
      <4>2. \A c \in Boxes : InBox(c, k) <=> c \in Served(t)
        BY <1>1, <1>6, <4>1
           DEF MailInv, OnePlace, PlaceInHand, PlaceInQueue, PlaceInBoxes
      <4>3. \A c \in Boxes : InBox(c, k)' <=> c \in Served(t)'
        BY <1>1, <1>8, <1>10, <4>1, <4>2
      <4> QED
        BY <1>1, <1>8, <1>9, <3>1, <4>1, <4>3
    <3>2. CASE u # t
      <4>1. Carries(u, k) /\ k # h.n
        BY <1>9, <2>1, <3>2
      <4> QED
        BY <1>8, <1>9, <1>10, <3>2, <4>1
           DEF MailInv, OnePlace, PlaceInHand, PlaceInQueue, PlaceInBoxes
    <3> QED
      BY <3>1, <3>2
  <2>2. \A q \in Producers, k \in DOMAIN sent : InQueue(q, k)' =>
          \A c \in Boxes : ~InBox(c, k)'
    BY <1>8 DEF MailInv, OnePlace, PlaceInHand, PlaceInQueue, PlaceInBoxes
  <2>3. ASSUME NEW k \in DOMAIN sent,
               \A q \in Producers : ~InQueue(q, k)', \A u \in Threads : ~Carries(u, k)'
        PROVE  \A c \in Boxes : InBox(c, k)' <=> c \in Receivers(sent[k])
    <3>1. CASE k = h.n
      <4>1. i = Len(s)
        BY <1>9, <2>3, <3>1
      <4>2. \A c \in Boxes : InBox(c, k) <=> c \in Served(t)
        BY <1>1, <1>6, <3>1
           DEF MailInv, OnePlace, PlaceInHand, PlaceInQueue, PlaceInBoxes
      <4> QED
        BY <1>1, <1>8, <1>10, <3>1, <4>1, <4>2
    <3>2. CASE k # h.n
      BY <1>8, <1>9, <2>3, <3>2
         DEF MailInv, OnePlace, PlaceInHand, PlaceInQueue, PlaceInBoxes
    <3> QED
      BY <3>1, <3>2
  <2>4. PlaceInHand'
    BY <1>0, <2>1 DEF PlaceInHand
  <2>5. PlaceInQueue'
    BY <1>0, <2>2 DEF PlaceInQueue
  <2>6. PlaceInBoxes'
    BY <1>0, <2>3 DEF PlaceInBoxes, Receivers
  <2> QED
    BY <2>4, <2>5, <2>6 DEF OnePlace
<1>16. OneCopy'
  <2>1. \A j \in DOMAIN boxes[b] : boxes[b][j].n # h.n
    BY <1>7 DEF InBox
  <2>2. ASSUME NEW c \in Boxes, NEW j \in DOMAIN boxes'[c], NEW k \in DOMAIN boxes'[c],
               boxes'[c][j].n = boxes'[c][k].n
        PROVE  j = k
    <3>1. CASE c # b
      BY <1>1, <2>2, <3>1 DEF MailInv, OneCopy
    <3>2. CASE c = b
      <4>1. CASE j = L \/ k = L
        BY <1>5, <2>1, <2>2, <3>2, <4>1
      <4>2. CASE j # L /\ k # L
        <5>1. /\ j \in DOMAIN boxes[b] /\ boxes'[b][j] = boxes[b][j]
              /\ k \in DOMAIN boxes[b] /\ boxes'[b][k] = boxes[b][k]
          BY <1>5, <2>2, <3>2, <4>2
        <5> QED
          BY <2>2, <3>2, <5>1 DEF MailInv, OneCopy
      <4> QED
        BY <4>1, <4>2
    <3> QED
      BY <3>1, <3>2
  <2> QED
    BY <2>2 DEF OneCopy
<1>17. InTurn'
  <2> SUFFICES ASSUME Lone
               PROVE  \A c \in Boxes : \A j \in DOMAIN boxes'[c] :
                        /\ \A k \in DOMAIN boxes'[c] :
                             j < k /\ boxes'[c][j].from = boxes'[c][k].from =>
                               boxes'[c][j].n < boxes'[c][k].n
                        /\ \A u \in Threads :
                             hand'[u].busy /\ hand'[u].mail.from = boxes'[c][j].from =>
                               boxes'[c][j].n <= hand'[u].mail.n
    <3>1. Lone' <=> Lone
      BY <1>0 DEF Lone, Postmen, IsPostman
    <3> QED
      BY <3>1 DEF InTurn
  <2>1. \A j \in DOMAIN boxes[b] : boxes[b][j].from = h.from => boxes[b][j].n < h.n
    <3>1. \A j \in DOMAIN boxes[b] : boxes[b][j].n # h.n
      BY <1>7 DEF InBox
    <3>2. \A j \in DOMAIN boxes[b] : boxes[b][j].from = h.from => boxes[b][j].n <= h.n
      BY <1>0, <1>1, <1>h DEF MailInv, InTurn
    <3>3. h.n \in Nat /\ \A j \in DOMAIN boxes[b] : boxes[b][j].n \in Nat
      <4>1. \A m \in Mail : m.n \in Nat
        BY DEF Mail
      <4>2. \A j \in DOMAIN boxes[b] : boxes[b][j] \in Mail
        BY <1>4
      <4> QED
        BY <1>1, <4>1, <4>2
    <3> QED
      BY <3>1, <3>2, <3>3
  <2>2. ASSUME NEW c \in Boxes, NEW j \in DOMAIN boxes'[c], NEW k \in DOMAIN boxes'[c],
               j < k, boxes'[c][j].from = boxes'[c][k].from
        PROVE  boxes'[c][j].n < boxes'[c][k].n
    <3>1. CASE c # b
      BY <1>1, <2>2, <3>1 DEF MailInv, InTurn
    <3>2. CASE c = b /\ k = L
      <4>1. j \in DOMAIN boxes[b]
        BY <1>5, <2>2, <3>2
      <4> QED
        BY <1>5, <2>1, <2>2, <3>2, <4>1
    <3>3. CASE c = b /\ k # L
      <4>1. k \in DOMAIN boxes[b] /\ k < L
        BY <1>5, <3>3
      <4>2. j \in DOMAIN boxes[b]
        BY <1>5, <2>2, <3>3, <4>1
      <4> QED
        BY <1>5, <2>2, <3>3, <4>1, <4>2 DEF MailInv, InTurn
    <3> QED
      BY <3>1, <3>2, <3>3
  <2>3. ASSUME NEW c \in Boxes, NEW j \in DOMAIN boxes'[c], NEW u \in Threads,
               hand'[u].busy, hand'[u].mail.from = boxes'[c][j].from
        PROVE  boxes'[c][j].n <= hand'[u].mail.n
    <3>1. hand[u].busy /\ hand'[u].mail = hand[u].mail
      BY <1>0, <1>3, <1>h, <2>3
    <3>2. u = t
      <4>1. u \in Postmen /\ t \in Postmen
        BY <1>0, <3>1, BusyRunning
      <4> QED
        BY <4>1 DEF Lone
    <3>3. CASE c = b /\ j = L
      <4>1. h.n \in Nat
        BY <1>1 DEF Mail
      <4>2. boxes'[c][j] = h /\ hand'[u].mail = h
        BY <1>5, <1>h, <3>1, <3>2, <3>3
      <4> QED
        BY <4>1, <4>2
    <3>4. CASE ~(c = b /\ j = L)
      <4>1. j \in DOMAIN boxes[c] /\ boxes'[c][j] = boxes[c][j]
        BY <1>1, <1>5, <3>4
      <4> QED
        BY <2>3, <3>1, <4>1 DEF MailInv, InTurn
    <3> QED
      BY <3>3, <3>4
  <2> QED
    BY <2>2, <2>3
<1> QED
  BY <1>11, <1>12, <1>13, <1>14, <1>15, <1>16, <1>17 DEF MailInv

-----------------------------------------------------------------------------
(* Each step keeps the invariant of the mails.                             *)
LEMMA MailStep == StartInv /\ MailInv /\ [Next]_vars => MailInv'
<1> SUFFICES ASSUME StartInv, MailInv, [Next]_vars PROVE MailInv'
  OBVIOUS
<1>1. CASE \/ MainWait
           \/ Open
           \/ \E t \in Threads : Join(t) \/ Restart(t) \/ End(t)
           \/ UNCHANGED vars
  BY <1>1, QuietSteps
<1>2. CASE \E t \in Threads : Greet(t)
  BY <1>2, GreetMail
<1>3. CASE \E t \in Threads : Deliver(t)
  BY <1>3, TakeKeeps, PutKeeps DEF Deliver
<1>4. CASE \E p \in Producers, type \in Types \cup {NoType} : Send(p, type)
  BY <1>4, SendMail
<1> QED
  BY <1>1, <1>2, <1>3, <1>4 DEF Next

(* Every step creates one thread at most, so the postmen are finitely many.*)
LEMMA Created ==
  ASSUME StartInv, [Next]_vars
  PROVE  \E t \in Threads : \A u \in Threads : u # t /\ pc[u] = "none" => pc'[u] = "none"
<1>0. PICK t0 \in Threads : TRUE
  BY BoxAssumption
<1>1. CASE UNCHANGED pc
  BY <1>0, <1>1
<1>2. CASE Open
  BY <1>0, <1>2 DEF Open, Waiting
<1>3. ASSUME NEW t \in Threads, NEW label, pc' = [pc EXCEPT ![t] = label]
      PROVE  \A u \in Threads : u # t /\ pc[u] = "none" => pc'[u] = "none"
  BY <1>3 DEF StartInv, StartTyped
<1>4. ASSUME NEW t \in Threads, Join(t) \/ Greet(t) \/ Restart(t) \/ End(t)
      PROVE  UNCHANGED pc \/ \E label : pc' = [pc EXCEPT ![t] = label]
  BY <1>4 DEF Join, EnterSubscribe, Subscribe, Wait, Greet, Restart, End
<1>5. ASSUME NEW t \in Threads, Deliver(t)
      PROVE  UNCHANGED pc
  BY <1>5 DEF Deliver, Take, Put, startup
<1>6. ASSUME NEW p \in Producers, NEW type \in Types \cup {NoType}, Send(p, type)
      PROVE  UNCHANGED pc
  BY <1>6 DEF Send, startup
<1> QED
  BY <1>1, <1>2, <1>3, <1>4, <1>5, <1>6 DEF Next, vars, startup, MainWait

(* There are finitely many postmen, however many threads there may be.      *)
FewPostmen == IsFiniteSet(Postmen)

(* One postman at most at the start.                                       *)
LEMMA InitFew == Init => FewPostmen
<1>1. Init => Postmen \subseteq {First[Postman]}
  BY DEF Init, Postmen, IsPostman
<1> QED
  BY <1>1, FS_Singleton, FS_Subset DEF FewPostmen

(* Each step leaves finitely many postmen.                                 *)
LEMMA FewStep == StartInv /\ FewPostmen /\ [Next]_vars => FewPostmen'
<1> SUFFICES ASSUME StartInv, FewPostmen, [Next]_vars PROVE FewPostmen'
  OBVIOUS
<1>1. PICK t \in Threads : \A u \in Threads : u # t /\ pc[u] = "none" => pc'[u] = "none"
  BY Created
<1>2. Postmen' \subseteq Postmen \cup {t}
  BY <1>1 DEF Postmen, IsPostman
<1>3. IsFiniteSet(Postmen \cup {t})
  BY FS_AddElement DEF FewPostmen
<1> QED
  BY <1>2, <1>3, FS_Subset DEF FewPostmen

(* The invariants together.                                                *)
LEMMA Invariants == Spec => [](StartInv /\ MailInv /\ FewPostmen)
<1>1. Init => StartInv /\ MailInv /\ FewPostmen
  BY InitStart, InitMail, InitFew
<1>2. StartInv /\ MailInv /\ FewPostmen /\ [Next]_vars
        => StartInv' /\ MailInv' /\ FewPostmen'
  BY StartStep, MailStep, FewStep
<1> QED
  BY <1>1, <1>2, PTL DEF Spec

(* The variables keep their types, and the postman's loop stays in the     *)
(* table of the subscribers (post_office.cpp, postman.cpp).                *)
THEOREM TypeCorrect == Spec => []TypeOK
<1>1. StartInv /\ MailInv => TypeOK
  BY DEF StartInv, StartTyped, MailInv, MailTyped, TypeOK
<1> QED
  BY <1>1, Invariants, PTL

(* Whoever delivers reads a complete table: the barrier opened after the   *)
(* last subscription, and no restarted thread subscribes again.            *)
THEOREM TableIsComplete == Spec => []TableComplete
<1>1. StartInv /\ MailInv => TableComplete
  BY BusyRunning, TableWhenRunning DEF TableComplete
<1> QED
  BY <1>1, Invariants, PTL

(* The barrier leaves nobody behind, replacements of threads included      *)
(* (post_office_subscribe, barrier_offset in post_office_init).            *)
THEOREM NobodyIsLeft == Spec => []NobodyLeftWaiting
<1>1. StartInv => NobodyLeftWaiting
  BY DEF StartInv, Joining, NobodyLeftWaiting, Waiting
<1> QED
  BY <1>1, Invariants, PTL

(* Every mail comes once into every box it belongs in, and into no other,  *)
(* however many postmen deliver side by side after restarts.               *)
THEOREM MailDeliveredOnce == Spec => []DeliveredOnce
<1>1. ASSUME StartInv, MailInv, NEW k \in DOMAIN sent, NEW b \in Boxes
      PROVE  /\ Cardinality(Copies(b, sent[k])) <= 1
             /\ Copies(b, sent[k]) # {} => b \in Receivers(sent[k])
             /\ Handled(sent[k]) /\ b \in Receivers(sent[k]) => Copies(b, sent[k]) # {}
  <2>1. sent[k].n = k
    BY <1>1 DEF MailInv, Numbered
  <2>2. Copies(b, sent[k]) # {} <=> InBox(b, k)
    BY <2>1 DEF Copies, InBox
  <2>3. Cardinality(Copies(b, sent[k])) <= 1
    <3>1. CASE Copies(b, sent[k]) = {}
      BY <3>1, FS_EmptySet
    <3>2. CASE Copies(b, sent[k]) # {}
      <4>1. PICK i : i \in Copies(b, sent[k])
        BY <3>2
      <4>2. Copies(b, sent[k]) = {i}
        BY <1>1, <4>1 DEF Copies, MailInv, OneCopy
      <4> QED
        BY <4>2, FS_Singleton
    <3> QED
      BY <3>1, <3>2
  <2>4. ASSUME InBox(b, k)
        PROVE  b \in Receivers(sent[k])
    <3>1. \A p \in Producers : ~InQueue(p, k)
      BY <1>1, <2>4 DEF MailInv, OnePlace, PlaceInHand, PlaceInQueue, PlaceInBoxes
    <3>2. CASE \A t \in Threads : ~Carries(t, k)
      BY <1>1, <2>4, <3>1, <3>2
         DEF MailInv, OnePlace, PlaceInHand, PlaceInQueue, PlaceInBoxes
    <3>3. ASSUME NEW t \in Threads, Carries(t, k)
          PROVE  b \in Receivers(sent[k])
      <4>1. b \in Served(t)
        BY <1>1, <2>4, <3>3
           DEF MailInv, OnePlace, PlaceInHand, PlaceInQueue, PlaceInBoxes
      <4>2. hand[t].busy /\ hand[t].mail.n = k
        BY <3>3 DEF Carries
      <4>3. /\ hand[t].served \in Nat /\ subs[hand[t].mail.type] \in Seq(Boxes)
            /\ hand[t].served < Len(subs[hand[t].mail.type])
        BY <1>1, <4>2, BusyRunning DEF MailInv, MailTyped
      <4>4. Served(t) \subseteq ToSet(subs[hand[t].mail.type])
        BY <4>3 DEF Served, ToSet
      <4> QED
        BY <1>1, <4>1, <4>2, <4>4 DEF MailInv, Hands
    <3> QED
      BY <3>2, <3>3
  <2>5. ASSUME Handled(sent[k]), b \in Receivers(sent[k])
        PROVE  InBox(b, k)
    <3>1. \A p \in Producers : ~InQueue(p, k)
      BY <2>1, <2>5 DEF Handled, InQueue
    <3>2. \A t \in Threads : ~Carries(t, k)
      BY <2>1, <2>5 DEF Handled, Carries
    <3> QED
      BY <1>1, <2>5, <3>1, <3>2
         DEF MailInv, OnePlace, PlaceInHand, PlaceInQueue, PlaceInBoxes
  <2> QED
    BY <2>2, <2>3, <2>4, <2>5
<1>2. StartInv /\ MailInv => DeliveredOnce
  BY <1>1 DEF DeliveredOnce
<1> QED
  BY <1>2, Invariants, PTL

(* As long as the postman was not restarted, a box gets the mails of each  *)
(* sender in the order they were sent (postman_deliver).                   *)
THEOREM SendersInOrder == Spec => []OrderPerSender
<1>1. FewPostmen /\ Cardinality(Postmen) = 1 => Lone
  <2>1. ASSUME FewPostmen, Cardinality(Postmen) = 1
        PROVE  \E x : Postmen = {x}
    BY <2>1, FS_Singleton DEF FewPostmen
  <2> QED
    BY <2>1 DEF Lone
<1>2. MailInv /\ FewPostmen => OrderPerSender
  BY <1>1 DEF MailInv, InTurn, OrderPerSender
<1> QED
  BY <1>2, Invariants, PTL
=============================================================================
