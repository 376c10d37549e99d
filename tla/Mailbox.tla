------------------------------ MODULE Mailbox ------------------------------
(***************************************************************************)
(* What a mail queue promises to the threads that share it: a mail that is *)
(* offered is put once, behind those that wait, or refused if as many wait *)
(* as the queue was made for; a taker gets the mail that waited longest,   *)
(* and nothing only if none waits.  What it promises ends when it is full  *)
(* and does not refuse.                                                    *)
(***************************************************************************)
EXTENDS Naturals, Sequences

CONSTANTS Threads, Mails,
          Nothing,    \* not in Mails
          Capacity    \* mails the queue was made for

VARIABLES mails,      \* those that wait
          offered,    \* offered[t], the mail t wants to put, or Nothing
          got,        \* got[t], what t took last, or Nothing
          overrun     \* the queue was full and did not refuse

vars == <<mails, offered, got, overrun>>

Init ==
  /\ mails = <<>>
  /\ offered = [t \in Threads |-> Nothing]
  /\ got = [t \in Threads |-> Nothing]
  /\ overrun = FALSE

Offer(t) ==
  /\ offered[t] = Nothing
  /\ \E m \in Mails : offered' = [offered EXCEPT ![t] = m]
  /\ UNCHANGED <<mails, got, overrun>>

Done(t) == offered[t] # Nothing /\ offered' = [offered EXCEPT ![t] = Nothing]

Put(t) ==
  /\ mails' = Append(mails, offered[t])
  /\ Done(t)
  /\ UNCHANGED <<got, overrun>>

Refuse(t) ==
  /\ Len(mails) >= Capacity
  /\ Done(t)
  /\ UNCHANGED <<mails, got, overrun>>

Take(t) ==
  /\ mails # <<>>
  /\ got' = [got EXCEPT ![t] = Head(mails)]
  /\ mails' = Tail(mails)
  /\ UNCHANGED <<offered, overrun>>

Miss(t) ==
  /\ mails = <<>>
  /\ got' = [got EXCEPT ![t] = Nothing]
  /\ UNCHANGED <<mails, offered, overrun>>

Clear ==
  /\ mails' = <<>>
  /\ UNCHANGED <<offered, got, overrun>>

Overrun ==
  /\ Len(mails) >= Capacity
  /\ overrun' = TRUE
  /\ UNCHANGED <<mails, offered, got>>

Next ==
  \/ \E t \in Threads : Offer(t) \/ Put(t) \/ Refuse(t) \/ Take(t) \/ Miss(t)
  \/ Clear
  \/ Overrun

Spec == Init /\ [][Next]_vars
=============================================================================
