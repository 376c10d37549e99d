----------------------------- MODULE CanStream -----------------------------
(***************************************************************************)
(* The broker (broker/broker.cpp) and the stream it reads (can/can.c).     *)
(* It forks candump, reads its lines with fgets, and for each of them      *)
(* checks the hash and sends a sample to the office, or a row of error to  *)
(* the log.  At the end of the stream it returns.                          *)
(*                                                                         *)
(* The safeguard restarts a broker that has returned, and one that does    *)
(* not answer.  The latter is cancelled and not joined: it runs on, beside *)
(* its successor, to its next cancellation point, a read in fgets, the     *)
(* close after the fork or the report of an invalid line.  Both share the  *)
(* stream, the static buffers of broker.cpp, and the descriptors, which a  *)
(* child inherits: none is closed on exec.                                 *)
(*                                                                         *)
(* A line is two pieces, head and tail: candump writes it at once, but a   *)
(* read of the buffer's size may end in a line.  Piece 2n - 1 is the head  *)
(* of line n, piece 2n its tail.  Left out: the buffers of hash_vld.c and  *)
(* hex.c, filled and read in one step; the length of a line.               *)
(***************************************************************************)
EXTENDS HexFloat, Sequences, FiniteSets

CONSTANTS
  Brokers,     \* threads of the broker that may exist at a time
  NoBroker,    \* not in Brokers
  Traffic,     \* the frames on the bus: [pid, number, valid]
  MaxFrames,   \* bound on the lines candump writes
  MaxFaults    \* bound on restarts of a live broker and on failures of fdopen

Frame == [pid : Nat, number : Number, valid : BOOLEAN]

ASSUME BrokersAssumption == NoBroker \notin Brokers /\ Brokers # {}
ASSUME TrafficAssumption == \A f \in Traffic : f \in Frame
ASSUME BoundsAssumption == MaxFrames \in Nat /\ MaxFaults \in Nat

VARIABLES
  bus,         \* the frames candump wrote lines for
  child,       \* the candump of the stream: "none", "running" or "ended"
  stream,      \* can->stream: "null", "open" or "closed", which dangles
  holder,      \* the broker that holds the lock of the stream, in fgets
  fetched,     \* pieces read from the pipe into the buffer of the stream
  consumed,    \* pieces read from this buffer
  kept,        \* brokers the write end of whose pipe a child of another has
  withheld,    \* such a child has the write end of the stream's pipe
  pc,          \* pc[b], the next step of b, or "none" if b does not run
  from,        \* from[b], the first piece of the line b reads or handles, or 0
  current,     \* the broker whose thread the safeguard knows
  cancelled,   \* the brokers that are cancelled and still run
  cmsg, hex, mail,  \* the static buffers of broker.cpp
  faults,      \* faults so far
  posted,      \* history: what was sent, with its line
  cut,         \* history: lines whose broker was cancelled before it reported them
  overlapped,  \* history: two brokers were where only one should be
  broken       \* history: the stream was used after it was closed, or an
               \* open one was replaced

ends   == <<kept, withheld>>
pipe   == <<bus, child, fetched, consumed, ends>>
file   == <<stream, holder>>
broker == <<pc, from>>
guard  == <<current, cancelled, faults>>
static == <<cmsg, hex, mail>>
out    == <<posted, cut>>
vars   == <<pipe, file, broker, guard, static, out, overlapped, broken>>

(* What sscanf makes of a line, and of a tail whose head is gone.  A hash  *)
(* stands for what was hashed.                                             *)
Message(f) ==
  LET words == to_hex_string(f.number)
  IN  [pid |-> f.pid, words |-> words,
       hash |-> IF f.valid THEN <<f.pid, words>> ELSE <<>>]

Blank == [pid |-> 0, words |-> <<0, 0>>, hash |-> <<>>]

Line(piece)  == (piece + 1) \div 2
IsTail(piece) == piece % 2 = 0
Written      == 2 * Len(bus)

Init ==
  /\ bus = <<>>
  /\ child = "none"
  /\ stream = "null"
  /\ holder = NoBroker
  /\ fetched = 0
  /\ consumed = 0
  /\ kept = {}
  /\ withheld = FALSE
  /\ current \in Brokers
  /\ pc = [b \in Brokers |-> IF b = current THEN "start" ELSE "none"]
  /\ from = [b \in Brokers |-> 0]
  /\ cancelled = {}
  /\ cmsg = Blank
  /\ hex = Blank.words
  /\ mail = [pid |-> 0, value |-> 0]
  /\ faults = 0
  /\ posted = <<>>
  /\ cut = {}
  /\ overlapped = FALSE
  /\ broken = FALSE

-----------------------------------------------------------------------------
(* candump.                                                                *)

WriteLine ==
  /\ child = "running"
  /\ Len(bus) < MaxFrames
  /\ \E f \in Traffic : bus' = Append(bus, f)
  /\ UNCHANGED <<child, fetched, consumed, ends, file, broker, guard, static, out, broken>>

ChildEnds ==
  /\ child = "running"
  /\ child' = "ended"
  /\ UNCHANGED <<bus, fetched, consumed, ends, file, broker, guard, static, out, broken>>

(* The child that has a write end too many ends.  It may run for ever.     *)
KeeperEnds ==
  /\ withheld
  /\ withheld' = FALSE
  /\ UNCHANGED <<bus, child, fetched, consumed, kept, file, broker, guard, static,
                 out, broken>>

-----------------------------------------------------------------------------
(* can_run_receive.                                                        *)

Goto(b, label) == pc' = [pc EXCEPT ![b] = label]

(* The thread ends: it returned, or it was cancelled.                      *)
End(b) ==
  /\ Goto(b, "none")
  /\ from' = [from EXCEPT ![b] = 0]
  /\ cancelled' = cancelled \ {b}
  /\ UNCHANGED <<current, faults>>

(* can.c:47, the stream is not opened again if it is there.                *)
Start(b) ==
  /\ pc[b] = "start"
  /\ Goto(b, IF stream = "null" THEN "open" ELSE "fgets")
  /\ UNCHANGED <<pipe, file, from, guard, static, out, broken>>

OpenPipe(b) ==
  /\ pc[b] = "open"
  /\ Goto(b, "fork")
  /\ UNCHANGED <<pipe, file, from, guard, static, out, broken>>

(* The child inherits the write end of a pipe another broker is opening.   *)
Fork(b) ==
  /\ pc[b] = "fork"
  /\ kept' = kept \cup {a \in Brokers \ {b} : pc[a] \in {"fork", "close"}}
  /\ Goto(b, "close")
  /\ UNCHANGED <<bus, child, fetched, consumed, withheld, file, from, guard, static,
                 out, broken>>

CloseEnd(b) ==
  /\ pc[b] = "close"
  /\ Goto(b, "fdopen")
  /\ UNCHANGED <<pipe, file, from, guard, static, out, broken>>

(* The broker gives its pipe up; its child stays behind, and nothing reads *)
(* what it writes.                                                         *)
GiveUp(b) ==
  /\ Goto(b, "none")
  /\ cancelled' = cancelled \ {b}
  /\ kept' = kept \ {b}
  /\ UNCHANGED <<bus, child, fetched, consumed, withheld, holder, from, current,
                 static, out>>

(* The cancelled broker ends in the close.                                 *)
DieInClose(b) ==
  /\ pc[b] = "close"
  /\ b \in cancelled
  /\ GiveUp(b)
  /\ UNCHANGED <<stream, faults, broken>>

(* The stream is the pipe of b, with its candump, from here on: one that   *)
(* another broker opened meanwhile is lost.  A child that fork or execvp   *)
(* fails for is one that ends.                                             *)
Fdopen(b) ==
  /\ pc[b] = "fdopen"
  /\ stream' = "open"
  /\ child' = "running"
  /\ withheld' = (b \in kept)
  /\ kept' = kept \ {b}
  /\ broken' = (stream # "null")
  /\ Goto(b, "fgets")
  /\ UNCHANGED <<bus, fetched, consumed, holder, from, guard, static, out>>

(* So it is if fdopen fails, and the broker returns.                       *)
FdopenFails(b) ==
  /\ pc[b] = "fdopen"
  /\ faults < MaxFaults
  /\ faults' = faults + 1
  /\ stream' = "null"
  /\ broken' = (stream # "null")
  /\ GiveUp(b)

(* fgets is called and takes the lock of the stream.                       *)
CallFgets(b) ==
  /\ pc[b] = "fgets"
  /\ holder = NoBroker
  /\ IF stream = "open"
     THEN Goto(b, "reading") /\ holder' = b /\ UNCHANGED broken
     ELSE broken' = TRUE /\ UNCHANGED <<pc, holder>>
  /\ UNCHANGED <<pipe, stream, from, guard, static, out>>

(* A piece of the buffer goes into rcv_msg; a tail ends the line.          *)
TakePiece(b) ==
  /\ pc[b] = "reading"
  /\ consumed < fetched
  /\ consumed' = consumed + 1
  /\ from' = [from EXCEPT ![b] = IF @ = 0 THEN consumed' ELSE @]
  /\ IF IsTail(consumed')
     THEN Goto(b, "parse") /\ holder' = NoBroker
     ELSE UNCHANGED <<pc, holder>>
  /\ UNCHANGED <<bus, child, fetched, ends, stream, guard, static, out, broken>>

(* The buffer is empty: read.                                              *)
Read(b) ==
  /\ pc[b] = "reading"
  /\ consumed = fetched
  /\ \E n \in fetched + 1 .. Written : fetched' = n
  /\ UNCHANGED <<bus, child, consumed, ends, file, broker, guard, static, out, broken>>

(* Mutant: the lock of the stream is not given back.                       *)
DieInReadLocked(b) ==
  /\ pc[b] = "reading"
  /\ consumed = fetched
  /\ b \in cancelled
  /\ End(b)
  /\ UNCHANGED <<pipe, file, static, out, broken>>

(* The cancelled broker ends in the read; what it has of a line is gone.   *)
DieInRead(b) ==
  /\ pc[b] = "reading"
  /\ consumed = fetched
  /\ b \in cancelled
  /\ holder' = NoBroker
  /\ End(b)
  /\ UNCHANGED <<pipe, stream, static, out, broken>>

(* Mutant: the stream is left as it is.                                    *)
EndOfFileKept(b) ==
  /\ pc[b] = "reading"
  /\ consumed = Written
  /\ child = "ended" /\ ~withheld
  /\ holder' = NoBroker
  /\ End(b)
  /\ UNCHANGED <<pipe, stream, static, out, broken>>

(* The write end is closed wherever it was, and fgets returns NULL.        *)
EndOfFile(b) ==
  /\ pc[b] = "reading"
  /\ consumed = Written
  /\ child = "ended" /\ ~withheld
  /\ holder' = NoBroker
  /\ Goto(b, "eof")
  /\ UNCHANGED <<pipe, stream, from, guard, static, out, broken>>

(* fclose, which waits for the lock.                                       *)
Close(b) ==
  /\ pc[b] = "eof"
  /\ holder = NoBroker
  /\ stream' = "closed"
  /\ broken' = (stream # "open")
  /\ Goto(b, "clear")
  /\ UNCHANGED <<pipe, holder, from, guard, static, out>>

(* The stream is null, and the broker returns.                             *)
Clear(b) ==
  /\ pc[b] = "clear"
  /\ stream' = "null"
  /\ End(b)
  /\ UNCHANGED <<pipe, holder, static, out, broken>>

-----------------------------------------------------------------------------
(* broker_receive, the callback.                                           *)

(* Back to fgets.                                                          *)
NextLine(b) ==
  /\ Goto(b, "fgets")
  /\ from' = [from EXCEPT ![b] = 0]

(* A row carries no sample.                                                *)
Post(b, kind, sample) ==
  posted' = Append(posted,
    [kind |-> kind, sample |-> sample,
     line |-> Line(from[b]), torn |-> IsTail(from[b])])

(* Mutant: the message is not zeroed first.                                *)
ParseOver(b) ==
  /\ pc[b] = "parse"
  /\ cmsg' = IF IsTail(from[b]) THEN cmsg ELSE Message(bus[Line(from[b])])
  /\ Goto(b, "copy")
  /\ UNCHANGED <<pipe, file, from, guard, hex, mail, out, broken>>

(* can_rcv_msg.                                                            *)
Parse(b) ==
  /\ pc[b] = "parse"
  /\ cmsg' = IF IsTail(from[b]) THEN Blank ELSE Message(bus[Line(from[b])])
  /\ Goto(b, "copy")
  /\ UNCHANGED <<pipe, file, from, guard, hex, mail, out, broken>>

Copy(b) ==
  /\ pc[b] = "copy"
  /\ hex' = cmsg.words
  /\ Goto(b, "validate")
  /\ UNCHANGED <<pipe, file, from, guard, cmsg, mail, out, broken>>

(* validate_hash: the hash of the pid and of the copied words.             *)
Validate(b) ==
  /\ pc[b] = "validate"
  /\ Goto(b, IF cmsg.hash = <<cmsg.pid, hex>> THEN "pid" ELSE "invalid")
  /\ UNCHANGED <<pipe, file, from, guard, static, out, broken>>

Invalid(b) ==
  /\ pc[b] = "invalid"
  /\ Post(b, "hash", <<>>)
  /\ NextLine(b)
  /\ UNCHANGED <<pipe, file, guard, static, cut, broken>>

(* hash_vld.c:26: the cancelled broker ends where the line is reported.    *)
DieInReport(b) ==
  /\ pc[b] = "invalid"
  /\ b \in cancelled
  /\ cut' = cut \cup {Line(from[b])}
  /\ End(b)
  /\ UNCHANGED <<pipe, file, static, posted, broken>>

(* broker.cpp:53, an int into a char, which is signed.                     *)
AsChar(n) == ((n + 128) % 256) - 128

(* Mutant: the callback goes on after the row.                             *)
PidGoesOn(b) ==
  /\ pc[b] = "pid"
  /\ IF cmsg.pid = 0
     THEN Post(b, "pid", <<>>) /\ UNCHANGED mail
     ELSE mail' = [mail EXCEPT !.pid = AsChar(cmsg.pid)] /\ UNCHANGED posted
  /\ Goto(b, "value")
  /\ UNCHANGED <<pipe, file, from, guard, cmsg, hex, cut, broken>>

(* A pid 0 is reported and not sent.                                       *)
Pid(b) ==
  /\ pc[b] = "pid"
  /\ \/ /\ cmsg.pid = 0
        /\ Post(b, "pid", <<>>)
        /\ NextLine(b)
        /\ UNCHANGED mail
     \/ /\ cmsg.pid # 0
        /\ mail' = [mail EXCEPT !.pid = AsChar(cmsg.pid)]
        /\ Goto(b, "value")
        /\ UNCHANGED <<from, posted>>
  /\ UNCHANGED <<pipe, file, guard, cmsg, hex, cut, broken>>

Value(b) ==
  /\ pc[b] = "value"
  /\ mail' = [mail EXCEPT !.value = hex_get_float(hex)]
  /\ Goto(b, "send")
  /\ UNCHANGED <<pipe, file, from, guard, cmsg, hex, out, broken>>

Send(b) ==
  /\ pc[b] = "send"
  /\ Post(b, "sample", mail)
  /\ NextLine(b)
  /\ UNCHANGED <<pipe, file, guard, static, cut, broken>>

-----------------------------------------------------------------------------
(* safeguard_restart_thread, for the broker: cancel, do not join, create.  *)

Alive(b) == pc[b] # "none"

Created(b) ==
  /\ current' = b
  /\ Goto(b, "start")
  /\ UNCHANGED <<pipe, file, from, static, out, broken>>

RestartReturned ==
  /\ ~Alive(current)
  /\ Created(current)
  /\ UNCHANGED <<cancelled, faults>>

RestartLive ==
  /\ Alive(current)
  /\ faults < MaxFaults
  /\ faults' = faults + 1
  /\ cancelled' = cancelled \cup {current}
  /\ \E b \in Brokers : ~Alive(b) /\ Created(b)

-----------------------------------------------------------------------------
Opening  == {"open", "fork", "close", "fdopen"}
Callback == {"parse", "copy", "validate", "invalid", "pid", "value", "send"}

(* Two brokers in the callback, or one that opens or closes the stream     *)
(* beside another.                                                         *)
Overlap ==
  \E a, b \in Brokers :
    /\ a # b /\ Alive(a) /\ Alive(b)
    /\ \/ pc[a] \in Callback /\ pc[b] \in Callback
       \/ pc[a] \in Opening \cup {"eof", "clear"}

BrokerStep(b) ==
  \/ Start(b) \/ OpenPipe(b) \/ Fork(b)
  \/ CloseEnd(b) \/ DieInClose(b) \/ Fdopen(b) \/ FdopenFails(b)
  \/ CallFgets(b) \/ TakePiece(b) \/ Read(b) \/ DieInRead(b)
  \/ EndOfFile(b) \/ Close(b) \/ Clear(b)
  \/ Parse(b) \/ Copy(b) \/ Validate(b) \/ Invalid(b) \/ DieInReport(b)
  \/ Pid(b) \/ Value(b) \/ Send(b)

(* Nothing sensible follows once the stream is broken.                     *)
Seen(action) ==
  /\ ~broken
  /\ action
  /\ overlapped' = (overlapped \/ Overlap')

Next ==
  \/ \E b \in Brokers : Seen(BrokerStep(b))
  \/ Seen(WriteLine) \/ Seen(ChildEnds) \/ Seen(KeeperEnds)
  \/ Seen(RestartReturned) \/ Seen(RestartLive)

(* Every thread of a broker is scheduled; a broker that has returned is    *)
(* restarted (Safeguard, ReturnedIsRestarted).                             *)
Spec ==
  /\ Init /\ [][Next]_vars
  /\ \A b \in Brokers : WF_vars(Seen(BrokerStep(b)))
  /\ WF_vars(Seen(RestartReturned))

-----------------------------------------------------------------------------
(* The types; only a broker in fgets holds the lock of the stream.         *)
TypeOK ==
  /\ bus \in Seq(Traffic)
  /\ child \in {"none", "running", "ended"}
  /\ stream \in {"null", "open", "closed"}
  /\ holder # NoBroker => holder \in Brokers /\ pc[holder] = "reading"
  /\ consumed \in 0 .. fetched /\ fetched <= Written
  /\ kept \subseteq Brokers /\ withheld \in BOOLEAN
  /\ pc \in [Brokers -> Opening \cup Callback \cup
       {"none", "start", "fgets", "reading", "eof", "clear"}]
  /\ from \in [Brokers -> 0 .. consumed]
  /\ current \in Brokers /\ cancelled \subseteq Brokers
  /\ faults \in 0 .. MaxFaults
  /\ cut \subseteq 1 .. Len(bus)
  /\ overlapped \in BOOLEAN /\ broken \in BOOLEAN

Due(record) ==
  LET f == bus[record.line]
  IN  IF record.torn \/ ~f.valid THEN "hash" ELSE IF f.pid = 0 THEN "pid" ELSE "sample"

(* What the broker sends is what the lines ask for, in their order: the    *)
(* sample of a valid line, with its pid and its number if the format and   *)
(* the mail can hold them (a pid above 127 is another one in a char), a    *)
(* row for any other line, one cut by a restart included.  And the stream  *)
(* is closed and opened by one broker at a time, and ends with its         *)
(* candump.  This holds across restarts, unless a cancelled broker and its *)
(* successor were in the callback, or at the ends of the stream, at once.  *)
SoundUnlessOverlap ==
  \/ overlapped
  \/ /\ ~broken /\ ~withheld
     /\ \A n \in 1 .. Len(posted) :
          LET record == posted[n]
              f      == bus[record.line]
          IN  /\ record.kind = Due(record)
              /\ n > 1 => posted[n - 1].line < record.line
              /\ record.kind = "sample" =>
                   /\ f.pid <= 127 => record.sample.pid = f.pid
                   /\ Exact(f.number) => record.sample.value = Tenthousandths(f.number)

Handles(b, line) == pc[b] \in Callback /\ Line(from[b]) = line

(* Each line is unread, handled by one broker, sent from once, or lost     *)
(* with a broker cancelled while it reports it: no restart makes a line    *)
(* count twice or not at all, whatever brokers overlap.                    *)
EveryLineOnce ==
  \A line \in 1 .. Len(bus) :
    Cardinality({n \in 1 .. Len(posted) : posted[n].line = line})
    + Cardinality({b \in Brokers : Handles(b, line)})
    + Cardinality({line} \cap cut)
    + (IF consumed < 2 * line THEN 1 ELSE 0) = 1

(* When candump ends, the stream is closed and candump runs again, unless  *)
(* a child forked by another broker has the write end of its pipe: then    *)
(* fgets waits for this child too.  It may run on for ever, and the broker *)
(* in fgets answers the safeguard.                                         *)
StreamResumes ==
  child # "running" ~> child = "running" \/ broken \/ withheld
=============================================================================
