--------------------------- MODULE CanStream_proofs ---------------------------
(***************************************************************************)
(* Proofs about the broker, the stream it reads and the numbers in it: for *)
(* any number of brokers, lines and faults, and every number of the        *)
(* format.                                                                 *)
(***************************************************************************)
EXTENDS CanStream, FiniteSetTheorems, TLAPS

-----------------------------------------------------------------------------
(* What hex_get_float makes of what to_hex_string wrote.                   *)

(* The fields of a number; the intervals stay out of the lemmas below.     *)
LEMMA NumberFields ==
  ASSUME NEW v \in Number
  PROVE  /\ v.whole \in Nat
         /\ v.frac \in Nat
         /\ v.negative \in BOOLEAN
         /\ v.short \in BOOLEAN
<1>1. ASSUME NEW n \in Whole PROVE n \in Nat
  BY DEF Whole
<1>2. ASSUME NEW n \in Fraction PROVE n \in Nat
  BY DEF Fraction
<1>3. /\ v.whole \in Whole /\ v.frac \in Fraction
      /\ v.negative \in BOOLEAN /\ v.short \in BOOLEAN
  BY DEF Number
<1> QED
  BY <1>1, <1>2, <1>3

(* The two words of a number: the sign sits in the lowest bit of the first.*)
LEMMA WordsOfNumber ==
  ASSUME NEW v \in Number
  PROVE  /\ to_hex_string(v)[1] \div 2 = v.whole
         /\ to_hex_string(v)[1] % 2 = 1 <=> v.negative /\ v.whole > 0
         /\ to_hex_string(v)[2] = IF v.short THEN Trimmed(v.frac) ELSE v.frac
<1> DEFINE s == IF v.negative /\ v.whole > 0 THEN 1 ELSE 0
           t == IF v.short THEN Trimmed(v.frac) ELSE v.frac
<1>1. s \in {0, 1} /\ (s = 1 <=> v.negative /\ v.whole > 0)
  OBVIOUS
<1>2. to_hex_string(v) = <<2 * v.whole + s, t>>
  BY DEF to_hex_string
<1>3. t = IF v.short THEN Trimmed(v.frac) ELSE v.frac
  OBVIOUS
<1> HIDE DEF s, t
<1>4. (2 * v.whole + s) \div 2 = v.whole /\ (2 * v.whole + s) % 2 = s
  BY <1>1, NumberFields
<1> QED
  BY <1>1, <1>2, <1>3, <1>4

(* hex.c:36: printing never adds to a fraction, whatever the whole part.   *)
LEMMA PrintedBounds ==
  ASSUME NEW n \in Int, NEW frac \in Nat
  PROVE  Printed(n, frac) \in Nat /\ Printed(n, frac) <= frac
BY DEF Printed

(* extractor.py:50: a fraction that loses its last zeros becomes smaller.  *)
LEMMA TrimmedShrinks ==
  ASSUME NEW frac \in Nat
  PROVE  /\ Trimmed(frac) \in Nat
         /\ Trimmed(frac) <= frac
         /\ Trimmed(frac) = frac <=> ~(frac > 0 /\ frac % 10 = 0)
BY DEF Trimmed

(* A sample is read with exactly the value that was written if its         *)
(* fraction has four digits or none, fits in the nine characters, and is   *)
(* not the fraction of a number between -1 and 0; any other number comes   *)
(* out changed.  The comment of extractor.py:35 has no such exceptions.    *)
THEOREM RoundTrip ==
  ASSUME NEW v \in Number
  PROVE  hex_get_float(to_hex_string(v)) = Tenthousandths(v) <=> Exact(v)
<1> DEFINE x == hex_get_float(to_hex_string(v))
           m == IF v.negative THEN -v.whole ELSE v.whole
           t == IF v.short THEN Trimmed(v.frac) ELSE v.frac
           p == Printed(m, t)
<1>1. /\ v.whole \in Nat /\ v.frac \in Nat
      /\ v.negative \in BOOLEAN /\ v.short \in BOOLEAN
  BY NumberFields
<1>2. /\ t \in Nat /\ t <= v.frac
      /\ t = v.frac <=> ~(v.short /\ v.frac > 0 /\ v.frac % 10 = 0)
  BY <1>1, TrimmedShrinks
<1>3. x = IF m < 0 THEN m * 10000 - p ELSE m * 10000 + p
  <2>1. (IF to_hex_string(v)[1] % 2 = 1
         THEN -(to_hex_string(v)[1] \div 2) ELSE to_hex_string(v)[1] \div 2) = m
    BY <1>1, WordsOfNumber
  <2> QED
    BY <2>1, WordsOfNumber DEF hex_get_float
<1>4. Tenthousandths(v) =
        IF v.negative THEN m * 10000 - v.frac ELSE m * 10000 + v.frac
  BY <1>1 DEF Tenthousandths
<1>5. /\ m \in Int
      /\ m < 0 <=> v.negative /\ v.whole > 0
      /\ v.negative /\ ~(m < 0) => m = 0
  BY <1>1
<1>6. p \in Nat /\ p <= t
  BY <1>2, <1>5, PrintedBounds
<1>7. Exact(v) <=> /\ t = v.frac
                   /\ v.negative /\ v.frac > 0 => v.whole > 0
                   /\ p = v.frac
  <2>1. v.short /\ v.frac > 0 => v.frac % 10 # 0
          <=> ~(v.short /\ v.frac > 0 /\ v.frac % 10 = 0)
    OBVIOUS
  <2> QED
    BY <1>2, <2>1 DEF Exact
<1> HIDE DEF x, m, t, p
<1>8. ASSUME Exact(v)
      PROVE  x = Tenthousandths(v)
  <2>1. p = v.frac /\ (v.negative /\ v.frac > 0 => v.whole > 0)
    BY <1>7, <1>8
  <2> QED
    BY <1>1, <1>3, <1>4, <1>5, <2>1
<1>9. ASSUME x = Tenthousandths(v)
      PROVE  Exact(v)
  <2>1. p = v.frac
    BY <1>1, <1>2, <1>3, <1>4, <1>5, <1>6, <1>9
  <2>2. v.negative /\ v.frac > 0 => v.whole > 0
    BY <1>1, <1>3, <1>4, <1>5, <1>9, <2>1
  <2>3. t = v.frac
    BY <1>1, <1>2, <1>6, <2>1
  <2> QED
    BY <1>7, <2>1, <2>2, <2>3
<1> QED
  BY <1>8, <1>9 DEF x

-----------------------------------------------------------------------------
(* The types of what is read, kept in the static buffers and posted.       *)
Words   == Nat \X Nat
Hashes  == {<<>>} \cup (Nat \X Words)
Messages == [pid : Nat, words : Words, hash : Hashes]
Sample  == [pid : Int, value : Int]
Report  == [kind : {"hash", "pid", "sample"}, sample : {<<>>} \cup Sample,
            line : Nat, torn : BOOLEAN]

Static ==
  /\ fetched \in Nat
  /\ cmsg \in Messages
  /\ hex \in Words
  /\ mail \in Sample
  /\ posted \in Seq(Report)

(* Only the broker that holds the lock of the stream is in fgets; it has   *)
(* nothing of a line, or its head.  A broker in the callback has a line of *)
(* which the tail is read.                                                 *)
Placed ==
  \A b \in Brokers :
    /\ pc[b] = "reading" => holder = b
    /\ pc[b] = "reading" /\ from[b] # 0 => from[b] = consumed /\ ~IsTail(consumed)
    /\ pc[b] \in Callback => from[b] # 0 /\ 2 * Line(from[b]) <= consumed
    /\ from[b] # 0 => pc[b] \in Callback \cup {"reading"}

Reports == 1 .. Len(posted)

(* A line whose tail is read is in one place: it is reported, cut, or      *)
(* handled, by one broker.                                                 *)
Busy == {b \in Brokers : pc[b] \in Callback}

At(b) == Line(from[b])

OnePlace ==
  /\ \A n \in Reports :
       /\ posted[n].line # 0 /\ 2 * posted[n].line <= consumed
       /\ posted[n].line \notin cut
       /\ \A m \in Reports : posted[m].line = posted[n].line => m = n
  /\ \A line \in cut : 2 * line <= consumed
  /\ \A b \in Busy :
       /\ At(b) \notin cut
       /\ \A n \in Reports : posted[n].line # At(b)
       /\ \A a \in Busy : At(a) = At(b) => a = b

(* None is forgotten.                                                      *)
SomePlace ==
  \A line \in Nat \ {0} : 2 * line <= consumed =>
    \/ line \in cut
    \/ \E b \in Busy : At(b) = line
    \/ \E n \in Reports : posted[n].line = line

(* The stream is null, open or closed where the brokers take it to be so,  *)
(* and no child but its candump has its write end.                         *)
Streams ==
  /\ ~broken /\ ~withheld /\ kept = {}
  /\ \A b \in Brokers :
       /\ stream = "null" => pc[b] \in Opening \cup {"none", "start"}
       /\ stream = "open" => pc[b] \notin Opening \cup {"clear"}
       /\ stream = "closed" => pc[b] \in {"none", "clear"}
  /\ stream = "closed" => \E b \in Brokers : pc[b] = "clear"

Torn(b) == IsTail(from[b])
Heard(b) == bus[At(b)]

(* What the static buffers hold belongs to the line of the broker in the   *)
(* callback, which comes after every line reported.                        *)
Flow ==
  \A b \in Busy :
    /\ \A n \in Reports : posted[n].line < At(b)
    /\ pc[b] # "parse" => cmsg = IF Torn(b) THEN Blank ELSE Message(Heard(b))
    /\ pc[b] \notin {"parse", "copy"} => hex = cmsg.words
    /\ pc[b] = "invalid" => Torn(b) \/ ~Heard(b).valid
    /\ pc[b] \in {"pid", "value", "send"} => ~Torn(b) /\ Heard(b).valid
    /\ pc[b] \in {"value", "send"} => Heard(b).pid # 0 /\ mail.pid = AsChar(Heard(b).pid)
    /\ pc[b] = "send" => mail.value = hex_get_float(hex)

Right(record) ==
  /\ record.kind = Due(record)
  /\ record.kind = "sample" =>
       /\ bus[record.line].pid <= 127 => record.sample.pid = bus[record.line].pid
       /\ Exact(bus[record.line].number) =>
            record.sample.value = Tenthousandths(bus[record.line].number)

Sound ==
  \A n \in Reports :
    /\ Right(posted[n])
    /\ n > 1 => posted[n - 1].line < posted[n].line

SoundInv == overlapped \/ (~Overlap /\ Streams /\ Flow /\ Sound)

(* A piece is the tail of its line, or its head.                           *)
LEMMA LineParts ==
  ASSUME NEW p \in Nat
  PROVE  /\ Line(p) \in Nat
         /\ IsTail(p) \in BOOLEAN
         /\ IsTail(p) => 2 * Line(p) = p
         /\ ~IsTail(p) => 2 * Line(p) = p + 1
BY DEF Line, IsTail

(* What the pieces that are read say of the one that comes next.           *)
LEMMA NextPiece ==
  ASSUME NEW p \in Nat
  PROVE  /\ IsTail(p + 1) <=> ~IsTail(p)
         /\ IsTail(p + 1) => Line(p + 1) = Line(p)
         /\ \A l \in Nat : 2 * l <= p + 1 <=> 2 * l <= p \/ (IsTail(p + 1) /\ l = Line(p + 1))
<1>1. IsTail(p + 1) <=> ~IsTail(p)
  BY DEF IsTail
<1>2. IsTail(p + 1) => Line(p + 1) = Line(p)
  <2>1. IsTail(p + 1) => 2 * Line(p + 1) = p + 1 /\ Line(p + 1) \in Nat
    BY LineParts
  <2>2. ~IsTail(p) => 2 * Line(p) = p + 1 /\ Line(p) \in Nat
    BY LineParts
  <2> QED
    BY <1>1, <2>1, <2>2
<1>3. ASSUME NEW l \in Nat
      PROVE  2 * l <= p + 1 <=> 2 * l <= p \/ (IsTail(p + 1) /\ l = Line(p + 1))
  BY DEF Line, IsTail
<1> QED
  BY <1>1, <1>2, <1>3

(* The words of a number, and what a line and a tail are read as.          *)
LEMMA WordsType == \A v \in Number : to_hex_string(v) \in Words
<1> SUFFICES ASSUME NEW v \in Number PROVE to_hex_string(v) \in Words
  OBVIOUS
<1>1. v.whole \in Nat /\ v.frac \in Nat /\ Trimmed(v.frac) \in Nat
  BY NumberFields, TrimmedShrinks
<1> QED
  BY <1>1 DEF to_hex_string, Words

(* A char holds the pids to 127.                                           *)
LEMMA CharType ==
  ASSUME NEW n \in Nat
  PROVE  AsChar(n) \in Int /\ (n <= 127 => AsChar(n) = n)
BY DEF AsChar

(* What is made of a line is a message.                                    *)
LEMMA MessageType == Blank \in Messages /\ (\A f \in Frame : Message(f) \in Messages)
<1>1. Blank \in Messages
  BY DEF Blank, Messages, Words, Hashes
<1>2. ASSUME NEW f \in Frame PROVE Message(f) \in Messages
  <2>1. f.pid \in Nat /\ to_hex_string(f.number) \in Words
    BY WordsType DEF Frame
  <2>2. (IF f.valid THEN <<f.pid, to_hex_string(f.number)>> ELSE <<>>) \in Hashes
    BY <2>1 DEF Hashes
  <2> QED
    BY <2>1, <2>2 DEF Message, Messages
<1> QED
  BY <1>1, <1>2

(* The value of any two words is a number.                                 *)
LEMMA ValueType == \A w \in Words : hex_get_float(w) \in Int
<1> SUFFICES ASSUME NEW w \in Words PROVE hex_get_float(w) \in Int
  OBVIOUS
<1>1. w[1] \in Nat /\ w[2] \in Nat
  BY DEF Words
<1> DEFINE r == w[1] \div 2
           n == IF w[1] % 2 = 1 THEN -r ELSE r
<1>2. n \in Int
  BY <1>1
<1> HIDE DEF n
<1>3. Printed(n, w[2]) \in Nat
  BY <1>1, <1>2, PrintedBounds
<1>4. hex_get_float(w) = IF n < 0 THEN n * 10000 - Printed(n, w[2])
                                  ELSE n * 10000 + Printed(n, w[2])
  BY DEF hex_get_float, n
<1> QED
  BY <1>2, <1>3, <1>4

(* The line of a broker in the callback is one of the bus.                 *)
LEMMA HeardType ==
  ASSUME TypeOK, Static, Placed, NEW b \in Brokers, pc[b] \in Callback
  PROVE  /\ from[b] \in Nat \ {0}
         /\ Line(from[b]) \in 1 .. Len(bus)
         /\ Heard(b) \in Frame
<1>1. from[b] \in Nat \ {0} /\ 2 * Line(from[b]) <= consumed
  BY DEF TypeOK, Static, Placed
<1>2. consumed <= 2 * Len(bus) /\ Len(bus) \in Nat /\ consumed \in Nat
  BY DEF TypeOK, Static, Written
<1>3. Line(from[b]) \in Nat \ {0}
  BY <1>1, LineParts
<1>4. Line(from[b]) \in 1 .. Len(bus)
  BY <1>1, <1>2, <1>3
<1>5. Heard(b) \in Traffic
  BY <1>4 DEF TypeOK, Heard, At
<1> QED
  BY <1>1, <1>4, <1>5, TrafficAssumption

(* What a posted mail adds.                                                *)
LEMMA PostAdds ==
  ASSUME Static, NEW b \in Brokers, from[b] \in Nat,
         NEW kind \in {"hash", "pid", "sample"}, NEW sample \in {<<>>} \cup Sample,
         Post(b, kind, sample)
  PROVE  /\ posted' \in Seq(Report)
         /\ Len(posted') = Len(posted) + 1
         /\ \A n \in Reports : posted'[n] = posted[n]
         /\ posted'[Len(posted) + 1] =
              [kind |-> kind, sample |-> sample,
               line |-> Line(from[b]), torn |-> IsTail(from[b])]
<1> DEFINE r == [kind |-> kind, sample |-> sample,
                 line |-> Line(from[b]), torn |-> IsTail(from[b])]
<1>1. r \in Report
  BY LineParts DEF Report
<1>2. posted \in Seq(Report) /\ posted' = Append(posted, r)
  BY DEF Static, Post
<1> HIDE DEF r
<1>3. posted' \in Seq(Report) /\ Len(posted') = Len(posted) + 1
  BY <1>1, <1>2
<1>4. \A n \in Reports : posted'[n] = posted[n]
  BY <1>1, <1>2 DEF Reports
<1>5. posted'[Len(posted) + 1] = r
  BY <1>1, <1>2
<1> QED
  BY <1>3, <1>4, <1>5 DEF r

Labels ==
  Opening \cup Callback \cup {"none", "start", "fgets", "reading", "eof", "clear"}

Inv == TypeOK /\ Static /\ Placed

(* A broker that is not in the callback, nor goes there, moves on; it may  *)
(* take the lock of the stream, if it is free, or give it back.            *)
LEMMA Moves ==
  ASSUME Inv, consumed' = consumed,
         NEW b \in Brokers, NEW label \in Labels \ Callback, Goto(b, label),
         from' = from \/ from' = [from EXCEPT ![b] = 0], from'[b] = 0,
         \/ holder' = holder /\ holder # b /\ label # "reading"
         \/ holder' = NoBroker /\ holder = b /\ label # "reading"
         \/ holder = NoBroker /\ holder' = b /\ label = "reading"
  PROVE  /\ pc' \in [Brokers -> Labels]
         /\ from' \in [Brokers -> 0 .. consumed]
         /\ holder' # NoBroker => holder' \in Brokers /\ pc'[holder'] = "reading"
         /\ Placed'
<1>1. consumed \in Nat /\ pc \in [Brokers -> Labels] /\ from \in [Brokers -> 0 .. consumed]
  BY DEF Inv, TypeOK, Static, Labels
<1>2. pc' \in [Brokers -> Labels] /\ pc' = [pc EXCEPT ![b] = label]
  BY <1>1 DEF Goto
<1>3. from' \in [Brokers -> 0 .. consumed]
  BY <1>1
<1>4. holder' # NoBroker => holder' \in Brokers /\ pc'[holder'] = "reading"
  BY <1>1, <1>2, BrokersAssumption DEF Inv, TypeOK
<1>5. ASSUME NEW a \in Brokers, a # b
      PROVE  /\ pc'[a] = pc[a] /\ from'[a] = from[a]
             /\ pc[a] = "reading" => holder' = a
  BY <1>1, <1>2, <1>5, BrokersAssumption DEF Inv, Placed
<1>6. pc'[b] = label
  BY <1>1, <1>2
<1>7. Placed'
  BY <1>5, <1>6 DEF Inv, Placed
<1> QED
  BY <1>2, <1>3, <1>4, <1>7

(* A broker that is not in the callback and does not read has no piece.    *)
LEMMA NoPiece ==
  ASSUME Inv, NEW b \in Brokers, pc[b] \notin Callback \cup {"reading"}
  PROVE  from[b] = 0 /\ holder # b
<1>1. from[b] = 0
  BY DEF Inv, Placed
<1>2. holder # b
  BY BrokersAssumption DEF Inv, TypeOK
<1> QED
  BY <1>1, <1>2

(* Nor has one at the end of the file: what is read ends with a tail.      *)
LEMMA WholeLines ==
  ASSUME Inv, NEW b \in Brokers, pc[b] = "reading", consumed = Written
  PROVE  from[b] = 0
<1>1. consumed = 2 * Len(bus) /\ Len(bus) \in Nat /\ consumed \in Nat
  BY DEF Inv, TypeOK, Written
<1>2. IsTail(consumed)
  BY <1>1 DEF IsTail
<1> QED
  BY <1>2 DEF Inv, Placed

(* The steps on the stream.                                                *)
OpenStep(b) ==
  \/ Start(b) \/ OpenPipe(b) \/ Fork(b)
  \/ CloseEnd(b) \/ DieInClose(b) \/ Fdopen(b) \/ FdopenFails(b)

StreamStep(b) ==
  \/ OpenStep(b)
  \/ CallFgets(b) \/ DieInRead(b) \/ EndOfFile(b) \/ Close(b) \/ Clear(b)

(* The steps on the stream keep the types and the places.                  *)
LEMMA StreamTypes ==
  ASSUME Inv, overlapped' \in BOOLEAN, NEW b \in Brokers,
         StreamStep(b)
  PROVE  Inv'
<1>1. UNCHANGED <<bus, fetched, consumed, static, out>>
  BY DEF StreamStep, OpenStep, Start, OpenPipe, Fork, CloseEnd, DieInClose,
       Fdopen, FdopenFails, GiveUp, CallFgets, DieInRead,
       EndOfFile, Close, Clear, End, pipe
<1>2. current' = current /\ cancelled' \subseteq Brokers /\ faults' \in 0 .. MaxFaults
  <2>1. /\ current' = current
        /\ cancelled' = cancelled \/ cancelled' = cancelled \ {b}
        /\ faults' = faults \/ (faults < MaxFaults /\ faults' = faults + 1)
    BY DEF StreamStep, OpenStep, Start, OpenPipe, Fork, CloseEnd, DieInClose,
       Fdopen, FdopenFails, GiveUp, CallFgets, DieInRead,
       EndOfFile, Close, Clear,
       End, guard
  <2>2. cancelled \subseteq Brokers /\ faults \in 0 .. MaxFaults /\ MaxFaults \in Nat
    BY BoundsAssumption DEF Inv, TypeOK
  <2> QED
    BY <2>1, <2>2
<1>3. /\ child' \in {"none", "running", "ended"}
      /\ stream' \in {"null", "open", "closed"}
      /\ broken' \in BOOLEAN
  <2>1. child' = child \/ child' = "running"
    BY DEF StreamStep, OpenStep, Start, OpenPipe, Fork, CloseEnd, DieInClose,
       Fdopen, FdopenFails, GiveUp, CallFgets, DieInRead,
       EndOfFile, Close, Clear, pipe
  <2>2. stream' = stream \/ stream' \in {"null", "open", "closed"}
    BY DEF StreamStep, OpenStep, Start, OpenPipe, Fork, CloseEnd, DieInClose,
       Fdopen, FdopenFails, GiveUp, CallFgets, DieInRead,
       EndOfFile, Close, Clear, file
  <2>3. broken' \in BOOLEAN
    BY DEF StreamStep, OpenStep, Start, OpenPipe, Fork, CloseEnd, DieInClose,
       Fdopen, FdopenFails, GiveUp, CallFgets, DieInRead,
       EndOfFile, Close, Clear,
       Inv, TypeOK
  <2> QED
    BY <2>1, <2>2, <2>3 DEF Inv, TypeOK
<1>4. /\ pc' \in [Brokers -> Labels]
      /\ from' \in [Brokers -> 0 .. consumed]
      /\ holder' # NoBroker => holder' \in Brokers /\ pc'[holder'] = "reading"
      /\ Placed'
  <2>0. /\ from \in [Brokers -> 0 .. consumed] /\ pc \in [Brokers -> Labels]
        /\ holder \in Brokers \cup {NoBroker}
    BY DEF Inv, TypeOK, Labels
  <2>1. CASE OpenStep(b) \/ Close(b) \/ Clear(b)
    <3>0. /\ pc[b] \in Opening \cup {"start", "eof", "clear"}
          /\ holder' = holder
          /\ from' = from \/ from' = [from EXCEPT ![b] = 0]
      BY <2>1 DEF OpenStep, Start, OpenPipe, Fork, CloseEnd, DieInClose,
       Fdopen, FdopenFails, GiveUp, Close, Clear, End, file, Opening
    <3>4. \E label \in Labels \ (Callback \cup {"reading"}) : Goto(b, label)
      <4>1. CASE OpenStep(b)
        BY <4>1 DEF OpenStep, Start, OpenPipe, Fork, CloseEnd, DieInClose,
         Fdopen, FdopenFails, GiveUp, Labels, Opening, Callback
      <4>2. CASE Close(b) \/ Clear(b)
        BY <4>2 DEF Close, Clear, End, Labels, Callback
      <4> QED
        BY <2>1, <4>1, <4>2
    <3>1. /\ pc[b] \in Opening \cup {"start", "eof", "clear"}
          /\ holder' = holder
          /\ from' = from \/ from' = [from EXCEPT ![b] = 0]
          /\ \E label \in Labels \ (Callback \cup {"reading"}) : Goto(b, label)
      BY <3>0, <3>4
    <3>2. from[b] = 0 /\ holder # b
      BY <3>1, NoPiece DEF Opening, Callback
    <3>3. from'[b] = 0
      BY <2>0, <3>1, <3>2
    <3> QED
      BY <1>1, <3>1, <3>2, <3>3, Moves
  <2>2. CASE CallFgets(b)
    <3>1. pc[b] = "fgets" /\ holder = NoBroker /\ from' = from /\ from[b] = 0 /\ NoBroker # b
      BY <2>2, NoPiece, BrokersAssumption DEF CallFgets, Callback
    <3>2. \/ Goto(b, "reading") /\ holder' = b
          \/ Goto(b, "fgets") /\ holder' = holder
      BY <2>0, <2>2 DEF CallFgets, Goto
    <3>3. {"reading", "fgets"} \subseteq Labels \ Callback
      BY DEF Labels, Opening, Callback
    <3> QED
      BY <1>1, <3>1, <3>2, <3>3, Moves
  <2>3. CASE DieInRead(b) \/ EndOfFile(b)
    <3>1. /\ pc[b] = "reading" /\ holder' = NoBroker
          /\ \/ Goto(b, "none") /\ from' = [from EXCEPT ![b] = 0]
             \/ Goto(b, "eof") /\ from' = from /\ consumed = Written
      BY <2>3 DEF DieInRead, EndOfFile, End
    <3>2. holder = b /\ from'[b] = 0
      BY <2>0, <3>1, WholeLines DEF Inv, Placed
    <3>3. {"none", "eof"} \subseteq Labels \ (Callback \cup {"reading"})
      BY DEF Labels, Opening, Callback
    <3> QED
      BY <1>1, <3>1, <3>2, <3>3, Moves
  <2> QED
    BY <2>1, <2>2, <2>3 DEF StreamStep
<1>7. kept' \subseteq Brokers /\ withheld' \in BOOLEAN
  <2>1. CASE OpenStep(b)
    <3>1. /\ kept \subseteq Brokers /\ withheld \in BOOLEAN
      BY DEF Inv, TypeOK
    <3>2. \/ kept' = kept
          \/ kept' = kept \ {b}
          \/ kept' = kept \cup {a \in Brokers \ {b} : pc[a] \in {"fork", "close"}}
      BY <2>1 DEF OpenStep, Start, OpenPipe, Fork, CloseEnd, DieInClose,
         Fdopen, FdopenFails, GiveUp, pipe, ends
    <3>3. withheld' = withheld \/ withheld' = (b \in kept)
      BY <2>1 DEF OpenStep, Start, OpenPipe, Fork, CloseEnd, DieInClose,
         Fdopen, FdopenFails, GiveUp, pipe, ends
    <3>4. kept' \subseteq Brokers
      BY <3>1, <3>2
    <3>5. withheld' \in BOOLEAN
      <4>1. (b \in kept) \in BOOLEAN
        OBVIOUS
      <4> QED
        BY <3>1, <3>3, <4>1, Zenon
    <3> QED
      BY <3>4, <3>5
  <2>2. CASE ~OpenStep(b)
    BY <2>2 DEF StreamStep, CallFgets, DieInRead, EndOfFile, Close, Clear, pipe, ends,
       Inv, TypeOK
  <2> QED
    BY <2>1, <2>2
<1>5. TypeOK'
  BY <1>1, <1>2, <1>3, <1>4, <1>7 DEF Inv, TypeOK, Written, out, Labels
<1>6. Static'
  BY <1>1 DEF Inv, Static, static, out
<1> QED
  BY <1>4, <1>5, <1>6 DEF Inv

(* A piece taken is the head of a line, or completes one.                  *)
LEMMA PieceTaken ==
  ASSUME Inv, NEW b \in Brokers, TakePiece(b)
  PROVE  /\ pc[b] = "reading" /\ holder = b
         /\ consumed \in Nat /\ consumed + 1 <= fetched /\ consumed' = consumed + 1
         /\ from' \in [Brokers -> 0 .. consumed']
         /\ pc' \in [Brokers -> Labels]
         /\ \A a \in Brokers : a # b => from'[a] = from[a] /\ pc'[a] = pc[a] /\ pc[a] # "reading"
         /\ \/ /\ ~IsTail(consumed')
               /\ from'[b] = consumed' /\ pc'[b] = "reading" /\ holder' = b
            \/ /\ IsTail(consumed')
               /\ from'[b] \in {consumed, consumed'} /\ from'[b] # 0
               /\ pc'[b] = "parse" /\ holder' = NoBroker
               /\ Line(from'[b]) = Line(consumed')
               /\ 2 * Line(from'[b]) = consumed'
<1>1. /\ consumed \in Nat /\ fetched \in Nat /\ consumed <= fetched
      /\ pc \in [Brokers -> Labels] /\ from \in [Brokers -> 0 .. consumed]
      /\ pc[b] = "reading" /\ holder = b
      /\ \A a \in Brokers : a # b => pc[a] # "reading"
  BY DEF TakePiece, Inv, TypeOK, Static, Placed, Labels
<1>2. /\ consumed' = consumed + 1 /\ consumed < fetched
      /\ from' = [from EXCEPT ![b] = IF from[b] = 0 THEN consumed' ELSE from[b]]
      /\ IF IsTail(consumed')
         THEN pc' = [pc EXCEPT ![b] = "parse"] /\ holder' = NoBroker
         ELSE pc' = pc /\ holder' = holder
  BY DEF TakePiece, Goto
<1>3. from' \in [Brokers -> 0 .. consumed']
  BY <1>1, <1>2
<1>4. pc' \in [Brokers -> Labels]
  BY <1>1, <1>2 DEF Labels, Opening, Callback
<1>5. \A a \in Brokers : a # b => from'[a] = from[a] /\ pc'[a] = pc[a]
  BY <1>1, <1>2
<1>6. from'[b] = IF from[b] = 0 THEN consumed' ELSE from[b]
  BY <1>1, <1>2
<1>7. from[b] # 0 => from[b] = consumed /\ ~IsTail(consumed)
  BY <1>1 DEF Inv, Placed
<1>8. /\ IsTail(consumed') <=> ~IsTail(consumed)
      /\ IsTail(consumed') => Line(consumed') = Line(consumed)
  BY <1>1, <1>2, NextPiece
<1>9. CASE IsTail(consumed')
  <2>1. 2 * Line(consumed') = consumed'
    BY <1>1, <1>2, <1>9, LineParts
  <2>2. from'[b] \in {consumed, consumed'} /\ from'[b] # 0 /\ Line(from'[b]) = Line(consumed')
    BY <1>1, <1>2, <1>6, <1>7, <1>8, <1>9
  <2>3. pc'[b] = "parse" /\ holder' = NoBroker
    BY <1>1, <1>2, <1>9
  <2> QED
    BY <1>1, <1>2, <1>3, <1>4, <1>5, <1>9, <2>1, <2>2, <2>3
<1>10. CASE ~IsTail(consumed')
  <2>1. from'[b] = consumed' /\ pc'[b] = "reading" /\ holder' = b
    BY <1>1, <1>2, <1>6, <1>7, <1>8, <1>10
  <2> QED
    BY <1>1, <1>2, <1>3, <1>4, <1>5, <1>10, <2>1
<1> QED
  BY <1>9, <1>10

(* A piece taken keeps the types and the places.                           *)
LEMMA TakeTypes ==
  ASSUME Inv, overlapped' \in BOOLEAN, NEW b \in Brokers, TakePiece(b)
  PROVE  Inv'
<1>1. UNCHANGED <<bus, child, fetched, kept, withheld, stream, guard, static, out, broken>>
  BY DEF TakePiece, ends
<1>2. TypeOK'
  <2>1. holder' # NoBroker => holder' \in Brokers /\ pc'[holder'] = "reading"
    BY PieceTaken
  <2>2. consumed' \in 0 .. fetched'
    BY <1>1, PieceTaken DEF Inv, Static
  <2> QED
    BY <1>1, <2>1, <2>2, PieceTaken DEF Inv, TypeOK, Written, guard, out, Labels
<1>3. Static'
  BY <1>1 DEF Inv, Static, static, out
<1>4. Placed'
  <2> SUFFICES ASSUME NEW a \in Brokers
               PROVE  /\ pc'[a] = "reading" => holder' = a
                      /\ pc'[a] = "reading" /\ from'[a] # 0
                           => from'[a] = consumed' /\ ~IsTail(consumed')
                      /\ pc'[a] \in Callback => from'[a] # 0 /\ 2 * Line(from'[a]) <= consumed'
                      /\ from'[a] # 0 => pc'[a] \in Callback \cup {"reading"}
    BY DEF Placed
  <2>1. CASE a = b
    BY <2>1, PieceTaken DEF Callback
  <2>2. CASE a # b
    <3>1. pc'[a] = pc[a] /\ pc[a] # "reading" /\ from'[a] = from[a] /\ from[a] \in Nat
      BY <2>2, PieceTaken DEF Inv, TypeOK, Static
    <3>2. pc[a] \in Callback => from[a] # 0 /\ 2 * Line(from[a]) <= consumed'
      BY <3>1, PieceTaken, LineParts DEF Inv, Placed
    <3> QED
      BY <3>1, <3>2 DEF Inv, Placed
  <2> QED
    BY <2>1, <2>2
<1> QED
  BY <1>2, <1>3, <1>4 DEF Inv

(* The steps that are no broker's, and a read, which fills the buffer of   *)
(* the stream.                                                             *)
LEMMA PipeTypes ==
  ASSUME Inv, overlapped' \in BOOLEAN,
         WriteLine \/ ChildEnds \/ KeeperEnds \/ \E b \in Brokers : Read(b)
  PROVE  Inv'
<1>1. UNCHANGED <<consumed, file, broker, guard, static, out, broken>>
  BY DEF WriteLine, ChildEnds, KeeperEnds, Read
<1>2. /\ bus \in Seq(Traffic) /\ Len(bus) \in Nat /\ fetched \in Nat /\ fetched <= 2 * Len(bus)
      /\ consumed \in Nat /\ consumed <= fetched /\ cut \subseteq 1 .. Len(bus)
      /\ child \in {"none", "running", "ended"}
  BY DEF Inv, TypeOK, Static, Written
<1>8. kept' \subseteq Brokers /\ withheld' \in BOOLEAN
  BY DEF WriteLine, ChildEnds, KeeperEnds, Read, ends, Inv, TypeOK
<1>3. /\ bus' \in Seq(Traffic) /\ Len(bus') \in Nat /\ Len(bus') >= Len(bus)
      /\ fetched' \in Nat /\ fetched' >= fetched /\ fetched' <= 2 * Len(bus')
      /\ child' \in {"none", "running", "ended"}
  <2>1. CASE WriteLine
    <3>1. PICK f \in Traffic : bus' = Append(bus, f)
      BY <2>1 DEF WriteLine
    <3>2. child' = child /\ fetched' = fetched
      BY <2>1 DEF WriteLine
    <3> QED
      BY <1>2, <3>1, <3>2
  <2>2. CASE ChildEnds \/ KeeperEnds
    BY <1>2, <2>2 DEF ChildEnds, KeeperEnds
  <2>3. CASE \E b \in Brokers : Read(b)
    <3>1. bus' = bus /\ child' = child /\ fetched' \in fetched + 1 .. 2 * Len(bus)
      BY <2>3 DEF Read, Written
    <3> QED
      BY <1>2, <3>1
  <2> QED
    BY <2>1, <2>2, <2>3
<1>4. cut' \subseteq 1 .. Len(bus') /\ consumed' \in 0 .. fetched' /\ fetched' <= Written'
  BY <1>1, <1>2, <1>3 DEF out, Written
<1>5. TypeOK'
  BY <1>1, <1>3, <1>4, <1>8 DEF Inv, TypeOK, file, broker, guard, out
<1>6. Static'
  BY <1>1, <1>3 DEF Inv, Static, static, out
<1>7. Placed'
  BY <1>1 DEF Inv, Placed, file, broker
<1> QED
  BY <1>5, <1>6, <1>7 DEF Inv

(* So does the restart of a broker.                                        *)
LEMMA GuardTypes ==
  ASSUME Inv, overlapped' \in BOOLEAN, RestartReturned \/ RestartLive
  PROVE  Inv'
<1>1. PICK b \in Brokers : ~Alive(b) /\ Created(b)
  BY DEF RestartReturned, RestartLive, Inv, TypeOK
<1>2. UNCHANGED <<pipe, file, from, static, out, broken>> /\ current' = b /\ Goto(b, "start")
  BY <1>1 DEF Created
<1>3. cancelled' \subseteq Brokers /\ faults' \in 0 .. MaxFaults
  BY BoundsAssumption DEF RestartReturned, RestartLive, Inv, TypeOK
<1>4. from[b] = 0 /\ holder # b
  BY <1>1, NoPiece DEF Alive, Callback
<1>5. "start" \in Labels \ (Callback \cup {"reading"})
  BY DEF Labels, Opening, Callback
<1>6. /\ pc' \in [Brokers -> Labels]
      /\ from' \in [Brokers -> 0 .. consumed]
      /\ holder' # NoBroker => holder' \in Brokers /\ pc'[holder'] = "reading"
      /\ Placed'
  BY <1>2, <1>4, <1>5, Moves DEF pipe, ends, file
<1>7. TypeOK'
  BY <1>2, <1>3, <1>6 DEF Inv, TypeOK, Written, pipe, ends, file, out, Labels
<1>8. Static'
  BY <1>2 DEF Inv, Static, pipe, ends, static, out
<1> QED
  BY <1>6, <1>7, <1>8 DEF Inv

(* A step of the callback moves one broker, in the callback or out of it;  *)
(* what it posts or cuts is its own line.                                  *)
Answers(b) ==
  \/ \E kind \in {"hash", "pid", "sample"}, sample \in {<<>>} \cup Sample :
       Post(b, kind, sample) /\ cut' = cut
  \/ cut' = cut \cup {Line(from[b])} /\ posted' = posted

(* What a step of the callback touches: its buffers, its broker, and,      *)
(* when the broker is done with the line, what is posted or cut.           *)
LEMMA CallbackMoves ==
  ASSUME Inv, NEW b \in Brokers,
         \/ Parse(b) \/ Copy(b) \/ Validate(b) \/ Invalid(b) \/ DieInReport(b)
         \/ Pid(b) \/ Value(b) \/ Send(b)
  PROVE  /\ UNCHANGED <<pipe, file, broken, current, faults>>
         /\ cancelled' \subseteq Brokers
         /\ cmsg' \in Messages /\ hex' \in Words /\ mail' \in Sample
         /\ pc[b] \in Callback
         /\ pc' \in [Brokers -> Labels]
         /\ from' \in [Brokers -> 0 .. consumed]
         /\ \A a \in Brokers : a # b => pc'[a] = pc[a] /\ from'[a] = from[a]
         /\ \/ /\ pc'[b] \in Callback /\ from' = from /\ UNCHANGED out
            \/ /\ pc'[b] \in {"fgets", "none"} /\ from'[b] = 0 /\ Answers(b)
<1>1. UNCHANGED <<pipe, file, broken, current, faults>>
  BY DEF Parse, Copy, Validate, Invalid, DieInReport, Pid, Value, Send, End, guard
<1>2. cancelled' \subseteq Brokers
  BY DEF Parse, Copy, Validate, Invalid, DieInReport, Pid, Value, Send, End, guard,
     Inv, TypeOK
<1>3. pc[b] \in Callback
  BY DEF Parse, Copy, Validate, Invalid, DieInReport, Pid, Value, Send, Callback
<1>4. /\ pc \in [Brokers -> Labels] /\ from \in [Brokers -> 0 .. consumed]
      /\ consumed \in Nat
      /\ cmsg \in Messages /\ hex \in Words /\ mail \in Sample
  BY DEF Inv, TypeOK, Static, Labels
<1>5. cmsg' \in Messages
  <2>1. CASE Parse(b)
    <3>1. Message(bus[Line(from[b])]) \in Messages
      BY <1>3, HeardType, MessageType DEF Inv, Heard, At
    <3> QED
      BY <2>1, <3>1, MessageType DEF Parse
  <2>2. CASE ~Parse(b)
    BY <1>4, <2>2 DEF Copy, Validate, Invalid, DieInReport, Pid, Value, Send, static
  <2> QED
    BY <2>1, <2>2
<1>6. hex' \in Words
  <2>1. cmsg.words \in Words
    BY <1>4 DEF Messages
  <2> QED
    BY <1>4, <2>1 DEF Parse, Copy, Validate, Invalid, DieInReport, Pid, Value, Send,
       static
<1>7. mail' \in Sample
  <2>1. cmsg.pid \in Nat /\ hex_get_float(hex) \in Int
    BY <1>4, ValueType DEF Messages
  <2>2. \/ mail' = mail
        \/ mail' = [mail EXCEPT !.pid = AsChar(cmsg.pid)]
        \/ mail' = [mail EXCEPT !.value = hex_get_float(hex)]
    BY DEF Parse, Copy, Validate, Invalid, DieInReport, Pid, Value, Send, static
  <2> QED
    BY <1>4, <2>1, <2>2, CharType DEF Sample
<1>8. \/ /\ \E label \in Callback : Goto(b, label)
         /\ from' = from /\ UNCHANGED out
      \/ /\ Goto(b, "fgets") \/ Goto(b, "none")
         /\ from' = [from EXCEPT ![b] = 0]
         /\ Answers(b)
  <2>1. CASE Parse(b)
    BY <2>1 DEF Parse, Callback
  <2>2. CASE Copy(b)
    BY <2>2 DEF Copy, Callback
  <2>3. CASE Validate(b)
    BY <2>3 DEF Validate, Callback
  <2>4. CASE Invalid(b)
    BY <2>4 DEF Invalid, NextLine, Answers
  <2>5. CASE DieInReport(b)
    BY <2>5 DEF DieInReport, End, Answers
  <2>6. CASE Pid(b)
    <3>1. CASE cmsg.pid = 0
      BY <2>6, <3>1 DEF Pid, NextLine, Answers
    <3>2. CASE cmsg.pid # 0
      BY <2>6, <3>2 DEF Pid, Callback, out
    <3> QED
      BY <3>1, <3>2
  <2>7. CASE Value(b)
    BY <2>7 DEF Value, Callback
  <2>8. CASE Send(b)
    BY <1>4, <2>8 DEF Send, NextLine, Answers
  <2> QED
    BY <2>1, <2>2, <2>3, <2>4, <2>5, <2>6, <2>7, <2>8
<1>9. /\ pc' \in [Brokers -> Labels]
      /\ \A a \in Brokers : a # b => pc'[a] = pc[a]
      /\ pc'[b] \in Callback \/ pc'[b] \in {"fgets", "none"}
  BY <1>4, <1>8 DEF Goto, Labels
<1>10. /\ from' \in [Brokers -> 0 .. consumed]
       /\ \A a \in Brokers : a # b => from'[a] = from[a]
  BY <1>4, <1>8
<1>11. \/ /\ pc'[b] \in Callback /\ from' = from /\ UNCHANGED out
       \/ /\ pc'[b] \in {"fgets", "none"} /\ from'[b] = 0 /\ Answers(b)
  BY <1>4, <1>8 DEF Goto
<1> QED
  BY <1>1, <1>2, <1>3, <1>5, <1>6, <1>7, <1>9, <1>10, <1>11

(* The callback keeps the types and the places.                            *)
LEMMA CallbackTypes ==
  ASSUME Inv, overlapped' \in BOOLEAN, NEW b \in Brokers,
         \/ Parse(b) \/ Copy(b) \/ Validate(b) \/ Invalid(b) \/ DieInReport(b)
         \/ Pid(b) \/ Value(b) \/ Send(b)
  PROVE  Inv'
<1>1. UNCHANGED <<bus, child, fetched, consumed, kept, withheld, stream, holder, broken,
                  current, faults>>
  BY CallbackMoves DEF pipe, ends, file
<1>2. posted' \in Seq(Report)
  <2>1. from[b] \in Nat /\ posted \in Seq(Report)
    BY DEF Inv, TypeOK, Static
  <2>2. CASE posted' = posted
    BY <2>1, <2>2
  <2>3. CASE posted' # posted
    <3>1. PICK kind \in {"hash", "pid", "sample"}, sample \in {<<>>} \cup Sample :
            Post(b, kind, sample)
      BY <2>3, CallbackMoves DEF Answers, out
    <3> QED
      BY <2>1, <3>1, PostAdds DEF Inv
  <2> QED
    BY <2>2, <2>3
<1>3. cut' \subseteq 1 .. Len(bus')
  <2>1. cut' = cut \/ cut' = cut \cup {Line(from[b])}
    BY CallbackMoves DEF Answers, out
  <2>2. Line(from[b]) \in 1 .. Len(bus)
    BY CallbackMoves, HeardType DEF Inv
  <2> QED
    BY <1>1, <2>1, <2>2 DEF Inv, TypeOK
<1>4. holder' # NoBroker => holder' \in Brokers /\ pc'[holder'] = "reading"
  BY <1>1, CallbackMoves DEF Inv, TypeOK, Callback
<1>5. TypeOK'
  BY <1>1, <1>3, <1>4, CallbackMoves DEF Inv, TypeOK, Written, Labels
<1>6. Static'
  BY <1>1, <1>2, CallbackMoves DEF Inv, Static
<1>7. Placed'
  <2> SUFFICES ASSUME NEW a \in Brokers
               PROVE  /\ pc'[a] = "reading" => holder' = a
                      /\ pc'[a] = "reading" /\ from'[a] # 0
                           => from'[a] = consumed' /\ ~IsTail(consumed')
                      /\ pc'[a] \in Callback => from'[a] # 0 /\ 2 * Line(from'[a]) <= consumed'
                      /\ from'[a] # 0 => pc'[a] \in Callback \cup {"reading"}
    BY DEF Placed
  <2>1. CASE a = b
    BY <1>1, <2>1, CallbackMoves DEF Inv, Placed, Callback
  <2>2. CASE a # b
    BY <1>1, <2>2, CallbackMoves DEF Inv, Placed
  <2> QED
    BY <2>1, <2>2
<1> QED
  BY <1>5, <1>6, <1>7 DEF Inv

(* The types and the places hold at the start, and each step keeps them.   *)
LEMMA InitTypes == Init => Inv
<1> SUFFICES ASSUME Init PROVE Inv
  OBVIOUS
<1>1. TypeOK
  <2>1. bus = <<>> /\ Len(bus) = 0 /\ bus \in Seq(Traffic)
    BY DEF Init
  <2>2. /\ pc \in [Brokers -> Labels]
        /\ from \in [Brokers -> 0 .. consumed]
    BY DEF Init, Labels
  <2>3. cut \subseteq 1 .. Len(bus) /\ cancelled \subseteq Brokers
    BY DEF Init
  <2>4. consumed \in 0 .. fetched /\ fetched <= Written /\ faults \in 0 .. MaxFaults
    BY <2>1, BoundsAssumption DEF Init, Written
  <2> QED
    BY <2>1, <2>2, <2>3, <2>4 DEF Init, TypeOK, Labels
<1>2. Static
  BY MessageType DEF Init, Static, Blank, Words, Messages, Sample
<1>3. Placed
  BY DEF Init, Placed, Callback
<1> QED
  BY <1>1, <1>2, <1>3 DEF Inv

(* Each step keeps the types and the places.                               *)
LEMMA NextTypes == Inv /\ [Next]_vars => Inv'
<1> SUFFICES ASSUME Inv, [Next]_vars PROVE Inv'
  OBVIOUS
<1>1. CASE Next
  <2>1. overlapped' \in BOOLEAN
    BY <1>1, Zenon DEF Next, Seen, Overlap, Inv, TypeOK
  <2>2. \/ \E b \in Brokers : BrokerStep(b)
        \/ WriteLine \/ ChildEnds \/ KeeperEnds \/ RestartReturned \/ RestartLive
    BY <1>1 DEF Next, Seen
  <2> QED
    BY <2>1, <2>2, StreamTypes, TakeTypes, PipeTypes, GuardTypes,
       CallbackTypes DEF BrokerStep, StreamStep, OpenStep
<1>2. CASE UNCHANGED vars
  <2>1. UNCHANGED <<bus, child, stream, holder, fetched, consumed, kept, withheld,
                    pc, from, current, cancelled, cmsg, hex, mail, faults, posted, cut, overlapped, broken>>
    BY <1>2 DEF vars, pipe, ends, file, broker, guard, static, out
  <2> QED
    BY <2>1 DEF Inv, TypeOK, Static, Placed, Written
<1> QED
  BY <1>1, <1>2

(* The types, with the stream held by at most one broker.                  *)
THEOREM TypeCorrect == Spec => []TypeOK
<1>1. Inv => TypeOK
  BY DEF Inv
<1> QED
  BY <1>1, InitTypes, NextTypes, PTL DEF Spec

-----------------------------------------------------------------------------
(* Every line once.                                                        *)

(* What is posted or cut has a line.                                       *)
LEMMA ReportTypes ==
  ASSUME Inv
  PROVE  /\ Len(posted) \in Nat /\ consumed \in Nat
         /\ \A n \in Reports : posted[n] \in Report /\ posted[n].line \in Nat
         /\ cut \subseteq Nat
<1>1. posted \in Seq(Report) /\ Len(bus) \in Nat /\ cut \subseteq 1 .. Len(bus) /\ consumed \in Nat
  BY DEF Inv, TypeOK, Static
<1>2. Len(posted) \in Nat /\ \A n \in Reports : posted[n] \in Report
  BY <1>1 DEF Reports
<1>3. \A r \in Report : r.line \in Nat
  BY DEF Report
<1> QED
  BY <1>1, <1>2, <1>3

(* A broker in the callback has a line whose tail is read.                 *)
LEMMA BusyTypes ==
  ASSUME Inv, NEW b \in Busy
  PROVE  At(b) \in Nat \ {0} /\ 2 * At(b) <= consumed /\ from[b] \in Nat
BY HeardType DEF Inv, Placed, Busy, At

(* Nothing happens to the lines if no piece is taken that completes one,   *)
(* and the callback goes on with what it has.                              *)
LEMMA SameLines ==
  ASSUME Inv, OnePlace, SomePlace, posted' = posted, cut' = cut,
         \A l \in Nat : 2 * l <= consumed' <=> 2 * l <= consumed,
         \A b \in Brokers : /\ pc'[b] \in Callback <=> pc[b] \in Callback
                            /\ pc[b] \in Callback => from'[b] = from[b]
  PROVE  OnePlace' /\ SomePlace'
<1>1. Busy' = Busy /\ \A b \in Busy : At(b)' = At(b)
  BY DEF Busy, At
<1>2. /\ \A n \in Reports : 2 * posted[n].line <= consumed'
      /\ \A l \in cut : 2 * l <= consumed'
  BY ReportTypes DEF OnePlace
<1>3. OnePlace'
  BY <1>1, <1>2 DEF OnePlace, Reports
<1>4. SomePlace'
  BY <1>1 DEF SomePlace, Reports
<1> QED
  BY <1>3, <1>4

(* A line that is completed is handled by the broker that reads it.        *)
LEMMA TakeLines ==
  ASSUME Inv, OnePlace, SomePlace, NEW b \in Brokers, TakePiece(b)
  PROVE  OnePlace' /\ SomePlace'
<1>1. posted' = posted /\ cut' = cut /\ Reports' = Reports
  BY DEF TakePiece, out, Reports
<1>2. /\ consumed \in Nat /\ consumed' = consumed + 1 /\ consumed' \in Nat
      /\ pc[b] = "reading"
      /\ \A a \in Brokers : a # b => from'[a] = from[a] /\ pc'[a] = pc[a]
  BY PieceTaken
<1>3. /\ Line(consumed') \in Nat
      /\ \A l \in Nat : 2 * l <= consumed'
                          <=> 2 * l <= consumed \/ (IsTail(consumed') /\ l = Line(consumed'))
  BY <1>2, NextPiece, LineParts
<1>4. CASE ~IsTail(consumed')
  <2>1. pc'[b] = "reading"
    BY <1>4, PieceTaken
  <2>2. \A a \in Brokers : /\ pc'[a] \in Callback <=> pc[a] \in Callback
                           /\ pc[a] \in Callback => from'[a] = from[a]
    BY <1>2, <2>1 DEF Callback
  <2> QED
    BY <1>1, <1>3, <1>4, <2>2, SameLines
<1>5. CASE IsTail(consumed')
  <2> DEFINE new == Line(consumed')
  <2>1. /\ pc'[b] = "parse" /\ Line(from'[b]) = new
        /\ 2 * new = consumed + 1 /\ new \in Nat
    BY <1>2, <1>3, <1>5, PieceTaken, LineParts
  <2>2. Busy' = Busy \cup {b} /\ b \notin Busy
    BY <1>2, <2>1 DEF Busy, Callback
  <2>3. At(b)' = new /\ \A a \in Busy : At(a)' = At(a)
    BY <1>2, <2>1, <2>2 DEF At, Busy
  <2>4. /\ \A n \in Reports : posted[n].line # new /\ 2 * posted[n].line <= consumed'
        /\ \A l \in cut : l # new /\ 2 * l <= consumed'
        /\ \A a \in Busy : At(a) # new
    BY <1>2, <2>1, ReportTypes, BusyTypes DEF OnePlace
  <2>5. \A l \in Nat : 2 * l <= consumed' => 2 * l <= consumed \/ l = new
    BY <1>3
  <2>6. new # 0
    BY <1>2, <2>1
  <2> HIDE DEF new
  <2>7. OnePlace'
    BY <1>1, <2>2, <2>3, <2>4, <2>6 DEF OnePlace
  <2>8. SomePlace'
    BY <1>1, <2>2, <2>3, <2>5 DEF SomePlace
  <2> QED
    BY <2>7, <2>8
<1> QED
  BY <1>4, <1>5

(* A line that the callback is done with is reported, or cut.              *)
LEMMA AnswerLines ==
  ASSUME Inv, OnePlace, SomePlace, NEW b \in Busy,
         pc'[b] \notin Callback, consumed' = consumed,
         \A a \in Brokers : a # b => pc'[a] = pc[a] /\ from'[a] = from[a],
         Answers(b)
  PROVE  OnePlace' /\ SomePlace'
<1>1. /\ At(b) \in Nat \ {0} /\ 2 * At(b) <= consumed /\ from[b] \in Nat
      /\ Len(posted) \in Nat /\ b \in Brokers
  BY ReportTypes, BusyTypes DEF Busy
<1>2. Busy' = Busy \ {b} /\ \A a \in Busy : a # b => At(a)' = At(a) /\ At(a) # At(b)
  BY DEF Busy, At, OnePlace
<1>3. CASE cut' = cut \cup {At(b)} /\ posted' = posted
  <2>1. Reports' = Reports
    BY <1>3 DEF Reports
  <2>2. OnePlace'
    BY <1>1, <1>2, <1>3, <2>1 DEF OnePlace
  <2>3. SomePlace'
    BY <1>2, <1>3, <2>1 DEF SomePlace
  <2> QED
    BY <2>2, <2>3
<1>4. CASE \E kind \in {"hash", "pid", "sample"}, sample \in {<<>>} \cup Sample :
             Post(b, kind, sample) /\ cut' = cut
  <2> DEFINE last == Len(posted) + 1
  <2>0. PICK kind \in {"hash", "pid", "sample"}, sample \in {<<>>} \cup Sample :
          Post(b, kind, sample) /\ cut' = cut
    BY <1>4
  <2>1. /\ cut' = cut /\ Len(posted') = last
        /\ \A n \in Reports : posted'[n] = posted[n]
        /\ posted'[last] = [kind |-> kind, sample |-> sample,
                            line |-> Line(from[b]), torn |-> IsTail(from[b])]
    BY <1>1, <2>0, PostAdds DEF Inv
  <2>2. posted'[last].line = At(b)
    BY <2>1 DEF At
  <2>3. Reports' = Reports \cup {last} /\ last \notin Reports
    BY <1>1, <2>1 DEF Reports
  <2> HIDE DEF last
  <2>4. OnePlace'
    <3>1. ASSUME NEW n \in Reports'
          PROVE  /\ posted'[n].line # 0 /\ 2 * posted'[n].line <= consumed'
                 /\ posted'[n].line \notin cut'
                 /\ \A m \in Reports' : posted'[m].line = posted'[n].line => m = n
      <4>1. CASE n \in Reports
        <5>1. posted'[n] = posted[n] /\ posted[n].line # At(b)
          BY <2>1, <4>1 DEF OnePlace
        <5>2. \A m \in Reports : posted'[m] = posted[m]
          BY <2>1
        <5> QED
          BY <2>1, <2>2, <2>3, <4>1, <5>1, <5>2 DEF OnePlace
      <4>2. CASE n = last
        BY <1>1, <2>1, <2>2, <2>3, <4>2 DEF OnePlace
      <4> QED
        BY <2>3, <4>1, <4>2
    <3>2. \A a \in Busy' : At(a)' \notin cut' /\ \A n \in Reports' : posted'[n].line # At(a)'
      BY <1>2, <2>1, <2>2, <2>3 DEF OnePlace
    <3>3. /\ \A line \in cut' : 2 * line <= consumed'
          /\ \A a \in Busy' : \A c \in Busy' : At(c)' = At(a)' => c = a
      BY <1>2, <2>1 DEF OnePlace
    <3> QED
      BY <3>1, <3>2, <3>3 DEF OnePlace
  <2>5. SomePlace'
    BY <1>2, <2>1, <2>2, <2>3 DEF SomePlace
  <2> QED
    BY <2>4, <2>5
<1> QED
  BY <1>3, <1>4 DEF Answers, At

(* No step loses a line or doubles one.                                    *)
LEMMA NextLines ==
  ASSUME Inv, OnePlace, SomePlace, [Next]_vars
  PROVE  OnePlace' /\ SomePlace'
<1>1. CASE UNCHANGED vars
  <2>1. UNCHANGED <<consumed, pc, from, posted, cut>>
    BY <1>1 DEF vars, pipe, ends, broker, out
  <2> QED
    BY <2>1, SameLines
<1>2. ASSUME NEW b \in Brokers,
             StreamStep(b)
      PROVE  OnePlace' /\ SomePlace'
  <2>1. UNCHANGED <<consumed, posted, cut>>
    BY <1>2 DEF StreamStep, OpenStep, Start, OpenPipe, Fork, CloseEnd, DieInClose,
       Fdopen, FdopenFails, GiveUp, CallFgets, DieInRead,
       EndOfFile, Close, Clear, End, pipe, out
  <2>2. /\ pc[b] \notin Callback
        /\ \/ UNCHANGED <<pc, from>>
           \/ /\ \E label \in Labels \ Callback : Goto(b, label)
              /\ from' = from \/ from' = [from EXCEPT ![b] = 0]
    BY <1>2 DEF StreamStep, OpenStep, Start, OpenPipe, Fork, CloseEnd, DieInClose,
       Fdopen, FdopenFails, GiveUp, CallFgets, DieInRead,
       EndOfFile, Close, Clear, End,
       Labels, Opening, Callback
  <2>3. \A a \in Brokers : /\ pc'[a] \in Callback <=> pc[a] \in Callback
                           /\ pc[a] \in Callback => from'[a] = from[a]
    BY <2>2 DEF Goto, Inv, TypeOK
  <2> QED
    BY <2>1, <2>3, SameLines
<1>3. ASSUME WriteLine \/ ChildEnds \/ KeeperEnds \/ \E b \in Brokers : Read(b)
      PROVE  OnePlace' /\ SomePlace'
  <2>1. UNCHANGED <<consumed, pc, from, posted, cut>>
    BY <1>3 DEF WriteLine, ChildEnds, KeeperEnds, Read, broker, out
  <2> QED
    BY <2>1, SameLines
<1>4. ASSUME RestartReturned \/ RestartLive
      PROVE  OnePlace' /\ SomePlace'
  <2>1. PICK b \in Brokers : ~Alive(b) /\ Created(b)
    BY <1>4 DEF RestartReturned, RestartLive, Inv, TypeOK
  <2>2. UNCHANGED <<consumed, from, posted, cut>>
    BY <2>1 DEF Created, pipe, out
  <2>3. \A a \in Brokers : pc'[a] \in Callback <=> pc[a] \in Callback
    BY <2>1 DEF Created, Goto, Alive, Callback, Inv, TypeOK
  <2> QED
    BY <2>2, <2>3, SameLines
<1>5. ASSUME NEW b \in Brokers,
             \/ Parse(b) \/ Copy(b) \/ Validate(b) \/ Invalid(b) \/ DieInReport(b)
             \/ Pid(b) \/ Value(b) \/ Send(b)
      PROVE  OnePlace' /\ SomePlace'
  <2>1. b \in Busy /\ consumed' = consumed
    BY <1>5, CallbackMoves DEF Busy, pipe
  <2>2. \A a \in Brokers : a # b => pc'[a] = pc[a] /\ from'[a] = from[a]
    BY <1>5, CallbackMoves
  <2>3. CASE pc'[b] \in Callback /\ from' = from /\ UNCHANGED out
    <3>1. \A a \in Brokers : pc'[a] \in Callback <=> pc[a] \in Callback
      BY <1>5, <2>2, <2>3, CallbackMoves
    <3> QED
      BY <2>1, <2>3, <3>1, SameLines DEF out
  <2>4. CASE pc'[b] \notin Callback /\ Answers(b)
    BY <2>1, <2>2, <2>4, AnswerLines
  <2> QED
    BY <1>5, <2>3, <2>4, CallbackMoves DEF Callback
<1>6. Next => \/ \E b \in Brokers : BrokerStep(b)
              \/ WriteLine \/ ChildEnds \/ KeeperEnds \/ RestartReturned \/ RestartLive
  BY DEF Next, Seen
<1> QED
  BY <1>1, <1>2, <1>3, <1>4, <1>5, <1>6, TakeLines DEF BrokerStep, StreamStep, OpenStep

(* The counts of EveryLineOnce are those of sets with one element or none. *)
LEMMA PlacesCount ==
  ASSUME Inv, OnePlace, SomePlace
  PROVE  EveryLineOnce
<1> SUFFICES ASSUME NEW line \in 1 .. Len(bus)
             PROVE  Cardinality({n \in 1 .. Len(posted) : posted[n].line = line})
                    + Cardinality({b \in Brokers : Handles(b, line)})
                    + Cardinality({line} \cap cut)
                    + (IF consumed < 2 * line THEN 1 ELSE 0) = 1
  BY DEF EveryLineOnce
<1> DEFINE R == {n \in Reports : posted[n].line = line}
           H == {b \in Busy : At(b) = line}
           K == {line} \cap cut
<1>1. /\ {n \in 1 .. Len(posted) : posted[n].line = line} = R
      /\ {b \in Brokers : Handles(b, line)} = H
  BY DEF Reports, Busy, At, Handles
<1>2. line \in Nat \ {0} /\ consumed \in Nat
  BY ReportTypes DEF Inv, TypeOK
<1>0. SUFFICES Cardinality(R) + Cardinality(H) + Cardinality(K)
               + (IF consumed < 2 * line THEN 1 ELSE 0) = 1
  BY <1>1
<1>3. Cardinality({}) = 0 /\ \A x : Cardinality({x}) = 1
  BY FS_EmptySet, FS_Singleton
<1>4. CASE consumed < 2 * line
  <2>1. R = {} /\ H = {} /\ K = {}
    BY <1>2, <1>4, ReportTypes, BusyTypes DEF OnePlace
  <2> HIDE DEF R, H, K
  <2> QED
    BY <1>3, <1>4, <2>1
<1>5. CASE ~(consumed < 2 * line)
  <2>1. 2 * line <= consumed
    BY <1>2, <1>5
  <2>2. CASE line \in cut
    <3>1. R = {} /\ H = {} /\ K = {line}
      BY <2>2 DEF OnePlace
    <3>3. Cardinality(K) = 1 /\ Cardinality({}) = 0
      BY <3>1, FS_Singleton, FS_EmptySet
    <3> HIDE DEF R, H, K
    <3> QED
      BY <1>5, <3>1, <3>3
  <2>3. CASE \E b \in Busy : At(b) = line
    <3>1. PICK b \in Busy : At(b) = line
      BY <2>3
    <3>2. R = {} /\ H = {b} /\ K = {}
      BY <3>1 DEF OnePlace
    <3>3. Cardinality(H) = 1 /\ Cardinality({}) = 0
      BY <3>2, FS_Singleton, FS_EmptySet
    <3> HIDE DEF R, H, K
    <3> QED
      BY <1>5, <3>2, <3>3
  <2>4. CASE \E n \in Reports : posted[n].line = line
    <3>1. PICK n \in Reports : posted[n].line = line
      BY <2>4
    <3>2. R = {n} /\ H = {} /\ K = {}
      BY <3>1 DEF OnePlace
    <3>3. Cardinality(R) = 1 /\ Cardinality({}) = 0
      BY <3>2, FS_Singleton, FS_EmptySet
    <3> HIDE DEF R, H, K
    <3> QED
      BY <1>5, <3>2, <3>3
  <2> QED
    BY <1>2, <2>1, <2>2, <2>3, <2>4 DEF SomePlace
<1> QED
  BY <1>4, <1>5

(* Every line of the bus is in one place: unread, with one broker,         *)
(* reported once or cut, for any number of brokers and restarts, and       *)
(* however many of them overlap (broker.cpp, can.c).                       *)
THEOREM EveryLine == Spec => []EveryLineOnce
<1>1. Init => OnePlace /\ SomePlace
  <2> SUFFICES ASSUME Init PROVE OnePlace /\ SomePlace
    OBVIOUS
  <2>1. Reports = {} /\ cut = {} /\ Busy = {} /\ consumed = 0
    BY DEF Init, Reports, Busy, Callback
  <2> QED
    BY <2>1 DEF OnePlace, SomePlace
<1>2. Inv /\ OnePlace /\ SomePlace /\ [Next]_vars => OnePlace' /\ SomePlace'
  BY NextLines
<1>3. Inv /\ OnePlace /\ SomePlace => EveryLineOnce
  BY PlacesCount
<1> QED
  BY <1>1, <1>2, <1>3, InitTypes, NextTypes, PTL DEF Spec

-----------------------------------------------------------------------------
(* What is reported is right.                                              *)

(* The stream, step by step: no broker comes to its ends beside another.   *)
LEMMA StreamKept ==
  ASSUME Inv, Streams, ~Overlap, ~Overlap',
         \/ \E b \in Brokers : BrokerStep(b)
         \/ WriteLine \/ ChildEnds \/ KeeperEnds \/ RestartReturned \/ RestartLive
  PROVE  Streams'
<1>1. /\ pc \in [Brokers -> Labels]
      /\ stream \in {"null", "open", "closed"}
      /\ broken = FALSE /\ withheld = FALSE /\ kept = {}
  BY DEF Inv, TypeOK, Streams, Labels
<1>2. ASSUME NEW a \in Brokers, NEW b \in Brokers, a # b, pc[a] \in Opening \cup {"eof", "clear"}
      PROVE  pc[b] = "none"
  <2>1. Alive(a)
    BY <1>2 DEF Alive, Opening
  <2> QED
    BY <1>2, <2>1, Zenon DEF Overlap, Alive
<1>3. ASSUME NEW b \in Brokers,
             pc[b] \notin Opening \cup {"none", "start", "clear"}
      PROVE  stream = "open"
  BY <1>1, <1>3 DEF Streams, Opening, ends
<1>4. ASSUME UNCHANGED <<stream, broken, kept, withheld, pc>>
      PROVE  Streams'
  BY <1>4 DEF Streams, Opening, ends
<1>5. ASSUME WriteLine \/ ChildEnds \/ KeeperEnds
      PROVE  Streams'
  BY <1>1, <1>4, <1>5 DEF WriteLine, ChildEnds, KeeperEnds, ends, file, broker
<1>6. ASSUME RestartReturned \/ RestartLive
      PROVE  Streams'
  <2>1. PICK b \in Brokers : ~Alive(b) /\ Created(b)
    BY <1>6 DEF RestartReturned, RestartLive, Inv, TypeOK
  <2>2. /\ UNCHANGED <<stream, broken, kept, withheld>>
        /\ pc[b] = "none" /\ pc' = [pc EXCEPT ![b] = "start"]
    BY <2>1 DEF Created, Alive, Goto, pipe, ends, file
  <2>3. stream # "closed"
    <3> SUFFICES ASSUME stream = "closed" PROVE FALSE
      OBVIOUS
    <3>1. PICK a \in Brokers : pc[a] = "clear"
      BY DEF Streams, Opening, ends
    <3>2. a # b /\ pc'[a] = "clear" /\ pc'[b] = "start"
      BY <1>1, <2>2, <3>1
    <3> QED
      BY <3>2 DEF Overlap, Alive
  <2> QED
    BY <1>1, <2>2, <2>3 DEF Streams, Opening, ends
<1>7. ASSUME NEW b \in Brokers,
             \/ Parse(b) \/ Copy(b) \/ Validate(b) \/ Invalid(b) \/ DieInReport(b)
             \/ Pid(b) \/ Value(b) \/ Send(b)
      PROVE  Streams'
  <2>1. /\ UNCHANGED <<stream, broken, kept, withheld>> /\ pc[b] \in Callback
        /\ \A a \in Brokers : a # b => pc'[a] = pc[a]
        /\ pc'[b] \in Callback \cup {"fgets", "none"}
    BY <1>7, CallbackMoves DEF pipe, ends, file
  <2>2. stream = "open"
    BY <1>3, <2>1 DEF Opening, Callback
  <2> QED
    BY <1>1, <2>1, <2>2 DEF Streams, Opening, ends, Callback
<1>8. ASSUME NEW b \in Brokers, TakePiece(b)
      PROVE  Streams'
  <2>1. /\ UNCHANGED <<stream, broken, kept, withheld>> /\ pc[b] = "reading"
        /\ \A a \in Brokers : a # b => pc'[a] = pc[a]
        /\ pc'[b] \in {"reading", "parse"}
    BY <1>8, PieceTaken DEF TakePiece, ends
  <2>2. stream = "open"
    BY <1>3, <2>1 DEF Opening
  <2> QED
    BY <1>1, <2>1, <2>2 DEF Streams, Opening, ends
<1>9. ASSUME NEW b \in Brokers, Read(b)
      PROVE  Streams'
  BY <1>4, <1>9 DEF Read, ends, file, broker
<1>10. ASSUME NEW b \in Brokers, Start(b)
       PROVE  Streams'
  <2>1. /\ UNCHANGED <<stream, broken, kept, withheld>> /\ pc[b] = "start"
        /\ pc' = [pc EXCEPT ![b] = IF stream = "null" THEN "open" ELSE "fgets"]
    BY <1>10 DEF Start, Goto, pipe, ends, file
  <2>2. stream # "closed"
    BY <2>1 DEF Streams, Opening, ends
  <2> QED
    BY <1>1, <2>1, <2>2 DEF Streams, Opening, ends
<1>11. ASSUME NEW b \in Brokers,
              \/ OpenPipe(b) \/ Fork(b) \/ CloseEnd(b)
              \/ DieInClose(b) \/ Fdopen(b) \/ FdopenFails(b)
       PROVE  Streams'
  <2>1. pc[b] \in Opening
    BY <1>11 DEF OpenPipe, Fork, CloseEnd, DieInClose, Fdopen, FdopenFails, Opening
  <2>2. stream = "null" /\ \A a \in Brokers : a # b => pc[a] = "none"
    BY <1>1, <1>2, <2>1 DEF Streams, Opening, ends
  <2>3. kept' = {} /\ withheld' = FALSE /\ broken' = FALSE
    <3>1. {a \in Brokers \ {b} : pc[a] \in {"fork", "close"}} = {}
      BY <2>2
    <3> QED
      <4>1. CASE Fork(b)
        BY <1>1, <3>1, <4>1 DEF Fork
      <4>2. CASE ~Fork(b)
        <5>1. kept' = kept \/ kept' = kept \ {b}
          BY <1>11, <4>2 DEF OpenPipe, CloseEnd, DieInClose, Fdopen, FdopenFails,
             GiveUp, pipe, ends
        <5>2. withheld' = withheld \/ withheld' = (b \in kept)
          BY <1>11, <4>2 DEF OpenPipe, CloseEnd, DieInClose, Fdopen, FdopenFails,
             GiveUp, pipe, ends
        <5>3. broken' = broken \/ broken' = (stream # "null")
          BY <1>11, <4>2 DEF OpenPipe, CloseEnd, DieInClose, Fdopen, FdopenFails
        <5>4. (b \in kept) = FALSE
          BY <1>1
        <5>5. (stream # "null") = FALSE
          BY <2>2
        <5>6. kept' = {}
          BY <1>1, <5>1
        <5>7. withheld' = FALSE
          BY <1>1, <5>2, <5>4, Zenon
        <5>8. broken' = FALSE
          BY <1>1, <5>3, <5>5, Zenon
        <5> QED
          BY <5>6, <5>7, <5>8
      <4> QED
        BY <4>1, <4>2
  <2>4. \/ /\ stream' = "null"
           /\ \E label \in Opening \cup {"none"} : pc' = [pc EXCEPT ![b] = label]
        \/ stream' = "open" /\ pc' = [pc EXCEPT ![b] = "fgets"]
    BY <1>11, <2>2 DEF OpenPipe, Fork, CloseEnd, DieInClose, Fdopen, FdopenFails,
       GiveUp, Goto, Opening, file
  <2>5. CASE /\ stream' = "null"
             /\ \E label \in Opening \cup {"none"} : pc' = [pc EXCEPT ![b] = label]
    BY <1>1, <2>2, <2>3, <2>5 DEF Streams, Opening, ends
  <2>6. CASE stream' = "open" /\ pc' = [pc EXCEPT ![b] = "fgets"]
    BY <1>1, <2>2, <2>3, <2>6 DEF Streams, Opening, ends
  <2> QED
    BY <2>4, <2>5, <2>6
<1>12. ASSUME NEW b \in Brokers, CallFgets(b) \/ DieInRead(b) \/ EndOfFile(b)
       PROVE  Streams'
  <2>1. pc[b] \in {"fgets", "reading"}
    BY <1>12 DEF CallFgets, DieInRead, EndOfFile
  <2>2. stream = "open"
    BY <1>3, <2>1 DEF Opening
  <2>3. /\ UNCHANGED <<stream, broken, kept, withheld>>
        /\ \E label \in {"reading", "none", "eof"} : pc' = [pc EXCEPT ![b] = label]
    BY <1>12, <2>2 DEF CallFgets, DieInRead, EndOfFile, End, Goto, pipe, ends
  <2> QED
    BY <1>1, <2>2, <2>3 DEF Streams, Opening, ends
<1>13. ASSUME NEW b \in Brokers, Close(b) \/ Clear(b)
       PROVE  Streams'
  <2>1. /\ pc[b] \in {"eof", "clear"}
        /\ \A a \in Brokers : a # b => pc[a] = "none"
    BY <1>2, <1>13 DEF Close, Clear
  <2>2. CASE Close(b)
    <3>1. stream = "open"
      BY <1>3, <2>2 DEF Close, Opening
    <3>2. UNCHANGED ends /\ stream' = "closed" /\ broken' = FALSE /\ pc' = [pc EXCEPT ![b] = "clear"]
      BY <2>2, <3>1 DEF Close, Goto, pipe, ends
    <3> QED
      BY <1>1, <2>1, <3>2 DEF Streams, Opening, ends
  <2>3. CASE Clear(b)
    <3>1. UNCHANGED ends /\ stream' = "null" /\ broken' = FALSE /\ pc' = [pc EXCEPT ![b] = "none"]
      BY <1>1, <2>3 DEF Clear, End, Goto, pipe, ends
    <3> QED
      BY <1>1, <2>1, <3>1 DEF Streams, Opening, ends
  <2> QED
    BY <1>13, <2>2, <2>3
<1> QED
  BY <1>5, <1>6, <1>7, <1>8, <1>9, <1>10, <1>11, <1>12, <1>13 DEF BrokerStep

(* The lines reported and handled are on the bus, where they stay.         *)
LEMMA LinesOnBus ==
  ASSUME Inv, OnePlace
  PROVE  /\ \A n \in Reports : posted[n].line \in 1 .. Len(bus)
         /\ \A b \in Busy : At(b) \in 1 .. Len(bus)
<1>1. consumed <= 2 * Len(bus) /\ Len(bus) \in Nat /\ consumed \in Nat
  BY DEF Inv, TypeOK, Static, Written
<1>2. ASSUME NEW n \in Reports PROVE posted[n].line \in 1 .. Len(bus)
  <2>1. posted[n].line \in Nat \ {0} /\ 2 * posted[n].line <= consumed
    BY ReportTypes DEF OnePlace
  <2> QED
    BY <1>1, <2>1
<1>3. \A b \in Busy : At(b) \in 1 .. Len(bus)
  BY HeardType DEF Inv, Busy, At
<1> QED
  BY <1>2, <1>3

(* candump adds to the bus and changes nothing of it.                      *)
LEMMA BusKept ==
  ASSUME Inv, [Next]_vars
  PROVE  \A line \in 1 .. Len(bus) : bus'[line] = bus[line]
<1>1. bus \in Seq(Traffic)
  BY DEF Inv, TypeOK
<1>2. bus' = bus \/ \E f \in Traffic : bus' = Append(bus, f)
  BY DEF Next, Seen, BrokerStep, StreamStep, OpenStep, Start, OpenPipe, Fork, CloseEnd, DieInClose,
       Fdopen, FdopenFails, GiveUp, CallFgets, DieInRead,
       EndOfFile, Close, Clear, TakePiece, Read, Parse, Copy, Validate, Invalid, DieInReport, Pid, Value, Send,
     WriteLine, ChildEnds, KeeperEnds, RestartReturned, RestartLive, Created, pipe, vars
<1> QED
  BY <1>1, <1>2

(* Nothing becomes wrong as long as the callback and its buffers rest.     *)
LEMMA SameFlow ==
  ASSUME Inv, OnePlace, Flow, Sound, UNCHANGED <<static, posted>>,
         Busy' = Busy, \A b \in Busy : pc'[b] = pc[b] /\ from'[b] = from[b],
         \A line \in 1 .. Len(bus) : bus'[line] = bus[line]
  PROVE  Flow' /\ Sound'
<1>1. \A b \in Busy : At(b)' = At(b) /\ Torn(b)' = Torn(b) /\ Heard(b)' = Heard(b)
  BY LinesOnBus DEF At, Torn, Heard
<1>2. \A n \in Reports : Right(posted[n])' <=> Right(posted[n])
  BY LinesOnBus DEF Right, Due
<1>3. Flow'
  BY <1>1 DEF Flow, Reports, static
<1>4. Sound'
  BY <1>2 DEF Sound, Reports
<1> QED
  BY <1>3, <1>4

(* A broker that comes to the callback has a line after all reported.      *)
LEMMA TakeFlow ==
  ASSUME Inv, OnePlace, Flow, Sound, NEW b \in Brokers, TakePiece(b)
  PROVE  Flow' /\ Sound'
<1>1. UNCHANGED <<bus, static, posted>> /\ Reports' = Reports
  BY DEF TakePiece, out, Reports
<1>2. /\ consumed \in Nat /\ consumed' = consumed + 1 /\ pc[b] = "reading"
      /\ \A a \in Brokers : a # b => from'[a] = from[a] /\ pc'[a] = pc[a]
  BY PieceTaken
<1>3. b \notin Busy /\ \A a \in Busy : pc'[a] = pc[a] /\ from'[a] = from[a]
  BY <1>2 DEF Busy, Callback
<1>4. CASE pc'[b] = "reading"
  <2>1. Busy' = Busy
    BY <1>2, <1>4 DEF Busy
  <2> QED
    BY <1>1, <1>3, <2>1, SameFlow
<1>5. CASE pc'[b] = "parse"
  <2>1. Busy' = Busy \cup {b}
    BY <1>2, <1>5 DEF Busy, Callback
  <2>2. from'[b] \in Nat /\ 2 * At(b)' = consumed' /\ At(b)' \in Nat
    <3>1. from'[b] \in {consumed, consumed'} /\ 2 * Line(from'[b]) = consumed'
      BY <1>5, PieceTaken
    <3> QED
      BY <1>2, <3>1, LineParts DEF At
  <2>3. \A n \in Reports : posted[n].line < At(b)'
    BY <1>2, <2>2, ReportTypes DEF OnePlace
  <2>4. \A a \in Busy : At(a)' = At(a) /\ Torn(a)' = Torn(a) /\ Heard(a)' = Heard(a)
    BY <1>1, <1>3 DEF At, Torn, Heard
  <2>5. Flow'
    BY <1>1, <1>3, <1>5, <2>1, <2>3, <2>4 DEF Flow, static
  <2>6. Sound'
    BY <1>1 DEF Sound, Right, Due
  <2> QED
    BY <2>5, <2>6
<1> QED
  BY <1>4, <1>5, PieceTaken

(* The hash of a line that is read is right only if the line is valid; a   *)
(* tail has none.                                                          *)
LEMMA HashIsRight ==
  ASSUME NEW f \in Frame
  PROVE  /\ Message(f).hash = <<Message(f).pid, Message(f).words>> <=> f.valid
         /\ Blank.hash # <<Blank.pid, Blank.words>>
<1> DEFINE words == to_hex_string(f.number)
<1>1. <<>> # <<f.pid, words>> /\ <<>> # <<0, <<0, 0>>>>
  <2>1. Len(<<>>) = 0 /\ Len(<<f.pid, words>>) = 2 /\ Len(<<0, <<0, 0>>>>) = 2
    OBVIOUS
  <2> QED
    BY <2>1
<1>2. /\ Message(f).pid = f.pid /\ Message(f).words = words
      /\ Message(f).hash = IF f.valid THEN <<f.pid, words>> ELSE <<>>
  BY DEF Message
<1>3. f.valid \in BOOLEAN
  BY DEF Frame
<1> HIDE DEF words
<1>4. Message(f).hash = <<Message(f).pid, Message(f).words>> <=> f.valid
  BY <1>1, <1>2, <1>3
<1> QED
  BY <1>1, <1>4 DEF Blank

(* The report of the line in the callback is right, and in order.          *)
LEMMA PostFlow ==
  ASSUME Inv, OnePlace, Flow, Sound, NEW b \in Busy, bus' = bus,
         NEW kind \in {"hash", "pid", "sample"}, NEW sample \in {<<>>} \cup Sample,
         Post(b, kind, sample),
         Right([kind |-> kind, sample |-> sample,
                line |-> Line(from[b]), torn |-> IsTail(from[b])])
  PROVE  Sound'
<1> DEFINE last == Len(posted) + 1
           r == [kind |-> kind, sample |-> sample,
                 line |-> Line(from[b]), torn |-> IsTail(from[b])]
<1>1. /\ Len(posted) \in Nat /\ Len(posted') = last
      /\ \A n \in Reports : posted'[n] = posted[n]
      /\ posted'[last] = r
  BY ReportTypes, BusyTypes, PostAdds DEF Inv, Busy
<1>2. /\ Reports' = Reports \cup {last} /\ last > 0
      /\ \A n \in Reports : n > 1 => n - 1 \in Reports
      /\ last > 1 => last - 1 \in Reports
  BY <1>1 DEF Reports
<1>3. r.line = At(b)
  BY DEF At
<1>4. Right(r)
  OBVIOUS
<1> HIDE DEF last, r
<1>5. ASSUME NEW n \in Reports'
      PROVE  Right(posted[n])' /\ (n > 1 => posted'[n - 1].line < posted'[n].line)
  <2>1. CASE n \in Reports
    <3>1. Right(posted[n]) /\ (n > 1 => posted[n - 1].line < posted[n].line)
      BY <2>1 DEF Sound
    <3> QED
      BY <1>1, <1>2, <2>1, <3>1 DEF Right, Due
  <2>2. CASE n = last
    <3>1. n > 1 => posted[n - 1].line < At(b) /\ posted'[n - 1] = posted[n - 1]
      BY <1>1, <1>2, <2>2 DEF Flow
    <3> QED
      BY <1>1, <1>3, <1>4, <2>2, <3>1 DEF Right, Due
  <2> QED
    BY <1>2, <2>1, <2>2
<1> QED
  BY <1>5 DEF Sound

(* The callback, step by step: nobody else writes its buffers.             *)
LEMMA CallbackFlow ==
  ASSUME Inv, OnePlace, Flow, Sound, ~Overlap, NEW b \in Brokers,
         \/ Parse(b) \/ Copy(b) \/ Validate(b) \/ Invalid(b) \/ DieInReport(b)
         \/ Pid(b) \/ Value(b) \/ Send(b)
  PROVE  Flow' /\ Sound'
<1> DEFINE f == Heard(b)
           said == IF Torn(b) THEN Blank ELSE Message(f)
<1>1. /\ b \in Busy /\ pc[b] \in Callback /\ bus' = bus
      /\ \A a \in Brokers : a # b => pc'[a] = pc[a]
      /\ pc \in [Brokers -> Labels]
  BY CallbackMoves DEF Busy, pipe, Inv, TypeOK, Labels
<1>2. Busy' = IF pc'[b] \in Callback THEN {b} ELSE {}
  <2>1. \A a \in Brokers : a # b => pc[a] \notin Callback
    BY <1>1 DEF Overlap, Alive, Callback
  <2> QED
    BY <1>1, <2>1 DEF Busy
<1>3. /\ \A n \in Reports : posted[n].line < At(b)
      /\ pc[b] # "parse" => cmsg = said
      /\ pc[b] \notin {"parse", "copy"} => hex = cmsg.words
      /\ pc[b] = "invalid" => Torn(b) \/ ~f.valid
      /\ pc[b] \in {"pid", "value", "send"} => ~Torn(b) /\ f.valid
      /\ pc[b] \in {"value", "send"} => f.pid # 0 /\ mail.pid = AsChar(f.pid)
      /\ pc[b] = "send" => mail.value = hex_get_float(hex)
  BY <1>1 DEF Flow
<1>4. f \in Frame /\ mail \in Sample
  BY <1>1, HeardType DEF Inv, Static
<1>5. Message(f).pid = f.pid /\ Message(f).words = to_hex_string(f.number)
  BY DEF Message
<1>6. f = bus[Line(from[b])] /\ Torn(b) = IsTail(from[b]) /\ At(b) = Line(from[b])
  BY DEF Heard, Torn, At
<1>7. ASSUME from' = from PROVE At(b)' = At(b) /\ Torn(b)' = Torn(b) /\ Heard(b)' = f
  BY <1>1, <1>7 DEF At, Torn, Heard
<1>8. ASSUME posted' = posted PROVE Reports' = Reports /\ Sound'
  BY <1>1, <1>8 DEF Sound, Right, Due, Reports
<1>9. ASSUME pc'[b] \notin Callback PROVE Flow'
  BY <1>2, <1>9 DEF Flow
<1> HIDE DEF f
<1>10. CASE Parse(b)
  <2>1. /\ cmsg' = said /\ pc'[b] = "copy" /\ from' = from /\ posted' = posted
    BY <1>1, <1>6, <1>10 DEF Parse, Goto, out
  <2>2. Flow'
    BY <1>2, <1>3, <1>7, <1>8, <2>1 DEF Flow, Callback
  <2> QED
    BY <1>8, <2>1, <2>2
<1>11. CASE Copy(b)
  <2>1. /\ pc[b] = "copy" /\ pc'[b] = "validate" /\ hex' = cmsg.words
        /\ UNCHANGED <<from, posted, cmsg>>
    BY <1>1, <1>11 DEF Copy, Goto, out
  <2>2. Flow'
    BY <1>2, <1>3, <1>7, <1>8, <2>1 DEF Flow, Callback
  <2> QED
    BY <1>8, <2>1, <2>2
<1>12. CASE Validate(b)
  <2>1. /\ pc[b] = "validate" /\ UNCHANGED <<from, posted, cmsg, hex, mail>>
        /\ pc'[b] = IF cmsg.hash = <<cmsg.pid, hex>> THEN "pid" ELSE "invalid"
    BY <1>1, <1>12 DEF Validate, Goto, out, static
  <2>2. cmsg = said /\ hex = cmsg.words
    BY <1>3, <2>1
  <2>3. cmsg.hash = <<cmsg.pid, hex>> <=> ~Torn(b) /\ f.valid
    BY <1>4, <2>2, HashIsRight
  <2>4. Flow'
    <3>1. CASE ~Torn(b) /\ f.valid
      <4>1. pc'[b] = "pid"
        BY <2>1, <2>3, <3>1
      <4> QED
        BY <1>2, <1>3, <1>7, <1>8, <2>1, <2>2, <3>1, <4>1 DEF Flow, Callback
    <3>2. CASE ~(~Torn(b) /\ f.valid)
      <4>1. pc'[b] = "invalid"
        BY <2>1, <2>3, <3>2
      <4> QED
        BY <1>2, <1>3, <1>7, <1>8, <2>1, <2>2, <3>2, <4>1 DEF Flow, Callback
    <3> QED
      BY <3>1, <3>2
  <2> QED
    BY <1>8, <2>1, <2>4
<1>13. CASE Invalid(b)
  <2>1. pc[b] = "invalid" /\ Post(b, "hash", <<>>) /\ pc'[b] = "fgets"
    BY <1>1, <1>13 DEF Invalid, NextLine, Goto
  <2>2. Torn(b) \/ ~f.valid
    BY <1>3, <2>1
  <2>3. Right([kind |-> "hash", sample |-> <<>>,
               line |-> Line(from[b]), torn |-> IsTail(from[b])])
    BY <1>6, <2>2 DEF Right, Due
  <2>4. Sound'
    BY <1>1, <2>1, <2>3, PostFlow
  <2> QED
    BY <1>9, <2>1, <2>4 DEF Callback
<1>14. CASE DieInReport(b)
  <2>1. pc'[b] = "none" /\ posted' = posted
    BY <1>1, <1>14 DEF DieInReport, End, Goto
  <2> QED
    BY <1>8, <1>9, <2>1 DEF Callback
<1>15. CASE Pid(b) /\ cmsg.pid = 0
  <2>1. pc[b] = "pid" /\ Post(b, "pid", <<>>) /\ pc'[b] = "fgets"
    BY <1>1, <1>15 DEF Pid, NextLine, Goto
  <2>2. ~Torn(b) /\ f.valid /\ f.pid = 0
    BY <1>3, <1>5, <1>15, <2>1
  <2>3. Right([kind |-> "pid", sample |-> <<>>,
               line |-> Line(from[b]), torn |-> IsTail(from[b])])
    BY <1>6, <2>2 DEF Right, Due
  <2>4. Sound'
    BY <1>1, <2>1, <2>3, PostFlow
  <2> QED
    BY <1>9, <2>1, <2>4 DEF Callback
<1>16. CASE Pid(b) /\ cmsg.pid # 0
  <2>1. /\ pc[b] = "pid" /\ pc'[b] = "value" /\ UNCHANGED <<from, posted, cmsg, hex>>
        /\ mail' = [mail EXCEPT !.pid = AsChar(cmsg.pid)]
    BY <1>1, <1>16 DEF Pid, Goto
  <2>2. cmsg = said /\ hex = cmsg.words /\ ~Torn(b) /\ f.valid
    BY <1>3, <2>1
  <2>3. mail'.pid = AsChar(f.pid) /\ f.pid # 0
    BY <1>4, <1>5, <1>16, <2>1, <2>2 DEF Sample
  <2>4. Flow'
    BY <1>2, <1>3, <1>7, <1>8, <2>1, <2>2, <2>3 DEF Flow, Callback
  <2> QED
    BY <1>8, <2>1, <2>4
<1>17. CASE Value(b)
  <2>1. /\ pc[b] = "value" /\ pc'[b] = "send" /\ UNCHANGED <<from, posted, cmsg, hex>>
        /\ mail' = [mail EXCEPT !.value = hex_get_float(hex)]
    BY <1>1, <1>17 DEF Value, Goto, out
  <2>2. mail'.pid = AsChar(f.pid) /\ mail'.value = hex_get_float(hex')
    BY <1>3, <1>4, <2>1 DEF Sample
  <2>3. Flow'
    BY <1>2, <1>3, <1>7, <1>8, <2>1, <2>2 DEF Flow, Callback
  <2> QED
    BY <1>8, <2>1, <2>3
<1>18. CASE Send(b)
  <2>1. pc[b] = "send" /\ Post(b, "sample", mail) /\ pc'[b] = "fgets"
    BY <1>1, <1>18 DEF Send, NextLine, Goto
  <2>2. /\ ~Torn(b) /\ f.valid /\ f.pid # 0 /\ mail.pid = AsChar(f.pid)
        /\ mail.value = hex_get_float(to_hex_string(f.number))
    BY <1>3, <1>5, <2>1
  <2>3. Exact(f.number) => mail.value = Tenthousandths(f.number)
    BY <1>4, <2>2, RoundTrip DEF Frame
  <2>4. Right([kind |-> "sample", sample |-> mail,
               line |-> Line(from[b]), torn |-> IsTail(from[b])])
    BY <1>4, <1>6, <2>2, <2>3, CharType DEF Right, Due, Frame
  <2>5. Sound'
    BY <1>1, <1>4, <2>1, <2>4, PostFlow
  <2> QED
    BY <1>9, <2>1, <2>5 DEF Callback
<1> QED
  BY <1>10, <1>11, <1>12, <1>13, <1>14, <1>15, <1>16, <1>17, <1>18

(* A step that makes no two brokers overlap keeps the reports right.       *)
LEMMA NextSound ==
  ASSUME Inv, OnePlace, SoundInv, [Next]_vars
  PROVE  SoundInv'
<1>1. CASE UNCHANGED vars
  <2>1. UNCHANGED <<bus, stream, kept, withheld, pc, from, cmsg, hex, mail, posted, overlapped,
                    broken>>
    BY <1>1 DEF vars, pipe, ends, file, broker, static, out
  <2> QED
    BY <2>1 DEF SoundInv, Overlap, Alive, Streams, Flow, Sound, Right, Due, Busy, At,
       Torn, Heard, Reports
<1>2. CASE Next
  <2>1. overlapped' = (overlapped \/ Overlap')
    BY <1>2, Zenon DEF Next, Seen
  <2> SUFFICES ASSUME ~overlapped'
               PROVE  ~Overlap' /\ Streams' /\ Flow' /\ Sound'
    BY Zenon DEF SoundInv
  <2>2. ~overlapped /\ ~Overlap'
    BY <2>1, Zenon
  <2>3. ~Overlap /\ Streams /\ Flow /\ Sound
    BY <2>2, Zenon DEF SoundInv
  <2>4. \/ \E b \in Brokers : BrokerStep(b)
        \/ WriteLine \/ ChildEnds \/ KeeperEnds \/ RestartReturned \/ RestartLive
    BY <1>2 DEF Next, Seen
  <2>5. Streams'
    BY <2>2, <2>3, <2>4, StreamKept
  <2>6. ASSUME NEW b \in Brokers,
               StreamStep(b)
        PROVE  Flow' /\ Sound'
    <3>1. UNCHANGED <<static, posted>>
      BY <2>6 DEF StreamStep, OpenStep, Start, OpenPipe, Fork, CloseEnd, DieInClose,
       Fdopen, FdopenFails, GiveUp, CallFgets, DieInRead,
       EndOfFile, Close, Clear, End, out
    <3>2. /\ pc[b] \notin Callback
          /\ \/ UNCHANGED <<pc, from>>
             \/ /\ \E label \in Labels \ Callback : Goto(b, label)
                /\ from' = from \/ from' = [from EXCEPT ![b] = 0]
      BY <2>6 DEF StreamStep, OpenStep, Start, OpenPipe, Fork, CloseEnd, DieInClose,
       Fdopen, FdopenFails, GiveUp, CallFgets, DieInRead,
       EndOfFile, Close, Clear, End,
         Labels, Opening, Callback
    <3>3. \A a \in Brokers : /\ pc'[a] \in Callback <=> pc[a] \in Callback
                             /\ pc[a] \in Callback => pc'[a] = pc[a] /\ from'[a] = from[a]
      BY <3>2 DEF Goto, Inv, TypeOK
    <3> QED
      BY <2>3, <3>1, <3>3, BusKept, SameFlow DEF Busy
  <2>7. ASSUME WriteLine \/ ChildEnds \/ KeeperEnds \/ \E b \in Brokers : Read(b)
        PROVE  Flow' /\ Sound'
    <3>1. UNCHANGED <<static, posted, pc, from>>
      BY <2>7 DEF WriteLine, ChildEnds, KeeperEnds, Read, broker, out
    <3> QED
      BY <2>3, <3>1, BusKept, SameFlow DEF Busy
  <2>8. ASSUME RestartReturned \/ RestartLive
        PROVE  Flow' /\ Sound'
    <3>1. PICK b \in Brokers : ~Alive(b) /\ Created(b)
      BY <2>8 DEF RestartReturned, RestartLive, Inv, TypeOK
    <3>2. UNCHANGED <<static, posted, from>>
      BY <3>1 DEF Created, out
    <3>3. \A a \in Brokers : /\ pc'[a] \in Callback <=> pc[a] \in Callback
                             /\ pc[a] \in Callback => pc'[a] = pc[a]
      BY <3>1 DEF Created, Goto, Alive, Callback, Inv, TypeOK
    <3> QED
      BY <2>3, <3>2, <3>3, BusKept, SameFlow DEF Busy
  <2>9. Flow' /\ Sound'
    BY <2>3, <2>4, <2>6, <2>7, <2>8, TakeFlow, CallbackFlow
       DEF BrokerStep, StreamStep, OpenStep
  <2> QED
    BY <2>2, <2>5, <2>9
<1> QED
  BY <1>1, <1>2

(* What the broker reports is what the lines ask for, in their order, a    *)
(* valid line with its pid if a char can hold it and its number if the     *)
(* format can; and no child of another broker withholds the end of the     *)
(* stream: unless two brokers overlapped in the callback or at the ends of *)
(* the stream (broker.cpp, can.c, hash_vld.c, hex.c).                      *)
THEOREM SoundReports == Spec => []SoundUnlessOverlap
<1>1. Init => OnePlace /\ SomePlace /\ SoundInv
  <2> SUFFICES ASSUME Init PROVE OnePlace /\ SomePlace /\ SoundInv
    OBVIOUS
  <2>1. Reports = {} /\ cut = {} /\ Busy = {} /\ consumed = 0
    BY DEF Init, Reports, Busy, Callback
  <2>2. ~Overlap
    BY DEF Init, Overlap, Alive
  <2>3. Streams
    BY DEF Init, Streams
  <2> QED
    BY <2>1, <2>2, <2>3 DEF OnePlace, SomePlace, SoundInv, Flow, Sound
<1>2. Inv /\ OnePlace /\ SomePlace /\ SoundInv /\ [Next]_vars
        => OnePlace' /\ SomePlace' /\ SoundInv'
  BY NextLines, NextSound
<1>3. SoundInv => SoundUnlessOverlap
  BY DEF SoundInv, Streams, Sound, Right, Reports, SoundUnlessOverlap
<1> QED
  BY <1>1, <1>2, <1>3, InitTypes, NextTypes, PTL DEF Spec
=============================================================================
