------------------------------ MODULE CbufMail ------------------------------
(***************************************************************************)
(* The circular buffer of mails of data/cbuf_mail.c, as operators on a     *)
(* record [buf, index].  One buffer is kept for every recorded series; it  *)
(* holds the last Size samples before a crash.                             *)
(*                                                                         *)
(* A mail is abstracted to the number of the sample it carries (1, 2, ...).*)
(* A slot of the freshly malloc'ed block that was never written holds      *)
(* Unwritten, and a read beyond the block yields Outside.  A write beyond  *)
(* the block changes no slot of the buffer (what it destroys is not        *)
(* modelled; that it happens shows in the index).                          *)
(***************************************************************************)
EXTENDS Integers

(* cbuf->size, STATUS_LOG_BEFORE_SIZE in the program (200).  At least 2:   *)
(* with one slot the move of a dump is no move.                            *)
CONSTANT Size

Slots == 0 .. Size - 1

Unwritten == 0
Outside   == -1

Entry == Nat \cup {Outside}

(* cbuf_mail_init on a zeroed status: mallocp does not clear the block.    *)
Fresh == [buf |-> [i \in Slots |-> Unwritten], index |-> 0]

Cell(cbuf, i) == IF i \in Slots THEN cbuf.buf[i] ELSE Outside

(* cbuf_mail_write                                                         *)
WriteMail(cbuf, mail) ==
  [buf   |-> [i \in Slots |-> IF i = cbuf.index THEN mail ELSE cbuf.buf[i]],
   index |-> IF cbuf.index + 1 >= Size THEN 0 ELSE cbuf.index + 1]

(* cbuf_mail_move_index.  The negative case subtracts the (negative) index *)
(* from the size; size_t wraps around, so the int that is stored is        *)
(* Size - moved.                                                           *)
MoveIndex(index, n) ==
  LET moved == index - (n % Size)
  IN  IF moved < 0 THEN Size - moved ELSE moved

(* cbuf_mail_read_ahead: the index it leaves, and the cell it then reads.  *)
ReadAheadIndex(index) == IF index + 1 = Size THEN 0 ELSE index + 1

(* Mutant: the caller moves by Size instead of Size + 1, that is, not.     *)
DumpStartUnmoved(index) == MoveIndex(index, Size)

(* SAFETY_STATUS_LOG_BUFFER: the move, then Size calls of read_ahead.      *)
DumpStart(index) == MoveIndex(index, Size + 1)

(* Loop(m)[i] is the index after i of those calls, AheadBy(m, i) its       *)
(* closed form: an index inside the block wraps around, one beyond it      *)
(* never meets Size again and runs on.                                     *)
Loop(m) ==
  LET index[i \in Nat] == IF i = 0 THEN m ELSE ReadAheadIndex(index[i - 1])
  IN  index

AheadBy(m, i) == IF m < Size THEN (m + i) % Size ELSE m + i

DumpMails(cbuf) ==
  [i \in 1 .. Size |-> Cell(cbuf, AheadBy(DumpStart(cbuf.index), i))]

DumpedCbuf(cbuf) ==
  [cbuf EXCEPT !.index = AheadBy(DumpStart(cbuf.index), Size)]

(* What a dump is for: the last Size of n samples, oldest first; slots of  *)
(* samples that never came are Unwritten.                                  *)
Window(n) ==
  [i \in 1 .. Size |-> IF n - Size + i > 0 THEN n - Size + i ELSE Unwritten]
=============================================================================
