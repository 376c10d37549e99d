------------------------------ MODULE UiAssist ------------------------------
(***************************************************************************)
(* The driver's request for help: the ui thread (threads/ui.cpp) and the   *)
(* gtk program (gtk/gtk.c) on the two sides of a shared memory block       *)
(* (external/global.h).  The thread queues messages for the screen; for an *)
(* ASSIST mail it also waits for the driver's answer and then calls an     *)
(* ambulance or not.  The program displays one message per turn of its     *)
(* timer, and a prompt as a box with two buttons.                          *)
(*                                                                         *)
(* Every section under the block's mutex is one step.  The ten seconds of  *)
(* the wait, which every SIGALRM interrupts to look for an answer, are     *)
(* abstracted: the wait may end at any moment after the prompt.            *)
(*                                                                         *)
(* The programs start in any order, and gtk may be started again.  What a  *)
(* run that broke off left in the block is displayed until the ui thread   *)
(* clears it.  Prompt 0 stands for one of that run.                        *)
(***************************************************************************)
EXTENDS Integers, FiniteSets

CONSTANTS
  ShmSize,      \* SHM_DEFAULT_SIZE, slots of msgs (100); assist has one
  MaxPrompts,   \* bound on the ASSIST mails
  MaxNotifs     \* bound on the NOTIF and ERROR mails

ASSUME SizeAssumption == ShmSize \in Nat \ {0}
ASSUME BoundsAssumption == MaxPrompts \in Nat /\ MaxNotifs \in Nat

VARIABLES
  msgs, index, index_e,   \* the queue to the screen: slots, tail, head
  assist, index_assist,   \* the slot of the answer, number of answers in it
  ready,                  \* the ui thread has cleared the block
  asking,                 \* the ui thread waits for an answer
  box,                    \* the prompt whose box is displayed, or NoBox
  wild,                   \* index or index_e has no sensible value any more
  prompt, notifs,         \* history: ASSIST, NOTIF mails handled
  outcome,                \* history: outcome[k], how prompt k ended
  answerTo,               \* history: the prompt the answer in assist is to
  inTime,                 \* history: answer to prompt k's box before its end
  added, shown, lost      \* history: messages made, the last displayed, those
                          \* that found the queue full

shm     == <<msgs, index, index_e, assist>>
history == <<answerTo, inTime>>
vars == <<shm, index_assist, ready, asking, box, wild, prompt, notifs, outcome,
          history, added, shown, lost>>

Prompts == 1 .. MaxPrompts
Answers == {"yes", "no"}
Slots   == 0 .. ShmSize - 1
NoBox   == -1

(* A message is its number, its kind and, for a prompt, which one it is.   *)
Message ==
  [id : Nat, type : {"notif", "assistance", "revert"}, prompt : 0 .. MaxPrompts]

Blank == [id |-> 0, type |-> "notif", prompt |-> 0]

Left == [id |-> 0, type |-> "assistance", prompt |-> 0]

Init ==
  /\ \/ msgs = [i \in Slots |-> Blank] /\ index = 0 /\ assist = "text"
     \/ msgs = [i \in Slots |-> Left] /\ index = 1 /\ assist \in Answers
  /\ index_e \in 0 .. index
  /\ index_assist \in 0 .. index
  /\ ready = FALSE
  /\ asking = FALSE
  /\ box = NoBox
  /\ wild = FALSE
  /\ prompt = 0
  /\ notifs = 0
  /\ outcome = [k \in Prompts |-> "none"]
  /\ answerTo = 0
  /\ inTime = [k \in Prompts |-> "none"]
  /\ added = 0
  /\ shown = 0
  /\ lost = {}

-----------------------------------------------------------------------------
(* ui: the start.  The block is cleared and its mutex made, whatever gtk   *)
(* is doing with them.  gtk may have looked for a message and then counts  *)
(* it: the head is ahead of the tail, and an unsigned difference tells gtk *)
(* that messages wait.  What is left of an answer the next prompt drops.   *)
Start ==
  /\ ~wild /\ ~ready
  /\ ready' = TRUE
  /\ msgs' = [i \in Slots |-> Blank]
  /\ index' = 0
  /\ index_e' = 0
  /\ assist' = "text"
  /\ index_assist' = 0
  /\ wild' \in {FALSE, index # index_e}
  /\ UNCHANGED <<asking, box, prompt, notifs, outcome, history, added, shown, lost>>

(* Mutant: the head is reset only if it ran past the tail.                 *)
add_message_keeps(type, k) ==
  LET i == IF index = index_e THEN 0 ELSE index
      m == [id |-> added + 1, type |-> type, prompt |-> k]
  IN  /\ UNCHANGED index_e
      /\ added' = added + 1
      /\ \/ /\ i < ShmSize
            /\ msgs' = [msgs EXCEPT ![i] = m]
            /\ index' = i + 1
            /\ UNCHANGED <<assist, lost>>
         \/ /\ i = ShmSize
            /\ assist' = "text"
            /\ index' = i
            /\ lost' = lost \cup {added + 1}
            /\ UNCHANGED msgs

(* add_message.  A full queue keeps its tail at ShmSize, and msgs[ShmSize] *)
(* is the memory of assist: the message goes there and is never displayed. *)
add_message(type, k) ==
  LET caught_up == index = index_e
      i == IF caught_up THEN 0 ELSE index
      m == [id |-> added + 1, type |-> type, prompt |-> k]
  IN  /\ index_e' = IF caught_up THEN 0 ELSE index_e
      /\ added' = added + 1
      /\ \/ /\ i < ShmSize
            /\ msgs' = [msgs EXCEPT ![i] = m]
            /\ index' = i + 1
            /\ UNCHANGED <<assist, lost>>
         \/ /\ i = ShmSize
            /\ assist' = "text"
            /\ index' = i
            /\ lost' = lost \cup {added + 1}
            /\ UNCHANGED msgs

(* ui: a NOTIF or an ERROR mail.                                           *)
Notify ==
  /\ ~wild /\ ready /\ ~asking
  /\ notifs < MaxNotifs
  /\ notifs' = notifs + 1
  /\ add_message("notif", 0)
  /\ UNCHANGED <<index_assist, ready, asking, box, wild, prompt, outcome, history, shown>>

(* Mutant: an answer left over from an earlier prompt is not dropped.      *)
AskKeepsAnswers ==
  /\ ~wild /\ ready /\ ~asking
  /\ prompt < MaxPrompts
  /\ prompt' = prompt + 1
  /\ asking' = TRUE
  /\ add_message("assistance", prompt + 1)
  /\ UNCHANGED <<index_assist, ready, box, wild, notifs, outcome, history, shown>>

(* ui: an ASSIST mail, up to the wait.                                     *)
Ask ==
  /\ ~wild /\ ready /\ ~asking
  /\ prompt < MaxPrompts
  /\ prompt' = prompt + 1
  /\ asking' = TRUE
  /\ add_message("assistance", prompt + 1)
  /\ index_assist' = 0
  /\ UNCHANGED <<ready, box, wild, notifs, outcome, history, shown>>

(* ui: the end of the wait.  An answer that is neither YES nor NO ends the *)
(* prompt with nothing done.                                               *)
Resolve ==
  /\ ~wild /\ asking
  /\ asking' = FALSE
  /\ \/ /\ index_assist = 0
        /\ outcome' = [outcome EXCEPT ![prompt] = "silent"]
        /\ add_message("revert", 0)
        /\ UNCHANGED index_assist
     \/ /\ index_assist > 0
        /\ index_assist' = index_assist - 1
        /\ \/ /\ assist \in Answers
              /\ outcome' = [outcome EXCEPT ![prompt] = assist]
              /\ add_message("notif", 0)
           \/ /\ assist \notin Answers
              /\ UNCHANGED <<shm, outcome, added, lost>>
  /\ UNCHANGED <<ready, box, wild, prompt, notifs, history, shown>>

(* gtk: a prompt shows the box with the buttons, its end hides it, and a   *)
(* notification is text only.                                              *)
Display(m) ==
  /\ shown' = m.id
  /\ \/ m.type = "assistance" /\ box' = m.prompt
     \/ m.type = "revert" /\ box' = NoBox
     \/ m.type = "notif" /\ UNCHANGED box

(* gtk: a turn of the timer takes one message, if there is one.            *)
NotifCallback ==
  /\ ~wild
  /\ index # index_e
  /\ Display(msgs[index_e])
  /\ index_e' = index_e + 1
  /\ UNCHANGED <<msgs, index, assist, index_assist, ready, asking, wild, prompt,
                 notifs, outcome, history, added, lost>>

(* Mutant: the buttons stay after a press.                                 *)
AnswerKeepsBox(a) ==
  /\ ~wild
  /\ box # NoBox
  /\ UNCHANGED box
  /\ inTime' = IF box = prompt /\ asking
                 THEN [inTime EXCEPT ![prompt] = a] ELSE inTime
  /\ \/ /\ index_assist = 0
        /\ assist' = a
        /\ index_assist' = 1
        /\ answerTo' = box
        /\ UNCHANGED wild
     \/ /\ index_assist > 0
        /\ wild' = TRUE
        /\ UNCHANGED <<assist, index_assist, answerTo>>
  /\ UNCHANGED <<msgs, index, index_e, ready, asking, prompt, notifs, outcome,
                 added, shown, lost>>

(* Mutant: a full assist keeps its first answer and drops the new one.     *)
AnswerKeepsFirst(a) ==
  /\ ~wild
  /\ box # NoBox
  /\ box' = NoBox
  /\ inTime' = IF box = prompt /\ asking
                 THEN [inTime EXCEPT ![prompt] = a] ELSE inTime
  /\ assist' = IF index_assist = 0 THEN a ELSE assist
  /\ index_assist' = 1
  /\ answerTo' = IF index_assist = 0 THEN box ELSE answerTo
  /\ UNCHANGED <<wild, msgs, index, index_e, ready, asking, prompt, notifs, outcome,
                 added, shown, lost>>

(* gtk: a button of the displayed box.  assist has a single slot; the      *)
(* second of two answers lands on index, and nothing sensible follows.     *)
Answer(a) ==
  /\ ~wild
  /\ box # NoBox
  /\ box' = NoBox
  /\ inTime' = IF box = prompt /\ asking
                 THEN [inTime EXCEPT ![prompt] = a] ELSE inTime
  /\ \/ /\ index_assist = 0
        /\ assist' = a
        /\ index_assist' = 1
        /\ answerTo' = box
        /\ UNCHANGED wild
     \/ /\ index_assist > 0
        /\ wild' = TRUE
        /\ UNCHANGED <<assist, index_assist, answerTo>>
  /\ UNCHANGED <<msgs, index, index_e, ready, asking, prompt, notifs, outcome,
                 added, shown, lost>>

(* gtk is started again, with an empty window.                             *)
GtkRestart ==
  /\ ~wild
  /\ box # NoBox
  /\ box' = NoBox
  /\ UNCHANGED <<shm, index_assist, ready, asking, wild, prompt, notifs, outcome,
                 history, added, shown, lost>>

Next ==
  \/ Start
  \/ Notify
  \/ Ask
  \/ Resolve
  \/ NotifCallback
  \/ \E a \in Answers : Answer(a)
  \/ GtkRestart

Spec == Init /\ [][Next]_vars

-----------------------------------------------------------------------------
(* The types of the variables; the head of the queue never passes its tail *)
(* (an unsigned difference in gtk.c:131), and the tail stays in the block. *)
TypeOK ==
  /\ msgs \in [Slots -> Message]
  /\ index \in 0 .. ShmSize
  /\ index_e \in 0 .. index
  /\ assist \in Answers \cup {"text"}
  /\ index_assist \in {0, 1}
  /\ ready \in BOOLEAN /\ asking \in BOOLEAN
  /\ wild \in BOOLEAN
  /\ prompt \in 0 .. MaxPrompts
  /\ box \in NoBox .. prompt
  /\ notifs \in 0 .. MaxNotifs
  /\ outcome \in [Prompts -> Answers \cup {"none", "silent"}]
  /\ answerTo \in 0 .. prompt
  /\ inTime \in [Prompts -> Answers \cup {"none"}]
  /\ added \in Nat
  /\ shown \in 0 .. added
  /\ lost \subseteq 1 .. added

(* No request for help is dropped: the wait of every prompt ends in a call *)
(* or in an answer, because nothing but a new answer is written to assist  *)
(* while a prompt is open, although a full queue spills over into it.      *)
EveryPromptHasAnOutcome ==
  \A k \in 1 .. prompt : outcome[k] = "none" <=> (k = prompt /\ asking)

(* A driver who presses a button of the current prompt before its wait     *)
(* ends is heeded.                                                         *)
InTimeAnswerHeeded ==
  ~wild => \A k \in 1 .. prompt :
             inTime[k] # "none" /\ outcome[k] # "none" => outcome[k] = inTime[k]

(* Messages are displayed in order, none twice, and none is skipped but    *)
(* those that found the queue full.                                        *)
MessagesInOrder ==
  [][ shown' # shown =>
        shown' > shown /\ (shown + 1 .. shown' - 1) \subseteq lost ]_vars

(* The indices are spoiled, by the answer that does not fit assist, only   *)
(* after an answer to an earlier prompt was taken for one to the current   *)
(* prompt, or while no prompt is open.                                     *)
OverflowNeedsStaleAnswer == wild => answerTo < prompt \/ ~asking

-----------------------------------------------------------------------------
(* ui.cpp:89, "ignore all previous, out of time messages": a prompt is     *)
(* answered by a press of its own box, not by one of an earlier box.       *)
StaleAnswersIgnored ==
  [][ asking /\ ~asking' /\ index_assist > 0 => answerTo = prompt ]_vars
=============================================================================
