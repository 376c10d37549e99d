--------------------------- MODULE UiAssist_proofs ---------------------------
(***************************************************************************)
(* What is proved of the request for help, for every size of the queue and *)
(* any number of prompts and notifications: every prompt ends, an answer   *)
(* in time is heeded, the screen's messages stay in order, and the slot of *)
(* the answer overflows only after a stale answer.                         *)
(***************************************************************************)
EXTENDS UiAssist, TLAPS

USE SizeAssumption, BoundsAssumption

Kinds == {"notif", "assistance", "revert"}

(* The slots of the queue hold nothing that was not yet made.              *)
SlotsKnown == \A i \in Slots : msgs[i].id <= added /\ msgs[i].prompt <= prompt

(* The ui thread asks only when it runs, and counts from 1.                *)
AskingIsReady ==
  /\ asking => ready /\ prompt > 0
  /\ ~ready => prompt = 0 /\ added = 0

(* The types at the start.                                                 *)
LEMMA InitType == Init => TypeOK /\ SlotsKnown /\ AskingIsReady
<1> SUFFICES ASSUME Init PROVE TypeOK /\ SlotsKnown /\ AskingIsReady
  OBVIOUS
<1>1. Blank \in Message /\ Left \in Message
  BY DEF Blank, Left, Message
<1>2. msgs \in [Slots -> Message]
  BY <1>1 DEF Init
<1>3. index \in {0, 1} /\ assist \in Answers \cup {"text"}
  BY DEF Init
<1>4. SlotsKnown
  BY DEF Init, SlotsKnown, Blank, Left
<1>5. AskingIsReady
  BY DEF Init, AskingIsReady
<1>6. index_e \in 0 .. index /\ index_assist \in {0, 1} /\ index \in 0 .. ShmSize
  BY <1>3 DEF Init
<1>9. ready \in BOOLEAN /\ asking \in BOOLEAN /\ wild \in BOOLEAN
  BY DEF Init
<1>7. /\ prompt \in 0 .. MaxPrompts /\ box \in NoBox .. prompt
      /\ notifs \in 0 .. MaxNotifs /\ answerTo \in 0 .. prompt
      /\ added \in Nat /\ shown \in 0 .. added /\ lost \subseteq 1 .. added
  BY DEF Init, NoBox
<1>8. /\ outcome \in [Prompts -> Answers \cup {"none", "silent"}]
      /\ inTime \in [Prompts -> Answers \cup {"none"}]
  BY DEF Init
<1> QED
  BY <1>2, <1>3, <1>4, <1>5, <1>6, <1>7, <1>8, <1>9 DEF TypeOK

(* A new message: where it goes, and what it leaves alone.                 *)
LEMMA AddType ==
  ASSUME TypeOK, SlotsKnown, NEW type \in Kinds, NEW k \in 0 .. MaxPrompts,
         prompt' \in 0 .. MaxPrompts, k <= prompt', prompt <= prompt',
         add_message(type, k)
  PROVE  /\ msgs' \in [Slots -> Message]
         /\ index' \in 0 .. ShmSize /\ index_e' \in 0 .. index'
         /\ assist' \in Answers \cup {"text"}
         /\ added' = added + 1 /\ added' \in Nat
         /\ shown \in 0 .. added' /\ lost' \subseteq 1 .. added'
         /\ SlotsKnown'
<1> DEFINE i == IF index = index_e THEN 0 ELSE index
           m == [id |-> added + 1, type |-> type, prompt |-> k]
<1>1. /\ added \in Nat /\ index \in 0 .. ShmSize /\ index_e \in 0 .. index
      /\ shown \in 0 .. added /\ lost \subseteq 1 .. added
      /\ msgs \in [Slots -> Message] /\ prompt \in Nat
  BY DEF TypeOK
<1>2. m \in Message /\ m.id = added + 1 /\ m.prompt = k
  BY <1>1 DEF Message, Kinds
<1>3. added' = added + 1 /\ shown \in 0 .. added' /\ lost \subseteq 1 .. added'
  BY <1>1 DEF add_message
<1>4. CASE /\ i < ShmSize /\ msgs' = [msgs EXCEPT ![i] = m] /\ index' = i + 1
           /\ UNCHANGED <<assist, lost>>
  <2>1. i \in Slots /\ index' \in 0 .. ShmSize /\ index_e' \in 0 .. index'
    BY <1>1, <1>4 DEF add_message, Slots
  <2>2. msgs' \in [Slots -> Message]
    BY <1>1, <1>2, <1>4
  <2>3. SlotsKnown'
    <3> SUFFICES ASSUME NEW j \in Slots
                 PROVE  msgs'[j].id <= added' /\ msgs'[j].prompt <= prompt'
      BY DEF SlotsKnown
    <3>1. msgs[j] \in Message /\ msgs[j].id <= added /\ msgs[j].prompt <= prompt
      BY <1>1 DEF SlotsKnown
    <3>2. msgs[j].id \in Nat /\ msgs[j].prompt \in Nat
      BY <3>1 DEF Message
    <3>3. msgs'[j] = IF j = i THEN m ELSE msgs[j]
      BY <1>1, <1>4
    <3> HIDE DEF m, i
    <3> QED
      BY <1>1, <1>2, <1>3, <3>1, <3>2, <3>3
  <2> QED
    BY <1>1, <1>3, <1>4, <2>1, <2>2, <2>3 DEF TypeOK
<1>5. CASE /\ i = ShmSize /\ assist' = "text" /\ index' = i
           /\ lost' = lost \cup {added + 1} /\ UNCHANGED msgs
  <2>1. index' \in 0 .. ShmSize /\ index_e' \in 0 .. index'
    BY <1>1, <1>5 DEF add_message
  <2>2. lost' \subseteq 1 .. added'
    BY <1>1, <1>3, <1>5
  <2>3. SlotsKnown'
    <3> SUFFICES ASSUME NEW j \in Slots
                 PROVE  msgs[j].id <= added' /\ msgs[j].prompt <= prompt'
      BY <1>5 DEF SlotsKnown
    <3>1. msgs[j] \in Message /\ msgs[j].id <= added /\ msgs[j].prompt <= prompt
      BY <1>1 DEF SlotsKnown
    <3>2. msgs[j].id \in Nat /\ msgs[j].prompt \in Nat
      BY <3>1 DEF Message
    <3> QED
      BY <1>1, <1>3, <3>1, <3>2
  <2> QED
    BY <1>1, <1>3, <1>5, <2>1, <2>2, <2>3
<1> QED
  BY <1>4, <1>5 DEF add_message

(* A start of the ui thread clears the block.                              *)
LEMMA StartType ==
  ASSUME TypeOK, SlotsKnown, AskingIsReady, Start
  PROVE  TypeOK' /\ SlotsKnown' /\ AskingIsReady'
<1>1. Blank \in Message
  BY DEF Blank, Message
<1>2. msgs' = [i \in Slots |-> Blank] /\ msgs' \in [Slots -> Message]
  BY <1>1 DEF Start
<1>3. SlotsKnown'
  BY <1>2 DEF Start, SlotsKnown, Blank, TypeOK
<1>4. AskingIsReady'
  BY DEF Start, AskingIsReady
<1>5. wild' \in BOOLEAN
  <2>1. (index # index_e) \in BOOLEAN
    OBVIOUS
  <2> QED
    BY <2>1 DEF Start
<1> QED
  BY <1>2, <1>3, <1>4, <1>5 DEF Start, TypeOK, history

(* Each step keeps the types.                                              *)
LEMMA NextType ==
  ASSUME TypeOK, SlotsKnown, AskingIsReady, [Next]_vars
  PROVE  TypeOK' /\ SlotsKnown' /\ AskingIsReady'
<1>1. CASE Start
  BY <1>1, StartType
<1>2. CASE Notify
  <2>1. prompt' = prompt /\ prompt \in 0 .. MaxPrompts /\ "notif" \in Kinds
    BY <1>2 DEF Notify, TypeOK, Kinds
  <2>2. /\ msgs' \in [Slots -> Message]
        /\ index' \in 0 .. ShmSize /\ index_e' \in 0 .. index'
        /\ assist' \in Answers \cup {"text"}
        /\ added' = added + 1 /\ added' \in Nat
        /\ shown \in 0 .. added' /\ lost' \subseteq 1 .. added'
        /\ SlotsKnown'
    BY <1>2, <2>1, AddType DEF Notify
  <2> QED
    BY <1>2, <2>2 DEF Notify, TypeOK, AskingIsReady, history
<1>3. CASE Ask
  <2>1. prompt' = prompt + 1 /\ prompt' \in 0 .. MaxPrompts /\ prompt \in Nat
        /\ "assistance" \in Kinds
    BY <1>3 DEF Ask, TypeOK, Kinds
  <2>2. /\ msgs' \in [Slots -> Message]
        /\ index' \in 0 .. ShmSize /\ index_e' \in 0 .. index'
        /\ assist' \in Answers \cup {"text"}
        /\ added' = added + 1 /\ added' \in Nat
        /\ shown \in 0 .. added' /\ lost' \subseteq 1 .. added'
        /\ SlotsKnown'
    <3>1. add_message("assistance", prompt + 1)
      BY <1>3 DEF Ask
    <3> QED
      BY <2>1, <3>1, AddType
  <2>3. box' \in NoBox .. prompt' /\ answerTo' \in 0 .. prompt'
    BY <1>3, <2>1 DEF Ask, TypeOK, history, NoBox
  <2>4. index_assist' \in {0, 1} /\ asking' = TRUE
        /\ UNCHANGED <<ready, wild, notifs, outcome, inTime, shown>>
    BY <1>3 DEF Ask, history
  <2> QED
    BY <1>3, <2>1, <2>2, <2>3, <2>4 DEF Ask, TypeOK, AskingIsReady
<1>4. CASE Resolve
  <2>1. prompt' = prompt /\ prompt \in Prompts /\ prompt \in 0 .. MaxPrompts
    BY <1>4 DEF Resolve, TypeOK, AskingIsReady, Prompts
  <2>4. /\ index_assist' \in {0, 1}
        /\ outcome' \in [Prompts -> Answers \cup {"none", "silent"}]
    BY <1>4, <2>1 DEF Resolve, TypeOK
  <2>5. /\ asking' = FALSE
        /\ UNCHANGED <<ready, box, wild, notifs, answerTo, inTime, shown>>
    BY <1>4 DEF Resolve, history
  <2>2. CASE add_message("revert", 0) \/ add_message("notif", 0)
    <3>1. /\ msgs' \in [Slots -> Message]
          /\ index' \in 0 .. ShmSize /\ index_e' \in 0 .. index'
          /\ assist' \in Answers \cup {"text"}
          /\ added' = added + 1 /\ added' \in Nat
          /\ shown \in 0 .. added' /\ lost' \subseteq 1 .. added'
          /\ SlotsKnown'
      BY <2>1, <2>2, AddType DEF Kinds
    <3>2. AskingIsReady'
      BY <1>4, <2>1, <2>5 DEF Resolve, AskingIsReady
    <3>3. /\ ready' \in BOOLEAN /\ asking' \in BOOLEAN /\ wild' \in BOOLEAN
          /\ prompt' \in 0 .. MaxPrompts /\ box' \in NoBox .. prompt'
          /\ notifs' \in 0 .. MaxNotifs /\ answerTo' \in 0 .. prompt'
          /\ inTime' \in [Prompts -> Answers \cup {"none"}]
          /\ shown' \in 0 .. added'
      BY <2>1, <2>5, <3>1 DEF TypeOK
    <3> QED
      BY <2>4, <3>1, <3>2, <3>3 DEF TypeOK
  <2>3. CASE UNCHANGED <<shm, outcome, added, lost>>
    BY <2>1, <2>3, <2>4, <2>5 DEF TypeOK, AskingIsReady, shm, SlotsKnown
  <2> QED
    BY <1>4, <2>2, <2>3 DEF Resolve
<1>5. CASE NotifCallback
  <2>1. index_e \in Slots /\ index_e + 1 \in 0 .. index
    BY <1>5 DEF NotifCallback, TypeOK, Slots
  <2>2. /\ msgs[index_e] \in Message /\ msgs[index_e].id <= added
        /\ msgs[index_e].prompt <= prompt
    BY <2>1 DEF TypeOK, SlotsKnown
  <2>3. msgs[index_e].id \in Nat /\ msgs[index_e].prompt \in Nat
    BY <2>2 DEF Message
  <2>4. shown' \in 0 .. added /\ box' \in NoBox .. prompt
    BY <1>5, <2>2, <2>3 DEF NotifCallback, Display, TypeOK, NoBox
  <2> QED
    BY <1>5, <2>1, <2>4
    DEF NotifCallback, TypeOK, AskingIsReady, SlotsKnown, history
<1>6. ASSUME NEW a \in Answers, Answer(a)
      PROVE  TypeOK' /\ SlotsKnown' /\ AskingIsReady'
  <2>1. box' \in NoBox .. prompt /\ (index_assist = 0 => box \in 0 .. prompt)
    BY <1>6 DEF Answer, TypeOK, NoBox
  <2>2. inTime' \in [Prompts -> Answers \cup {"none"}]
    BY <1>6 DEF Answer, TypeOK
  <2>3. answerTo' \in 0 .. prompt /\ assist' \in Answers \cup {"text"}
        /\ index_assist' \in {0, 1} /\ wild' \in BOOLEAN
    BY <1>6, <2>1 DEF Answer, TypeOK
  <2> QED
    BY <1>6, <2>1, <2>2, <2>3 DEF Answer, TypeOK, AskingIsReady, SlotsKnown
<1>7. CASE GtkRestart
  BY <1>7 DEF GtkRestart, TypeOK, AskingIsReady, SlotsKnown, history, shm, NoBox
<1>8. CASE UNCHANGED vars
  BY <1>8 DEF vars, TypeOK, AskingIsReady, SlotsKnown, history, shm
<1> QED
  BY <1>1, <1>2, <1>3, <1>4, <1>5, <1>6, <1>7, <1>8 DEF Next

(* The types: the head of the queue never passes its tail and the tail     *)
(* stays in the block, for every size of the queue.                        *)
THEOREM TypeCorrect == Spec => [](TypeOK /\ SlotsKnown /\ AskingIsReady)
  BY InitType, NextType, PTL DEF Spec

TypeInv == TypeOK /\ SlotsKnown /\ AskingIsReady

-----------------------------------------------------------------------------
(* Every prompt ends: the one that is open has no outcome yet, and if an   *)
(* answer is in the slot, it is one, for what a full queue spills into the *)
(* slot comes before the slot is emptied for the prompt.                   *)
Outcomes ==
  /\ \A k \in Prompts :
       /\ k > prompt => outcome[k] = "none" /\ inTime[k] = "none"
       /\ k <= prompt => (outcome[k] = "none" <=> k = prompt /\ asking)
  /\ asking /\ index_assist > 0 => assist \in Answers

(* An answer in time waits in the slot, and becomes the outcome.           *)
Heeded ==
  ~wild =>
    /\ \A k \in Prompts :
         inTime[k] # "none" /\ outcome[k] # "none" => outcome[k] = inTime[k]
    /\ asking /\ inTime[prompt] # "none" => index_assist > 0 /\ assist = inTime[prompt]

(* No prompt has ended at the start.                                       *)
LEMMA InitOutcomes == Init => Outcomes /\ Heeded
<1> SUFFICES ASSUME Init PROVE Outcomes /\ Heeded
  OBVIOUS
<1>1. /\ outcome = [k \in Prompts |-> "none"] /\ inTime = [k \in Prompts |-> "none"]
      /\ prompt = 0 /\ asking = FALSE
  BY DEF Init
<1> QED
  BY <1>1 DEF Outcomes, Heeded, Prompts

(* Each step keeps the outcomes.                                           *)
LEMMA NextOutcomes ==
  ASSUME TypeInv, Outcomes, Heeded, [Next]_vars
  PROVE  Outcomes' /\ Heeded'
<1>0. prompt \in 0 .. MaxPrompts /\ (asking => prompt \in Prompts)
  BY DEF TypeInv, TypeOK, AskingIsReady, Prompts
<1>1. CASE Start
  <2>1. ~asking /\ UNCHANGED <<asking, prompt, outcome, inTime>>
    BY <1>1 DEF Start, history, TypeInv, AskingIsReady
  <2>2. ~wild
    BY <1>1 DEF Start
  <2> QED
    BY <2>1, <2>2 DEF Outcomes, Heeded
<1>2. CASE Notify
  <2>1. ~asking /\ UNCHANGED <<asking, prompt, outcome, inTime, wild>>
    BY <1>2 DEF Notify, history
  <2> QED
    BY <2>1 DEF Outcomes, Heeded
<1>3. CASE Ask
  <2>1. /\ ~asking /\ asking' = TRUE /\ prompt' = prompt + 1 /\ index_assist' = 0
        /\ prompt + 1 \in Prompts /\ UNCHANGED <<outcome, inTime, wild>>
    BY <1>0, <1>3 DEF Ask, history, Prompts
  <2>2. \A k \in Prompts : k \in Nat /\ (k <= prompt + 1 <=> k <= prompt \/ k = prompt + 1)
    BY <1>0 DEF Prompts
  <2> QED
    BY <1>0, <2>1, <2>2 DEF Outcomes, Heeded
<1>4. CASE Resolve
  <2>1. /\ ~wild /\ asking /\ asking' = FALSE /\ prompt \in Prompts
        /\ UNCHANGED <<wild, prompt, inTime>>
    BY <1>0, <1>4 DEF Resolve, history
  <2>2. PICK o \in Answers \cup {"silent"} :
          /\ outcome' = [outcome EXCEPT ![prompt] = o]
          /\ inTime[prompt] # "none" => o = inTime[prompt]
    <3>1. CASE index_assist = 0
      BY <1>4, <2>1, <3>1 DEF Resolve, Heeded
    <3>2. CASE index_assist > 0
      <4>1. assist \in Answers
        BY <2>1, <3>2 DEF Outcomes
      <4>2. outcome' = [outcome EXCEPT ![prompt] = assist]
        BY <1>4, <3>2, <4>1 DEF Resolve
      <4> QED
        BY <2>1, <4>1, <4>2 DEF Heeded
    <3> QED
      BY <1>4, <3>1, <3>2 DEF Resolve
  <2>3. /\ outcome'[prompt] = o /\ o # "none"
        /\ \A k \in Prompts : k # prompt => outcome'[k] = outcome[k]
    BY <2>1, <2>2 DEF TypeInv, TypeOK, Answers
  <2> QED
    BY <1>0, <2>1, <2>2, <2>3 DEF Outcomes, Heeded
<1>5. CASE NotifCallback \/ GtkRestart \/ UNCHANGED vars
  <2>1. UNCHANGED <<asking, prompt, outcome, inTime, wild, assist, index_assist>>
    BY <1>5 DEF NotifCallback, GtkRestart, vars, shm, history
  <2> QED
    BY <2>1 DEF Outcomes, Heeded
<1>6. ASSUME NEW a \in Answers, Answer(a)
      PROVE  Outcomes' /\ Heeded'
  <2>1. /\ UNCHANGED <<asking, prompt, outcome>> /\ ~wild
        /\ inTime' = IF box = prompt /\ asking
                       THEN [inTime EXCEPT ![prompt] = a] ELSE inTime
    BY <1>6 DEF Answer
  <2>2. asking /\ index_assist' > 0 => assist' \in Answers
    BY <1>6 DEF Answer, Outcomes
  <2>3. \A k \in Prompts : k # prompt \/ ~asking => inTime'[k] = inTime[k]
    BY <2>1 DEF TypeInv, TypeOK
  <2>4. Outcomes'
    BY <1>0, <2>1, <2>2, <2>3 DEF Outcomes
  <2>5. asking => outcome[prompt] = "none"
    BY <1>0 DEF Outcomes
  <2>6. CASE index_assist = 0
    <3>1. assist' = a /\ index_assist' = 1
      BY <1>6, <2>6 DEF Answer
    <3>2. asking /\ inTime'[prompt] # "none" => inTime'[prompt] = a
      BY <1>0, <2>1, <2>6 DEF Heeded, TypeInv, TypeOK
    <3> QED
      BY <1>0, <2>1, <2>3, <2>4, <2>5, <3>1, <3>2 DEF Heeded
  <2>7. CASE index_assist > 0
    BY <1>6, <2>4, <2>7 DEF Answer, Heeded
  <2> QED
    BY <1>6, <2>6, <2>7 DEF Answer
<1> QED
  BY <1>1, <1>2, <1>3, <1>4, <1>5, <1>6 DEF Next

(* The invariant of the outcomes holds always.                             *)
LEMMA OutcomesInvariant == Spec => [](TypeInv /\ Outcomes /\ Heeded)
<1>1. Init => TypeInv
  BY InitType DEF TypeInv
<1>2. TypeInv /\ [Next]_vars => TypeInv'
  BY NextType DEF TypeInv
<1> QED
  BY <1>1, <1>2, InitOutcomes, NextOutcomes, PTL DEF Spec

(* The wait of every prompt ends in a call or in an answer, whatever the   *)
(* queue spills into the slot of the answer.                               *)
THEOREM EveryPromptEnds == Spec => []EveryPromptHasAnOutcome
<1>1. TypeInv /\ Outcomes => EveryPromptHasAnOutcome
  BY DEF TypeInv, TypeOK, Outcomes, EveryPromptHasAnOutcome, Prompts
<1> QED
  BY <1>1, OutcomesInvariant, PTL

(* A press of a button of the current prompt's box, before its wait ends,  *)
(* decides its outcome.                                                    *)
THEOREM InTimeIsHeeded == Spec => []InTimeAnswerHeeded
<1>1. TypeInv /\ Heeded => InTimeAnswerHeeded
  BY DEF TypeInv, TypeOK, Heeded, InTimeAnswerHeeded, Prompts
<1> QED
  BY <1>1, OutcomesInvariant, PTL

-----------------------------------------------------------------------------
(* The messages that wait for the screen.                                  *)
Pending == index_e .. index - 1

(* The ui thread queues nothing while it asks: the open prompt is the last *)
(* message that waits, so once its box is displayed, or answered, none     *)
(* waits that could display another box.                                   *)
OneBox ==
  asking =>
    /\ \A i \in Pending :
         msgs[i].type = "assistance" /\ msgs[i].prompt = prompt => i = index - 1
    /\ box = prompt \/ answerTo = prompt => index = index_e
    /\ index_assist > 0 /\ answerTo = prompt => box = NoBox

(* Each step keeps the one box, and with it the reason of an overflow.     *)
LEMMA NextOneBox ==
  ASSUME TypeInv, OneBox, OverflowNeedsStaleAnswer, [Next]_vars
  PROVE  OneBox' /\ OverflowNeedsStaleAnswer'
<1>0. /\ prompt \in Nat /\ index \in 0 .. ShmSize /\ index_e \in 0 .. index
      /\ box \in NoBox .. prompt /\ answerTo \in 0 .. prompt
  BY DEF TypeInv, TypeOK
<1>1. CASE Start \/ Notify
  <2>1. ~asking /\ asking' = asking
    BY <1>1 DEF Start, Notify, TypeInv, AskingIsReady
  <2> QED
    BY <2>1 DEF OneBox, OverflowNeedsStaleAnswer
<1>3. CASE Ask
  <2>1. /\ ~wild /\ wild' = wild /\ prompt' = prompt + 1 /\ index_assist' = 0
        /\ box' = box /\ answerTo' = answerTo
        /\ add_message("assistance", prompt + 1)
    BY <1>3 DEF Ask, history
  <2>2. ASSUME NEW i \in Pending', msgs'[i].prompt = prompt + 1
        PROVE  i = index' - 1
    <3> DEFINE j == IF index = index_e THEN 0 ELSE index
    <3>1. CASE j = ShmSize
      <4>1. UNCHANGED <<msgs, index_e>> /\ index' = index /\ i \in Slots
        BY <1>0, <2>1, <2>2, <3>1 DEF add_message, Pending, Slots
      <4>2. msgs[i].prompt <= prompt /\ msgs[i] \in Message
        BY <4>1 DEF TypeInv, TypeOK, SlotsKnown
      <4> QED
        BY <1>0, <2>2, <4>1, <4>2 DEF Message
    <3>2. CASE j < ShmSize
      <4>1. /\ index' = j + 1 /\ index_e' \in {0, index_e} /\ index_e' <= j
            /\ i \in Slots
            /\ i # j => msgs'[i] = msgs[i]
        BY <1>0, <2>1, <2>2, <3>2
        DEF add_message, Pending, Slots, TypeInv, TypeOK
      <4>2. msgs[i].prompt <= prompt /\ msgs[i] \in Message
        BY <4>1 DEF TypeInv, TypeOK, SlotsKnown
      <4>3. i = j
        BY <1>0, <2>2, <4>1, <4>2 DEF Message
      <4> QED
        BY <1>0, <4>1, <4>3
    <3> QED
      BY <1>0, <3>1, <3>2
  <2> QED
    BY <1>0, <2>1, <2>2 DEF OneBox, OverflowNeedsStaleAnswer
<1>4. CASE Resolve
  <2>1. ~asking'
    BY <1>4 DEF Resolve
  <2> QED
    BY <2>1 DEF OneBox, OverflowNeedsStaleAnswer
<1>5. CASE NotifCallback
  <2>1. /\ UNCHANGED <<msgs, index, assist, index_assist, asking, wild, prompt, answerTo>>
        /\ ~wild /\ index # index_e /\ index_e' = index_e + 1
        /\ Display(msgs[index_e]) /\ index_e \in Pending
        /\ \A i \in Pending' : i \in Pending
    BY <1>0, <1>5 DEF NotifCallback, history, Pending
  <2>2. ASSUME asking, box' = prompt
        PROVE  index = index_e'
    <3>1. msgs[index_e].type = "assistance" /\ msgs[index_e].prompt = prompt
      BY <1>0, <2>1, <2>2 DEF Display, OneBox, NoBox
    <3> QED
      BY <1>0, <2>1, <2>2, <3>1 DEF OneBox
  <2> QED
    BY <2>1, <2>2 DEF OneBox, OverflowNeedsStaleAnswer
<1>6. ASSUME NEW a \in Answers, Answer(a)
      PROVE  OneBox' /\ OverflowNeedsStaleAnswer'
  <2>1. /\ UNCHANGED <<msgs, index, index_e, asking, prompt>>
        /\ box # NoBox /\ box' = NoBox /\ Pending' = Pending
        /\ ~wild /\ answerTo' \in {answerTo, box}
        /\ wild' => index_assist > 0 /\ answerTo' = answerTo
    BY <1>6 DEF Answer, Pending
  <2> QED
    BY <1>0, <2>1 DEF OneBox, OverflowNeedsStaleAnswer, NoBox
<1>7. CASE GtkRestart
  BY <1>0, <1>7 DEF GtkRestart, shm, history, OneBox, OverflowNeedsStaleAnswer,
     NoBox, Pending
<1>8. CASE UNCHANGED vars
  BY <1>8 DEF vars, shm, history, OneBox, OverflowNeedsStaleAnswer, Pending
<1> QED
  BY <1>1, <1>3, <1>4, <1>5, <1>6, <1>7, <1>8 DEF Next

(* The answer that does not fit its slot comes only after an answer to an  *)
(* earlier prompt was left in it for the current one, or while none is     *)
(* open.                                                                   *)
THEOREM OverflowIsStale == Spec => []OverflowNeedsStaleAnswer
<1>1. Init => OneBox /\ OverflowNeedsStaleAnswer
  BY DEF Init, OneBox, OverflowNeedsStaleAnswer
<1> QED
  BY <1>1, NextOneBox, OutcomesInvariant, PTL DEF Spec

-----------------------------------------------------------------------------
(* Every number between the last message displayed and the last one made   *)
(* is lost or waits, in order; nothing made by this run waits before the   *)
(* ui thread has cleared the block.                                        *)
QueueOrder ==
  /\ ready => /\ \A i \in Pending : shown < msgs[i].id
              /\ \A i, j \in Pending : i < j => msgs[i].id < msgs[j].id
  /\ \A n \in shown + 1 .. added : n \in lost \/ \E i \in Pending : msgs[i].id = n
  /\ ~ready => shown = 0 /\ \A i \in Slots : msgs[i].id = 0

(* The queue is empty at the start.                                        *)
LEMMA InitOrder == Init => QueueOrder
  BY DEF Init, QueueOrder, Blank, Left

(* A message is added at the end of the queue, or lost.                    *)
LEMMA AddOrder ==
  ASSUME TypeInv, QueueOrder, ready, ready', shown' = shown,
         NEW type, NEW k, add_message(type, k)
  PROVE  QueueOrder'
<1> DEFINE j == IF index = index_e THEN 0 ELSE index
           m == [id |-> added + 1, type |-> type, prompt |-> k]
<1>0. /\ index \in 0 .. ShmSize /\ index_e \in 0 .. index /\ added \in Nat
      /\ shown \in 0 .. added /\ added' = added + 1 /\ m.id = added + 1
  BY DEF TypeInv, TypeOK, add_message
<1>1. \A i \in Slots : msgs[i].id \in Nat /\ msgs[i].id <= added
  <2> TAKE i \in Slots
  <2>1. msgs[i] \in Message /\ msgs[i].id <= added
    BY DEF TypeInv, TypeOK, SlotsKnown
  <2> QED
    BY <2>1 DEF Message
<1>2. CASE j = ShmSize
  <2>1. UNCHANGED <<msgs, index_e>> /\ index' = index /\ lost' = lost \cup {added + 1}
    BY <1>0, <1>2 DEF add_message
  <2>2. Pending' = Pending
    BY <2>1 DEF Pending
  <2>3. \A n \in shown + 1 .. added + 1 : n \in shown + 1 .. added \/ n = added + 1
    BY <1>0
  <2> QED
    BY <1>0, <2>1, <2>2, <2>3 DEF QueueOrder
<1>3. CASE j < ShmSize
  <2>1. /\ j \in Slots /\ index' = j + 1
        /\ index_e' = IF index = index_e THEN 0 ELSE index_e
        /\ lost' = lost
        /\ msgs' = [msgs EXCEPT ![j] = m]
    BY <1>0, <1>3 DEF add_message, Slots
  <2>2. /\ msgs'[j].id = added + 1
        /\ \A i \in Slots : i # j => msgs'[i] = msgs[i]
    BY <1>0, <2>1 DEF TypeInv, TypeOK
  <2>3. /\ \A i \in Pending' : i \in Slots /\ (i = j \/ (i \in Pending /\ i < j))
        /\ \A i \in Pending : i \in Pending' /\ i < j /\ i \in Slots
        /\ j \in Pending'
    BY <1>0, <2>1 DEF Pending, Slots
  <2>4. \A n \in shown + 1 .. added' : n \in lost' \/ \E i \in Pending' : msgs'[i].id = n
    <3> TAKE n \in shown + 1 .. added'
    <3>1. CASE n = added + 1
      BY <2>2, <2>3, <3>1
    <3>2. CASE n \in shown + 1 .. added
      <4>1. CASE n \in lost
        BY <2>1, <4>1
      <4>2. ASSUME NEW i \in Pending, msgs[i].id = n
            PROVE  msgs'[i].id = n /\ i \in Pending'
        BY <1>0, <2>2, <2>3, <4>2
      <4> QED
        BY <3>2, <4>1, <4>2 DEF QueueOrder
    <3> QED
      BY <1>0, <3>1, <3>2
  <2>5. \A i \in Pending' : shown < msgs'[i].id
    BY <1>0, <2>2, <2>3 DEF QueueOrder
  <2>6. \A i, l \in Pending' : i < l => msgs'[i].id < msgs'[l].id
    <3> SUFFICES ASSUME NEW i \in Pending', NEW l \in Pending', i < l
                 PROVE  msgs'[i].id < msgs'[l].id
      OBVIOUS
    <3>1. i \in Pending /\ i < j /\ i \in Slots /\ msgs'[i] = msgs[i]
      BY <1>0, <2>2, <2>3 DEF Slots
    <3>2. CASE l = j
      BY <1>0, <1>1, <2>2, <3>1, <3>2
    <3>3. CASE l \in Pending /\ l < j
      <4>1. msgs'[l] = msgs[l]
        BY <1>0, <2>2, <2>3, <3>3 DEF Slots
      <4> QED
        BY <3>1, <3>3, <4>1 DEF QueueOrder
    <3> QED
      BY <2>3, <3>2, <3>3
  <2> QED
    BY <2>4, <2>5, <2>6 DEF QueueOrder
<1> QED
  BY <1>0, <1>2, <1>3

(* A turn of the timer: the next message is the first that waits.          *)
LEMMA DisplayOrder ==
  ASSUME TypeInv, QueueOrder, NotifCallback
  PROVE  /\ QueueOrder'
         /\ shown' # shown =>
              shown' > shown /\ (shown + 1 .. shown' - 1) \subseteq lost
<1> DEFINE x == msgs[index_e].id
<1>0. /\ index \in 0 .. ShmSize /\ index_e \in 0 .. index /\ index # index_e
      /\ added \in Nat /\ shown \in 0 .. added
      /\ shown' = x /\ index_e' = index_e + 1 
      /\ UNCHANGED <<msgs, index, added, lost, ready>>
  BY DEF NotifCallback, TypeInv, TypeOK, Display
<1>1. /\ index_e \in Pending /\ index_e \in Slots
      /\ \A i \in Pending : i = index_e \/ (i \in Pending' /\ index_e < i)
      /\ \A i \in Pending' : i \in Pending /\ index_e < i
  BY <1>0 DEF Pending, Slots
<1>2. x \in Nat /\ x <= added
  <2>1. msgs[index_e] \in Message /\ x <= added
    BY <1>1 DEF TypeInv, TypeOK, SlotsKnown
  <2> QED
    BY <2>1 DEF Message
<1>3. CASE ~ready
  <2>1. x = 0 /\ shown = 0 /\ added = 0
    BY <1>1, <1>3 DEF QueueOrder, TypeInv, AskingIsReady
  <2> QED
    BY <1>0, <1>3, <2>1 DEF QueueOrder
<1>4. CASE ready
  <2>1. shown < x /\ \A i \in Pending : i = index_e \/ x < msgs[i].id
    BY <1>1, <1>4 DEF QueueOrder
  <2>2. \A n \in shown + 1 .. x - 1 : n \in lost
    <3> TAKE n \in shown + 1 .. x - 1
    <3>1. n \in shown + 1 .. added /\ n < x
      BY <1>0, <1>2
    <3>2. ASSUME NEW i \in Pending, msgs[i].id = n
          PROVE  FALSE
      BY <1>0, <1>2, <2>1, <3>1, <3>2
    <3> QED
      BY <3>1, <3>2 DEF QueueOrder
  <2>3. \A n \in x + 1 .. added : n \in lost \/ \E i \in Pending' : msgs[i].id = n
    <3> TAKE n \in x + 1 .. added
    <3>1. n \in shown + 1 .. added /\ n > x
      BY <1>0, <1>2, <2>1
    <3>2. ASSUME NEW i \in Pending, msgs[i].id = n
          PROVE  i \in Pending'
      BY <1>1, <1>2, <3>1, <3>2
    <3> QED
      BY <3>1, <3>2 DEF QueueOrder
  <2>4. QueueOrder'
    BY <1>0, <1>1, <1>4, <2>1, <2>3 DEF QueueOrder
  <2> QED
    BY <1>0, <2>1, <2>2, <2>4
<1> QED
  BY <1>3, <1>4

(* Each step keeps the order of the queue.                                 *)
LEMMA NextOrder ==
  ASSUME TypeInv, QueueOrder, [Next]_vars
  PROVE  /\ QueueOrder'
         /\ shown' # shown =>
              shown' > shown /\ (shown + 1 .. shown' - 1) \subseteq lost
<1>1. CASE Start
  <2>1. /\ index' = 0 /\ index_e' = 0 /\ ready' /\ UNCHANGED <<shown, added, lost>>
        /\ shown = 0 /\ added = 0
    BY <1>1 DEF Start, QueueOrder, TypeInv, AskingIsReady
  <2>2. Pending' = {}
    BY <2>1 DEF Pending
  <2> QED
    BY <2>1, <2>2 DEF QueueOrder
<1>2. CASE Notify
  <2>1. ready /\ ready' /\ shown' = shown /\ add_message("notif", 0)
    BY <1>2 DEF Notify
  <2> QED
    BY <2>1, AddOrder
<1>3. CASE Ask
  <2>1. ready /\ ready' /\ shown' = shown /\ add_message("assistance", prompt + 1)
    BY <1>3 DEF Ask
  <2> QED
    BY <2>1, AddOrder
<1>4. CASE Resolve
  <2>1. ready /\ ready' /\ shown' = shown
    BY <1>4 DEF Resolve, TypeInv, AskingIsReady
  <2>2. CASE \E type \in Kinds : add_message(type, 0)
    BY <2>1, <2>2, AddOrder
  <2>3. CASE UNCHANGED <<shm, added, lost>>
    BY <2>1, <2>3 DEF shm, QueueOrder, Pending
  <2> QED
    BY <1>4, <2>2, <2>3 DEF Resolve, Kinds
<1>5. CASE NotifCallback
  BY <1>5, DisplayOrder
<1>6. CASE (\E a \in Answers : Answer(a)) \/ GtkRestart \/ UNCHANGED vars
  <2>1. UNCHANGED <<msgs, index, index_e, ready, added, shown, lost>>
    BY <1>6 DEF Answer, GtkRestart, vars, shm
  <2> QED
    BY <2>1 DEF QueueOrder, Pending
<1> QED
  BY <1>1, <1>2, <1>3, <1>4, <1>5, <1>6 DEF Next

(* The screen shows the messages in order, none twice, and none is skipped *)
(* but those that found the queue full.                                    *)
THEOREM DisplayedInOrder == Spec => MessagesInOrder
<1>1. Spec => [](TypeInv /\ QueueOrder)
  BY InitOrder, NextOrder, OutcomesInvariant, PTL DEF Spec
<1>2. ASSUME TypeInv, QueueOrder, [Next]_vars
      PROVE  [ shown' # shown =>
                 shown' > shown /\ (shown + 1 .. shown' - 1) \subseteq lost ]_vars
  BY <1>2, NextOrder
<1> QED
  BY <1>1, <1>2, PTL DEF Spec, MessagesInOrder
=============================================================================
