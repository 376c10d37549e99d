----------------------------- MODULE Safeguard -----------------------------
(***************************************************************************)
(* The supervisor, safeguard_run (safeguard/safeguard.cpp), with the       *)
(* signal handler of its threads (alarm/alarm.cpp) and the restart         *)
(* (threads/thread.cpp).  Once a second the main thread sends SIGALRM to   *)
(* every thread, sleeps, and checks which of them counted an answer.  A    *)
(* thread that was silent in more checks than its leniency is cancelled    *)
(* and created anew.                                                       *)
(*                                                                         *)
(* A thread handles its signal whenever it is scheduled, so in any step of *)
(* the main thread, or not before the next round; its handler first finds  *)
(* the thread's index and then counts the answer there.  Checks of one     *)
(* thread do not touch another's state: sending the signals is one step.   *)
(*                                                                         *)
(* The answers are counted in a size_t, which safeguard_check_responce     *)
(* copies through an int.  A size_t is a pair of words here: lo is what an *)
(* int can hold, hi the rest.                                              *)
(***************************************************************************)
EXTENDS Integers

CONSTANTS
  d_size,       \* number of threads whose argument is in the array d
  size,         \* number of threads
  leniency,     \* leniency[k], silent checks forgiven to thread k
  Returning,    \* threads whose function can return (the broker's, at EOF)
  Half, Words   \* a word has 2 * Half values (2^32) and a size_t Words times
                \* as many (2^64): an int is below Half, or negative

Indices == 0 .. size - 1

ASSUME SizeAssumption == d_size \in Nat \ {0} /\ size \in Nat \ {0} /\ d_size <= size
ASSUME LeniencyAssumption == leniency \in [Indices -> Nat]
ASSUME ReturningAssumption == Returning \subseteq Indices
ASSUME WidthAssumption == Half \in Nat /\ Half > 1 /\ Words \in Nat /\ Words > 1

VARIABLES
  pc,          \* the main thread
  k,           \* the thread it checks
  tickcount,   \* tickcount[k], silent checks counted
  seen,        \* keep_alive[k][0], the answers of k at its last check
  answers,     \* keep_alive[k][1], the answers of k
  pending,     \* SIGALRM sent to k, whose handler has not begun
  handler,     \* the handler that has found the index k and not yet counted:
               \* that of thread k, that of a predecessor ("stray"), or "none"
  alive,       \* the thread the safeguard knows as k runs
  crashed,     \* set by the logger when a crash record is complete
  made,        \* made[k], the function and the argument thread k was created with
  late,        \* history: checks, since k was created, of k alive and late
  gone         \* history: checks, since k returned, of k

main    == <<pc, k>>
history == <<late, gone>>
keep_alive == <<seen, answers>>
signals == <<pending, handler>>
vars == <<main, tickcount, keep_alive, signals, alive, crashed, made, history>>

Word == 2 * Half

Counters == [hi : 0 .. Words - 1, lo : 0 .. Word - 1]

Zero == [hi |-> 0, lo |-> 0]

Inc(n) ==
  IF n.lo + 1 < Word
    THEN [n EXCEPT !.lo = @ + 1]
    ELSE [hi |-> IF n.hi + 1 = Words THEN 0 ELSE n.hi + 1, lo |-> 0]

(* A size_t converted to an int and back: the sign fills the high word.    *)
AsInt(n) == [n EXCEPT !.hi = IF n.lo < Half THEN 0 ELSE Words - 1]

(* The box of thread k is an entry of d, or box k - d_size + 3 of the      *)
(* office, after those of the postman, the logger and the safety thread.   *)
box_offset == 3

ArgOf(i) == IF i < d_size THEN [d |-> i] ELSE [box |-> i - d_size + box_offset]

Created(i) == [func |-> i, arg |-> ArgOf(i)]

(* safeguard_restart_thread and threadsr: the index of the function and    *)
(* the argument a restart passes to the new thread.                        *)
Recreated(i) ==
  IF i > d_size THEN [func |-> d_size + i, arg |-> [box |-> 2 + i - 1]]
  ELSE [func |-> i, arg |-> [d |-> i]]

Init ==
  /\ pc = "round"
  /\ k = 0
  /\ tickcount = [i \in Indices |-> 0]
  /\ seen = [i \in Indices |-> Zero]
  /\ answers = [i \in Indices |-> Zero]
  /\ pending = [i \in Indices |-> FALSE]
  /\ handler = [i \in Indices |-> "none"]
  /\ alive = [i \in Indices |-> TRUE]
  /\ crashed = FALSE
  /\ made = [i \in Indices |-> Created(i)]
  /\ late = [i \in Indices |-> 0]
  /\ gone = [i \in Indices |-> 0]

-----------------------------------------------------------------------------
(* The histories stop where they say nothing more.                         *)
Counted(h, i, spare) ==
  [h EXCEPT ![i] = IF @ > leniency[i] + spare THEN @ ELSE @ + 1]

(* The next turn of the loop, or its end.                                  *)
Next_k ==
  \/ k + 1 < size /\ pc' = "check" /\ k' = k + 1
  \/ k + 1 = size /\ pc' = "round" /\ k' = 0

(* Mutant: the end of the record is not looked at.                         *)
RoundForEver ==
  /\ pc = "round"
  /\ pending' = alive
  /\ pc' = "check"
  /\ UNCHANGED <<k, tickcount, keep_alive, handler, alive, crashed, made, history>>

(* safeguard_run: a round begins, unless the crash is recorded.  A thread  *)
(* that has returned gets no signal.                                       *)
Round ==
  /\ pc = "round"
  /\ \/ /\ crashed
        /\ pc' = "stopped"
        /\ UNCHANGED pending
     \/ /\ ~crashed
        /\ pc' = "check"
        /\ pending' = alive
  /\ UNCHANGED <<k, tickcount, keep_alive, handler, alive, crashed, made, history>>

(* pthread_sigalrm_handler, in thread i: it finds its tid in the array     *)
(* (one handler at a time for an index is the bound here),                 *)
Find(i) ==
  /\ pending[i] /\ alive[i] /\ handler[i] = "none"
  /\ pending' = [pending EXCEPT ![i] = FALSE]
  /\ handler' = [handler EXCEPT ![i] = "own"]
  /\ UNCHANGED <<main, tickcount, keep_alive, alive, crashed, made, history>>

(* and counts, in safeguard_update_keep_alive, for the thread that has the *)
(* index by then.                                                          *)
Answer(i) ==
  /\ handler[i] # "none"
  /\ handler' = [handler EXCEPT ![i] = "none"]
  /\ answers' = [answers EXCEPT ![i] = Inc(@)]
  /\ UNCHANGED <<main, tickcount, seen, pending, alive, crashed, made, history>>

Answered(i) == seen[i] # answers[i]

(* Mutant: a thread is restarted one check late.                           *)
ExceededLate(i) == tickcount[i] > leniency[i]

(* The ticks, this check's included, exceed the leniency.                  *)
Exceeded(i) == tickcount[i] + 1 > leniency[i]

(* safeguard_check_responce: compare the counters of thread k.             *)
Check ==
  /\ pc = "check"
  /\ late' = IF alive[k] /\ (pending[k] \/ handler[k] = "own") THEN Counted(late, k, 0) ELSE late
  /\ gone' = IF ~alive[k] THEN Counted(gone, k, 3) ELSE gone
  /\ \/ /\ Answered(k)
        /\ pc' = "store"
        /\ UNCHANGED <<k, tickcount>>
     \/ /\ ~Answered(k)
        /\ tickcount' = [tickcount EXCEPT ![k] = @ + 1]
        /\ \/ Exceeded(k) /\ pc' = "restart" /\ UNCHANGED k
           \/ ~Exceeded(k) /\ Next_k
  /\ UNCHANGED <<keep_alive, signals, alive, crashed, made>>

(* Mutant: the answers seen are not stored.                                *)
StoreNothing ==
  /\ pc = "store"
  /\ Next_k
  /\ UNCHANGED <<tickcount, keep_alive, signals, alive, crashed, made, history>>

(* safeguard_check_responce: the answers are loaded again, one that came   *)
(* since the comparison included, into the int tmp, and stored as seen.    *)
Store ==
  /\ pc = "store"
  /\ seen' = [seen EXCEPT ![k] = AsInt(answers[k])]
  /\ Next_k
  /\ UNCHANGED <<tickcount, answers, signals, alive, crashed, made, history>>

(* Mutant: the ticks of the old thread are held against the new one.       *)
RestartKeepsTicks ==
  /\ pc = "restart"
  /\ made' = [made EXCEPT ![k] = Recreated(k)]
  /\ IF Recreated(k) = Created(k) THEN Next_k ELSE pc' = "undefined" /\ UNCHANGED k
  /\ pending' = [pending EXCEPT ![k] = FALSE]
  /\ handler' = [handler EXCEPT ![k] = IF @ = "own" THEN "stray" ELSE @]
  /\ alive' = [alive EXCEPT ![k] = TRUE]
  /\ late' = [late EXCEPT ![k] = 0]
  /\ gone' = [gone EXCEPT ![k] = 0]
  /\ UNCHANGED <<tickcount, keep_alive, crashed>>

(* safeguard_check_responce: report and restart thread k.  A signal that   *)
(* the old thread has not handled is lost, for its handler finds no index  *)
(* any more, unless it has found it already.  An index or an argument out  *)
(* of bounds is undefined, and nothing sensible follows.                   *)
Restart ==
  /\ pc = "restart"
  /\ made' = [made EXCEPT ![k] = Recreated(k)]
  /\ IF Recreated(k) = Created(k) THEN Next_k ELSE pc' = "undefined" /\ UNCHANGED k
  /\ tickcount' = [tickcount EXCEPT ![k] = 0]
  /\ pending' = [pending EXCEPT ![k] = FALSE]
  /\ handler' = [handler EXCEPT ![k] = IF @ = "own" THEN "stray" ELSE @]
  /\ alive' = [alive EXCEPT ![k] = TRUE]
  /\ late' = [late EXCEPT ![k] = 0]
  /\ gone' = [gone EXCEPT ![k] = 0]
  /\ UNCHANGED <<keep_alive, crashed>>

(* can_run_receive: the stream ends, and with it the thread.               *)
Return(i) ==
  /\ i \in Returning
  /\ alive[i] /\ handler[i] # "own"
  /\ alive' = [alive EXCEPT ![i] = FALSE]
  /\ pending' = [pending EXCEPT ![i] = FALSE]
  /\ UNCHANGED <<main, tickcount, keep_alive, handler, crashed, made, history>>

(* logger: the end of a crash record.                                      *)
RecordEnds ==
  /\ crashed' = TRUE
  /\ UNCHANGED <<main, tickcount, keep_alive, signals, alive, made, history>>

Main == Round \/ Check \/ Store \/ Restart

Next ==
  \/ Main
  \/ RecordEnds
  \/ \E i \in Indices : Find(i) \/ Answer(i) \/ Return(i)

Spec == Init /\ [][Next]_vars

(* The main thread runs; no other thread needs to.                         *)
FairSpec == Spec /\ WF_vars(Main)

-----------------------------------------------------------------------------
(* The types of the variables; a thread's ticks stay within its leniency   *)
(* but for the moment before it is restarted.                              *)
TypeOK ==
  /\ pc \in {"round", "check", "store", "restart", "stopped", "undefined"}
  /\ k \in Indices
  /\ tickcount \in [Indices -> Nat]
  /\ \A i \in Indices :
       \/ tickcount[i] <= leniency[i]
       \/ pc = "restart" /\ k = i /\ tickcount[i] = leniency[i] + 1
  /\ seen \in [Indices -> Counters]
  /\ answers \in [Indices -> Counters]
  /\ pending \in [Indices -> BOOLEAN]
  /\ handler \in [Indices -> {"none", "own", "stray"}]
  /\ alive \in [Indices -> BOOLEAN]
  /\ crashed \in BOOLEAN
  /\ late \in [Indices -> Nat]
  /\ gone \in [Indices -> Nat]

(* The answers, with one more or one less, fit an int: so they do for the  *)
(* first 2^31 of them, 68 years.  Beyond, what Store keeps never equals    *)
(* them again, and the thread counts as answered in every check.           *)
Small(n) ==
  \/ n.hi = 0 /\ n.lo + 1 < Half
  \/ n.hi = Words - 1 /\ n.lo > Half

(* A thread that has returned is restarted at the latest after leniency+1  *)
(* silent checks, one that still saw an answer of it, and one that saw a   *)
(* stray answer, as long as its answers fit an int.                        *)
ReturnIsNoticed ==
  \A i \in Indices : Small(answers[i]) =>
    \/ gone[i] <= leniency[i] + 2
    \/ pc = "restart" /\ k = i /\ gone[i] = leniency[i] + 3

(* Every tick of a thread is a check it was late for, since it was         *)
(* created: no answer is lost between the counters, not even one that      *)
(* comes while they are compared, and none of the ticks is a predecessor's.*)
TicksAreEarned == \A i \in Indices : tickcount[i] <= late[i] + gone[i]

(* What the safeguard can restart, or the end of the program: a thread     *)
(* that returned is restarted, as long as its answers fit an int.          *)
ReturnedIsRestarted ==
  \A i \in Indices :
    ~alive[i] /\ Small(answers[i])
      ~> alive[i] \/ pc \in {"stopped", "undefined"}

(* The end of a crash record ends the program.                             *)
RecordEndsProgram == crashed ~> pc \in {"stopped", "undefined"}

-----------------------------------------------------------------------------
(* safeguard.cpp:164, "Restarting process: ", with the name of thread k:   *)
(* what is restarted is the function and the argument of that thread.      *)
RestartsWhatItNames == \A i \in Indices : made[i] = Created(i)
=============================================================================
