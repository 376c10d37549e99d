------------------------------- MODULE Safety -------------------------------
(***************************************************************************)
(* The safety thread (safety/safety.cpp), call by call: its loop takes a   *)
(* sample and hands it to the update of the status, to the driver          *)
(* assistance, and to the log, in this order.  The assistance looks for    *)
(* the crash_status 1 that the update sets and the log makes 2; what it    *)
(* sends then is the request for help that ui and cellular act on, while   *)
(* the log sends the record of the same crash to the logger.               *)
(*                                                                         *)
(* The status is static, and there may be more than one thread: the        *)
(* safeguard cancels the thread and starts another, and the cancelled one  *)
(* lives on until the mutexes and semaphores of the receive let it block.  *)
(* Until then it goes through its calls, and through further samples that  *)
(* are in the box already, on the status that the new thread has zeroed    *)
(* and uses.                                                               *)
(*                                                                         *)
(* The recorder of SafetyStatus is extended, the assistance is D.  A call  *)
(* is one step.  Two threads within two calls at once race on plain        *)
(* variables and on buffers the new one has not allocated yet; that, and a *)
(* thread that ends within cpu_upd, is left out.                           *)
(***************************************************************************)
EXTENDS SafetyStatus

CONSTANTS
  Threads,             \* the threads that may run safety at the same time
  BrakePid, PedalPid,  \* CAN_DATA_BRAKE_SWITCH_VALUE, .._ACCELERATOR_PEDAL_..
  BrakeLimit, BrakeCooldown, PedalLimit, PedalStep,
  MaxReleases   \* the bound of DriverAssist

ASSUME PidAssumption ==
  BrakePid # PedalPid /\ {BrakePid, PedalPid} \cap Axes = {}

(* A record has more rows of each series than there are threads with a     *)
(* sample at hand.                                                         *)
ASSUME ThreadsAssumption ==
  IsFiniteSet(Threads) /\ Cardinality(Threads) <= AfterSize

VARIABLES
  brake, breakp, break_count, acc_pedal, acc_pedal_toggle, speed_shift,
  sent, releases, streak, quiet, cautioned,   \* DriverAssist
  call,      \* call[t]: what t does next; "none": there is no such thread
  pid,       \* pid[t]: in.info, the pid of t's sample in a turn
  current,   \* the thread that the safeguard started last
  asked,     \* history: the threads whose turn has sent ASSIST
  alone      \* history: since the turn under way began no other thread was in
             \* a turn, and none was started

D == INSTANCE DriverAssist

assistVars ==
  <<brake, breakp, break_count, acc_pedal, acc_pedal_toggle, speed_shift,
    sent, releases, streak, quiet, cautioned>>
safetyVars == <<vars, assistVars, call, pid, current, asked, alone>>

InTurn == {t \in Threads : call[t] \in {"assist", "log"}}

(* The pid of a thread that is in no turn does not matter.                 *)
AnyPid == CHOOSE p \in Pids : TRUE

SafetyInit ==
  /\ Init
  /\ D!Init
  /\ current \in Threads
  /\ call = [t \in Threads |-> IF t = current THEN "receive" ELSE "none"]
  /\ pid = [t \in Threads |-> AnyPid]
  /\ asked = {}
  /\ alone = FALSE

-----------------------------------------------------------------------------
(* MAIL_RECEIVE of a sample, and safety_status_update.                     *)
Update(t, p, shift) ==
  /\ call[t] = "receive"
  /\ mean_i[p] < MaxSamples[p]
  /\ shift \in Shifts(p)
  /\ call' = [call EXCEPT ![t] = "assist"]
  /\ pid' = [pid EXCEPT ![t] = p]
  /\ mean_i' = [mean_i EXCEPT ![p] = @ + 1]
  /\ cbuf' = Updated(p)
  /\ crash_status' = IF CrashDetected(shift) THEN 1 ELSE crash_status
  /\ alone' = (InTurn = {})
  /\ UNCHANGED <<logVars, dumpVars, restarts, assistVars, current, asked>>

(* safety_da_update: the case of its switch that the pid selects.          *)
Selected(p, crash) ==
  \/ p = BrakePid /\ D!Brake
  \/ p = PedalPid /\ \E hard \in BOOLEAN : D!Pedal(hard)
  \/ p \in Axes /\ D!Acceleration(crash)
  \/ p \notin Axes \cup {BrakePid, PedalPid} /\ D!Other

(* Mutant: the assistance comes after the log, and looks for its 2.        *)
AssistLate(t) ==
  /\ call[t] = "assist"
  /\ call' = [call EXCEPT ![t] = "log"]
  /\ Selected(pid[t], crash_status = 2)
  /\ asked' = IF "assist" \in sent' THEN asked \cup {t} ELSE asked
  /\ UNCHANGED <<vars, pid, current, alone>>

Assist(t) ==
  /\ call[t] = "assist"
  /\ call' = [call EXCEPT ![t] = "log"]
  /\ Selected(pid[t], crash_status = 1)
  /\ asked' = IF "assist" \in sent' THEN asked \cup {t} ELSE asked
  /\ UNCHANGED <<vars, pid, current, alone>>

(* safety_status_log, the end of the turn.                                 *)
Log(t) ==
  /\ call[t] = "log"
  /\ UNCHANGED <<mean_i, restarts, assistVars, current>>
  /\ call' = [call EXCEPT ![t] = "receive"]
  /\ \/ /\ crash_status = 0
        /\ UNCHANGED <<crash_status, logVars, dumpVars, cbuf>>
     \/ /\ crash_status = 1
        /\ Crash(cbuf)
     \/ /\ crash_status = 2
        /\ Record(pid[t])
        /\ UNCHANGED cbuf
  /\ pid' = [pid EXCEPT ![t] = AnyPid]
  /\ asked' = asked \ {t}
  /\ alone' = FALSE

(* A new thread begins at safety_status_init, wherever the others are.     *)
Begin(t) ==
  /\ call[t] = "none"
  /\ Restart
  /\ D!Restart
  /\ call' = [call EXCEPT ![t] = "receive"]
  /\ current' = t
  /\ alone' = FALSE
  /\ UNCHANGED <<pid, asked>>

(* A cancelled thread finds its box empty, and is gone.                    *)
End(t) ==
  /\ call[t] = "receive"
  /\ t # current
  /\ call' = [call EXCEPT ![t] = "none"]
  /\ UNCHANGED <<vars, assistVars, pid, current, asked, alone>>

SafetyNext ==
  \E t \in Threads :
    \/ \E p \in Pids : \E shift \in -1 .. 1 : Update(t, p, shift)
    \/ Assist(t)
    \/ Log(t)
    \/ Begin(t)
    \/ End(t)

SafetySpec == SafetyInit /\ [][SafetyNext]_safetyVars

-----------------------------------------------------------------------------
(* Every crash that is recorded is also brought to the driver's attention, *)
(* and exactly once, in the same turn (safety.cpp:39-43, da.cpp:86): the   *)
(* log of a turn sends CRASH_START if, and only if, its assistance has     *)
(* sent the request, unless the turn was overlapped by another thread's,   *)
(* or by its start.  speed_shift, which suppresses a second request, is    *)
(* always clear again by then: when the thread is restarted right after a  *)
(* crash and the stale value meets a status that has forgotten it, and     *)
(* after any overlapped turns, which leave nothing behind that a later one *)
(* could trip over.  A turn that is overlapped may record a crash without  *)
(* asking for help, or ask for help and record nothing.                    *)
OneRequestPerCrash ==
  [][ \A t \in Threads :
        Log(t) /\ alone => (starts' > starts <=> t \in asked) ]_safetyVars
=============================================================================
