------------------------ MODULE DriverAssist_proofs ------------------------
(***************************************************************************)
(* Proofs about the driver assistance, for every limit, cooldown and step, *)
(* and for every number of restarts of the safety thread.                  *)
(***************************************************************************)
EXTENDS DriverAssist, TLAPS

(* The types of the variables hold in every reachable state.               *)
THEOREM TypeCorrect == Spec => []TypeOK
<1>1. Init => TypeOK
  <2> SUFFICES ASSUME Init PROVE TypeOK
    OBVIOUS
  <2>1. break_count \in -1 .. BrakeCooldown /\ quiet \in 0 .. BrakeCooldown + 1
    BY BrakeAssumption DEF Init
  <2>2. sent \in SUBSET Mails /\ cautioned \in BOOLEAN
    BY DEF Init
  <2>3. streak \in 0 .. releases /\ releases \in Nat
    BY DEF Init
  <2>4. brake \in Int /\ acc_pedal \in Nat
    BY DEF Init
  <2>5. breakp \in {0, 1} /\ acc_pedal_toggle \in {0, 1} /\ speed_shift \in {0, 1}
    BY DEF Init
  <2> QED
    BY <2>1, <2>2, <2>3, <2>4, <2>5 DEF TypeOK
<1>2. TypeOK /\ [Next]_vars => TypeOK'
  <2> SUFFICES ASSUME TypeOK, [Next]_vars
               PROVE  TypeOK'
    OBVIOUS
  <2> USE BrakeAssumption, PedalAssumption, HistoryBound DEF TypeOK, Mails
  <2>1. CASE BrakePressed
    BY <2>1 DEF BrakePressed, pedalVars
  <2>2. CASE BrakeReleased
    BY <2>2 DEF BrakeReleased, pedalVars
  <2>3. CASE BrakeIdle
    BY <2>3 DEF BrakeIdle, pedalVars
  <2>4. ASSUME NEW hard \in BOOLEAN, Pedal(hard)
        PROVE  TypeOK'
    BY <2>4 DEF Pedal, PedalCount, brakeVars
  <2>5. ASSUME NEW crash \in BOOLEAN, Acceleration(crash)
        PROVE  TypeOK'
    BY <2>5 DEF Acceleration, brakeVars, pedalVars
  <2>6. CASE Other
    BY <2>6 DEF Other, brakeVars, pedalVars
  <2>7. CASE Restart
    BY <2>7 DEF Restart, pedalVars
  <2>8. CASE UNCHANGED vars
    BY <2>8 DEF vars, brakeVars, pedalVars
  <2> QED
    BY <2>1, <2>2, <2>3, <2>4, <2>5, <2>6, <2>7, <2>8 DEF Next, Brake
<1> QED
  BY <1>1, <1>2, PTL DEF Spec

(* brake survives neither a restart nor a caution, break_count survives    *)
(* both, and still brake never goes below -1 nor beyond the limit: it is   *)
(* decremented at most once between two releases.                          *)
BrakeInRange == brake \in -1 .. BrakeLimit

-----------------------------------------------------------------------------
(* brake counts the brakings: a braking in progress has not reached the    *)
(* limit (the press that reaches it resets the count), and a braking that  *)
(* can still be forgiven has been counted, so forgiving it stays above -1. *)
(* quiet is the part of the cooldown that break_count has used up.         *)
BrakeInv ==
  /\ BrakeInRange
  /\ BrakeCountsBrakings
  /\ breakp = 1 => brake < BrakeLimit
  /\ break_count >= 0 => brake >= 0 /\ brake >= streak - 1
  /\ break_count >= 0 => quiet = BrakeCooldown - break_count
  /\ break_count < 0 => quiet = BrakeCooldown + 1

(* Each step keeps the invariant of the brake.                             *)
LEMMA BrakeInvStep == TypeOK /\ BrakeInv /\ [Next]_vars => BrakeInv'
<1> SUFFICES ASSUME TypeOK, BrakeInv, [Next]_vars
             PROVE  BrakeInv'
  OBVIOUS
<1> USE BrakeAssumption
    DEF TypeOK, BrakeInv, BrakeInRange, BrakeCountsBrakings
<1>1. CASE BrakePressed
  BY <1>1 DEF BrakePressed
<1>2. CASE BrakeReleased
  BY <1>2 DEF BrakeReleased
<1>3. CASE BrakeIdle
  BY <1>3 DEF BrakeIdle
<1>4. ASSUME NEW hard \in BOOLEAN, Pedal(hard)
      PROVE  BrakeInv'
  BY <1>4 DEF Pedal, brakeVars
<1>5. ASSUME NEW crash \in BOOLEAN, Acceleration(crash)
      PROVE  BrakeInv'
  BY <1>5 DEF Acceleration, brakeVars
<1>6. CASE Other
  BY <1>6 DEF Other, brakeVars
<1>7. CASE Restart
  BY <1>7 DEF Restart
<1>8. CASE UNCHANGED vars
  BY <1>8 DEF vars, brakeVars
<1> QED
  BY <1>1, <1>2, <1>3, <1>4, <1>5, <1>6, <1>7, <1>8 DEF Next, Brake

(* The invariant of the brake holds always.                                *)
LEMMA BrakeInvariant == Spec => []BrakeInv
<1>1. Init => BrakeInv
  BY BrakeAssumption
  DEF Init, BrakeInv, BrakeInRange, BrakeCountsBrakings
<1> QED
  BY <1>1, BrakeInvStep, TypeCorrect, PTL DEF Spec

(* brake stays between -1 and the limit, restarts included.                *)
THEOREM BrakeRange == Spec => []BrakeInRange
<1>1. BrakeInv => BrakeInRange
  BY DEF BrakeInv
<1> QED
  BY <1>1, BrakeInvariant, PTL

(* brake lies between the recent brakings, less one, and the brakings      *)
(* since the last caution.                                                 *)
THEOREM BrakeCounts == Spec => []BrakeCountsBrakings
<1>1. BrakeInv => BrakeCountsBrakings
  BY DEF BrakeInv
<1> QED
  BY <1>1, BrakeInvariant, PTL

(* The braking caution is sent for BrakeLimit brakings at least, and for   *)
(* BrakeLimit + 1 brakings in quick succession without fail.               *)
THEOREM BrakeCaution == Spec => BrakeCautionIsRight
<1> DEFINE Right ==
      /\ breakp' = 1 /\ sent' = {"brake"} => releases >= BrakeLimit
      /\ BrakePressed /\ streak > BrakeLimit => sent' = {"brake"}
<1>1. TypeOK /\ BrakeInv /\ [Next]_vars => [Right]_vars
  <2> SUFFICES ASSUME TypeOK, BrakeInv, Next
               PROVE  Right
    BY DEF vars
  <2> USE BrakeAssumption DEF TypeOK, BrakeInv, BrakeCountsBrakings
  <2>1. CASE BrakePressed
    BY <2>1 DEF BrakePressed
  <2>2. CASE BrakeReleased
    BY <2>2 DEF BrakeReleased, BrakePressed
  <2>3. CASE BrakeIdle
    BY <2>3 DEF BrakeIdle, BrakePressed
  <2>4. ASSUME NEW hard \in BOOLEAN, Pedal(hard)
        PROVE  Right
    BY <2>4 DEF Pedal, PedalCount, brakeVars, BrakePressed
  <2>5. ASSUME NEW crash \in BOOLEAN, Acceleration(crash)
        PROVE  Right
    BY <2>5 DEF Acceleration, brakeVars, BrakePressed
  <2>6. CASE Other
    BY <2>6 DEF Other, brakeVars, BrakePressed
  <2>7. CASE Restart
    BY <2>7 DEF Restart, BrakePressed
  <2> QED
    BY <2>1, <2>2, <2>3, <2>4, <2>5, <2>6, <2>7 DEF Next, Brake
<1> QED
  BY <1>1, BrakeInvariant, TypeCorrect, PTL DEF Spec, BrakeCautionIsRight

-----------------------------------------------------------------------------
(* The accelerator caution of da.cpp can never be sent, whatever the       *)
(* driver does, as long as PedalStep is less than PedalLimit.              *)
THEOREM PedalDead == Spec => []PedalNeverCautions
<1>1. Init => PedalNeverCautions
  BY PedalAssumption DEF Init, PedalNeverCautions
<1>2. TypeOK /\ PedalNeverCautions /\ [Next]_vars => PedalNeverCautions'
  <2> SUFFICES ASSUME TypeOK, PedalNeverCautions, [Next]_vars
               PROVE  PedalNeverCautions'
    OBVIOUS
  <2> USE PedalAssumption DEF TypeOK, PedalNeverCautions
  <2>1. ASSUME NEW hard \in BOOLEAN, Pedal(hard)
        PROVE  PedalNeverCautions'
    BY <2>1 DEF Pedal, PedalCount
  <2>2. CASE UNCHANGED pedalVars
    BY <2>2 DEF pedalVars
  <2> QED
    BY <2>1, <2>2
    DEF Next, Brake, BrakePressed, BrakeReleased, BrakeIdle, Acceleration,
        Other, Restart, vars
<1> QED
  BY <1>1, <1>2, TypeCorrect, PTL DEF Spec
=============================================================================
