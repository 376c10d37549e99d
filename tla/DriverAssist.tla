---------------------------- MODULE DriverAssist ----------------------------
(***************************************************************************)
(* The driver assistance of safety/da.cpp: safety_da_update, called by the *)
(* safety thread for every sample, between the update of the status and    *)
(* the log.  One action per case of its switch.                            *)
(*                                                                         *)
(* The static variables of da.cpp live as long as the process; brake is a  *)
(* field of the status, which a restarted safety thread zeroes.            *)
(***************************************************************************)
EXTENDS Integers

CONSTANTS
  BrakeLimit,     \* brakings before a caution (5)
  BrakeCooldown,  \* break_count after a release (40)
  PedalLimit,     \* the accelerator caution is meant beyond it (200)
  PedalStep,      \* what an answered or released pedal gives back (20)
  MaxReleases     \* bound on the brake releases

ASSUME BrakeAssumption ==
  /\ BrakeLimit \in Nat \ {0}
  /\ BrakeCooldown \in Nat

ASSUME PedalAssumption ==
  /\ PedalLimit \in Nat
  /\ PedalStep \in Nat \ {0}
  /\ PedalStep < PedalLimit

ASSUME HistoryBound == MaxReleases \in Nat

VARIABLES
  brake,             \* status->brake
  breakp,            \* the brake was pressed at the last brake sample
  break_count,       \* idle samples until a braking is forgiven
  acc_pedal,         \* the pedal's counter
  acc_pedal_toggle,  \* the pedal's caution was sent
  speed_shift,       \* the last acceleration sample sent the assist
  sent,              \* history: the mails the last step sent
  releases,          \* history: releases since the last brake caution
  streak,            \* history: of these, with no long idle run after them
  quiet,             \* history: idle samples since the last release
  cautioned          \* history: the pedal's caution came in the current run of
                     \* hard samples

brakeVars == <<brake, breakp, break_count, releases, streak, quiet>>
pedalVars == <<acc_pedal, acc_pedal_toggle, cautioned>>
vars == <<brakeVars, pedalVars, speed_shift, sent>>

Init ==
  /\ brake = 0
  /\ breakp = 0
  /\ break_count = -1
  /\ acc_pedal = 0
  /\ acc_pedal_toggle = 0
  /\ speed_shift = 0
  /\ sent = {}
  /\ releases = 0
  /\ streak = 0
  /\ quiet = BrakeCooldown + 1
  /\ cautioned = FALSE

-----------------------------------------------------------------------------
(* CAN_DATA_BRAKE_SWITCH_VALUE, pressed.                                   *)
BrakePressed ==
  /\ breakp' = 1
  /\ \/ /\ brake >= BrakeLimit
        /\ brake' = 0
        /\ sent' = {"brake"}
        /\ releases' = 0
        /\ streak' = 0
     \/ /\ brake < BrakeLimit
        /\ sent' = {}
        /\ UNCHANGED <<brake, releases, streak>>
  /\ UNCHANGED <<break_count, quiet, pedalVars, speed_shift>>

(* Mutant: every sample that is not pressed counts as a release.           *)
BrakeReleasedAlways ==
  /\ releases < MaxReleases
  /\ breakp' = 0
  /\ break_count' = BrakeCooldown
  /\ brake' = brake + 1
  /\ sent' = {}
  /\ releases' = IF breakp = 1 THEN releases + 1 ELSE releases
  /\ streak' = IF breakp = 1 THEN streak + 1 ELSE streak
  /\ quiet' = 0
  /\ UNCHANGED <<pedalVars, speed_shift>>

(* Mutant: the cooldown is one sample too long.                            *)
BrakeReleasedLate ==
  /\ breakp = 1
  /\ releases < MaxReleases
  /\ breakp' = 0
  /\ break_count' = BrakeCooldown + 1
  /\ brake' = brake + 1
  /\ sent' = {}
  /\ releases' = releases + 1
  /\ streak' = streak + 1
  /\ quiet' = 0
  /\ UNCHANGED <<pedalVars, speed_shift>>

(* The first sample that is not pressed: a braking is counted.             *)
BrakeReleased ==
  /\ breakp = 1
  /\ releases < MaxReleases
  /\ breakp' = 0
  /\ break_count' = BrakeCooldown
  /\ brake' = brake + 1
  /\ sent' = {}
  /\ releases' = releases + 1
  /\ streak' = streak + 1
  /\ quiet' = 0
  /\ UNCHANGED <<pedalVars, speed_shift>>

(* Mutant: a braking is forgiven by every idle sample after the cooldown.  *)
BrakeIdleForgivesAll ==
  /\ breakp = 0
  /\ break_count' = IF break_count < 0 THEN -1 ELSE break_count - 1
  /\ brake' = IF break_count <= 0 THEN brake - 1 ELSE brake
  /\ sent' = {}
  /\ quiet' = IF quiet > BrakeCooldown THEN quiet ELSE quiet + 1
  /\ streak' = IF quiet = BrakeCooldown THEN 0 ELSE streak
  /\ UNCHANGED <<breakp, releases, pedalVars, speed_shift>>

(* Further samples that are not pressed: after BrakeCooldown of them one   *)
(* braking is forgiven.  The count then stays negative until the next      *)
(* release; it stops at -1 here, where the code counts on.                 *)
BrakeIdle ==
  /\ breakp = 0
  /\ break_count' = IF break_count < 0 THEN -1 ELSE break_count - 1
  /\ brake' = IF break_count = 0 THEN brake - 1 ELSE brake
  /\ sent' = {}
  /\ quiet' = IF quiet > BrakeCooldown THEN quiet ELSE quiet + 1
  /\ streak' = IF quiet = BrakeCooldown THEN 0 ELSE streak
  /\ UNCHANGED <<breakp, releases, pedalVars, speed_shift>>

(* Mutant: the counter gives nothing back while the pedal is held hard.    *)
PedalHolds(hard) ==
  LET count   == IF hard THEN acc_pedal + 1 ELSE acc_pedal
      caution == hard /\ count > PedalLimit /\ acc_pedal_toggle = 0
      decay   == ~hard /\ count > PedalStep
  IN  /\ acc_pedal' = IF decay THEN count - PedalStep ELSE count
      /\ acc_pedal_toggle' = IF caution THEN 1
                             ELSE IF decay THEN 0 ELSE acc_pedal_toggle
      /\ sent' = IF caution THEN {"acc_pedal"} ELSE {}

(* CAN_DATA_ACCELERATOR_PEDAL_VALUE: && stops before the increment when    *)
(* the pedal is not hard, and every sample that sends no caution takes the *)
(* else branch.                                                            *)
PedalCount(hard) ==
  LET count   == IF hard THEN acc_pedal + 1 ELSE acc_pedal
      caution == hard /\ count > PedalLimit /\ acc_pedal_toggle = 0
      decay   == ~caution /\ count > PedalStep
  IN  /\ acc_pedal' = IF decay THEN count - PedalStep ELSE count
      /\ acc_pedal_toggle' = IF caution THEN 1
                             ELSE IF decay THEN 0 ELSE acc_pedal_toggle
      /\ sent' = IF caution THEN {"acc_pedal"} ELSE {}

Pedal(hard) ==
  /\ PedalCount(hard)
  /\ cautioned' = (hard /\ (cautioned \/ sent' = {"acc_pedal"}))
  /\ UNCHANGED <<brakeVars, speed_shift>>

(* The accelerations; crash: the assistance finds crash_status 1.          *)
Acceleration(crash) ==
  /\ UNCHANGED <<brakeVars, pedalVars>>
  /\ \/ /\ crash /\ speed_shift = 0
        /\ speed_shift' = 1
        /\ sent' = {"speed", "assist"}
     \/ /\ ~(crash /\ speed_shift = 0)
        /\ speed_shift' = 0
        /\ sent' = {}

(* CAN_DATA_VEHICLE_SPEED and pids that are not in can_data_t.             *)
Other ==
  /\ sent' = {}
  /\ UNCHANGED <<brakeVars, pedalVars, speed_shift>>

(* A new safety thread: safety_status_init zeroes brake, the statics stay. *)
Restart ==
  /\ brake' = 0
  /\ releases' = 0
  /\ streak' = 0
  /\ sent' = {}
  /\ UNCHANGED <<breakp, break_count, quiet, pedalVars, speed_shift>>

Brake == BrakePressed \/ BrakeReleased \/ BrakeIdle

Next ==
  \/ Brake
  \/ \E hard \in BOOLEAN : Pedal(hard)
  \/ \E crash \in BOOLEAN : Acceleration(crash)
  \/ Other
  \/ Restart

Spec == Init /\ [][Next]_vars

-----------------------------------------------------------------------------
Mails == {"brake", "acc_pedal", "speed", "assist"}

(* The types of the variables.  brake is an int, and does reach -1.        *)
TypeOK ==
  /\ brake \in Int
  /\ breakp \in {0, 1}
  /\ break_count \in -1 .. BrakeCooldown
  /\ acc_pedal \in Nat
  /\ acc_pedal_toggle \in {0, 1}
  /\ speed_shift \in {0, 1}
  /\ sent \in SUBSET Mails
  /\ releases \in Nat
  /\ streak \in 0 .. releases
  /\ quiet \in 0 .. BrakeCooldown + 1
  /\ cautioned \in BOOLEAN

(* brake tells how often the driver braked lately: never more than the     *)
(* releases since the last caution (or restart), and short of the releases *)
(* with no long idle run after them by at most the one that a braking      *)
(* forgiven after a restart can take.                                      *)
BrakeCountsBrakings == streak - 1 <= brake /\ brake <= releases

(* The caution for hard braking is never sent for fewer than BrakeLimit    *)
(* brakings since the last one, and always once the driver has braked      *)
(* BrakeLimit + 1 times with no long idle run between.                     *)
BrakeCautionIsRight ==
  [][ (breakp' = 1 /\ sent' = {"brake"} => releases >= BrakeLimit)
      /\ (BrakePressed /\ streak > BrakeLimit => sent' = {"brake"}) ]_vars

(* The else branch of the pedal gives back PedalStep as soon as the counter*)
(* passes PedalStep, so it never comes near PedalLimit: the caution of     *)
(* da.cpp:17, "excessive use of the accelator", is dead code.              *)
PedalNeverCautions == acc_pedal <= PedalStep /\ ~cautioned
=============================================================================
