---------------------------- MODULE MCCanStream ----------------------------
EXTENDS CanStream, TLC

Frac == {0, 1, 10, 50, 500, 5000, 1234, 9990, 9999}

(* Numbers at the borders of the format.                                   *)
Border ==
  [negative : BOOLEAN, whole : {0, 1, 999, 1000, 9999, 10000, 32767},
   frac : Frac, short : BOOLEAN]

ASSUME BorderRoundTrip ==
  \A v \in Border : hex_get_float(to_hex_string(v)) = Tenthousandths(v) <=> Exact(v)

Speed == [negative |-> FALSE, whole |-> 31, frac |-> 1234, short |-> TRUE]
Angle == [negative |-> TRUE, whole |-> 12, frac |-> 1234, short |-> FALSE]

(* Two samples, one with a pid no char can hold, a frame without a pid,    *)
(* and a line that is none.                                                *)
SomeTraffic ==
  {[pid |-> 13, number |-> Speed, valid |-> TRUE],
   [pid |-> 269, number |-> Angle, valid |-> TRUE],
   [pid |-> 0, number |-> Speed, valid |-> TRUE],
   [pid |-> 0, number |-> Speed, valid |-> FALSE]}
=============================================================================
