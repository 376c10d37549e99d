------------------------------ MODULE MCSafety ------------------------------
(* Every case of the switch of da.cpp: the brake switch, the pedal, a pid  *)
(* that no case knows, and an acceleration, which has samples for a crash, *)
(* a record that ends, and a second crash.                                 *)
EXTENDS Safety, TLC

MCAxes == {"long"}
MCSeries == {"brake", "acc_long"}
MCSeriesOf ==
  [brake   |-> {"brake"},
   pedal   |-> {},
   unknown |-> {},
   long    |-> {"acc_long"}]
MCPids == DOMAIN MCSeriesOf
MCMaxSamples == [brake |-> 3, pedal |-> 1, unknown |-> 1, long |-> 6]
MCSymmetry == Permutations(Threads)
MCEndThreshold == Cardinality(MCSeries)
=============================================================================
