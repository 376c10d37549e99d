--------------------------- MODULE MCSafetyStatus ---------------------------
(* One plain pid, one acceleration with two series, one with a single one. *)
(* MCMaxSamples leaves room for a record that ends and a second crash, and *)
(* for the rows that a second record does not get.                         *)
EXTENDS SafetyStatus

MCPids == {"brake", "long", "lat"}
MCAxes == {"long", "lat"}
MCSeries == {"brake", "acc_long", "cusum_h_acc_long", "acc_lat"}
MCSeriesOf ==
  [p \in MCPids |-> CASE p = "brake" -> {"brake"}
                      [] p = "long"  -> {"acc_long", "cusum_h_acc_long"}
                      [] p = "lat"   -> {"acc_lat"}]
MCMaxSamples == [brake |-> 6, long |-> 8, lat |-> 7]
MCEndThreshold == Cardinality(MCSeries)

-----------------------------------------------------------------------------
B(n) == INSTANCE CbufMail WITH Size <- n

(* The closed form of the dump, on which PreCrashRecord and the proofs     *)
(* rely, is what the loop of read_ahead does, from every index a buffer of *)
(* up to MaxSize slots can be left at by writes and dumps.                 *)
MaxSize == 8

ASSUME LoopIsClosedForm ==
  \A n \in 2 .. MaxSize : \A index \in 0 .. 3 * n + 1 : \A i \in 0 .. n :
    LET m == B(n)!DumpStart(index) IN B(n)!Loop(m)[i] = B(n)!AheadBy(m, i)
=============================================================================
