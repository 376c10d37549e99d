---------------------------- MODULE MCSafeguard ----------------------------
EXTENDS Safeguard, TLC

(* The broker and the postman, both with an argument in d.                 *)
ServiceLeniency == (0 :> 1) @@ (1 :> 0)

(* The broker, with an argument in d, and the ui, without.                 *)
ProcessLeniency == (0 :> 1) @@ (1 :> 5)
=============================================================================
