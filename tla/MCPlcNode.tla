----------------------------- MODULE MCPlcNode -----------------------------
(* A small instance of PlcNode: two outputs, two calls, an HMI write, a mishap. *)
EXTENDS PlcNode

CONSTANTS CallCount, HmiCount, MishapCount

MCLimit ==
  [e \in Event |-> CASE e = "call" -> CallCount [] e = "hmi" -> HmiCount
                     [] e = "mishap" -> MishapCount]

=============================================================================
