------------------------------- MODULE S3IrpMC -------------------------------
(***************************************************************************)
(* Small sets of requests for the driver.  w1 to w4 are writes, r1 is a    *)
(* read.  A request fits one pass, unless Mixed makes w2 need two and w3   *)
(* exceed MaxTransfer.  Requests of the same length and direction are      *)
(* interchangeable.                                                        *)
(***************************************************************************)
EXTENDS S3Irp

CONSTANTS w1, w2, w3, w4, r1

OneWay == [i \in Irps |-> "write"]
TwoWay == [i \in Irps |-> IF i = r1 THEN "read" ELSE "write"]
OnePass == [i \in Irps |-> 1]
Mixed == [i \in Irps |-> CASE i = w2 -> 2 [] i = w3 -> 3 [] OTHER -> 1]
Symmetry == Permutations(Irps)
=============================================================================
