-------------------------- MODULE MCPositionRepair --------------------------
(* Instances of PositionRepair for TLC: the configurations give the readers  *)
(* and the kinds of positions.                                               *)
EXTENDS PositionRepair

CONSTANTS h1, h2, g1, t1, t2   \* model values
=============================================================================
