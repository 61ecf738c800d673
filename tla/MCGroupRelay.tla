---------------------------- MODULE MCGroupRelay ----------------------------
(* Instances of GroupRelay for TLC.                                           *)
EXTENDS GroupRelay, TLC

CONSTANTS t1, t2, h1, h2                   \* model values
=============================================================================
