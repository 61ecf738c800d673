--------------------------- MODULE MCEvidenceSpool ---------------------------
(* Instances of EvidenceSpool for TLC.                                        *)
EXTENDS EvidenceSpool

CONSTANTS o1, o2, f1, f2, f3, w1, r1       \* model values
=============================================================================
