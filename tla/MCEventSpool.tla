---------------------------- MODULE MCEventSpool ----------------------------
(* Instances of EventSpool for TLC.  Handlers are interchangeable; events are *)
(* not (Recallable and NonCommand name some of them).                         *)
EXTENDS EventSpool, TLC

CONSTANTS e1, e2, h1, h2       \* model values

Symmetry == Permutations(Handler)
=============================================================================
