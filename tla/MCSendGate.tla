----------------------------- MODULE MCSendGate -----------------------------
(* Instances of SendGate for TLC.  Callers and chats are each interchangeable. *)
EXTENDS SendGate, TLC

CONSTANTS c1, c2, k1, ch1, ch2, x1      \* model values

Symmetry == Permutations(Caller) \cup Permutations(Chat)
=============================================================================
