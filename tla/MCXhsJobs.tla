----------------------------- MODULE MCXhsJobs -----------------------------
(* Model values for XhsJobs: which kind of job each worker asks for.        *)
EXTENDS XhsJobs, TLC

CONSTANTS w1, w2

MCLane == w1 :> "batch" @@ w2 :> ""
=============================================================================
