---------------------------- MODULE MCIngestQueue ----------------------------
(* Instances of IngestQueue for TLC.                                          *)
EXTENDS IngestQueue, TLC

CONSTANTS h1, h2                           \* model values
=============================================================================
