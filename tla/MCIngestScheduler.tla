-------------------------- MODULE MCIngestScheduler ---------------------------
(* Small instances of IngestScheduler for TLC. *)
EXTENDS IngestScheduler, TLC

CONSTANTS r1, r2, r3

===============================================================================
