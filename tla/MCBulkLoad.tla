----------------------------- MODULE MCBulkLoad -----------------------------
(* The bulk load of a table of two chunks by two workers; in the run with    *)
(* liveness a process dies or the operator asks for a retry, not both.       *)
EXTENDS BulkLoad

OneTrouble == asked' + deaths' <= 1
=============================================================================
