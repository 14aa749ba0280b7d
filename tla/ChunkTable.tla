----------------------------- MODULE ChunkTable -----------------------------
(***************************************************************************)
(* The rows of the State DB table migration_chunks, and what each SQL      *)
(* statement of workers/common.py, backend/services/job_queue.py and the   *)
(* retry-chunks route does to one row.                                     *)
(*                                                                         *)
(* A row keeps its status, its retry_count and the age of claimed_at:      *)
(* "null", "fresh", or "stale" once it is older than _STALE_AFTER_MINUTES. *)
(* worker_id, rows_loaded, started_at and error_text are written but never *)
(* read by the queue, so they are left out: no statement asks WHO owns a   *)
(* chunk.                                                                  *)
(***************************************************************************)
EXTENDS Naturals

CONSTANT MaxRetries   \* _MAX_RETRIES of workers/common.py (3)

ASSUME MaxRetriesAssumption == MaxRetries \in Nat

Statuses == {"PENDING", "CLAIMED", "RUNNING", "DONE", "FAILED", "CANCELLED"}
Ages == {"null", "fresh", "stale"}
Row == [status : Statuses, claimed_at : Ages, retries : 0 .. MaxRetries]

\* INSERT INTO migration_chunks: every other column takes its default.
NewRow == [status |-> "PENDING", claimed_at |-> "null", retries |-> 0]

Active(r) == r.status \in {"CLAIMED", "RUNNING"}

ClaimRow(r) == [r EXCEPT !.status = "CLAIMED", !.claimed_at = "fresh"]

\* Neither the status nor the owner is checked: a row in any status becomes
\* RUNNING.
ProgressRow(r) == [r EXCEPT !.status = "RUNNING"]

CompleteRow(r) == [r EXCEPT !.status = "DONE"]

CancelRow(r) ==
  IF r.status \in {"PENDING", "CLAIMED", "RUNNING"}
  THEN [r EXCEPT !.status = "CANCELLED"] ELSE r

FailPermanentRow(r) == [r EXCEPT !.status = "FAILED"]

\* Mutant of FailRow: one retry too many.
FailRowOffByOne(r) ==
  IF r.retries <= MaxRetries
  THEN [status |-> "PENDING", claimed_at |-> "null", retries |-> r.retries + 1]
  ELSE FailPermanentRow(r)

FailRow(r) ==
  IF r.retries < MaxRetries
  THEN [status |-> "PENDING", claimed_at |-> "null", retries |-> r.retries + 1]
  ELSE FailPermanentRow(r)

\* Mutant of ResetStaleRow: chunks already RUNNING are forgotten.
ResetStaleClaimedRow(r) ==
  IF r.status = "CLAIMED" /\ r.claimed_at = "stale"
  THEN [r EXCEPT !.status = "PENDING", !.claimed_at = "null"] ELSE r

\* Mutant of ResetStaleRow: the age of the claim is not looked at.
ResetActiveRow(r) ==
  IF Active(r) THEN [r EXCEPT !.status = "PENDING", !.claimed_at = "null"] ELSE r

ResetStaleRow(r) ==
  IF Active(r) /\ r.claimed_at = "stale"
  THEN [r EXCEPT !.status = "PENDING", !.claimed_at = "null"] ELSE r

RetryRow(r) == IF r.status = "FAILED" THEN NewRow ELSE r

=============================================================================
