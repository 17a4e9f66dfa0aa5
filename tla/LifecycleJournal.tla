--------------------------- MODULE LifecycleJournal ---------------------------
(***************************************************************************)
(* What LifecycleOperationManager (lifecycle.py) writes about one durable  *)
(* operation.  checkpoint and record_failure both load the operation and   *)
(* at once replace it, on the condition that its updated_at is still the   *)
(* one just loaded.  A write whose condition held changes the record as    *)
(* these operators say; one whose condition failed raises and changes      *)
(* nothing, which is also what a failed save does.                         *)
(***************************************************************************)
EXTENDS Naturals

CONSTANT MaxRetries   \* LifecycleOperationManager.max_retries

OperationStatus ==
  {"pending", "running", "waiting_retry", "failed", "completed"}

\* retry_count is only ever compared with MaxRetries, so counting stops there.
RetryCount == 0..(MaxRetries + 1)

Operation(Payload) ==
  [status : OperationStatus, retries : RetryCount, payload : Payload]

\* create
NewOperation(payload) ==
  [status |-> "pending", retries |-> 0, payload |-> payload]

\* checkpoint(payload, status, retry_count = 0)
Checkpointed(payload) ==
  [status |-> "running", retries |-> 0, payload |-> payload]

\* Mutant of MarkedRunning: a status that no loader knows.
MarkedResuming(op) == [op EXCEPT !.status = "resuming"]

\* checkpoint(payload, status), the retry count staying as stored
Progressed(op, payload) == [op EXCEPT !.status = "running", !.payload = payload]

\* checkpoint(status), the payload and the retry count staying as stored
MarkedRunning(op) == [op EXCEPT !.status = "running"]

\* record_failure(payload, retryable)
FailureRecorded(op, payload, retryable) ==
  [status  |-> IF retryable /\ op.retries + 1 <= MaxRetries
               THEN "waiting_retry" ELSE "failed",
   retries |-> IF op.retries <= MaxRetries THEN op.retries + 1 ELSE op.retries,
   payload |-> payload]

\* Mutant of Incomplete: a failure is final.
NeitherCompletedNorFailed(op) == op.status \notin {"completed", "failed"}

\* load_incomplete: a failed operation still counts
Incomplete(op) == op.status # "completed"

=============================================================================
