----------------------------- MODULE RunStates -----------------------------
(***************************************************************************)
(* The vocabulary of the durable run: domain/states.py and the error codes *)
(* of domain/retry.py.  Statuses and codes keep the strings the database   *)
(* stores.  "ABSENT" is the model's name for "no such row".                *)
(***************************************************************************)
EXTENDS Naturals

TerminalExecutionStatuses == {"SUCCEEDED", "FAILED", "DEAD_LETTERED"}

\* The statuses quotas.check_admission counts as active work.
ActiveStatuses == {"QUEUED", "RUNNING", "RETRY_SCHEDULED"}

ExecutionStatuses == ActiveStatuses \cup TerminalExecutionStatuses

EvaluationStatuses == {"NOT_RUN", "PENDING", "PASSED", "FAILED", "ERROR"}

RetryableErrorCodes ==
    {"PROVIDER_TIMEOUT", "PROVIDER_RATE_LIMITED", "PROVIDER_UNAVAILABLE",
     "PROVIDER_SERVER_ERROR", "EXECUTION_ERROR", "EXECUTION_LEASE_EXPIRED"}

ExecutionErrorCodes ==
    RetryableErrorCodes \cup
    {"PROVIDER_AUTH_FAILED", "PROVIDER_BAD_REQUEST", "RESOURCE_QUOTA_EXCEEDED"}

\* "NONE" is SQL NULL; INVALID_STORED_POLICY is written by claim alone and is
\* not an ExecutionErrorCode.
RunErrorCodes == ExecutionErrorCodes \cup {"NONE", "INVALID_STORED_POLICY"}

IsRetryableError(code) == code \in RetryableErrorCodes

\* The RunEvent rows that record a run's own lifecycle and its evaluations.
\* The dispatcher's OUTBOX_* rows are publication telemetry no property reads.
RunEventTypes ==
    {"RUN_QUEUED", "RUN_CLAIMED", "RUN_SUCCEEDED", "RUN_RETRY_SCHEDULED",
     "RUN_RETRY_QUEUED", "RUN_FAILED", "RUN_DEAD_LETTERED",
     "EVALUATION_PENDING", "EVALUATION_PASSED", "EVALUATION_FAILED",
     "EVALUATION_ERROR"}

OutboxEventTypes == {"RUN_QUEUED", "RUN_DEAD_LETTERED"}
=============================================================================
