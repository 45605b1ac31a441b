---------------------------- MODULE RuntimeState ----------------------------
(***************************************************************************)
(* The state the runtime's processes share: the PostgreSQL rows, the       *)
(* RabbitMQ queues, and the program counters of the dispatcher processes   *)
(* and of the worker's delivery handlers.  The component modules           *)
(* (RunService, ExecutionService, OutboxDispatcher, Worker) are actions    *)
(* over these variables; Runtime composes them.                            *)
(*                                                                         *)
(* Time is abstracted to what the code compares: a lease is active or      *)
(* expired, a retry is waiting or due.  Time passing is two actions of     *)
(* Runtime, so a lease may expire between any two steps of anybody.        *)
(***************************************************************************)
EXTENDS RunStates, FiniteSets, Sequences

CONSTANTS
    Runs,              \* runs.id, execution runs and evaluation jobs alike
    NoRun,             \* SQL NULL for a run id
    Workers,           \* worker ids: processes.py uses socket.gethostname()
    NoWorker,          \* SQL NULL for execution_lease_owner
    Handlers,          \* delivery-handler slots: prefetch_count of each worker
    WorkerOf,          \* the worker process a handler slot belongs to
    Dispatchers,       \* outbox dispatcher processes
    Tenants,           \* runs.client_id
    Principals,        \* runs.principal_id
    TenantOf,
    PrincipalOf,
    SourceOf,          \* the run an evaluation job evaluates, NoRun otherwise
    MaxAttempts,       \* policy_snapshot.max_attempts, 0 if from_snapshot rejects
    ServerMaxAttempts, \* settings.retry_max_attempts of the workers
    PrincipalRunning,  \* QuotaLimits.principal_running
    TenantRunning,     \* QuotaLimits.tenant_running
    PrincipalActive,   \* QuotaLimits.principal_active
    TenantActive,      \* QuotaLimits.tenant_active
    ProviderErrors,    \* the error codes a provider call is classified to
    Faults,            \* the failures of the environment an instance considers
    MaxBacklog,        \* bound: unpublished RUN_QUEUED rows of one run
    MaxCopies          \* bound: ready copies of one run's message in the queue

ASSUME RunsAssumption ==
    /\ IsFiniteSet(Runs)
    /\ NoRun \notin Runs
    /\ SourceOf \in [Runs -> Runs \cup {NoRun}]
    /\ \A r \in Runs : SourceOf[r] # NoRun => SourceOf[SourceOf[r]] = NoRun

ASSUME IdentityAssumption ==
    /\ TenantOf \in [Runs -> Tenants]
    /\ PrincipalOf \in [Runs -> Principals]

ASSUME WorkersAssumption ==
    /\ NoWorker \notin Workers
    /\ WorkerOf \in [Handlers -> Workers]

\* settings.py bounds: every limit is at least one.
ASSUME LimitsAssumption ==
    /\ MaxAttempts \in [Runs -> Nat]
    /\ ServerMaxAttempts \in Nat \ {0}
    /\ {PrincipalRunning, TenantRunning, PrincipalActive, TenantActive}
          \subseteq Nat \ {0}
    /\ {MaxBacklog, MaxCopies} \subseteq Nat \ {0}

ASSUME ErrorsAssumption ==
    /\ ProviderErrors \subseteq ExecutionErrorCodes
    /\ Faults \subseteq {"publish", "dispatcher", "handler", "connection"}

VARIABLES
    \* table runs
    status,       \* execution_status, "ABSENT" before the row is inserted
    leaseOwner,   \* execution_lease_owner
    lease,        \* execution_lease_expires_at: "none" | "active" | "expired"
    retryAt,      \* next_attempt_at: "none" | "waiting" | "due"
    error,        \* error_code
    result,       \* result_payload: the attempt number it came from, 0 if NULL
    summary,      \* evaluation_status
    \* table run_attempts: the outcomes of attempts 1, 2, ... of a run
    attempts,
    \* table evaluations, one row per evaluation job
    evaluation,   \* status, "NOT_RUN" before the row is inserted
    created,      \* created_at: the start of the inserting transaction, 0 if none
    \* table run_events, as the set of event types recorded for a run
    events,
    \* table outbox_events: unpublished rows no dispatcher has locked
    outbox,
    \* RabbitMQ
    queue,        \* ready messages of a run in agent_runtime.execution.v2
    deadLetters,  \* runs with a message in agent_runtime.dead_letter
    \* dispatcher processes
    dpc,          \* "idle" | "locked" | "confirmed"
    devent,       \* the locked outbox row, <<run, event type>>
    \* worker delivery handlers
    pc,           \* where _handle_run_delivery is
    msg,          \* the run id of the delivery
    held,         \* the broker still counts the delivery as unacknowledged by us
    att,          \* claim.attempt_id, as an attempt number; 0 if none
    out,          \* the result or the classified error of the execution
    late          \* the lease had expired when complete_* read its clock

leaseVars == <<leaseOwner, lease>>
evalVars  == <<evaluation, created, summary>>
dbVars    == <<status, leaseVars, retryAt, error, result, attempts, evalVars,
               events, outbox>>
brokerVars == <<queue, deadLetters>>
dispatcherVars == <<dpc, devent>>
handlerVars == <<pc, msg, held, att, out, late>>
vars == <<dbVars, brokerVars, dispatcherVars, handlerVars>>

HandlerStates ==
    {"idle", "claiming", "executing", "calling", "reporting", "acking", "nacking"}

\* "OK" is a result; "NOT_PASSED" is an evaluation result with passed = false.
Results == {"OK", "NOT_PASSED"}

WorkKind(r) == IF SourceOf[r] = NoRun THEN "execution" ELSE "evaluation"

DatabaseTypeOK ==
    /\ status \in [Runs -> ExecutionStatuses \cup {"ABSENT"}]
    /\ leaseOwner \in [Runs -> Workers \cup {NoWorker}]
    /\ lease \in [Runs -> {"none", "active", "expired"}]
    /\ retryAt \in [Runs -> {"none", "waiting", "due"}]
    /\ error \in [Runs -> RunErrorCodes]
    /\ result \in [Runs -> Nat]
    /\ summary \in [Runs -> EvaluationStatuses]
    /\ attempts \in [Runs -> Seq({"OPEN", "SUCCEEDED", "FAILED"})]
    /\ evaluation \in [Runs -> EvaluationStatuses]
    /\ events \in [Runs -> SUBSET RunEventTypes]
    /\ outbox \in [Runs -> [OutboxEventTypes -> Nat]]

BrokerTypeOK ==
    /\ queue \in [Runs -> Nat]
    /\ deadLetters \in SUBSET Runs

\* A dispatcher has a row exactly while it is in a transaction.
DispatcherTypeOK ==
    /\ dpc \in [Dispatchers -> {"idle", "locked", "confirmed"}]
    /\ devent \in [Dispatchers -> (Runs \X OutboxEventTypes) \cup {<<>>}]
    /\ \A d \in Dispatchers : dpc[d] = "idle" <=> devent[d] = <<>>

\* A handler has a delivery exactly while it is not idle, and a result or an
\* error exactly while it reports one.
HandlerTypeOK ==
    /\ pc \in [Handlers -> HandlerStates]
    /\ msg \in [Handlers -> Runs \cup {NoRun}]
    /\ \A h \in Handlers : pc[h] = "idle" <=> msg[h] = NoRun
    /\ held \in [Handlers -> BOOLEAN]
    /\ \A h \in Handlers : held[h] => pc[h] # "idle"
    /\ att \in [Handlers -> Nat]
    /\ out \in [Handlers -> ExecutionErrorCodes \cup Results \cup {"NONE"}]
    /\ \A h \in Handlers : pc[h] = "reporting" <=> out[h] # "NONE"
    /\ late \in [Handlers -> BOOLEAN]

\* All but the dates, which are counted.
RowTypeOK ==
    /\ DatabaseTypeOK
    /\ BrokerTypeOK
    /\ DispatcherTypeOK
    /\ HandlerTypeOK

\* Every column and local has a value of its type, and queue, outbox and
\* delivery counts never go below zero: nothing is taken twice.
TypeOK == RowTypeOK /\ created \in [Runs -> Nat]
=============================================================================
