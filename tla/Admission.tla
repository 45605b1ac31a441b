------------------------------ MODULE Admission ------------------------------
(***************************************************************************)
(* The transactions that read a count or a key and then write on the       *)
(* strength of it, statement by statement: submit and replay of            *)
(* run_service.py, claim of execution_service.py and the provider-call     *)
(* charge of resource_executor.py, with quotas.py.  Under READ COMMITTED   *)
(* every statement sees what others have committed; what keeps the checks  *)
(* true until the commit is the order and the scope of the locks.  Runtime *)
(* takes each of these transactions as one step; this module shows why it  *)
(* may.  A run is named after the call that inserts it.                    *)
(***************************************************************************)
EXTENDS Naturals, FiniteSets, Sequences

CONSTANTS
    Calls,            \* calls of the services, from any API or worker process
    NoCall,
    Kind,             \* "submit" | "replay" | "claim" | "charge"
    Principal,
    Tenant,
    Key,              \* Idempotency-Key of a submit or replay
    Input,            \* request body of a submit
    Target,           \* the run a replay copies, a claim starts, a charge is for
    PrincipalActive, TenantActive,     \* QuotaLimits
    PrincipalRunning, TenantRunning,
    PrincipalCalls, TenantCalls,
    MaxWindow,        \* bound: provider-call windows that pass
    MaxVersion,       \* bound: server settings that are deployed
    MaxAborts         \* bound: calls that are aborted

Kinds == {"submit", "replay", "claim", "charge"}
Creating == {x \in Calls : Kind[x] \in {"submit", "replay"}}

ASSUME CallsAssumption ==
    /\ IsFiniteSet(Calls)
    /\ NoCall \notin Calls
    /\ Calls \cap {"conflict", "not_found", "denied", "deferred", "refused",
                   "started", "charged", "aborted", "none"} = {}
    /\ Kind \in [Calls -> Kinds]
    /\ DOMAIN Principal = Calls /\ DOMAIN Tenant = Calls
    /\ DOMAIN Key = Calls /\ DOMAIN Input = Calls

\* A claim and a charge lock the identity stored in their run; a replay sees
\* the runs of its own tenant only.
ASSUME TargetAssumption ==
    /\ Target \in [Calls -> Calls]
    /\ \A x \in Calls : Kind[x] # "submit" =>
          Target[x] \in Creating /\ Tenant[Target[x]] = Tenant[x]
    /\ \A x \in Calls \ Creating : Principal[Target[x]] = Principal[x]

\* A replay is fingerprinted as the body {"replay_of_run_id": its source, ...}.
\* A client that submitted such a body could not be told from the replay; the
\* clients of an instance do not.
ASSUME InputAssumption == \A x, r \in Calls : Input[x] # r

ASSUME LimitsAssumption ==
    /\ {PrincipalActive, TenantActive, PrincipalRunning, TenantRunning,
        PrincipalCalls, TenantCalls} \subseteq Nat \ {0}
    /\ {MaxWindow, MaxVersion, MaxAborts} \subseteq Nat

VARIABLES
    pc,        \* the statement a call executes next
    seen,      \* a charge's clock and counters, read under the locks
    asked,     \* the request fingerprint of a submit, fixed before its transaction
    reply,     \* a run, or why there is none
    holder,    \* who holds an advisory or row lock
    status,    \* execution_status of the run a call inserts
    hash,      \* its request_hash
    used,      \* provider_quotas.used by scope
    windowOf,  \* provider_quotas.window_start by scope
    booked,    \* ghost: charges committed by scope and window
    clock,     \* the current provider-call window
    server     \* the settings the API processes run with

rowVars == <<status, hash>>
quotaVars == <<used, windowOf, booked>>
callVars == <<pc, seen, asked, reply, holder>>
vars == <<callVars, rowVars, quotaVars, clock, server>>

-----------------------------------------------------------------------------
(* Locks *)

PrincipalScope(x) == <<"p", Principal[x]>>
TenantScope(x) == <<"t", Tenant[x]>>
ScopesOf(x) == {PrincipalScope(x), TenantScope(x)}
Scopes == UNION {ScopesOf(x) : x \in Calls}
RowLock(r) == <<"run", r>>
Locks == Scopes \cup {RowLock(x) : x \in Creating}

\* Mutant: the scopes of a charge are not sorted.
UnsortedLocks(x) ==
    IF Kind[x] = "charge" THEN <<TenantScope(x), PrincipalScope(x), RowLock(Target[x])>>
    ELSE IF x \in Creating THEN <<PrincipalScope(x), TenantScope(x)>>
    ELSE <<PrincipalScope(x), TenantScope(x), RowLock(Target[x])>>

\* Mutant: the tenant is not locked.
PrincipalLockOnly(x) ==
    IF x \in Creating THEN <<PrincipalScope(x)>>
    ELSE <<PrincipalScope(x), RowLock(Target[x])>>

\* lock_identity takes "p:..." before "t:..."; the row of the run comes last.
LockSequence(x) ==
    IF x \in Creating THEN <<PrincipalScope(x), TenantScope(x)>>
    ELSE <<PrincipalScope(x), TenantScope(x), RowLock(Target[x])>>

\* The next lock; the transaction's first statement follows the last one.
Acquire(x) ==
    /\ pc[x] = "locking"
    /\ \E i \in DOMAIN LockSequence(x) :
          LET lock == LockSequence(x)[i] IN
          /\ holder[lock] = NoCall
          /\ \A j \in 1..(i - 1) : holder[LockSequence(x)[j]] = x
          /\ holder' = [holder EXCEPT ![lock] = x]
          /\ pc' = IF i = Len(LockSequence(x)) THEN [pc EXCEPT ![x] = "begin"] ELSE pc
    /\ UNCHANGED <<seen, asked, reply, rowVars, quotaVars, clock, server>>

\* Commit or rollback: the locks go, the caller gets its answer.
Answer(x, answer) ==
    /\ pc' = [pc EXCEPT ![x] = "done"]
    /\ reply' = [reply EXCEPT ![x] = answer]
    /\ holder' = [l \in Locks |-> IF holder[l] = x THEN NoCall ELSE holder[l]]

Goto(x, label) ==
    /\ pc' = [pc EXCEPT ![x] = label]
    /\ UNCHANGED <<reply, holder>>

\* api/main.create_run resolves the policy with the settings of its process
\* before the service is called; the fingerprint covers the resolved policy.
\* A run is claimed after its message, and charged after a claim has started it.
Arrive(x) ==
    /\ pc[x] = "new"
    /\ Kind[x] = "claim" => status[Target[x]] # "ABSENT"
    /\ Kind[x] = "charge" =>
          \E c \in Calls : Target[c] = Target[x] /\ reply[c] = "started"
    /\ Goto(x, "locking")
    /\ asked' = IF Kind[x] = "submit"
                THEN [asked EXCEPT ![x] = <<Input[x], server>>] ELSE asked
    /\ UNCHANGED <<seen, rowVars, quotaVars, clock, server>>

\* A cancelled request, a lost connection, a dead process: rollback.
Abort(x) ==
    /\ pc[x] \notin {"new", "done"}
    /\ Cardinality({y \in Calls : reply[y] = "aborted"}) < MaxAborts
    /\ Answer(x, "aborted")
    /\ UNCHANGED <<seen, asked, rowVars, quotaVars, clock, server>>

-----------------------------------------------------------------------------
(* quotas.py *)

Counting(S, statuses) == Cardinality({r \in S : status[r] \in statuses})
OfPrincipal(x) == {r \in Creating : Principal[r] = Principal[x]}
OfTenant(x) == {r \in Creating : Tenant[r] = Tenant[x]}

\* check_admission counts active work, claim the running part of it.
Counted(x) ==
    IF x \in Creating THEN {"QUEUED", "RUNNING", "RETRY_SCHEDULED"} ELSE {"RUNNING"}
PrincipalLimit(x) == IF x \in Creating THEN PrincipalActive ELSE PrincipalRunning
TenantLimit(x) == IF x \in Creating THEN TenantActive ELSE TenantRunning

PrincipalFull(x) == Counting(OfPrincipal(x), Counted(x)) >= PrincipalLimit(x)
TenantFull(x) == Counting(OfTenant(x), Counted(x)) >= TenantLimit(x)

CallLimit(scope) == IF scope[1] = "p" THEN PrincipalCalls ELSE TenantCalls

\* A row of an earlier window means that nothing is spent yet.
Spent(scope, window) == IF windowOf[scope] = window THEN used[scope] ELSE 0

BudgetSpent(x, window) == \E s \in ScopesOf(x) : Spent(s, window) >= CallLimit(s)

\* A submit or replay is refused; a claim puts its run back for a second.
OverQuota(x) ==
    /\ Answer(x, IF x \in Creating THEN "denied" ELSE "deferred")
    /\ status' = IF x \in Creating THEN status
                 ELSE [status EXCEPT ![Target[x]] = "RETRY_SCHEDULED"]
    /\ UNCHANGED <<seen, asked, hash, quotaVars, clock, server>>

Continue(x, label) ==
    /\ Goto(x, label)
    /\ UNCHANGED <<seen, asked, rowVars, quotaVars, clock, server>>

CountPrincipal(x) ==
    /\ pc[x] = "count principal"
    /\ \/ PrincipalFull(x) /\ OverQuota(x)
       \/ ~PrincipalFull(x) /\ Continue(x, "count tenant")

CountTenant(x) ==
    /\ pc[x] = "count tenant"
    /\ \/ TenantFull(x) /\ OverQuota(x)
       \/ ~TenantFull(x) /\ Continue(x, IF x \in Creating THEN "check budget" ELSE "commit")

CheckProviderBudget(x) ==
    /\ pc[x] = "check budget"
    /\ \/ BudgetSpent(x, clock) /\ OverQuota(x)
       \/ ~BudgetSpent(x, clock) /\ Continue(x, "commit")

-----------------------------------------------------------------------------
(* submit and replay *)

Existing(x) ==
    {r \in Creating : status[r] # "ABSENT" /\ Tenant[r] = Tenant[x] /\ Key[r] = Key[x]}

\* Mutant: a replay is recognised by its input and policy alone.
FingerprintOfCopy(x) == IF Kind[x] = "submit" THEN asked[x] ELSE hash[Target[x]]

\* canonical_request_hash; a replay covers its source and what it copies.
Fingerprint(x) ==
    IF Kind[x] = "submit" THEN asked[x] ELSE <<Target[x], hash[Target[x]]>>

\* _get_run_for_client
SourceMissing(x) == Kind[x] = "replay" /\ status[Target[x]] = "ABSENT"

\* _match_or_raise, _match_replay_or_raise
MatchOrRaise(x, r) == IF hash[r] = Fingerprint(x) THEN r ELSE "conflict"

FindExisting(x) ==
    /\ pc[x] = "begin"
    /\ x \in Creating
    /\ \/ SourceMissing(x) /\ Answer(x, "not_found")
       \/ /\ ~SourceMissing(x)
          /\ \E r \in Existing(x) : Answer(x, MatchOrRaise(x, r))
       \/ /\ ~SourceMissing(x)
          /\ Existing(x) = {}
          /\ Goto(x, "count principal")
    /\ UNCHANGED <<seen, asked, rowVars, quotaVars, clock, server>>

\* Run, outbox row and history are inserted.  The handler of IntegrityError
\* has no counterpart: ChecksStillHold shows that the key is always free.
Insert(x) ==
    /\ pc[x] = "commit"
    /\ x \in Creating
    /\ status' = [status EXCEPT ![x] = "QUEUED"]
    /\ hash' = [hash EXCEPT ![x] = Fingerprint(x)]
    /\ Answer(x, x)
    /\ UNCHANGED <<seen, asked, quotaVars, clock, server>>

-----------------------------------------------------------------------------
(* claim *)

ReadRun(x) ==
    /\ pc[x] = "begin"
    /\ Kind[x] = "claim"
    /\ \/ status[Target[x]] # "QUEUED" /\ Answer(x, "refused")
       \/ status[Target[x]] = "QUEUED" /\ Goto(x, "count principal")
    /\ UNCHANGED <<seen, asked, rowVars, quotaVars, clock, server>>

\* The run starts, or its stored policy or attempt budget ends it.
Start(x) ==
    /\ pc[x] = "commit"
    /\ Kind[x] = "claim"
    /\ \/ /\ status' = [status EXCEPT ![Target[x]] = "RUNNING"]
          /\ Answer(x, "started")
       \/ /\ status' = [status EXCEPT ![Target[x]] = "ENDED"]
          /\ Answer(x, "refused")
    /\ UNCHANGED <<seen, asked, hash, quotaVars, clock, server>>

-----------------------------------------------------------------------------
(* ChargedExecutor.execute and charge_provider_call *)

\* The fence, then the database clock and both counters.  The attempt may have
\* finished and its lease may have expired although the run is RUNNING.
ReadCounters(x) ==
    /\ pc[x] = "begin"
    /\ Kind[x] = "charge"
    /\ \/ /\ Answer(x, "refused")
          /\ UNCHANGED seen
       \/ /\ status[Target[x]] = "RUNNING"
          /\ BudgetSpent(x, clock)
          /\ Answer(x, "denied")
          /\ UNCHANGED seen
       \/ /\ status[Target[x]] = "RUNNING"
          /\ ~BudgetSpent(x, clock)
          /\ seen' = [seen EXCEPT ![x] =
                [window |-> clock, spent |-> [s \in ScopesOf(x) |-> Spent(s, clock)]]]
          /\ Goto(x, "commit")
    /\ UNCHANGED <<asked, rowVars, quotaVars, clock, server>>

Charge(x) ==
    /\ pc[x] = "commit"
    /\ Kind[x] = "charge"
    /\ LET window == seen[x].window IN
       /\ used' = [s \in Scopes |->
             IF s \in ScopesOf(x) THEN seen[x].spent[s] + 1 ELSE used[s]]
       /\ windowOf' = [s \in Scopes |->
             IF s \in ScopesOf(x) THEN window ELSE windowOf[s]]
       /\ booked' = [s \in Scopes |->
             IF s \in ScopesOf(x) THEN [booked[s] EXCEPT ![window] = @ + 1] ELSE booked[s]]
    /\ Answer(x, "charged")
    /\ UNCHANGED <<seen, asked, rowVars, clock, server>>

-----------------------------------------------------------------------------
(* What the other transactions do to a run, under its row lock alone:       *)
(* complete_*, recover_expired_leases and schedule_due_retries.             *)

RunMoves(r, from, to) ==
    /\ holder[RowLock(r)] = NoCall
    /\ status[r] = from
    /\ status' = [status EXCEPT ![r] = to]
    /\ UNCHANGED <<callVars, hash, quotaVars, clock, server>>

EndAttempt(r) == \E to \in {"ENDED", "RETRY_SCHEDULED"} : RunMoves(r, "RUNNING", to)

Requeue(r) == RunMoves(r, "RETRY_SCHEDULED", "QUEUED")

NextWindow ==
    /\ clock < MaxWindow
    /\ clock' = clock + 1
    /\ UNCHANGED <<callVars, rowVars, quotaVars, server>>

\* The API is redeployed with other retry defaults.
Redeploy ==
    /\ server < MaxVersion
    /\ server' = server + 1
    /\ UNCHANGED <<callVars, rowVars, quotaVars, clock>>

-----------------------------------------------------------------------------
Init ==
    /\ pc = [x \in Calls |-> "new"]
    /\ seen = [x \in Calls |-> [window |-> 0, spent |-> [s \in ScopesOf(x) |-> 0]]]
    /\ asked = [x \in Calls |-> <<>>]
    /\ reply = [x \in Calls |-> "none"]
    /\ holder = [l \in Locks |-> NoCall]
    /\ status = [x \in Creating |-> "ABSENT"]
    /\ hash = [x \in Creating |-> <<>>]
    /\ used = [s \in Scopes |-> 0]
    /\ windowOf = [s \in Scopes |-> 0]
    /\ booked = [s \in Scopes |-> [w \in 0..MaxWindow |-> 0]]
    /\ clock = 0
    /\ server = 0

\* What a call does once it has its locks.
Proceed(x) ==
    \/ FindExisting(x)
    \/ ReadRun(x)
    \/ ReadCounters(x)
    \/ CountPrincipal(x)
    \/ CountTenant(x)
    \/ CheckProviderBudget(x)
    \/ Insert(x)
    \/ Start(x)
    \/ Charge(x)

Next ==
    \/ \E x \in Calls : Arrive(x) \/ Acquire(x) \/ Proceed(x) \/ Abort(x)
    \/ \E r \in Creating : EndAttempt(r) \/ Requeue(r)
    \/ NextWindow
    \/ Redeploy

Spec == Init /\ [][Next]_vars

-----------------------------------------------------------------------------
(* Properties *)

Answers ==
    Creating \cup {"conflict", "not_found", "denied", "deferred", "refused", "started",
                  "charged", "aborted", "none"}

\* Every column and local has a value of its type, a call that is
\* over holds no lock, and one past its locks holds them all.
TypeOK ==
    /\ pc \in [Calls -> {"new", "locking", "begin", "count principal", "count tenant",
                         "check budget", "commit", "done"}]
    /\ reply \in [Calls -> Answers]
    /\ holder \in [Locks -> Calls \cup {NoCall}]
    /\ status \in [Creating -> {"ABSENT", "QUEUED", "RUNNING", "RETRY_SCHEDULED", "ENDED"}]
    /\ used \in [Scopes -> Nat]
    /\ windowOf \in [Scopes -> 0..MaxWindow]
    /\ booked \in [Scopes -> [0..MaxWindow -> Nat]]
    /\ clock \in 0..MaxWindow
    /\ server \in 0..MaxVersion
    /\ \A l \in Locks : holder[l] # NoCall => pc[holder[l]] \notin {"new", "done"}
    /\ \A x \in Calls : pc[x] \notin {"new", "locking", "done"} =>
          \A i \in DOMAIN LockSequence(x) : holder[LockSequence(x)[i]] = x

\* What a transaction checked still holds when it commits: the key is free, so
\* the unique constraint never has to decide; the counts are below their
\* limits; the run is in the state that was read; the counters are the ones
\* that were read.  This is what the identity locks are for.
ChecksStillHold ==
    \A x \in Calls : pc[x] = "commit" =>
        \/ /\ x \in Creating
           /\ Existing(x) = {}
           /\ ~PrincipalFull(x) /\ ~TenantFull(x) /\ ~BudgetSpent(x, clock)
        \/ /\ Kind[x] = "claim"
           /\ status[Target[x]] = "QUEUED"
           /\ ~PrincipalFull(x) /\ ~TenantFull(x)
        \/ /\ Kind[x] = "charge"
           /\ status[Target[x]] = "RUNNING"
           /\ \A s \in ScopesOf(x) : Spent(s, seen[x].window) = seen[x].spent[s]

\* However submissions, replays and claims interleave, no principal or tenant
\* has more active or running runs than its quota.
QuotasHeld ==
    \A x \in Creating :
        /\ Counting(OfPrincipal(x), Counted(x)) <= PrincipalActive
        /\ Counting(OfTenant(x), Counted(x)) <= TenantActive
        /\ Counting(OfPrincipal(x), {"RUNNING"}) <= PrincipalRunning
        /\ Counting(OfTenant(x), {"RUNNING"}) <= TenantRunning

\* All calls that were given a run for one tenant and key were given the same
\* one, and it is what each of them asked for: the same body, or a copy of the
\* same source.
OneRunPerKey ==
    \A x, y \in Creating :
        /\ reply[x] \in Creating => hash[reply[x]] = Fingerprint(x)
        /\ /\ reply[x] \in Creating /\ reply[y] \in Creating
           /\ Tenant[x] = Tenant[y] /\ Key[x] = Key[y]
           => /\ reply[x] = reply[y]
              /\ Kind[x] = Kind[y]
              /\ IF Kind[x] = "submit" THEN Input[x] = Input[y] ELSE Target[x] = Target[y]

\* No window of a principal or tenant ever has more provider calls charged to
\* it than the budget, whatever windows pass while charges wait for locks.
WindowBudgetHeld ==
    \A s \in Scopes, w \in 0..MaxWindow : booked[s][w] <= CallLimit(s)

\* The locks never deadlock: whenever a call waits for one, some call has all
\* of its locks or can take its next one.
SomeCallProceeds ==
    (\E x \in Calls : pc[x] = "locking") =>
        \E x \in Calls :
            \/ pc[x] \notin {"new", "locking", "done"}
            \/ /\ pc[x] = "locking"
               /\ \E i \in DOMAIN LockSequence(x) :
                     /\ holder[LockSequence(x)[i]] = NoCall
                     /\ \A j \in 1..(i - 1) : holder[LockSequence(x)[j]] = x
=============================================================================
