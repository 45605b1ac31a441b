----------------------------- MODULE ApiBoundary -----------------------------
(***************************************************************************)
(* A request on its way through the API and back to an SDK caller:         *)
(* api/body_limit.py, enforce_security_boundary of api/main.py with the    *)
(* authentication, the Redis rate limiter and the security audit it calls, *)
(* the create_run and get_run handlers, and run, get_run and               *)
(* wait_for_terminal of client.py.  A caller that times out leaves its     *)
(* request behind: the server goes on with it.  The handlers are one       *)
(* transaction each (Admission shows why they may be); a run is named by   *)
(* its Idempotency-Key, since one tenant has at most one run per key.      *)
(***************************************************************************)
EXTENDS Naturals, FiniteSets

CONSTANTS
    Callers,     \* users of the SDK
    Supplied,    \* those that pass their own idempotency_key
    Requests,    \* requests the server can have open
    NoRequest,
    Limit,       \* rate_limit_requests
    MaxTries,    \* bound: submissions a caller without a key of its own tries
    MaxFaults    \* bound: failures of the audit, Redis, the database, the network

ASSUME BoundaryAssumption ==
    /\ Supplied \subseteq Callers
    /\ NoRequest \notin Requests
    /\ Limit \in Nat \ {0} /\ MaxTries \in Nat \ {0} /\ MaxFaults \in Nat

VARIABLES
    config,     \* auth_mode and audit_failure_policy
    stage,      \* what the server does next with a request
    kind,       \* "submit" (POST /v1/runs) or "read" (GET /v1/runs/{run_id})
    run,        \* the Idempotency-Key, or the run to read
    answer,     \* the response
    rows,       \* the audit rows that are committed for a request
    worked,     \* whether its handler has inserted a run
    phase,      \* what a caller does
    pending,    \* the request it waits for
    tries,      \* keys the SDK has generated for it
    runs,       \* runs in the database
    finished,   \* those that are terminal
    usage,      \* the counter of the principal's window in Redis
    expires,    \* whether that key has a TTL
    faults      \* failures so far

serverVars == <<stage, kind, run, answer, rows, worked>>
callerVars == <<phase, pending, tries>>
storeVars == <<runs, finished>>
limitVars == <<usage, expires>>
vars == <<config, serverVars, callerVars, storeVars, limitVars, faults>>

Configs == [auth : {"api_key", "disabled"}, onFailure : {"fail_open", "fail_closed"}]
Keys == Callers \X (0..MaxTries)
NoKey == <<NoRequest, 0>>
Refusals == {"body", "unauthenticated", "forbidden", "limited", "limiter_unavailable",
             "audit_unavailable", "quota"}
Answers == {"none", "ok", "running", "error"} \cup Refusals

Fault == faults < MaxFaults /\ faults' = faults + 1
NoFault == UNCHANGED faults
-----------------------------------------------------------------------------
(* The SDK.                                                                *)

\* run(): idempotency_key or f"sdk-{uuid4}", a new one for every call.
KeyOf(c, n) == <<c, n>>

Send(c, k, what) == \E q \in Requests :
    /\ stage[q] = "free"
    /\ stage' = [stage EXCEPT ![q] = "received"]
    /\ kind' = [kind EXCEPT ![q] = what]
    /\ run' = [run EXCEPT ![q] = k]
    /\ pending' = [pending EXCEPT ![c] = q]
    /\ UNCHANGED <<answer, rows, worked>>

\* run(), or run() once more after an error; a caller with a key of its own
\* passes it again.
Call(c) ==
    LET n == IF c \in Supplied THEN 0 ELSE tries[c] + 1 IN
    /\ phase[c] \in {"idle", "failed"}
    /\ n <= MaxTries
    /\ Send(c, KeyOf(c, n), "submit")
    /\ phase' = [phase EXCEPT ![c] = "calling"]
    /\ tries' = [tries EXCEPT ![c] = n]
    /\ UNCHANGED <<config, storeVars, limitVars, faults>>

\* wait_for_terminal: get_run of the run that the last call returned.
Poll(c) ==
    /\ phase[c] = "submitted"
    /\ Send(c, KeyOf(c, tries[c]), "read")
    /\ phase' = [phase EXCEPT ![c] = "polling"]
    /\ UNCHANGED <<config, tries, storeVars, limitVars, faults>>

\* httpx times out, or the connection breaks: AgentRuntimeTransportError.
Disconnect(c) ==
    /\ phase[c] \in {"calling", "polling"}
    /\ Fault
    /\ phase' = [phase EXCEPT ![c] = IF @ = "calling" THEN "failed" ELSE "over"]
    /\ pending' = [pending EXCEPT ![c] = NoRequest]
    /\ UNCHANGED <<config, serverVars, tries, storeVars, limitVars>>

\* The deadline of wait_for_terminal passes between two polls, or the caller
\* does not try again.
Stop(c) ==
    /\ phase[c] = "submitted" \/ (phase[c] = "failed" /\ tries[c] = MaxTries)
    /\ phase' = [phase EXCEPT ![c] = "over"]
    /\ UNCHANGED <<config, serverVars, pending, tries, storeVars, limitVars, faults>>
-----------------------------------------------------------------------------
(* The server.                                                             *)

Move(q, next) == stage' = [stage EXCEPT ![q] = next]
Answer(q, a, next) == Move(q, next) /\ answer' = [answer EXCEPT ![q] = a]
Elsewhere == UNCHANGED <<config, kind, run, callerVars>>

\* BodyLimitMiddleware: a body that is too large, malformed or slow; and a
\* malformed X-Client-Id, which the boundary refuses next and records as little.
Receive(q) ==
    /\ stage[q] = "received"
    /\ \/ Move(q, "identify") /\ NoFault /\ UNCHANGED answer
       \/ Answer(q, "body", "reply") /\ Fault
    /\ UNCHANGED <<rows, worked, storeVars, limitVars>> /\ Elsewhere

\* authenticate_api_key: the credential may be missing, or have expired.
Authenticate(q) ==
    /\ stage[q] = "identify"
    /\ \/ config.auth = "disabled" /\ Move(q, "handle") /\ NoFault /\ UNCHANGED answer
       \/ config.auth = "api_key" /\ Move(q, "limit") /\ NoFault /\ UNCHANGED answer
       \/ /\ config.auth = "api_key" /\ Fault
          /\ \E a \in {"unauthenticated", "forbidden"} : Answer(q, a, "deny")
    /\ UNCHANGED <<rows, worked, storeVars, limitVars>> /\ Elsewhere

ExpiresIfCreated == IF usage = 0 THEN TRUE ELSE expires

\* The script: EXPIRE whenever the key has no TTL.
ExpiresAfterCheck == TRUE

AdmittedUnrecorded(q) == "handle"

\* A sensitive read has its row written after the handler.
Admitted(q) == IF kind[q] = "read" THEN "handle" ELSE "record"

RateLimit(q) ==
    /\ stage[q] = "limit"
    /\ \/ /\ usage' = IF usage > Limit THEN usage ELSE usage + 1
          /\ expires' = ExpiresAfterCheck
          /\ IF usage + 1 <= Limit
             THEN Move(q, Admitted(q)) /\ UNCHANGED answer
             ELSE Answer(q, "limited", "deny")
          /\ NoFault
       \/ Answer(q, "limiter_unavailable", "deny") /\ Fault /\ UNCHANGED limitVars
    /\ UNCHANGED <<rows, worked, storeVars>> /\ Elsewhere

\* write_security_audit: the row commits; or it does not; or it does, after
\* the time-out has cancelled the wait.
Recorded(q, row) == rows' = [rows EXCEPT ![q] = @ \cup {row}]
Write(q, row, ok) ==
    \/ ok /\ Recorded(q, row) /\ NoFault
    \/ ok = (config.onFailure = "fail_open") /\ Fault /\ (Recorded(q, row) \/ UNCHANGED rows)

\* A denial is recorded and its result ignored.
Deny(q) ==
    /\ stage[q] = "deny"
    /\ \E ok \in BOOLEAN : Write(q, "denied", ok)
    /\ Move(q, "reply")
    /\ UNCHANGED <<answer, worked, storeVars, limitVars>> /\ Elsewhere

\* AUTHENTICATION/ALLOWED, before the handler of anything but a sensitive read.
RecordAllowed(q) ==
    /\ stage[q] = "record"
    /\ \E ok \in BOOLEAN :
          /\ Write(q, "allowed", ok)
          /\ IF ok THEN Move(q, "handle") /\ UNCHANGED answer
                   ELSE Answer(q, "audit_unavailable", "reply")
    /\ UNCHANGED <<worked, storeVars, limitVars>> /\ Elsewhere

AfterHandlerAudited(q) == "record_read"

\* audit_read: there is nothing to record but a sensitive read.
AfterHandler(q) == IF kind[q] = "read" THEN "record_read" ELSE "reply"

InsertRun(q) ==
    /\ runs' = runs \cup {run[q]}
    /\ worked' = [worked EXCEPT ![q] = TRUE]
    /\ UNCHANGED finished

\* create_run: an existing run of this key, a new one, or none for want of
\* quota or because the body does not validate; a failure of the database shows
\* as 500, with the run there or not.
HandleSubmit(q) ==
    /\ stage[q] = "handle" /\ kind[q] = "submit"
    /\ \/ /\ run[q] \in runs
          /\ Answer(q, "ok", AfterHandler(q)) /\ NoFault /\ UNCHANGED <<worked, storeVars>>
       \/ /\ run[q] \notin runs
          /\ InsertRun(q) /\ Answer(q, "ok", AfterHandler(q)) /\ NoFault
       \/ /\ run[q] \notin runs
          /\ Answer(q, "quota", AfterHandler(q)) /\ Fault /\ UNCHANGED <<worked, storeVars>>
       \/ /\ Answer(q, "error", AfterHandler(q)) /\ Fault
          /\ (run[q] \notin runs /\ InsertRun(q)) \/ UNCHANGED <<worked, storeVars>>
    /\ UNCHANGED <<rows, limitVars>> /\ Elsewhere

\* get_run: its answer waits for the audit of the read.
HandleRead(q) ==
    /\ stage[q] = "handle" /\ kind[q] = "read"
    /\ \/ /\ NoFault
          /\ Answer(q, IF run[q] \in finished THEN "ok" ELSE "running", AfterHandler(q))
       \/ Answer(q, "error", AfterHandler(q)) /\ Fault
    /\ UNCHANGED <<rows, worked, storeVars, limitVars>> /\ Elsewhere

\* audit_read: SENSITIVE_READ, and 503 in place of the response without it; an
\* exception is raised whatever becomes of its row.
RecordRead(q) ==
    /\ stage[q] = "record_read"
    /\ \E ok \in BOOLEAN :
          /\ Write(q, "read", ok)
          /\ Answer(q, IF ok \/ answer[q] = "error" THEN answer[q] ELSE "audit_unavailable", "reply")
    /\ UNCHANGED <<worked, storeVars, limitVars>> /\ Elsewhere

\* The response reaches the caller if it still waits; the request is over.
NextPhase(p, a) ==
    CASE p = "calling" /\ a = "ok" -> "submitted"
      [] p = "calling" /\ a # "ok" -> "failed"
      [] p = "polling" /\ a = "running" -> "submitted"
      [] OTHER -> "over"

Reply(q) ==
    /\ stage[q] = "reply"
    /\ phase' = [c \in Callers |-> IF pending[c] = q THEN NextPhase(phase[c], answer[q])
                                   ELSE phase[c]]
    /\ pending' = [c \in Callers |-> IF pending[c] = q THEN NoRequest ELSE pending[c]]
    /\ Answer(q, "none", "free")
    /\ kind' = [kind EXCEPT ![q] = "submit"]
    /\ run' = [run EXCEPT ![q] = NoKey]
    /\ rows' = [rows EXCEPT ![q] = {}]
    /\ worked' = [worked EXCEPT ![q] = FALSE]
    /\ UNCHANGED <<config, tries, storeVars, limitVars, faults>>
-----------------------------------------------------------------------------
\* The key's TTL runs out.
WindowEnds ==
    /\ usage > 0 /\ expires
    /\ usage' = 0 /\ expires' = FALSE
    /\ UNCHANGED <<config, serverVars, callerVars, storeVars, faults>>

\* The workers settle a run.
RunEnds(k) ==
    /\ k \in runs \ finished
    /\ finished' = finished \cup {k}
    /\ UNCHANGED <<config, serverVars, callerVars, runs, limitVars, faults>>
-----------------------------------------------------------------------------
\* The counter may have lost its TTL.
Init ==
    /\ config \in Configs
    /\ stage = [q \in Requests |-> "free"]
    /\ kind = [q \in Requests |-> "submit"]
    /\ run = [q \in Requests |-> NoKey]
    /\ answer = [q \in Requests |-> "none"]
    /\ rows = [q \in Requests |-> {}]
    /\ worked = [q \in Requests |-> FALSE]
    /\ phase = [c \in Callers |-> "idle"]
    /\ pending = [c \in Callers |-> NoRequest]
    /\ tries = [c \in Callers |-> 0]
    /\ runs = {} /\ finished = {}
    /\ usage \in 0..Limit
    /\ expires = FALSE
    /\ faults = 0

Serve(q) ==
    \/ Receive(q) \/ Authenticate(q) \/ RateLimit(q) \/ Deny(q) \/ RecordAllowed(q)
    \/ HandleSubmit(q) \/ HandleRead(q) \/ RecordRead(q) \/ Reply(q)

Next ==
    \/ \E c \in Callers : Call(c) \/ Poll(c) \/ Disconnect(c) \/ Stop(c)
    \/ \E q \in Requests : Serve(q)
    \/ WindowEnds
    \/ \E k \in Keys : RunEnds(k)

\* The event loop runs every request on and time passes in Redis.  A caller
\* with a key of its own is one that tries again; the deadline of a wait comes.
Fairness ==
    /\ \A q \in Requests : WF_vars(Serve(q))
    /\ \A c \in Supplied : WF_vars(Call(c))
    /\ \A c \in Callers : WF_vars(Poll(c)) /\ SF_vars(Stop(c))
    /\ WF_vars(WindowEnds)

Spec == Init /\ [][Next]_vars /\ Fairness
-----------------------------------------------------------------------------
\* Under fail_closed nothing is done for a request, and no run is shown, that
\* the audit does not hold: a run is inserted, or confirmed, only after the
\* AUTHENTICATION row has committed, and the answer to a read leaves only after
\* its SENSITIVE_READ row.  (enforce_security_boundary: "this one must commit
\* before the handler runs so a fail-closed policy can reject without doing
\* the work".)
NothingUnaudited == config.onFailure = "fail_closed" => \A q \in Requests :
    /\ worked[q] /\ config.auth = "api_key" => "allowed" \in rows[q]
    /\ stage[q] = "reply" /\ answer[q] \in {"ok", "running"} =>
          \/ kind[q] = "read" /\ "read" \in rows[q]
          \/ kind[q] = "submit" /\ (config.auth = "api_key" => "allowed" \in rows[q])

\* A submission that is refused, by any of the layers, has left no run behind:
\* only a 500 leaves the caller in doubt.
RefusedWithoutWork == \A q \in Requests :
    stage[q] = "reply" /\ answer[q] \in Refusals => ~worked[q]

\* A caller that submits again after every error, with the key it chose, gets
\* its run in the end, once failures cease: no request is left hanging, and a
\* full rate-limit window ends even if its counter had lost its TTL.
RetriesSucceed == \A c \in Supplied : phase[c] = "calling" ~> phase[c] = "submitted"
=============================================================================
