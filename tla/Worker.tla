------------------------------- MODULE Worker -------------------------------
(***************************************************************************)
(* infrastructure/messaging/worker.py and execution/resource_executor.py:  *)
(* one delivery handler from delivery to acknowledgement.  A worker        *)
(* process runs prefetch_count handlers concurrently; they share its       *)
(* worker_id, the host name, which also survives a restart.                *)
(*                                                                         *)
(*   idle -> claiming -> acking                      claim not granted     *)
(*           claiming -> executing -> calling -> reporting -> acking       *)
(*                                               reporting -> nacking      *)
(***************************************************************************)
EXTENDS ExecutionService

Goto(h, label) == pc' = [pc EXCEPT ![h] = label]

Deliver(h, r) ==
    /\ pc[h] = "idle"
    /\ queue[r] > 0
    /\ queue' = [queue EXCEPT ![r] = @ - 1]
    /\ Goto(h, "claiming")
    /\ msg' = [msg EXCEPT ![h] = r]
    /\ held' = [held EXCEPT ![h] = TRUE]
    /\ UNCHANGED <<dbVars, deadLetters, dispatcherVars, att, out, late>>

\* Every decision but CLAIMED is acknowledged.
ClaimNotGranted(h) ==
    /\ pc[h] = "claiming"
    /\ \/ ClaimRefused(msg[h])
       \/ ClaimDeferred(msg[h])
       \/ ClaimExhausted(msg[h])
    /\ Goto(h, "acking")
    /\ UNCHANGED <<brokerVars, dispatcherVars, msg, held, att, out, late>>

\* Mutant: claim adopts the open attempt of an expired lease.
ClaimOrAdopt(h) ==
    /\ pc[h] = "claiming"
    /\ \/ /\ ClaimGranted(msg[h], WorkerOf[h])
          /\ att' = [att EXCEPT ![h] = NextAttemptNumber(msg[h])]
       \/ /\ lease[msg[h]] = "expired"
          /\ lease' = [lease EXCEPT ![msg[h]] = "active"]
          /\ leaseOwner' = [leaseOwner EXCEPT ![msg[h]] = WorkerOf[h]]
          /\ att' = [att EXCEPT ![h] = Len(attempts[msg[h]])]
          /\ UNCHANGED <<status, retryAt, error, result, attempts, evalVars,
                         events, outbox>>
    /\ Goto(h, "executing")
    /\ UNCHANGED <<brokerVars, dispatcherVars, msg, held, out, late>>

Claim(h) ==
    /\ pc[h] = "claiming"
    /\ ClaimGranted(msg[h], WorkerOf[h])
    /\ Goto(h, "executing")
    /\ att' = [att EXCEPT ![h] = NextAttemptNumber(msg[h])]
    /\ UNCHANGED <<brokerVars, dispatcherVars, msg, held, out, late>>

-----------------------------------------------------------------------------
(* ResourceExecutor.execute under asyncio.wait_for *)

\* The execution ended: complete_* reads its clock now, and locks the row later.
Report(h, outcome) ==
    /\ Goto(h, "reporting")
    /\ out' = [out EXCEPT ![h] = outcome]
    /\ late' = [late EXCEPT ![h] = (lease[msg[h]] = "expired")]
    /\ UNCHANGED <<dbVars, brokerVars, dispatcherVars, msg, held, att>>

\* The transaction that must commit before a provider is called.
ChargeAllowed(h) ==
    /\ AttemptIsOpen(msg[h], att[h])
    /\ OwnsActiveLease(msg[h], WorkerOf[h], lease[msg[h]] = "expired")

Charge(h) ==
    /\ pc[h] = "executing"
    /\ WorkKind(msg[h]) = "execution"
    /\ ChargeAllowed(h)
    /\ Goto(h, "calling")
    /\ UNCHANGED <<dbVars, brokerVars, dispatcherVars, msg, held, att, out, late>>

\* The attempt or its lease is gone: RuntimeError.
ChargeFenced(h) ==
    /\ pc[h] = "executing"
    /\ WorkKind(msg[h]) = "execution"
    /\ ~ChargeAllowed(h)
    /\ Report(h, "EXECUTION_ERROR")

\* charge_provider_call found the principal's or the tenant's window used up.
ChargeDenied(h) ==
    /\ pc[h] = "executing"
    /\ WorkKind(msg[h]) = "execution"
    /\ ChargeAllowed(h)
    /\ Report(h, "RESOURCE_QUOTA_EXCEEDED")

ProviderReturns(h) ==
    /\ pc[h] = "calling"
    /\ \E outcome \in {"OK"} \cup ProviderErrors : Report(h, outcome)

\* Evaluation jobs make no provider call; their rules pass, fail or raise.
EvaluateRules(h) ==
    /\ pc[h] = "executing"
    /\ WorkKind(msg[h]) = "evaluation"
    /\ \E outcome \in Results \cup {"EXECUTION_ERROR"} : Report(h, outcome)

\* asyncio.wait_for cancels the execution wherever it is.
AttemptTimesOut(h) ==
    /\ pc[h] \in {"executing", "calling"}
    /\ Report(h, "PROVIDER_TIMEOUT")

-----------------------------------------------------------------------------
(* complete_success or complete_failure, then ack or nack *)

Persisted(h) ==
    LET r == msg[h]
        n == att[h]
        w == WorkerOf[h]
    IN  \/ /\ out[h] \in Results
           /\ CompleteSuccess(r, n, w, late[h], out[h] = "OK")
        \/ /\ out[h] \in ExecutionErrorCodes
           /\ CompleteFailure(r, n, w, late[h], out[h])

\* The locals of the execution are dead once complete_* has answered.
ForgetExecution(h) ==
    /\ att' = [att EXCEPT ![h] = 0]
    /\ out' = [out EXCEPT ![h] = "NONE"]
    /\ late' = [late EXCEPT ![h] = FALSE]

CompletePersisted(h) ==
    /\ pc[h] = "reporting"
    /\ Persisted(h)
    /\ Goto(h, "acking")
    /\ ForgetExecution(h)
    /\ UNCHANGED <<brokerVars, dispatcherVars, msg, held>>

CompleteLost(h) ==
    /\ pc[h] = "reporting"
    /\ CompleteRefused(msg[h], att[h], WorkerOf[h], late[h])
    /\ Goto(h, "nacking")
    /\ ForgetExecution(h)
    /\ UNCHANGED <<brokerVars, dispatcherVars, msg, held>>

HandlerDone(h) ==
    /\ Goto(h, "idle")
    /\ msg' = [msg EXCEPT ![h] = NoRun]
    /\ held' = [held EXCEPT ![h] = FALSE]
    /\ ForgetExecution(h)

\* The broker makes the delivery ready again, if it still waits for our answer.
RequeueDelivery(h) ==
    queue' = IF held[h] THEN [queue EXCEPT ![msg[h]] = @ + 1] ELSE queue

Ack(h) ==
    /\ pc[h] = "acking"
    /\ HandlerDone(h)
    /\ UNCHANGED <<dbVars, brokerVars, dispatcherVars>>

Nack(h) ==
    /\ pc[h] = "nacking"
    /\ RequeueDelivery(h)
    /\ HandlerDone(h)
    /\ UNCHANGED <<dbVars, deadLetters, dispatcherVars>>

\* Anything that ends the handler early: an exception on the way (nack with
\* requeue, then raise), a cancelled task, a dead process.  A transaction in
\* flight is rolled back; one that committed without an answer is the same
\* step taken one action later.
HandlerLost(h) ==
    /\ "handler" \in Faults
    /\ pc[h] # "idle"
    /\ RequeueDelivery(h)
    /\ HandlerDone(h)
    /\ UNCHANGED <<dbVars, deadLetters, dispatcherVars>>

\* The connection drops: the broker redelivers while the handler runs on.
ConnectionLost(h) ==
    /\ "connection" \in Faults
    /\ held[h]
    /\ RequeueDelivery(h)
    /\ held' = [held EXCEPT ![h] = FALSE]
    /\ UNCHANGED <<dbVars, deadLetters, dispatcherVars, pc, msg, att, out, late>>
=============================================================================
