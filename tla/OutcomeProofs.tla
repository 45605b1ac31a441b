--------------------------- MODULE OutcomeProofs ----------------------------
(***************************************************************************)
(* What becomes of an accepted run, for every value of the constants: its  *)
(* delivery intent or its dead-letter notice survives every step of the    *)
(* runtime, evaluations settle as their jobs do, and the quotas hold.      *)
(***************************************************************************)
EXTENDS RuntimeProofs, FiniteSetTheorems

USE DEF leaseVars, evalVars, dbVars, brokerVars, dispatcherVars, handlerVars,
        processVars, vars

-----------------------------------------------------------------------------
(* Delivery intents and notices *)

\* Completion and recovery write no RUN_QUEUED row.
LEMMA FailAttemptOutbox ==
    ASSUME RowTypeOK, NEW q \in Runs, NEW n, NEW code, FailAttempt(q, n, code)
    PROVE  /\ \A r \in Runs : outbox'[r]["RUN_QUEUED"] = outbox[r]["RUN_QUEUED"]
           /\ \A r \in Runs \ {q} : outbox'[r] = outbox[r]
           /\ IF status'[q] = "DEAD_LETTERED"
              THEN outbox'[q]["RUN_DEAD_LETTERED"] > 0
              ELSE outbox'[q] = outbox[q]
<1>1. CASE ScheduleRetry(q) \/ FailRun(q)
  BY <1>1 DEF ScheduleRetry, FailRun, RowTypeOK, DatabaseTypeOK
<1>2. CASE DeadLetter(q)
  BY SMTT(10), SMTT(20), <1>2 DEF DeadLetter, RowTypeOK, DatabaseTypeOK, OutboxEventTypes
<1> QED
  BY <1>1, <1>2 DEF FailAttempt

\* The steps of a handler other than delivery leave the outbox of every run
\* alone, but for the notice of a run it dead-letters.
LEMMA HandlerOutbox ==
    ASSUME RowTypeOK, NEW h \in Handlers, Handler(h), NEW r \in Runs
    PROVE  /\ outbox'[r]["RUN_QUEUED"] = outbox[r]["RUN_QUEUED"]
           /\ \/ outbox'[r] = outbox[r]
              \/ status'[r] = "DEAD_LETTERED" /\ outbox'[r]["RUN_DEAD_LETTERED"] > 0
<1>1. CASE CompletePersisted(h)
  <2>1. msg[h] \in Runs
    BY <1>1 DEF CompletePersisted, RowTypeOK, HandlerTypeOK
  <2>2. CASE UNCHANGED outbox
    BY <2>2
  <2>3. CASE FailAttempt(msg[h], att[h], out[h])
    BY <2>1, <2>3, FailAttemptOutbox
  <2> QED
    BY <1>1, <2>2, <2>3 DEF CompletePersisted, Persisted, CompleteSuccess, CompleteFailure
<1>2. CASE UNCHANGED outbox
  BY <1>2
<1> QED
  BY ZenonT(30), <1>1, <1>2 DEF Handler, Deliver, ClaimNotGranted, ClaimRefused, ClaimDeferred,
     ClaimExhausted, Claim, ClaimGranted, Charge, ChargeFenced, ChargeDenied, ProviderReturns,
     EvaluateRules, AttemptTimesOut, Report, CompleteLost, CompleteRefused, Ack, Nack,
     HandlerLost, ConnectionLost

-----------------------------------------------------------------------------
(* QUEUED runs *)

QueuedHasIntent == \A r \in Runs : status[r] = "QUEUED" => DeliveryIntent(r)

\* The dispatcher moves the intent from the outbox to the queue, or back.
LEMMA DispatcherKeepsIntent ==
    ASSUME RowTypeOK, NEW d \in Dispatchers, Dispatcher(d), NEW r \in Runs, DeliveryIntent(r)
    PROVE  DeliveryIntent(r)'
<1> USE DEF RowTypeOK
<1>1. UNCHANGED handlerVars
  BY DEF Dispatcher, LockEvent, Publish, PublishFails, MarkPublished, DispatcherCrash
<1>2. "RUN_QUEUED" \in OutboxEventTypes
  BY DEF OutboxEventTypes
<1>3. CASE \E h \in Handlers : pc[h] = "claiming" /\ msg[h] = r /\ held[h]
  BY <1>1, <1>3 DEF DeliveryIntent
<1>4. ASSUME devent[d] = <<r, "RUN_QUEUED">>, Unlock(d) \/ Route(devent[d][1], devent[d][2])
      PROVE  outbox'[r]["RUN_QUEUED"] > 0 \/ queue'[r] > 0
  BY SMTT(10), SMTT(20), <1>2, <1>4 DEF Unlock, Route, DatabaseTypeOK, BrokerTypeOK
<1>5. ASSUME NEW q \in Runs, NEW type \in OutboxEventTypes, LockEvent(d, q, type)
      PROVE  DeliveryIntent(r)'
  <2>1. CASE q = r /\ type = "RUN_QUEUED"
    BY <1>5, <2>1 DEF LockEvent, DeliveryIntent, DispatcherTypeOK
  <2>2. CASE ~(q = r /\ type = "RUN_QUEUED")
    <3>1. outbox'[r]["RUN_QUEUED"] = outbox[r]["RUN_QUEUED"] /\ queue' = queue
      BY <1>2, <1>5, <2>2 DEF LockEvent, DatabaseTypeOK
    <3>2. \A e \in Dispatchers : dpc[e] = "locked" => dpc'[e] = dpc[e] /\ devent'[e] = devent[e]
      BY <1>5 DEF LockEvent, DispatcherTypeOK
    <3> QED
      BY <1>1, <3>1, <3>2 DEF DeliveryIntent
  <2> QED
    BY <2>1, <2>2
\* The other steps only add rows and messages, and end d's own transaction.
<1>6. ASSUME Publish(d) \/ PublishFails(d) \/ MarkPublished(d) \/ DispatcherCrash(d)
      PROVE  /\ outbox'[r]["RUN_QUEUED"] >= outbox[r]["RUN_QUEUED"]
             /\ queue'[r] >= queue[r]
             /\ \A e \in Dispatchers \ {d} : dpc'[e] = dpc[e] /\ devent'[e] = devent[e]
             /\ dpc[d] = "locked" =>
                   Unlock(d) \/ Route(devent[d][1], devent[d][2])
             /\ dpc[d] # "idle"
  <2>1. dpc[d] # "idle"
    BY <1>6 DEF Publish, PublishFails, MarkPublished, DispatcherCrash
  <2>2. devent[d][1] \in Runs /\ devent[d][2] \in OutboxEventTypes
    BY <2>1 DEF DispatcherTypeOK
  <2>3. Unlock(d) => outbox'[r]["RUN_QUEUED"] >= outbox[r]["RUN_QUEUED"]
    <3> SUFFICES ASSUME Unlock(d) PROVE outbox'[r]["RUN_QUEUED"] >= outbox[r]["RUN_QUEUED"]
      OBVIOUS
    <3>1. outbox' = [outbox EXCEPT ![devent[d][1]][devent[d][2]] = @ + 1]
      BY DEF Unlock
    <3>2. outbox[r] \in [OutboxEventTypes -> Nat] /\ outbox[r]["RUN_QUEUED"] \in Nat
      BY <1>2 DEF DatabaseTypeOK
    <3>3. CASE devent[d][1] = r /\ devent[d][2] = "RUN_QUEUED"
      BY SMTT(10), SMTT(20), <3>1, <3>2, <3>3 DEF DatabaseTypeOK
    <3>4. CASE ~(devent[d][1] = r /\ devent[d][2] = "RUN_QUEUED")
      BY SMTT(10), SMTT(20), <1>2, <2>2, <3>1, <3>2, <3>4 DEF DatabaseTypeOK
    <3> QED
      BY <3>3, <3>4
  <2>4. Route(devent[d][1], devent[d][2]) => queue'[r] >= queue[r]
    BY SMTT(10), SMTT(20), <2>2 DEF Route, BrokerTypeOK
  <2>5. outbox[r]["RUN_QUEUED"] \in Nat /\ queue[r] \in Nat
    BY <1>2 DEF DatabaseTypeOK, BrokerTypeOK
  <2>6. \A e \in Dispatchers \ {d} : dpc'[e] = dpc[e] /\ devent'[e] = devent[e]
    BY <1>6 DEF Publish, PublishFails, MarkPublished, DispatcherCrash, Unlock, DispatcherTypeOK
  <2> QED
    BY SMTT(10), SMTT(20), <1>6, <2>1, <2>3, <2>4, <2>5, <2>6
       DEF Publish, PublishFails, MarkPublished, DispatcherCrash
<1>7. CASE Publish(d) \/ PublishFails(d) \/ MarkPublished(d) \/ DispatcherCrash(d)
  <2>1. outbox[r]["RUN_QUEUED"] \in Nat /\ queue[r] \in Nat
        /\ outbox'[r]["RUN_QUEUED"] \in Nat /\ queue'[r] \in Nat
    BY SMTT(10), SMTT(20), <1>2, DispatcherTypes DEF DatabaseTypeOK, BrokerTypeOK
  <2>2. CASE outbox[r]["RUN_QUEUED"] > 0 \/ queue[r] > 0
    BY SMTT(10), SMTT(20), <1>6, <1>7, <2>1, <2>2 DEF DeliveryIntent
  <2>3. ASSUME NEW e \in Dispatchers, dpc[e] = "locked", devent[e] = <<r, "RUN_QUEUED">>
        PROVE  DeliveryIntent(r)'
    <3>1. CASE e = d
      BY <1>4, <1>6, <1>7, <2>3, <3>1 DEF DeliveryIntent
    <3>2. CASE e # d
      BY <1>6, <1>7, <2>3, <3>2 DEF DeliveryIntent
    <3> QED
      BY <3>1, <3>2
  <2> QED
    BY <1>3, <2>2, <2>3 DEF DeliveryIntent
<1> QED
  BY <1>5, <1>7 DEF Dispatcher

\* A handler gives a delivery up only by answering it with a claim that finds
\* the run not QUEUED or takes it out of QUEUED.
LEMMA HandlerKeepsIntent ==
    ASSUME RowTypeOK, NEW h \in Handlers, Handler(h), NEW r \in Runs,
           DeliveryIntent(r), status[r] = "QUEUED", status'[r] = "QUEUED"
    PROVE  DeliveryIntent(r)'
<1> USE DEF RowTypeOK
<1>1. outbox'[r]["RUN_QUEUED"] = outbox[r]["RUN_QUEUED"]
  BY HandlerOutbox
<1>2. UNCHANGED dispatcherVars
  BY ZenonT(30) DEF Handler, Deliver, ClaimNotGranted, Claim, Charge, ChargeFenced, ChargeDenied,
     ProviderReturns, EvaluateRules, AttemptTimesOut, Report, CompletePersisted, CompleteLost,
     Ack, Nack, HandlerLost, ConnectionLost
<1>3. CASE outbox[r]["RUN_QUEUED"] > 0
           \/ \E d \in Dispatchers : dpc[d] = "locked" /\ devent[d] = <<r, "RUN_QUEUED">>
  BY <1>1, <1>2, <1>3 DEF DeliveryIntent
<1>4. \A g \in Handlers \ {h} : pc'[g] = pc[g] /\ msg'[g] = msg[g] /\ held'[g] = held[g]
  BY ZenonT(30) DEF Handler, Deliver, ClaimNotGranted, Claim, Charge, ChargeFenced, ChargeDenied,
     ProviderReturns, EvaluateRules, AttemptTimesOut, Report, CompletePersisted, CompleteLost,
     Ack, Nack, HandlerLost, ConnectionLost, HandlerDone, Goto, HandlerTypeOK
<1>5. CASE queue[r] > 0
  <2>1. ASSUME NEW q \in Runs, Deliver(h, q)
        PROVE  queue'[r] > 0 \/ (pc'[h] = "claiming" /\ msg'[h] = r /\ held'[h])
    BY <1>5, <2>1 DEF Deliver, Goto, HandlerTypeOK, BrokerTypeOK
  <2>2. CASE RequeueDelivery(h)
    <3>1. queue' = queue \/ queue' = [queue EXCEPT ![msg[h]] = @ + 1]
      BY <2>2 DEF RequeueDelivery
    <3>2. queue'[r] = queue[r] \/ queue'[r] = queue[r] + 1
      BY <3>1 DEF BrokerTypeOK
    <3> QED
      BY SMTT(10), SMTT(20), <1>5, <3>2 DEF DeliveryIntent, BrokerTypeOK
  <2>3. CASE UNCHANGED queue
    BY <1>5, <2>3 DEF DeliveryIntent
  <2> QED
    BY ZenonT(30), <2>1, <2>2, <2>3 DEF DeliveryIntent, Handler, ClaimNotGranted, Claim, Charge,
       ChargeFenced, ChargeDenied, ProviderReturns, EvaluateRules, AttemptTimesOut, Report,
       CompletePersisted, CompleteLost, Ack, Nack, HandlerLost, ConnectionLost
<1>6. ASSUME NEW g \in Handlers, pc[g] = "claiming", msg[g] = r, held[g]
      PROVE  DeliveryIntent(r)'
  <2>1. CASE g # h
    BY <1>4, <1>6, <2>1 DEF DeliveryIntent
  <2>2. CASE g = h
    <3>1. ~ClaimNotGranted(h) /\ ~Claim(h)
      BY ZenonT(30), <1>6, <2>2 DEF ClaimNotGranted, ClaimRefused, ClaimDeferred,
         ClaimExhausted, Claim,
         ClaimGranted, Claimable, DatabaseTypeOK
    <3>2. HandlerLost(h) \/ ConnectionLost(h)
      BY ZenonT(30), <1>6, <2>2, <3>1 DEF Handler, Deliver, Charge, ChargeFenced, ChargeDenied,
         ProviderReturns, EvaluateRules, AttemptTimesOut, CompletePersisted, CompleteLost,
         Ack, Nack
    <3>3. queue' = [queue EXCEPT ![r] = @ + 1]
      BY <1>6, <2>2, <3>2 DEF HandlerLost, ConnectionLost, RequeueDelivery
    <3>4. queue'[r] > 0
      BY SMTT(10), SMTT(20), <3>3 DEF BrokerTypeOK
    <3> QED
      BY <3>4 DEF DeliveryIntent
  <2> QED
    BY <2>1, <2>2
<1> QED
  BY <1>3, <1>5, <1>6 DEF DeliveryIntent

LEMMA NextIntent ==
    ASSUME RowTypeOK, QueuedHasIntent, [Next]_vars
    PROVE  QueuedHasIntent'
<1> SUFFICES ASSUME NEW r \in Runs, status'[r] = "QUEUED" PROVE DeliveryIntent(r)'
  BY DEF QueuedHasIntent
<1> USE DEF RowTypeOK
<1>1. status[r] = "QUEUED" => DeliveryIntent(r)
  BY DEF QueuedHasIntent
<1>2. "RUN_QUEUED" \in OutboxEventTypes
  BY DEF OutboxEventTypes
\* What a step needs to leave alone for the intent to stay where it is.
<1>3. ASSUME status[r] = "QUEUED", outbox'[r]["RUN_QUEUED"] = outbox[r]["RUN_QUEUED"],
             UNCHANGED processVars
      PROVE  DeliveryIntent(r)'
  BY <1>1, <1>3 DEF DeliveryIntent
<1>4. ASSUME outbox'[r]["RUN_QUEUED"] = outbox[r]["RUN_QUEUED"] + 1 PROVE DeliveryIntent(r)'
  BY SMTT(10), SMTT(20), <1>2, <1>4 DEF DeliveryIntent, DatabaseTypeOK
<1>5. CASE UNCHANGED vars
  BY <1>3, <1>5
<1>6. ASSUME NEW q \in Runs, Submit(q) \/ Evaluate(q) PROVE DeliveryIntent(r)'
  <2>1. /\ status' = [status EXCEPT ![q] = "QUEUED"]
        /\ outbox' = [outbox EXCEPT ![q]["RUN_QUEUED"] = @ + 1]
        /\ UNCHANGED processVars
    BY <1>6 DEF Submit, Evaluate, InsertQueuedRun
  <2>2. CASE q = r
    BY SMTT(10), SMTT(20), <1>2, <1>4, <2>1, <2>2 DEF DatabaseTypeOK
  <2>3. CASE q # r
    BY <1>3, <2>1, <2>3 DEF DatabaseTypeOK
  <2> QED
    BY <2>2, <2>3
<1>7. ASSUME NEW q \in Runs, BeginEvaluate(q) \/ LeaseExpires(q) \/ RetryFallsDue(q)
      PROVE  DeliveryIntent(r)'
  BY <1>3, <1>7 DEF BeginEvaluate, LeaseExpires, RetryFallsDue
<1>8. ASSUME NEW d \in Dispatchers, Dispatcher(d) PROVE DeliveryIntent(r)'
  <2>1. status' = status
    BY <1>8 DEF Dispatcher, LockEvent, Publish, PublishFails, MarkPublished, DispatcherCrash
  <2> QED
    BY <1>1, <1>8, <2>1, DispatcherKeepsIntent
<1>9. ASSUME NEW h \in Handlers, Handler(h) PROVE DeliveryIntent(r)'
  <2>1. status[r] = "QUEUED"
    <3>1. ASSUME NEW q \in Runs, NEW n, NEW code, FailAttempt(q, n, code)
          PROVE  status'[r] = status[r]
      BY <3>1 DEF FailAttempt, ScheduleRetry, DeadLetter, FailRun, DatabaseTypeOK
    <3>2. CASE CompletePersisted(h)
      <4>1. msg[h] \in Runs
        BY <3>2 DEF CompletePersisted, HandlerTypeOK
      <4>2. CASE status' = [status EXCEPT ![msg[h]] = "SUCCEEDED"]
        BY <4>1, <4>2 DEF DatabaseTypeOK
      <4> QED
        BY <3>1, <3>2, <4>1, <4>2
           DEF CompletePersisted, Persisted, CompleteSuccess, CompleteFailure
    <3>3. CASE ClaimNotGranted(h) \/ Claim(h)
      <4>1. msg[h] \in Runs
        BY <3>3 DEF ClaimNotGranted, Claim, HandlerTypeOK
      <4> QED
        BY ZenonT(30), <3>3, <4>1 DEF ClaimNotGranted, ClaimRefused, ClaimDeferred,
           ClaimExhausted, Claim,
           ClaimGranted, DatabaseTypeOK
    <3>4. CASE UNCHANGED status
      BY <3>4
    <3> QED
      BY ZenonT(30), <1>9, <3>2, <3>3, <3>4 DEF Handler, Deliver, Charge, ChargeFenced,
         ChargeDenied,
         ProviderReturns, EvaluateRules, AttemptTimesOut, Report, CompleteLost, CompleteRefused,
         Ack, Nack, HandlerLost, ConnectionLost
  <2> QED
    BY <1>1, <1>9, <2>1, HandlerKeepsIntent
<1>10. ASSUME NEW q \in Runs, RecoverLease(q) PROVE DeliveryIntent(r)'
  <2>1. PICK n : FailAttempt(q, n, "EXECUTION_LEASE_EXPIRED")
    BY ZenonT(30), <1>10 DEF RecoverLease, RecoverExpiredLease
  <2>2. outbox'[r]["RUN_QUEUED"] = outbox[r]["RUN_QUEUED"]
    BY ZenonT(30), <2>1, FailAttemptOutbox
  <2>3. status[r] = "QUEUED"
    BY <2>1 DEF FailAttempt, ScheduleRetry, DeadLetter, FailRun, DatabaseTypeOK
  <2> QED
    BY ZenonT(30), <1>3, <1>10, <2>2, <2>3 DEF RecoverLease
<1>11. ASSUME NEW q \in Runs, ScheduleRetryDue(q) PROVE DeliveryIntent(r)'
  <2>1. /\ status' = [status EXCEPT ![q] = "QUEUED"]
        /\ outbox' = [outbox EXCEPT ![q]["RUN_QUEUED"] = @ + 1]
        /\ UNCHANGED processVars
    BY <1>11 DEF ScheduleRetryDue, ScheduleDueRetry
  <2>2. CASE q = r
    BY SMTT(10), SMTT(20), <1>2, <1>4, <2>1, <2>2 DEF DatabaseTypeOK
  <2>3. CASE q # r
    BY <1>3, <2>1, <2>3 DEF DatabaseTypeOK
  <2> QED
    BY <2>2, <2>3
<1> QED
  BY <1>5, <1>6, <1>7, <1>8, <1>9, <1>10, <1>11 DEF Next, Api, Scheduler, Time

\* No accepted run is ever stranded, whatever crashes, is lost or is delivered
\* twice.
THEOREM NothingStranded == Spec => []NoStrandedRun
<1>1. Init => QueuedHasIntent
  BY SMTT(10), SMTT(20) DEF Init, QueuedHasIntent
<1>2. RowsInv /\ QueuedHasIntent /\ [Next]_vars => QueuedHasIntent'
  BY NextIntent DEF RowsInv
<1>3. RowsInv /\ QueuedHasIntent => NoStrandedRun
  BY DEF RowsInv, RetryDated, QueuedHasIntent, NoStrandedRun
<1> QED
  BY <1>1, <1>2, <1>3, RowsInvariant, PTL DEF Spec

-----------------------------------------------------------------------------
(* DEAD_LETTERED runs *)

Notice(r) ==
    \/ outbox[r]["RUN_DEAD_LETTERED"] > 0
    \/ \E d \in Dispatchers : devent[d] = <<r, "RUN_DEAD_LETTERED">>
    \/ r \in deadLetters

\* DeadLetterNoticeKept alone is not inductive: MarkPublished forgets the row
\* of a confirmed publication, whose message must then be in the queue.
NoticeInv ==
    /\ DeadLetterNoticeKept
    /\ \A d \in Dispatchers, r \in Runs :
          dpc[d] = "confirmed" /\ devent[d] = <<r, "RUN_DEAD_LETTERED">> => r \in deadLetters

\* A dispatcher moves the notice from the outbox to the dead-letter queue, or
\* back, and makes none up.
LEMMA DispatcherKeepsNotice ==
    ASSUME RowTypeOK, NoticeInv, NEW d \in Dispatchers, Dispatcher(d)
    PROVE  NoticeInv'
<1> USE DEF RowTypeOK
<1>1. status' = status
  BY DEF Dispatcher, LockEvent, Publish, PublishFails, MarkPublished, DispatcherCrash
<1>2. "RUN_DEAD_LETTERED" \in OutboxEventTypes /\ "RUN_QUEUED" # "RUN_DEAD_LETTERED"
  BY DEF OutboxEventTypes
<1>3. \A e \in Dispatchers \ {d} : dpc'[e] = dpc[e] /\ devent'[e] = devent[e]
  BY DEF Dispatcher, LockEvent, Publish, PublishFails, MarkPublished, DispatcherCrash, Unlock,
     DispatcherTypeOK
<1>4. \A r \in Runs : status[r] = "DEAD_LETTERED" <=> Notice(r)
  BY DEF NoticeInv, DeadLetterNoticeKept, Notice
<1>5. deadLetters \subseteq deadLetters'
  BY DEF Dispatcher, LockEvent, Publish, PublishFails, MarkPublished, DispatcherCrash, Route
<1>6. ASSUME NEW r \in Runs, dpc'[d] = "confirmed", devent'[d] = <<r, "RUN_DEAD_LETTERED">>
      PROVE  r \in deadLetters'
  <2>1. Publish(d)
    BY <1>6 DEF Dispatcher, LockEvent, Publish, PublishFails, MarkPublished, DispatcherCrash,
       Unlock, DispatcherTypeOK
  <2>2. devent[d] = <<r, "RUN_DEAD_LETTERED">>
    BY <1>6, <2>1 DEF Publish
  <2>3. Route(r, "RUN_DEAD_LETTERED")
    <3>1. devent[d][1] = r /\ devent[d][2] = "RUN_DEAD_LETTERED"
      BY SMTT(10), SMTT(20), <2>2
    <3> QED
      BY <2>1, <3>1 DEF Publish
  <2> QED
    BY <1>2, <2>3 DEF Route
<1>7. ASSUME NEW r \in Runs PROVE Notice(r)' <=> Notice(r)
  <2>1. ASSUME NEW q \in Runs, NEW type \in OutboxEventTypes, LockEvent(d, q, type)
        PROVE  Notice(r)' <=> Notice(r)
    <3>1. devent[d] = <<>> /\ devent'[d] = <<q, type>> /\ deadLetters' = deadLetters
      BY <2>1 DEF LockEvent, DispatcherTypeOK
    <3>2. CASE q = r /\ type = "RUN_DEAD_LETTERED"
      BY <2>1, <3>1, <3>2 DEF LockEvent, Notice
    <3>3. CASE ~(q = r /\ type = "RUN_DEAD_LETTERED")
      <4>1. outbox'[r]["RUN_DEAD_LETTERED"] = outbox[r]["RUN_DEAD_LETTERED"]
        BY <1>2, <2>1, <3>3 DEF LockEvent, DatabaseTypeOK
      <4>2. devent[d] # <<r, "RUN_DEAD_LETTERED">> /\ devent'[d] # <<r, "RUN_DEAD_LETTERED">>
        BY SMTT(10), SMTT(20), <3>1, <3>3
      <4> QED
        BY <1>3, <3>1, <4>1, <4>2 DEF Notice
    <3> QED
      BY <3>2, <3>3
  <2>2. ASSUME dpc[d] # "idle" PROVE devent[d] \in Runs \X OutboxEventTypes
    BY <2>2 DEF DispatcherTypeOK
  <2>3. CASE Publish(d)
    <3>1. dpc[d] # "idle" /\ outbox' = outbox /\ devent' = devent
      BY <2>3 DEF Publish
    <3>2. r \in deadLetters' => r \in deadLetters \/ devent[d] = <<r, "RUN_DEAD_LETTERED">>
      BY SMTT(10), SMTT(20), <2>2, <2>3, <3>1 DEF Publish, Route
    <3> QED
      BY <1>5, <3>1, <3>2 DEF Notice
  <2>4. CASE PublishFails(d) \/ DispatcherCrash(d)
    <3>1. dpc[d] # "idle" /\ Unlock(d)
      BY <2>4 DEF PublishFails, DispatcherCrash
    <3>2. PICK q \in Runs, type \in OutboxEventTypes : devent[d] = <<q, type>>
      BY SMTT(10), SMTT(20), <2>2, <3>1
    <3>3. outbox' = [outbox EXCEPT ![q][type] = @ + 1] /\ devent'[d] = <<>>
      BY SMTT(10), SMTT(20), <3>1, <3>2 DEF Unlock, DispatcherTypeOK
    <3>4. r \in deadLetters' => r \in deadLetters \/ devent[d] = <<r, "RUN_DEAD_LETTERED">>
      BY SMTT(10), SMTT(20), <2>4, <3>2 DEF PublishFails, DispatcherCrash, Route
    <3>5. CASE q = r /\ type = "RUN_DEAD_LETTERED"
      <4>1. outbox'[r]["RUN_DEAD_LETTERED"] > 0
        BY SMTT(10), SMTT(20), <1>2, <3>3, <3>5 DEF DatabaseTypeOK
      <4> QED
        BY <3>2, <3>5, <4>1 DEF Notice
    <3>6. CASE ~(q = r /\ type = "RUN_DEAD_LETTERED")
      <4>1. outbox'[r]["RUN_DEAD_LETTERED"] = outbox[r]["RUN_DEAD_LETTERED"]
        BY <1>2, <3>3, <3>6 DEF DatabaseTypeOK
      <4>2. devent[d] # <<r, "RUN_DEAD_LETTERED">> /\ devent'[d] # <<r, "RUN_DEAD_LETTERED">>
        BY SMTT(10), SMTT(20), <3>2, <3>3, <3>6
      <4> QED
        BY ZenonT(30), <1>3, <1>5, <3>4, <4>1, <4>2 DEF Notice
    <3> QED
      BY <3>5, <3>6
  <2>5. CASE MarkPublished(d)
    <3>1. dpc[d] = "confirmed" /\ outbox' = outbox /\ deadLetters' = deadLetters
          /\ devent'[d] = <<>>
      BY <2>5 DEF MarkPublished, DispatcherTypeOK
    <3>2. devent[d] = <<r, "RUN_DEAD_LETTERED">> => r \in deadLetters
      BY <3>1 DEF NoticeInv
    <3>3. devent'[d] # <<r, "RUN_DEAD_LETTERED">>
      BY SMTT(10), SMTT(20), <3>1
    <3> QED
      BY <1>3, <3>1, <3>2, <3>3 DEF Notice
  <2> QED
    BY <2>1, <2>3, <2>4, <2>5 DEF Dispatcher
<1>8. DeadLetterNoticeKept'
  BY ZenonT(30), <1>1, <1>4, <1>7 DEF DeadLetterNoticeKept, Notice
<1>9. ASSUME NEW e \in Dispatchers, NEW r \in Runs,
             dpc'[e] = "confirmed", devent'[e] = <<r, "RUN_DEAD_LETTERED">>
      PROVE  r \in deadLetters'
  BY <1>3, <1>5, <1>6, <1>9 DEF NoticeInv
<1> QED
  BY <1>8, <1>9 DEF NoticeInv

\* What any other step may do to a run: leave both its notice and whether it is
\* dead-lettered alone, or dead-letter it and write the notice.
NoticeWithStatus(r) ==
    \/ /\ status'[r] = "DEAD_LETTERED" <=> status[r] = "DEAD_LETTERED"
       /\ outbox'[r]["RUN_DEAD_LETTERED"] = outbox[r]["RUN_DEAD_LETTERED"]
    \/ /\ status'[r] = "DEAD_LETTERED"
       /\ outbox'[r]["RUN_DEAD_LETTERED"] > 0

LEMMA FailAttemptNotice ==
    ASSUME RowTypeOK, NEW q \in Runs, NEW n, NEW code, status[q] = "RUNNING",
           FailAttempt(q, n, code), NEW r \in Runs
    PROVE  NoticeWithStatus(r)
<1>1. r # q => status'[r] = status[r] /\ outbox'[r] = outbox[r]
  BY ZenonT(30), FailAttemptOutbox DEF FailAttempt, ScheduleRetry, DeadLetter, FailRun, RowTypeOK,
     DatabaseTypeOK
<1>2. CASE r # q
  BY ZenonT(30), <1>1, <1>2 DEF NoticeWithStatus
<1>3. CASE r = q
  BY ZenonT(30), <1>3, FailAttemptOutbox DEF NoticeWithStatus
<1> QED
  BY <1>2, <1>3

LEMMA HandlerNotice ==
    ASSUME RowTypeOK, NEW h \in Handlers, Handler(h), NEW r \in Runs
    PROVE  NoticeWithStatus(r)
<1> USE DEF RowTypeOK
<1>1. CASE UNCHANGED <<status, outbox>>
  BY <1>1 DEF NoticeWithStatus
<1>2. CASE ClaimNotGranted(h) \/ Claim(h)
  <2>1. msg[h] \in Runs
    BY <1>2 DEF ClaimNotGranted, Claim, HandlerTypeOK
  <2>2. outbox' = outbox
    BY ZenonT(30), <1>2 DEF ClaimNotGranted, ClaimRefused, ClaimDeferred, ClaimExhausted, Claim,
       ClaimGranted
  <2>3. status'[r] = "DEAD_LETTERED" <=> status[r] = "DEAD_LETTERED"
    BY ZenonT(30), <1>2, <2>1 DEF ClaimNotGranted, ClaimRefused, ClaimDeferred, ClaimExhausted,
       Claim,
       ClaimGranted, Claimable, DatabaseTypeOK
  <2> QED
    BY <2>2, <2>3 DEF NoticeWithStatus
<1>3. CASE CompletePersisted(h)
  <2>1. msg[h] \in Runs /\ status[msg[h]] = "RUNNING"
    BY SMTT(10), SMTT(20), <1>3 DEF CompletePersisted, Persisted, CompleteSuccess, CompleteFailure, MayComplete,
       OwnsActiveLease, HandlerTypeOK
  <2>2. CASE status' = [status EXCEPT ![msg[h]] = "SUCCEEDED"] /\ UNCHANGED outbox
    BY <2>1, <2>2 DEF NoticeWithStatus, DatabaseTypeOK
  <2>3. CASE FailAttempt(msg[h], att[h], out[h])
    BY ZenonT(30), <2>1, <2>3, FailAttemptNotice
  <2> QED
    BY <1>3, <2>2, <2>3 DEF CompletePersisted, Persisted, CompleteSuccess, CompleteFailure
<1> QED
  BY ZenonT(30), <1>1, <1>2, <1>3 DEF Handler, Deliver, Charge, ChargeFenced, ChargeDenied,
     ProviderReturns, EvaluateRules, AttemptTimesOut, Report, CompleteLost, CompleteRefused,
     Ack, Nack, HandlerLost, ConnectionLost

\* The API and the scheduler write RUN_QUEUED rows only, for runs that are not
\* terminal, or dead-letter a run with FailAttempt.
LEMMA RestNotice ==
    ASSUME RowTypeOK, Api \/ Scheduler \/ Time \/ UNCHANGED vars, NEW r \in Runs
    PROVE  NoticeWithStatus(r)
<1> USE DEF RowTypeOK
<1>1. CASE UNCHANGED <<status, outbox>>
  BY ZenonT(30), <1>1 DEF NoticeWithStatus
<1>2. ASSUME NEW q \in Runs, status[q] \in {"ABSENT", "RETRY_SCHEDULED"},
             status' = [status EXCEPT ![q] = "QUEUED"],
             outbox' = [outbox EXCEPT ![q]["RUN_QUEUED"] = @ + 1]
      PROVE  NoticeWithStatus(r)
  <2>1. status'[r] = "DEAD_LETTERED" <=> status[r] = "DEAD_LETTERED"
    BY <1>2 DEF DatabaseTypeOK
  <2>2. outbox'[r]["RUN_DEAD_LETTERED"] = outbox[r]["RUN_DEAD_LETTERED"]
    BY <1>2 DEF DatabaseTypeOK, OutboxEventTypes
  <2> QED
    BY ZenonT(30), <2>1, <2>2 DEF NoticeWithStatus
<1>3. ASSUME NEW q \in Runs, Submit(q) \/ Evaluate(q) \/ ScheduleRetryDue(q)
      PROVE  NoticeWithStatus(r)
  BY <1>2, <1>3 DEF Submit, Evaluate, InsertQueuedRun, ScheduleRetryDue, ScheduleDueRetry
<1>4. ASSUME NEW q \in Runs, RecoverLease(q) PROVE NoticeWithStatus(r)
  <2>1. PICK n : FailAttempt(q, n, "EXECUTION_LEASE_EXPIRED")
    BY ZenonT(30), <1>4 DEF RecoverLease, RecoverExpiredLease
  <2> QED
    BY ZenonT(30), <1>4, <2>1, FailAttemptNotice DEF RecoverLease, RecoverExpiredLease
<1>5. ASSUME NEW q \in Runs, BeginEvaluate(q) \/ LeaseExpires(q) \/ RetryFallsDue(q)
      PROVE  NoticeWithStatus(r)
  BY <1>1, <1>5 DEF BeginEvaluate, LeaseExpires, RetryFallsDue
<1> QED
  BY <1>1, <1>3, <1>4, <1>5 DEF Api, Scheduler, Time

LEMMA NextNotice ==
    ASSUME RowTypeOK, NoticeInv, [Next]_vars
    PROVE  NoticeInv'
<1>1. ASSUME UNCHANGED <<dispatcherVars, deadLetters>>, \A r \in Runs : NoticeWithStatus(r)
      PROVE  NoticeInv'
  <2>1. ASSUME NEW r \in Runs
        PROVE  status'[r] = "DEAD_LETTERED" <=>
                   \/ outbox'[r]["RUN_DEAD_LETTERED"] > 0
                   \/ \E d \in Dispatchers : devent'[d] = <<r, "RUN_DEAD_LETTERED">>
                   \/ r \in deadLetters'
    BY <1>1 DEF NoticeInv, DeadLetterNoticeKept, NoticeWithStatus
  <2>2. DeadLetterNoticeKept'
    BY <2>1 DEF DeadLetterNoticeKept
  <2> QED
    BY <1>1, <2>2 DEF NoticeInv
<1>2. ASSUME NEW h \in Handlers, Handler(h) PROVE NoticeInv'
  <2>1. UNCHANGED <<dispatcherVars, deadLetters>>
    BY ZenonT(30), <1>2 DEF Handler, Deliver, ClaimNotGranted, Claim, Charge, ChargeFenced,
       ChargeDenied,
       ProviderReturns, EvaluateRules, AttemptTimesOut, Report, CompletePersisted, CompleteLost,
       Ack, Nack, HandlerLost, ConnectionLost
  <2> QED
    BY <1>1, <1>2, <2>1, HandlerNotice
<1>3. CASE Api \/ Scheduler \/ Time \/ UNCHANGED vars
  <2>1. UNCHANGED <<dispatcherVars, deadLetters>>
    BY ZenonT(30), <1>3 DEF Api, Submit, BeginEvaluate, Evaluate, Scheduler, RecoverLease,
       ScheduleRetryDue,
       Time, LeaseExpires, RetryFallsDue
  <2> QED
    BY <1>1, <1>3, <2>1, RestNotice
<1> QED
  BY <1>2, <1>3, DispatcherKeepsNotice DEF Next

\* The notice of a dead-lettered run is never lost, and no run that is not
\* dead-lettered is ever announced as one.
THEOREM NoticeSafety == Spec => []DeadLetterNoticeKept
<1>1. Init => NoticeInv
  BY SMTT(10), SMTT(20) DEF Init, NoticeInv, DeadLetterNoticeKept, OutboxEventTypes
<1>2. RowTypeOK /\ NoticeInv /\ [Next]_vars => NoticeInv'
  BY NextNotice
<1>3. NoticeInv => DeadLetterNoticeKept
  BY DEF NoticeInv
<1> QED
  BY <1>1, <1>2, <1>3, RowsTyped, PTL DEF Spec

-----------------------------------------------------------------------------
(* Evaluations *)

\* A step that touches no evaluation: jobs that are pending stay so.
JobsKept ==
    /\ UNCHANGED evalVars
    /\ \A j \in Runs : WorkKind(j) = "evaluation" =>
          \/ status'[j] = status[j]
          \/ status[j] \in ActiveStatuses /\ status'[j] \in ActiveStatuses

\* Job j ends, and its evaluation with it.
JobEnded(j, verdict) ==
    /\ WorkKind(j) = "evaluation" /\ evaluation[j] # "NOT_RUN"
    /\ status[j] \in ActiveStatuses
    /\ \/ status'[j] = "SUCCEEDED" /\ verdict \in {"PASSED", "FAILED"}
       \/ status'[j] \in {"FAILED", "DEAD_LETTERED"} /\ verdict = "ERROR"
    /\ \A q \in Runs \ {j} : status'[q] = status[q]
    /\ evaluation' = [evaluation EXCEPT ![j] = verdict]
    /\ summary' = IF IsLatestEvaluation(j) THEN [summary EXCEPT ![SourceOf[j]] = verdict] ELSE summary
    /\ created' = created

EvaluationStep ==
    \/ JobsKept
    \/ \E j \in Runs : BeginEvaluate(j) \/ Evaluate(j) \/ \E verdict \in EvaluationStatuses : JobEnded(j, verdict)

\* A run that ends ends its evaluation, if it is a job.
LEMMA FinalizedJobs ==
    ASSUME NEW r \in Runs, OnlyRun(r), status[r] \in ActiveStatuses,
           NEW own, NEW verdict, FinalizeEvaluationJob(r, own, verdict),
           \/ status'[r] = "SUCCEEDED" /\ verdict \in {"PASSED", "FAILED"}
           \/ status'[r] \in {"FAILED", "DEAD_LETTERED"} /\ verdict = "ERROR"
    PROVE  EvaluationStep
<1>1. \A q \in Runs \ {r} : status'[q] = status[q]
  BY ZenonT(30) DEF OnlyRun, SameRun
<1>2. CASE WorkKind(r) # "evaluation"
  <2>1. JobsKept
    BY <1>1, <1>2 DEF FinalizeEvaluationJob, JobsKept
  <2> QED
    BY ZenonT(30), <2>1 DEF EvaluationStep
<1>3. CASE WorkKind(r) = "evaluation"
  <2>1. JobEnded(r, verdict) /\ verdict \in EvaluationStatuses
    BY ZenonT(30), <1>1, <1>3 DEF FinalizeEvaluationJob, JobEnded, EvaluationStatuses
  <2> QED
    BY <2>1 DEF EvaluationStep
<1> QED
  BY <1>2, <1>3

LEMMA FailedAttemptJobs ==
    ASSUME RowTypeOK, NEW r \in Runs, NEW n, AttemptIsOpen(r, n), status[r] = "RUNNING",
           NEW code, FailAttempt(r, n, code)
    PROVE  EvaluationStep
<1>1. OnlyRun(r) /\ status[r] \in ActiveStatuses
  BY FailAttemptEnds DEF ActiveStatuses
<1>2. CASE ScheduleRetry(r)
  <2>1. status'[r] = "RETRY_SCHEDULED" /\ UNCHANGED evalVars
    BY <1>2 DEF ScheduleRetry, RowTypeOK, DatabaseTypeOK
  <2>2. JobsKept
    BY ZenonT(30), <1>1, <2>1 DEF JobsKept, OnlyRun, SameRun, ActiveStatuses
  <2> QED
    BY <2>2 DEF EvaluationStep
<1>3. CASE DeadLetter(r)
  <2>1. status'[r] = "DEAD_LETTERED" /\ FinalizeEvaluationJob(r, {"RUN_DEAD_LETTERED"}, "ERROR")
    BY <1>3 DEF DeadLetter, RowTypeOK, DatabaseTypeOK
  <2> QED
    BY ZenonT(30), <1>1, <2>1, FinalizedJobs
<1>4. CASE FailRun(r)
  <2>1. status'[r] = "FAILED" /\ FinalizeEvaluationJob(r, {"RUN_FAILED"}, "ERROR")
    BY <1>4 DEF FailRun, RowTypeOK, DatabaseTypeOK
  <2> QED
    BY <1>1, <2>1, FinalizedJobs
<1> QED
  BY <1>2, <1>3, <1>4 DEF FailAttempt

\* Every step leaves the evaluations alone or does one of three things to one.
LEMMA EvaluationSteps ==
    ASSUME RowTypeOK, [Next]_vars
    PROVE  EvaluationStep
<1>1. ASSUME UNCHANGED <<status, evalVars>> PROVE EvaluationStep
  BY <1>1 DEF EvaluationStep, JobsKept
<1>2. CASE Api
  <2>1. ASSUME NEW r \in Runs, Submit(r) PROVE JobsKept
    BY <2>1 DEF Submit, InsertQueuedRun, JobsKept, RowTypeOK, DatabaseTypeOK
  <2> QED
    BY <1>2, <2>1 DEF Api, EvaluationStep
<1>3. CASE \E d \in Dispatchers : Dispatcher(d)
  BY <1>1, <1>3 DEF Dispatcher, LockEvent, Publish, PublishFails, MarkPublished, DispatcherCrash
<1>4. ASSUME NEW h \in Handlers, Handler(h) PROVE EvaluationStep
  <2> DEFINE r == msg[h]
  <2>1. pc[h] # "idle" => r \in Runs
    BY DEF RowTypeOK, HandlerTypeOK
  <2>2. CASE ClaimNotGranted(h)
    <3>1. r \in Runs
      BY ZenonT(30), <2>1, <2>2 DEF ClaimNotGranted
    <3>2. CASE ClaimRefused(r)
      BY <1>1, <3>2 DEF ClaimRefused
    <3>3. CASE ClaimDeferred(r)
      <4>1. JobsKept
        BY <3>1, <3>3 DEF ClaimDeferred, Claimable, JobsKept, ActiveStatuses, RowTypeOK,
           DatabaseTypeOK
      <4> QED
        BY <4>1 DEF EvaluationStep
    <3>4. CASE ClaimExhausted(r)
      <4>1. /\ status[r] \in ActiveStatuses /\ status'[r] = "FAILED"
            /\ FinalizeEvaluationJob(r, {}, "ERROR")
        BY <3>1, <3>4 DEF ClaimExhausted, Claimable, ActiveStatuses, RowTypeOK, DatabaseTypeOK
      <4>2. OnlyRun(r)
        BY <3>1, <3>4 DEF ClaimExhausted, OnlyRun, SameRun, RowTypeOK, DatabaseTypeOK
      <4> QED
        BY ZenonT(30), <3>1, <4>1, <4>2, FinalizedJobs
    <3> QED
      BY ZenonT(30), <2>2, <3>2, <3>3, <3>4 DEF ClaimNotGranted
  <2>3. CASE Claim(h)
    <3>1. r \in Runs /\ ClaimGranted(r, WorkerOf[h])
      BY <2>1, <2>3 DEF Claim
    <3>2. JobsKept
      BY ZenonT(30), <3>1 DEF ClaimGranted, Claimable, JobsKept, ActiveStatuses, RowTypeOK,
         DatabaseTypeOK
    <3> QED
      BY <3>2 DEF EvaluationStep
  <2>4. CASE CompletePersisted(h)
    <3>1. r \in Runs
      BY ZenonT(30), <2>1, <2>4 DEF CompletePersisted
    <3>2. CASE CompleteSuccess(r, att[h], WorkerOf[h], late[h], out[h] = "OK")
      <4>1. OnlyRun(r)
        BY <3>1, <3>2, SuccessEnds
      <4>2. status[r] \in ActiveStatuses /\ status'[r] = "SUCCEEDED"
        BY ZenonT(30), <3>1, <3>2 DEF CompleteSuccess, MayComplete, OwnsActiveLease,
           ActiveStatuses, RowTypeOK,
                          DatabaseTypeOK
      <4>3. \E verdict \in {"PASSED", "FAILED"} : FinalizeEvaluationJob(r, {"RUN_SUCCEEDED"}, verdict)
        BY <3>2 DEF CompleteSuccess
      <4> QED
        BY ZenonT(30), <3>1, <4>1, <4>2, <4>3, FinalizedJobs
    <3>3. CASE CompleteFailure(r, att[h], WorkerOf[h], late[h], out[h])
      BY ZenonT(30), <3>1, <3>3, FailedAttemptJobs DEF CompleteFailure, MayComplete, OwnsActiveLease
    <3> QED
      BY ZenonT(30), <2>4, <3>2, <3>3 DEF CompletePersisted, Persisted
  <2>5. CASE UNCHANGED dbVars
    BY <1>1, <2>5
  <2> QED
    BY ZenonT(30), <1>4, <2>2, <2>3, <2>4, <2>5 DEF Handler, Deliver, Charge, ChargeFenced,
       ChargeDenied,
       ProviderReturns, EvaluateRules, AttemptTimesOut, Report, CompleteLost, CompleteRefused,
       Ack, Nack, HandlerLost, ConnectionLost
<1>5. ASSUME NEW r \in Runs, RecoverLease(r) PROVE EvaluationStep
  <2>1. PICK n \in DOMAIN attempts[r] :
            attempts[r][n] = "OPEN" /\ FailAttempt(r, n, "EXECUTION_LEASE_EXPIRED")
    BY <1>5 DEF RecoverLease, RecoverExpiredLease
  <2>2. status[r] = "RUNNING"
    BY <1>5 DEF RecoverLease, RecoverExpiredLease
  <2> QED
    BY <2>1, <2>2, FailedAttemptJobs DEF AttemptIsOpen
<1>6. ASSUME NEW r \in Runs, ScheduleRetryDue(r) PROVE JobsKept
  BY <1>6 DEF ScheduleRetryDue, ScheduleDueRetry, JobsKept, ActiveStatuses, RowTypeOK,
     DatabaseTypeOK
<1>7. ASSUME NEW r \in Runs, LeaseExpires(r) \/ RetryFallsDue(r) PROVE EvaluationStep
  BY <1>1, <1>7 DEF LeaseExpires, RetryFallsDue
<1> QED
  BY <1>1, <1>2, <1>3, <1>4, <1>5, <1>6, <1>7 DEF Next, Scheduler, Time, EvaluationStep

LEMMA InitDated == Init => TypeOK
BY SMTT(10), SMTT(20), InitTypes DEF TypeOK, Init

\* evaluate dates a job with a number, and no other step dates one.
LEMMA DatesTyped ==
    ASSUME TypeOK, [Next]_vars
    PROVE  TypeOK'
<1>1. RowTypeOK /\ created \in [Runs -> Nat]
  BY DEF TypeOK
<1>2. ASSUME NEW job \in Runs, BeginEvaluate(job) PROVE created' \in [Runs -> Nat]
  <2>1. Cardinality({j \in Runs : created[j] # 0}) \in Nat
    BY RunsAssumption, FS_Subset, FS_CardinalityType
  <2> QED
    BY SMTT(10), SMTT(20), <1>1, <1>2, <2>1 DEF BeginEvaluate
<1>3. created' = created => created' \in [Runs -> Nat]
  BY <1>1
<1>4. created' \in [Runs -> Nat]
  BY ZenonT(30), <1>1, <1>2, <1>3, EvaluationSteps DEF EvaluationStep, JobsKept, Evaluate, JobEnded
<1>5. RowTypeOK'
  BY <1>1, NextTypes
<1> QED
  BY <1>4, <1>5 DEF TypeOK

\* TypeOK holds in every reachable state: in particular no message, outbox row
\* or delivery is ever taken that was not there.
THEOREM TypeCorrect == Spec => []TypeOK
BY InitDated, DatesTyped, PTL DEF Spec

Begun == {j \in Runs : created[j] # 0}

\* The start of a transaction dates its evaluation, and no two start together.
DatesDistinct ==
    /\ \A j \in Runs : created[j] <= Cardinality(Begun)
    /\ \A i, j \in Runs : created[i] # 0 /\ created[i] = created[j] => i = j

\* A job is inserted by a transaction that has begun.
JobsDated ==
    \A j \in Runs : WorkKind(j) = "evaluation" /\ created[j] = 0 => status[j] = "ABSENT"

EvaluationInv ==
    TypeOK /\ EvaluationFollowsJob /\ JobsDated /\ DatesDistinct /\ SettledSummaryIsNewest

LEMMA Antisymmetric ==
    \A n, m \in Nat : n <= m /\ m <= n => n = m
BY SMTT(10), SMTT(20)

LEMMA BeginDates ==
    ASSUME TypeOK, DatesDistinct, NEW job \in Runs, BeginEvaluate(job)
    PROVE  DatesDistinct'
<1> DEFINE n == Cardinality(Begun)
<1>1. created \in [Runs -> Nat] /\ created[job] = 0
  BY DEF TypeOK, RowTypeOK, DatabaseTypeOK, BeginEvaluate
<1>2. IsFiniteSet(Begun) /\ n \in Nat
  <2>1. Begun \subseteq Runs /\ IsFiniteSet(Runs)
    BY RunsAssumption DEF Begun
  <2> QED
    BY <2>1, FS_Subset, FS_CardinalityType
<1>3. created' = [created EXCEPT ![job] = 1 + n]
  BY DEF BeginEvaluate, Begun
<1> HIDE DEF n
<1>4. created'[job] = 1 + n /\ \A j \in Runs \ {job} : created'[j] = created[j]
  BY <1>1, <1>3
<1>5. Begun' = Begun \cup {job} /\ job \notin Begun
  BY SMTT(10), SMTT(20), <1>1, <1>2, <1>4 DEF Begun
<1>6. Cardinality(Begun') = n + 1
  BY <1>2, <1>5, FS_AddElement DEF n
<1>7. \A j \in Runs : created[j] \in Nat /\ created[j] <= n
  BY <1>1 DEF DatesDistinct, n
<1>8. \A j \in Runs : created'[j] <= Cardinality(Begun')
  BY SMTT(10), SMTT(20), <1>2, <1>4, <1>6, <1>7
<1>9. ASSUME NEW i \in Runs, NEW j \in Runs, created'[i] # 0, created'[i] = created'[j]
      PROVE  i = j
  <2>1. CASE i # job /\ j # job
    BY <1>4, <1>9, <2>1 DEF DatesDistinct
  <2>2. \A k \in Runs \ {job} : created'[k] # 1 + n
    BY SMTT(10), SMTT(20), <1>2, <1>4, <1>7
  <2> QED
    BY <1>4, <1>9, <2>1, <2>2
<1> QED
  BY ZenonT(30), <1>8, <1>9 DEF DatesDistinct

\* Steps that leave the evaluations alone.
LEMMA KeptEvaluations ==
    ASSUME EvaluationInv, TypeOK', JobsKept
    PROVE  EvaluationInv'
<1>1. UNCHANGED <<evaluation, created, summary>>
  BY DEF JobsKept
<1>2. ASSUME NEW j \in Runs, WorkKind(j) = "evaluation"
      PROVE  /\ status'[j] = "ABSENT" <=> status[j] = "ABSENT"
             /\ status'[j] \in ActiveStatuses <=> status[j] \in ActiveStatuses
             /\ status'[j] = "SUCCEEDED" <=> status[j] = "SUCCEEDED"
  BY <1>2 DEF JobsKept, ActiveStatuses
<1>3. EvaluationFollowsJob'
  BY <1>1, <1>2 DEF EvaluationInv, EvaluationFollowsJob, WorkKind
<1>4. JobsDated'
  BY <1>1, <1>2 DEF EvaluationInv, JobsDated, WorkKind
<1>5. DatesDistinct' /\ SettledSummaryIsNewest'
  BY ZenonT(30), <1>1 DEF EvaluationInv, DatesDistinct, Begun, SettledSummaryIsNewest, EvaluationsOf
<1> QED
  BY <1>3, <1>4, <1>5 DEF EvaluationInv

\* The transaction of a job begins: its evaluation has no row yet.
LEMMA BegunEvaluations ==
    ASSUME EvaluationInv, TypeOK', NEW job \in Runs, BeginEvaluate(job)
    PROVE  EvaluationInv'
<1>1. UNCHANGED <<status, evaluation, summary>>
  BY DEF BeginEvaluate
<1>2. \A j \in Runs \ {job} : created'[j] = created[j]
  BY ZenonT(30) DEF BeginEvaluate, EvaluationInv, TypeOK, RowTypeOK, DatabaseTypeOK
<1>3. evaluation[job] = "NOT_RUN" /\ status[job] = "ABSENT"
  BY DEF BeginEvaluate, EvaluationInv, EvaluationFollowsJob, JobsDated
<1>4. EvaluationFollowsJob' /\ JobsDated'
  BY <1>1, <1>2, <1>3 DEF EvaluationInv, EvaluationFollowsJob, JobsDated, WorkKind
<1>5. DatesDistinct'
  BY BeginDates DEF EvaluationInv
<1>6. ASSUME NEW r \in Runs
      PROVE  EvaluationsOf(r)' = EvaluationsOf(r) /\ \A i \in EvaluationsOf(r) : created'[i] = created[i]
  BY ZenonT(30), <1>1, <1>2, <1>3 DEF EvaluationsOf
<1>7. SettledSummaryIsNewest'
  BY ZenonT(30), <1>1, <1>6 DEF EvaluationInv, SettledSummaryIsNewest
<1> QED
  BY <1>4, <1>5, <1>7 DEF EvaluationInv

\* A job is inserted: its source's summary is pending again.
LEMMA InsertedEvaluations ==
    ASSUME EvaluationInv, TypeOK', NEW job \in Runs, Evaluate(job)
    PROVE  EvaluationInv'
<1> DEFINE source == SourceOf[job]
<1>1. /\ WorkKind(job) = "evaluation" /\ created[job] # 0 /\ created' = created
      /\ source \in Runs
  BY ZenonT(30), RunsAssumption DEF Evaluate, WorkKind
<1>2. status'[job] = "QUEUED" /\ \A j \in Runs \ {job} : status'[j] = status[j]
  BY ZenonT(30) DEF Evaluate, InsertQueuedRun, EvaluationInv, TypeOK, RowTypeOK, DatabaseTypeOK
<1>3. evaluation'[job] = "PENDING" /\ \A j \in Runs \ {job} : evaluation'[j] = evaluation[j]
  BY ZenonT(30) DEF Evaluate, EvaluationInv, TypeOK, RowTypeOK, DatabaseTypeOK
<1>4. summary'[source] = "PENDING" /\ \A r \in Runs \ {source} : summary'[r] = summary[r]
  BY ZenonT(30), <1>1 DEF Evaluate, EvaluationInv, TypeOK, RowTypeOK, DatabaseTypeOK
<1>5. EvaluationFollowsJob' /\ JobsDated'
  BY ZenonT(30), <1>1, <1>2, <1>3 DEF EvaluationInv, EvaluationFollowsJob, JobsDated, WorkKind,
     ActiveStatuses
<1>6. DatesDistinct'
  BY <1>1 DEF EvaluationInv, DatesDistinct, Begun
<1>7. \A r \in Runs \ {source} : EvaluationsOf(r)' = EvaluationsOf(r) /\ job \notin EvaluationsOf(r)
  BY ZenonT(30), <1>3 DEF EvaluationsOf
<1>8. SettledSummaryIsNewest'
  <2> SUFFICES ASSUME NEW r \in Runs \ {source}, NEW j \in EvaluationsOf(r)',
                      \A i \in EvaluationsOf(r)' : created'[i] <= created'[j]
               PROVE  summary'[r] \in {"PENDING", evaluation'[j]}
    BY ZenonT(30), <1>4 DEF SettledSummaryIsNewest
  <2>1. j \in EvaluationsOf(r) /\ j \in Runs \ {job}
    BY ZenonT(30), <1>7 DEF EvaluationsOf
  <2>2. \A i \in EvaluationsOf(r) : created[i] <= created[j]
    BY ZenonT(30), <1>1, <1>7
  <2> QED
    BY ZenonT(30), <1>3, <1>4, <2>1, <2>2 DEF EvaluationInv, SettledSummaryIsNewest
<1> QED
  BY <1>5, <1>6, <1>8 DEF EvaluationInv

\* A job ends.  Only the newest evaluation settles the summary, and because no
\* two have one date, the newest is one.
LEMMA EndedEvaluations ==
    ASSUME EvaluationInv, TypeOK', NEW job \in Runs, NEW verdict \in EvaluationStatuses,
           JobEnded(job, verdict)
    PROVE  EvaluationInv'
<1> DEFINE source == SourceOf[job]
<1>1. /\ WorkKind(job) = "evaluation" /\ created' = created /\ source \in Runs
      /\ evaluation[job] # "NOT_RUN" /\ status[job] \in ActiveStatuses
      /\ \A j \in Runs \ {job} : status'[j] = status[j]
  BY ZenonT(30), RunsAssumption DEF JobEnded, WorkKind
<1>2. \/ status'[job] = "SUCCEEDED" /\ verdict \in {"PASSED", "FAILED"}
      \/ status'[job] \in {"FAILED", "DEAD_LETTERED"} /\ verdict = "ERROR"
  BY ZenonT(30) DEF JobEnded
<1>3. evaluation'[job] = verdict /\ \A j \in Runs \ {job} : evaluation'[j] = evaluation[j]
  BY ZenonT(30) DEF JobEnded, EvaluationInv, TypeOK, RowTypeOK, DatabaseTypeOK
<1>4. /\ \A r \in Runs \ {source} : summary'[r] = summary[r]
      /\ IsLatestEvaluation(job) => summary'[source] = verdict
      /\ ~IsLatestEvaluation(job) => summary' = summary
  BY ZenonT(30), <1>1 DEF JobEnded, EvaluationInv, TypeOK, RowTypeOK, DatabaseTypeOK
<1>5. JobsDated'
  <2>1. created[job] # 0
    BY ZenonT(30), <1>1 DEF EvaluationInv, JobsDated, ActiveStatuses
  <2> QED
    BY ZenonT(30), <1>1, <2>1 DEF EvaluationInv, JobsDated, WorkKind
<1>6. EvaluationFollowsJob'
  BY ZenonT(30), <1>1, <1>2, <1>3 DEF EvaluationInv, EvaluationFollowsJob, WorkKind, ActiveStatuses
<1>7. DatesDistinct'
  BY ZenonT(30), <1>1 DEF EvaluationInv, DatesDistinct, Begun
<1>8. \A r \in Runs : EvaluationsOf(r)' = EvaluationsOf(r)
  BY ZenonT(30), <1>1, <1>2, <1>3 DEF EvaluationsOf
<1>9. job \in EvaluationsOf(source) /\ \A j \in EvaluationsOf(source) : created[j] \in Nat
  BY ZenonT(30), <1>1 DEF EvaluationsOf, EvaluationInv, TypeOK, RowTypeOK, DatabaseTypeOK
<1>10. IsLatestEvaluation(job) <=> \A j \in EvaluationsOf(source) : created[j] <= created[job]
  BY ZenonT(30) DEF IsLatestEvaluation, EvaluationsOf
<1>11. SettledSummaryIsNewest'
  <2> SUFFICES ASSUME NEW r \in Runs, NEW j \in EvaluationsOf(r),
                      \A i \in EvaluationsOf(r) : created[i] <= created[j]
               PROVE  summary'[r] \in {"PENDING", evaluation'[j]}
    BY ZenonT(30), <1>1, <1>8 DEF SettledSummaryIsNewest
  <2>1. summary[r] \in {"PENDING", evaluation[j]}
    BY ZenonT(30) DEF EvaluationInv, SettledSummaryIsNewest
  <2>2. j \in Runs /\ SourceOf[j] = r
    BY DEF EvaluationsOf
  <2>3. CASE r # source
    BY ZenonT(30), <1>3, <1>4, <2>1, <2>2, <2>3
  <2>4. CASE r = source /\ j = job
    BY <1>3, <1>4, <1>10, <2>4
  <2>5. CASE r = source /\ j # job
    <3>1. created[job] # 0
      BY <1>1 DEF EvaluationInv, JobsDated, ActiveStatuses
    <3>2. created[job] # created[j]
      BY ZenonT(30), <2>2, <2>5, <3>1 DEF EvaluationInv, DatesDistinct
    <3>3. created[job] <= created[j]
      BY <1>9, <2>5
    <3>4. ~(created[j] <= created[job])
      BY <1>9, <2>5, <3>2, <3>3, Antisymmetric
    <3>5. ~IsLatestEvaluation(job)
      BY <1>10, <2>5, <3>4
    <3> QED
      BY <1>3, <1>4, <2>1, <2>2, <2>5, <3>5
  <2> QED
    BY ZenonT(30), <2>3, <2>4, <2>5
<1> QED
  BY <1>5, <1>6, <1>7, <1>11 DEF EvaluationInv

LEMMA EvaluationInvariant == Spec => []EvaluationInv
<1>1. Init => EvaluationInv
  <2> SUFFICES ASSUME Init PROVE EvaluationInv
    OBVIOUS
  <2>1. TypeOK
    BY InitDated
  <2>2. \A r \in Runs : status[r] = "ABSENT" /\ evaluation[r] = "NOT_RUN" /\ created[r] = 0
    BY DEF Init
  <2>3. EvaluationFollowsJob
    BY <2>2 DEF EvaluationFollowsJob, ActiveStatuses
  <2>4. JobsDated /\ SettledSummaryIsNewest
    BY <2>2 DEF JobsDated, SettledSummaryIsNewest, EvaluationsOf
  <2>5. DatesDistinct
    <3>1. Begun = {}
      BY <2>2 DEF Begun
    <3>2. Cardinality(Begun) = 0
      BY <3>1, FS_EmptySet
    <3> QED
      BY SMTT(10), SMTT(20), <2>2, <3>2 DEF DatesDistinct
  <2> QED
    BY <2>1, <2>3, <2>4, <2>5 DEF EvaluationInv
<1>2. EvaluationInv /\ [Next]_vars => EvaluationInv'
  <2> SUFFICES ASSUME EvaluationInv, [Next]_vars PROVE EvaluationInv'
    OBVIOUS
  <2>1. TypeOK /\ RowTypeOK /\ TypeOK'
    BY DatesTyped DEF EvaluationInv, TypeOK
  <2> QED
    BY <2>1, EvaluationSteps, KeptEvaluations, BegunEvaluations, InsertedEvaluations,
       EndedEvaluations DEF EvaluationStep
<1> QED
  BY <1>1, <1>2, PTL DEF Spec

\* However a job ends - it succeeds, fails, finds its budget used up, or is
\* dead-lettered by recovery after its worker died - its evaluation row ends in
\* the same transaction with the matching status, and not before.
\* (_finalize_evaluation_job, execution_service.py.)
THEOREM EvaluationSafety == Spec => []EvaluationFollowsJob
<1>1. EvaluationInv => EvaluationFollowsJob
  BY DEF EvaluationInv
<1> QED
  BY <1>1, EvaluationInvariant, PTL

\* Evaluations of one run may end in any order; evaluation_status of the run is
\* pending or the verdict of the evaluation whose transaction began last.
\* (evaluate, run_service.py; _finalize_evaluation_job, execution_service.py.)
THEOREM SummarySafety == Spec => []SettledSummaryIsNewest
<1>1. EvaluationInv => SettledSummaryIsNewest
  BY DEF EvaluationInv
<1> QED
  BY <1>1, EvaluationInvariant, PTL

-----------------------------------------------------------------------------
(* Quotas *)

RunningOf(S) == {r \in S : status[r] = "RUNNING"}
ActiveOf(S) == {r \in S : status[r] \in ActiveStatuses}

\* A set of runs is within a limit after a step that adds at most one run to it,
\* and only when there was room.
LEMMA CountWithin ==
    ASSUME IsFiniteSet(Runs), NEW A \in SUBSET Runs, NEW B \in SUBSET Runs, NEW r,
           NEW limit \in Nat, Cardinality(A) <= limit,
           \/ B \subseteq A
           \/ B \subseteq A \cup {r} /\ Cardinality(A) < limit
    PROVE  Cardinality(B) <= limit
<1>1. IsFiniteSet(A) /\ IsFiniteSet(B) /\ Cardinality(A) \in Nat /\ Cardinality(B) \in Nat
  BY FS_Subset, FS_CardinalityType
<1>2. CASE B \subseteq A
  BY SMTT(10), SMTT(20), <1>1, <1>2, FS_Subset
<1>3. CASE B \subseteq A \cup {r} /\ Cardinality(A) < limit
  <2>1. IsFiniteSet(A \cup {r}) /\ Cardinality(A \cup {r}) <= Cardinality(A) + 1
    <3>1. /\ IsFiniteSet(A \cup {r})
          /\ Cardinality(A \cup {r}) = IF r \in A THEN Cardinality(A) ELSE Cardinality(A) + 1
      BY <1>1, FS_AddElement
    <3> QED
      BY SMTT(10), SMTT(20), <1>1, <3>1
  <2>2. Cardinality(B) <= Cardinality(A \cup {r}) /\ Cardinality(A \cup {r}) \in Nat
    BY <1>3, <2>1, FS_Subset, FS_CardinalityType
  <2> QED
    BY SMTT(10), SMTT(20), <1>1, <1>3, <2>1, <2>2
<1> QED
  BY <1>2, <1>3

\* Only a claim makes a run RUNNING, and it counts its principal's and its
\* tenant's running runs first.
LEMMA NextRunningQuota ==
    ASSUME RowTypeOK, RunningQuotaHeld, [Next]_vars
    PROVE  RunningQuotaHeld'
<1>1. ASSUME NEW S \in SUBSET Runs, NEW limit \in Nat, Running(S) <= limit,
             \A r \in S : ~RunningQuotaFull(r) => Running(S) < limit
      PROVE  Running(S)' <= limit
  <2> DEFINE A == RunningOf(S)
             B == {r \in S : status'[r] = "RUNNING"}
  <2>1. \/ B \subseteq A
        \/ \E r \in S : B \subseteq A \cup {r} /\ ~RunningQuotaFull(r)
    BY ZenonT(30), <1>1, RunSteps DEF RunStep, OnlyRun, SameRun, Accepted, NotStarted, Started,
       Ended, Waited,
       RunningOf
  <2>2. Cardinality(A) <= limit /\ \A r \in S : ~RunningQuotaFull(r) => Cardinality(A) < limit
    BY <1>1 DEF Running, RunningOf
  <2>3. A \in SUBSET Runs /\ B \in SUBSET Runs
    BY DEF RunningOf
  <2> HIDE DEF A, B
  <2>4. Cardinality(B) <= limit
    <3>1. CASE B \subseteq A
      BY <1>1, <2>2, <2>3, <3>1, CountWithin, RunsAssumption
    <3>2. ASSUME NEW r \in S, B \subseteq A \cup {r}, ~RunningQuotaFull(r)
          PROVE  Cardinality(B) <= limit
      BY <1>1, <2>2, <2>3, <3>2, CountWithin, RunsAssumption
    <3> QED
      BY <2>1, <3>1, <3>2
  <2> QED
    BY <2>4 DEF Running, B
<1>2. \A S \in SUBSET Runs : Running(S) \in Nat
  BY ZenonT(30), RunsAssumption, FS_Subset, FS_CardinalityType DEF Running
<1>3. ASSUME NEW p \in Principals
      PROVE  Running(RunsOfPrincipal(p))' <= PrincipalRunning
  <2> DEFINE S == RunsOfPrincipal(p)
  <2>1. S \in SUBSET Runs /\ PrincipalRunning \in Nat /\ \A r \in S : PrincipalOf[r] = p
    BY LimitsAssumption DEF RunsOfPrincipal
  <2>2. Running(S) <= PrincipalRunning
    BY DEF RunningQuotaHeld
  <2>3. \A r \in S : ~RunningQuotaFull(r) => Running(S) < PrincipalRunning
    BY SMTT(10), SMTT(20), <1>2, <2>1 DEF RunningQuotaFull
  <2> HIDE DEF S
  <2>4. Running(S)' <= PrincipalRunning
    BY <1>1, <2>1, <2>2, <2>3
  <2> QED
    BY <2>4 DEF S, RunsOfPrincipal, Running
<1>4. ASSUME NEW t \in Tenants
      PROVE  Running(RunsOfTenant(t))' <= TenantRunning
  <2> DEFINE S == RunsOfTenant(t)
  <2>1. S \in SUBSET Runs /\ TenantRunning \in Nat /\ \A r \in S : TenantOf[r] = t
    BY LimitsAssumption DEF RunsOfTenant
  <2>2. Running(S) <= TenantRunning
    BY DEF RunningQuotaHeld
  <2>3. \A r \in S : ~RunningQuotaFull(r) => Running(S) < TenantRunning
    BY SMTT(10), SMTT(20), <1>2, <2>1 DEF RunningQuotaFull
  <2> HIDE DEF S
  <2>4. Running(S)' <= TenantRunning
    BY <1>1, <2>1, <2>2, <2>3
  <2> QED
    BY <2>4 DEF S, RunsOfTenant, Running
<1> QED
  BY <1>3, <1>4 DEF RunningQuotaHeld

\* The running quotas hold in every reachable state.
THEOREM RunningQuotaSafety == Spec => []RunningQuotaHeld
<1>1. Init => RunningQuotaHeld
  <2> SUFFICES ASSUME Init PROVE RunningQuotaHeld
    OBVIOUS
  <2>1. \A S \in SUBSET Runs : {r \in S : status[r] = "RUNNING"} = {}
    BY DEF Init
  <2>2. \A S \in SUBSET Runs : Running(S) = 0
    BY <2>1, FS_EmptySet DEF Running
  <2> QED
    BY SMTT(10), SMTT(20), <2>2, LimitsAssumption DEF RunningQuotaHeld, RunsOfPrincipal, RunsOfTenant
<1>2. RowsInv /\ RunningQuotaHeld /\ [Next]_vars => RunningQuotaHeld'
  BY NextRunningQuota DEF RowsInv
<1> QED
  BY <1>1, <1>2, RowsInvariant, PTL DEF Spec

\* Only submit and evaluate activate a run, and they count the active runs of
\* its principal and its tenant first.
LEMMA NextActiveQuota ==
    ASSUME RowTypeOK, ActiveQuotaHeld, [Next]_vars
    PROVE  ActiveQuotaHeld'
<1>1. ASSUME NEW S \in SUBSET Runs, NEW limit \in Nat, Active(S) <= limit,
             \A r \in S : Admitted(r) => Active(S) < limit
      PROVE  Active(S)' <= limit
  <2> DEFINE A == ActiveOf(S)
             B == {r \in S : status'[r] \in ActiveStatuses}
  <2>1. \/ B \subseteq A
        \/ \E r \in S : B \subseteq A \cup {r} /\ Admitted(r)
    BY ZenonT(30), <1>1, RunSteps DEF RunStep, OnlyRun, SameRun, Accepted, NotStarted, Started,
       Ended, Waited,
       ActiveOf, ActiveStatuses
  <2>2. Cardinality(A) <= limit /\ \A r \in S : Admitted(r) => Cardinality(A) < limit
    BY <1>1 DEF Active, ActiveOf
  <2>3. A \in SUBSET Runs /\ B \in SUBSET Runs
    BY DEF ActiveOf
  <2> HIDE DEF A, B
  <2>4. CASE B \subseteq A
    BY <1>1, <2>2, <2>3, <2>4, CountWithin, RunsAssumption DEF Active, B
  <2>5. ASSUME NEW r \in S, B \subseteq A \cup {r}, Admitted(r)
        PROVE  Active(S)' <= limit
    BY <1>1, <2>2, <2>3, <2>5, CountWithin, RunsAssumption DEF Active, B
  <2> QED
    BY <2>1, <2>4, <2>5
<1>2. ASSUME NEW p \in Principals
      PROVE  Active(RunsOfPrincipal(p))' <= PrincipalActive
  <2> DEFINE S == RunsOfPrincipal(p)
  <2>1. S \in SUBSET Runs /\ PrincipalActive \in Nat
    BY LimitsAssumption DEF RunsOfPrincipal
  <2>2. Active(S) <= PrincipalActive
    BY DEF ActiveQuotaHeld
  <2>3. \A r \in S : Admitted(r) => Active(S) < PrincipalActive
    BY DEF Admitted, RunsOfPrincipal
  <2> HIDE DEF S
  <2>4. Active(S)' <= PrincipalActive
    BY <1>1, <2>1, <2>2, <2>3
  <2> QED
    BY ZenonT(30), <2>4 DEF S, RunsOfPrincipal, Active
<1>3. ASSUME NEW t \in Tenants
      PROVE  Active(RunsOfTenant(t))' <= TenantActive
  <2> DEFINE S == RunsOfTenant(t)
  <2>1. S \in SUBSET Runs /\ TenantActive \in Nat
    BY LimitsAssumption DEF RunsOfTenant
  <2>2. Active(S) <= TenantActive
    BY DEF ActiveQuotaHeld
  <2>3. \A r \in S : Admitted(r) => Active(S) < TenantActive
    BY DEF Admitted, RunsOfTenant
  <2> HIDE DEF S
  <2>4. Active(S)' <= TenantActive
    BY <1>1, <2>1, <2>2, <2>3
  <2> QED
    BY <2>4 DEF S, RunsOfTenant, Active
<1> QED
  BY <1>2, <1>3 DEF ActiveQuotaHeld

\* The admission quotas hold in every reachable state.
THEOREM ActiveQuotaSafety == Spec => []ActiveQuotaHeld
<1>1. Init => ActiveQuotaHeld
  <2> SUFFICES ASSUME Init PROVE ActiveQuotaHeld
    OBVIOUS
  <2>1. \A S \in SUBSET Runs : {r \in S : status[r] \in ActiveStatuses} = {}
    BY DEF Init, ActiveStatuses
  <2>2. \A S \in SUBSET Runs : Active(S) = 0
    BY <2>1, FS_EmptySet DEF Active
  <2> QED
    BY SMTT(10), SMTT(20), <2>2, LimitsAssumption DEF ActiveQuotaHeld, RunsOfPrincipal, RunsOfTenant
<1>2. RowsInv /\ ActiveQuotaHeld /\ [Next]_vars => ActiveQuotaHeld'
  BY NextActiveQuota DEF RowsInv
<1> QED
  BY <1>1, <1>2, RowsInvariant, PTL DEF Spec
=============================================================================
