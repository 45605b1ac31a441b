--------------------------- MODULE RuntimeProofs ----------------------------
(***************************************************************************)
(* Safety of Runtime for every set of runs, workers, handlers and          *)
(* dispatchers, every policy and every quota.  RunSteps reduces a step of  *)
(* the whole system to what it does to the row of one run and its          *)
(* attempts; the invariants and the refinement are proved from that.       *)
(***************************************************************************)
EXTENDS Runtime, TLAPS

USE DEF leaseVars, evalVars, dbVars, brokerVars, dispatcherVars, handlerVars,
        processVars, vars

-----------------------------------------------------------------------------
(* Attempt rows *)

Outcomes == {"OPEN", "SUCCEEDED", "FAILED"}

\* Finishing attempt n of run r keeps the table of attempts well formed,
\* changes that row and no other.
LEMMA FinishAttempt ==
    ASSUME attempts \in [Runs -> Seq(Outcomes)],
           NEW r \in Runs, NEW n \in DOMAIN attempts[r], NEW o \in Outcomes,
           attempts' = [attempts EXCEPT ![r][n] = o]
    PROVE  /\ attempts' \in [Runs -> Seq(Outcomes)]
           /\ \A q \in Runs : q # r => attempts'[q] = attempts[q]
           /\ Len(attempts'[r]) = Len(attempts[r])
           /\ DOMAIN attempts'[r] = DOMAIN attempts[r]
           /\ \A m \in DOMAIN attempts[r] :
                 attempts'[r][m] = IF m = n THEN o ELSE attempts[r][m]
<1>1. attempts[r] \in Seq(Outcomes) /\ n \in 1 .. Len(attempts[r])
  BY SMTT(10), SMTT(20)
<1> DEFINE s == [attempts[r] EXCEPT ![n] = o]
<1>2. /\ s \in Seq(Outcomes)
      /\ Len(s) = Len(attempts[r])
      /\ \A m \in 1 .. Len(attempts[r]) : s[m] = IF m = n THEN o ELSE attempts[r][m]
  BY SMTT(10), SMTT(20), <1>1
<1>3. attempts' = [attempts EXCEPT ![r] = s]
  OBVIOUS
<1>4. attempts'[r] = s /\ \A q \in Runs : q # r => attempts'[q] = attempts[q]
  BY <1>3
<1>5. attempts' \in [Runs -> Seq(Outcomes)]
  BY <1>2, <1>3
<1> HIDE DEF s
<1>6. DOMAIN attempts'[r] = 1 .. Len(s) /\ DOMAIN attempts[r] = 1 .. Len(attempts[r])
  BY SMTT(10), SMTT(20), <1>1, <1>2, <1>4
<1> QED
  BY <1>1, <1>2, <1>4, <1>5, <1>6

\* A claim appends one open attempt.
LEMMA AppendAttempt ==
    ASSUME attempts \in [Runs -> Seq(Outcomes)],
           NEW r \in Runs,
           attempts' = [attempts EXCEPT ![r] = Append(@, "OPEN")]
    PROVE  /\ attempts' \in [Runs -> Seq(Outcomes)]
           /\ \A q \in Runs : q # r => attempts'[q] = attempts[q]
           /\ Len(attempts'[r]) = Len(attempts[r]) + 1
           /\ DOMAIN attempts'[r] = DOMAIN attempts[r] \cup {Len(attempts[r]) + 1}
           /\ attempts'[r][Len(attempts[r]) + 1] = "OPEN"
           /\ \A m \in DOMAIN attempts[r] : attempts'[r][m] = attempts[r][m]
<1> DEFINE s == Append(attempts[r], "OPEN")
<1>1. attempts[r] \in Seq(Outcomes) /\ "OPEN" \in Outcomes
  BY DEF Outcomes
<1>2. /\ s \in Seq(Outcomes)
      /\ Len(s) = Len(attempts[r]) + 1
      /\ s[Len(attempts[r]) + 1] = "OPEN"
      /\ \A m \in 1 .. Len(attempts[r]) : s[m] = attempts[r][m]
  BY SMTT(10), SMTT(20), <1>1
<1>3. attempts'[r] = s /\ \A q \in Runs : q # r => attempts'[q] = attempts[q]
  OBVIOUS
<1>4. attempts' \in [Runs -> Seq(Outcomes)]
  BY <1>2
<1> HIDE DEF s
<1>5. /\ DOMAIN attempts'[r] = 1 .. Len(s)
      /\ DOMAIN attempts[r] = 1 .. Len(attempts[r])
      /\ Len(attempts[r]) \in Nat
  BY SMTT(10), SMTT(20), <1>1, <1>2, <1>3
<1>6. 1 .. Len(attempts[r]) + 1 = (1 .. Len(attempts[r])) \cup {Len(attempts[r]) + 1}
  BY SMTT(10), SMTT(20), <1>5
<1> QED
  BY <1>2, <1>3, <1>4, <1>5, <1>6

-----------------------------------------------------------------------------
(* Type correctness *)

\* What _finalize_evaluation_job writes has the columns' types.
LEMMA FinalizeTypes ==
    ASSUME DatabaseTypeOK, NEW r \in Runs, NEW own \in SUBSET RunEventTypes,
           NEW verdict \in {"PASSED", "FAILED", "ERROR"},
           FinalizeEvaluationJob(r, own, verdict)
    PROVE  /\ evaluation' \in [Runs -> EvaluationStatuses]
           /\ summary' \in [Runs -> EvaluationStatuses]
           /\ events' \in [Runs -> SUBSET RunEventTypes]
<1>1. CASE WorkKind(r) # "evaluation"
  <2>1. events' = [events EXCEPT ![r] = @ \cup own] /\ UNCHANGED evalVars
    BY <1>1 DEF FinalizeEvaluationJob
  <2> QED
    BY <2>1 DEF DatabaseTypeOK
<1>2. CASE WorkKind(r) = "evaluation"
  <2>1. SourceOf[r] \in Runs
    BY <1>2, RunsAssumption DEF WorkKind
  <2>2. EvaluationEvent[verdict] \in RunEventTypes
    BY SMTT(10), SMTT(20) DEF EvaluationEvent, RunEventTypes
  <2>3. verdict \in EvaluationStatuses
    BY DEF EvaluationStatuses
  <2>4. /\ evaluation' = [evaluation EXCEPT ![r] = verdict]
        /\ summary' = IF IsLatestEvaluation(r)
                      THEN [summary EXCEPT ![SourceOf[r]] = verdict]
                      ELSE summary
        /\ events' = [events EXCEPT ![r] = @ \cup own,
                                    ![SourceOf[r]] = @ \cup {EvaluationEvent[verdict]}]
    BY <1>2 DEF FinalizeEvaluationJob
  <2> QED
    BY ZenonT(30), <2>1, <2>2, <2>3, <2>4 DEF DatabaseTypeOK
<1> QED
  BY <1>1, <1>2

\* complete_failure and recovery write values of the columns' types.
LEMMA FailAttemptTypes ==
    ASSUME DatabaseTypeOK, NEW r \in Runs, NEW n \in DOMAIN attempts[r],
           NEW code \in ExecutionErrorCodes, FailAttempt(r, n, code)
    PROVE  DatabaseTypeOK'
<1>1. attempts' \in [Runs -> Seq({"OPEN", "SUCCEEDED", "FAILED"})]
  BY FinishAttempt DEF FailAttempt, DatabaseTypeOK, Outcomes
<1>2. /\ leaseOwner' \in [Runs -> Workers \cup {NoWorker}]
      /\ lease' \in [Runs -> {"none", "active", "expired"}]
      /\ error' \in [Runs -> RunErrorCodes]
      /\ result' = result
  BY DEF FailAttempt, ClearLease, DatabaseTypeOK, RunErrorCodes
<1>3. CASE ScheduleRetry(r)
  BY <1>1, <1>2, <1>3 DEF ScheduleRetry, DatabaseTypeOK, ExecutionStatuses, ActiveStatuses,
     RunEventTypes
<1>4. CASE DeadLetter(r)
  <2>1. FinalizeEvaluationJob(r, {"RUN_DEAD_LETTERED"}, "ERROR")
    BY <1>4 DEF DeadLetter
  <2>2. /\ evaluation' \in [Runs -> EvaluationStatuses]
        /\ summary' \in [Runs -> EvaluationStatuses]
        /\ events' \in [Runs -> SUBSET RunEventTypes]
    BY <2>1, FinalizeTypes, {"RUN_DEAD_LETTERED"} \in SUBSET RunEventTypes
       DEF RunEventTypes
  <2>3. outbox' \in [Runs -> [OutboxEventTypes -> Nat]]
    BY SMTT(10), SMTT(20), <1>4 DEF DeadLetter, DatabaseTypeOK, OutboxEventTypes
  <2> QED
    BY <1>1, <1>2, <1>4, <2>2, <2>3
       DEF DeadLetter, DatabaseTypeOK, ExecutionStatuses, TerminalExecutionStatuses
<1>5. CASE FailRun(r)
  <2>1. FinalizeEvaluationJob(r, {"RUN_FAILED"}, "ERROR")
    BY <1>5 DEF FailRun
  <2>2. /\ evaluation' \in [Runs -> EvaluationStatuses]
        /\ summary' \in [Runs -> EvaluationStatuses]
        /\ events' \in [Runs -> SUBSET RunEventTypes]
    BY <2>1, FinalizeTypes, {"RUN_FAILED"} \in SUBSET RunEventTypes
       DEF RunEventTypes
  <2> QED
    BY ZenonT(30), <1>1, <1>2, <1>5, <2>2
       DEF FailRun, DatabaseTypeOK, ExecutionStatuses, TerminalExecutionStatuses
<1> QED
  BY <1>3, <1>4, <1>5 DEF FailAttempt

LEMMA DatabaseUnchanged ==
    ASSUME DatabaseTypeOK, UNCHANGED dbVars
    PROVE  DatabaseTypeOK'
BY DEF DatabaseTypeOK

LEMMA InitTypes == Init => RowTypeOK
<1> SUFFICES ASSUME Init PROVE RowTypeOK
  OBVIOUS
<1>1. DatabaseTypeOK
  BY SMTT(10), SMTT(20) DEF Init, DatabaseTypeOK, ExecutionStatuses, RunErrorCodes, EvaluationStatuses
<1>2. BrokerTypeOK /\ DispatcherTypeOK
  BY DEF Init, BrokerTypeOK, DispatcherTypeOK
<1>3. HandlerTypeOK
  BY DEF Init, HandlerTypeOK, HandlerStates
<1> QED
  BY <1>1, <1>2, <1>3 DEF RowTypeOK

LEMMA SubmitTypes ==
    ASSUME RowTypeOK, NEW r \in Runs, Submit(r)
    PROVE  RowTypeOK'
<1>1. status' \in [Runs -> ExecutionStatuses \cup {"ABSENT"}]
  BY DEF RowTypeOK, DatabaseTypeOK, Submit, InsertQueuedRun, ExecutionStatuses, ActiveStatuses
<1>2. outbox' \in [Runs -> [OutboxEventTypes -> Nat]]
  BY SMTT(10), SMTT(20) DEF RowTypeOK, DatabaseTypeOK, Submit, InsertQueuedRun, OutboxEventTypes
<1>3. events' \in [Runs -> SUBSET RunEventTypes]
  BY DEF RowTypeOK, DatabaseTypeOK, Submit, RunEventTypes
<1> QED
  BY ZenonT(30), <1>1, <1>2, <1>3 DEF RowTypeOK, DatabaseTypeOK, BrokerTypeOK, DispatcherTypeOK,
     HandlerTypeOK, Submit

LEMMA BeginEvaluateTypes ==
    ASSUME RowTypeOK, NEW r \in Runs, BeginEvaluate(r)
    PROVE  RowTypeOK'
  BY DEF RowTypeOK, DatabaseTypeOK, BrokerTypeOK, DispatcherTypeOK, HandlerTypeOK, BeginEvaluate

LEMMA EvaluateTypes ==
    ASSUME RowTypeOK, NEW r \in Runs, Evaluate(r)
    PROVE  RowTypeOK'
<1>1. SourceOf[r] \in Runs
  BY RunsAssumption DEF Evaluate, WorkKind
<1>2. status' \in [Runs -> ExecutionStatuses \cup {"ABSENT"}]
  BY DEF RowTypeOK, DatabaseTypeOK, Evaluate, InsertQueuedRun, ExecutionStatuses, ActiveStatuses
<1>3. outbox' \in [Runs -> [OutboxEventTypes -> Nat]]
  BY SMTT(10), SMTT(20) DEF RowTypeOK, DatabaseTypeOK, Evaluate, InsertQueuedRun, OutboxEventTypes
<1>4. events' \in [Runs -> SUBSET RunEventTypes]
  BY ZenonT(30), <1>1 DEF RowTypeOK, DatabaseTypeOK, Evaluate, RunEventTypes
<1>5. /\ evaluation' \in [Runs -> EvaluationStatuses]
      /\ summary' \in [Runs -> EvaluationStatuses]
  BY <1>1 DEF RowTypeOK, DatabaseTypeOK, Evaluate, EvaluationStatuses
<1> QED
  BY ZenonT(30), <1>2, <1>3, <1>4, <1>5 DEF RowTypeOK, DatabaseTypeOK, BrokerTypeOK,
     DispatcherTypeOK,
     HandlerTypeOK, Evaluate

LEMMA DispatcherTypes ==
    ASSUME RowTypeOK, NEW d \in Dispatchers, Dispatcher(d)
    PROVE  RowTypeOK'
<1> USE DEF RowTypeOK
<1>0. /\ HandlerTypeOK'
      /\ UNCHANGED <<status, leaseVars, retryAt, error, result, attempts, evalVars, events>>
  BY DEF Dispatcher, LockEvent, Publish, PublishFails, MarkPublished, DispatcherCrash,
     HandlerTypeOK
<1>1. ASSUME NEW r \in Runs, NEW type \in OutboxEventTypes, LockEvent(d, r, type)
      PROVE  RowTypeOK'
  <2>1. outbox' \in [Runs -> [OutboxEventTypes -> Nat]]
    BY SMTT(10), SMTT(20), <1>1 DEF LockEvent, DatabaseTypeOK
  <2>2. DispatcherTypeOK'
    BY <1>1 DEF LockEvent, DispatcherTypeOK
  <2> QED
    BY <1>0, <1>1, <2>1, <2>2 DEF DatabaseTypeOK, BrokerTypeOK, LockEvent
<1>2. dpc[d] # "idle" => devent[d] \in Runs \X OutboxEventTypes
  BY DEF DispatcherTypeOK
<1>3. dpc[d] # "idle" => devent[d][1] \in Runs /\ devent[d][2] \in OutboxEventTypes
  BY <1>2
<1>4. dpc[d] # "idle" /\ Route(devent[d][1], devent[d][2]) => BrokerTypeOK'
  BY SMTT(10), SMTT(20), <1>3 DEF Route, BrokerTypeOK
<1>5. CASE Publish(d)
  BY <1>0, <1>4, <1>5, DatabaseUnchanged DEF Publish, DispatcherTypeOK
<1>6. dpc[d] # "idle" /\ Unlock(d)
          => DispatcherTypeOK' /\ outbox' \in [Runs -> [OutboxEventTypes -> Nat]]
  BY SMTT(10), SMTT(20), <1>3 DEF Unlock, DispatcherTypeOK, DatabaseTypeOK
<1>7. CASE PublishFails(d)
  <2>1. BrokerTypeOK'
    BY ZenonT(30), <1>4, <1>7 DEF PublishFails, BrokerTypeOK
  <2> QED
    BY <1>0, <1>6, <1>7, <2>1 DEF PublishFails, DatabaseTypeOK
<1>8. CASE MarkPublished(d)
  BY <1>0, <1>8, DatabaseUnchanged DEF MarkPublished, DispatcherTypeOK, BrokerTypeOK
<1>9. CASE DispatcherCrash(d)
  BY <1>0, <1>6, <1>9 DEF DispatcherCrash, DatabaseTypeOK, BrokerTypeOK
<1> QED
  BY <1>1, <1>5, <1>7, <1>8, <1>9 DEF Dispatcher

LEMMA HandlerUnchanged ==
    ASSUME HandlerTypeOK, UNCHANGED handlerVars
    PROVE  HandlerTypeOK'
BY DEF HandlerTypeOK

\* An execution that ends moves its handler to "reporting" with a result.
LEMMA ReportTypes ==
    ASSUME RowTypeOK, NEW h \in Handlers, pc[h] # "idle",
           NEW outcome \in ExecutionErrorCodes \cup Results, outcome # "NONE",
           Report(h, outcome)
    PROVE  RowTypeOK'
<1>1. (lease[msg[h]] = "expired") \in BOOLEAN
  OBVIOUS
<1>2. late' \in [Handlers -> BOOLEAN]
  BY <1>1 DEF RowTypeOK, HandlerTypeOK, Report
<1>3. HandlerTypeOK'
  BY <1>2 DEF RowTypeOK, HandlerTypeOK, Report, Goto, HandlerStates
<1>4. DatabaseTypeOK'
  BY ZenonT(30), DatabaseUnchanged DEF RowTypeOK, Report
<1> QED
  BY ZenonT(30), <1>3, <1>4 DEF RowTypeOK, BrokerTypeOK, DispatcherTypeOK, Report

LEMMA OutcomeIsNotNone == \A o \in ExecutionErrorCodes \cup Results : o # "NONE"
BY DEF ExecutionErrorCodes, RetryableErrorCodes, Results

LEMMA ExecutionTypes ==
    ASSUME RowTypeOK, NEW h \in Handlers,
           ChargeFenced(h) \/ ChargeDenied(h) \/ ProviderReturns(h) \/ EvaluateRules(h)
               \/ AttemptTimesOut(h)
    PROVE  RowTypeOK'
<1>1. pc[h] # "idle"
  BY DEF ChargeFenced, ChargeDenied, ProviderReturns, EvaluateRules, AttemptTimesOut
<1>2. "OK" \in Results /\ "NOT_PASSED" \in Results /\ "PROVIDER_TIMEOUT" \in ExecutionErrorCodes
      /\ "EXECUTION_ERROR" \in ExecutionErrorCodes
      /\ "RESOURCE_QUOTA_EXCEEDED" \in ExecutionErrorCodes
  BY DEF Results, ExecutionErrorCodes, RetryableErrorCodes
<1>3. PICK outcome \in ExecutionErrorCodes \cup Results : Report(h, outcome)
  BY <1>2, ErrorsAssumption
     DEF ChargeFenced, ChargeDenied, ProviderReturns, EvaluateRules, AttemptTimesOut
<1> QED
  BY <1>1, <1>3, OutcomeIsNotNone, ReportTypes

LEMMA ClaimTypes ==
    ASSUME RowTypeOK, NEW h \in Handlers, ClaimNotGranted(h) \/ Claim(h)
    PROVE  RowTypeOK'
<1> USE DEF RowTypeOK
<1>1. pc[h] = "claiming" /\ msg[h] \in Runs
  BY DEF ClaimNotGranted, Claim, HandlerTypeOK
<1>2. BrokerTypeOK' /\ DispatcherTypeOK'
  BY DEF ClaimNotGranted, Claim, BrokerTypeOK, DispatcherTypeOK
<1> DEFINE r == msg[h]
<1>3. CASE ClaimNotGranted(h)
  <2>1. HandlerTypeOK'
    BY <1>1, <1>3 DEF ClaimNotGranted, Goto, HandlerTypeOK, HandlerStates
  <2>2. ASSUME ClaimRefused(r) PROVE DatabaseTypeOK'
    BY <2>2, DatabaseUnchanged DEF ClaimRefused
  <2>3. ASSUME ClaimDeferred(r) PROVE DatabaseTypeOK'
    BY <1>1, <2>3 DEF ClaimDeferred, DatabaseTypeOK, ExecutionStatuses, ActiveStatuses
  <2>4. ASSUME ClaimExhausted(r) PROVE DatabaseTypeOK'
    <3>1. FinalizeEvaluationJob(r, {}, "ERROR")
      BY <2>4 DEF ClaimExhausted
    <3>2. /\ evaluation' \in [Runs -> EvaluationStatuses]
          /\ summary' \in [Runs -> EvaluationStatuses]
          /\ events' \in [Runs -> SUBSET RunEventTypes]
      BY <1>1, <3>1, FinalizeTypes, {} \in SUBSET RunEventTypes
    <3> QED
      BY ZenonT(30), <1>1, <2>4, <3>2 DEF ClaimExhausted, DatabaseTypeOK, ExecutionStatuses,
         TerminalExecutionStatuses, RunErrorCodes
  <2> QED
    BY <1>2, <1>3, <2>1, <2>2, <2>3, <2>4 DEF ClaimNotGranted
<1>4. CASE Claim(h)
  <2>1. ClaimGranted(r, WorkerOf[h]) /\ WorkerOf[h] \in Workers
    BY <1>4, WorkersAssumption DEF Claim
  <2>2. attempts' \in [Runs -> Seq({"OPEN", "SUCCEEDED", "FAILED"})]
    BY ZenonT(30), <1>1, <2>1, AppendAttempt DEF ClaimGranted, DatabaseTypeOK, Outcomes
  <2>3. DatabaseTypeOK'
    BY ZenonT(30), <1>1, <2>1, <2>2 DEF ClaimGranted, DatabaseTypeOK, ExecutionStatuses,
       ActiveStatuses,
       RunEventTypes
  <2>4. NextAttemptNumber(r) \in Nat
    BY SMTT(10), SMTT(20), <1>1 DEF DatabaseTypeOK, NextAttemptNumber
  <2>5. HandlerTypeOK'
    BY <1>1, <1>4, <2>4 DEF Claim, Goto, HandlerTypeOK, HandlerStates
  <2> QED
    BY <1>2, <2>3, <2>5
<1> QED
  BY <1>3, <1>4

LEMMA CompleteTypes ==
    ASSUME RowTypeOK, NEW h \in Handlers, CompletePersisted(h) \/ CompleteLost(h)
    PROVE  RowTypeOK'
<1> USE DEF RowTypeOK
<1>1. pc[h] = "reporting" /\ msg[h] \in Runs
  BY DEF CompletePersisted, CompleteLost, HandlerTypeOK
<1>2. BrokerTypeOK' /\ DispatcherTypeOK'
  BY ZenonT(30) DEF CompletePersisted, CompleteLost, BrokerTypeOK, DispatcherTypeOK
<1>3. HandlerTypeOK'
  <2>1. PICK label \in {"acking", "nacking"} : pc' = [pc EXCEPT ![h] = label]
    BY ZenonT(30) DEF CompletePersisted, CompleteLost, Goto
  <2>2. ForgetExecution(h) /\ UNCHANGED <<msg, held>>
    BY DEF CompletePersisted, CompleteLost
  <2> QED
    BY <1>1, <2>1, <2>2 DEF ForgetExecution, HandlerTypeOK, HandlerStates
<1> DEFINE r == msg[h]
           n == att[h]
<1>4. ASSUME NEW passed \in BOOLEAN, CompleteSuccess(r, n, WorkerOf[h], late[h], passed)
      PROVE  DatabaseTypeOK'
  <2>1. n \in DOMAIN attempts[r]
    BY <1>4 DEF CompleteSuccess, MayComplete, AttemptIsOpen
  <2>2. attempts' \in [Runs -> Seq({"OPEN", "SUCCEEDED", "FAILED"})]
    BY ZenonT(30), <1>1, <1>4, <2>1, FinishAttempt DEF CompleteSuccess, DatabaseTypeOK, Outcomes
  <2>3. FinalizeEvaluationJob(r, {"RUN_SUCCEEDED"}, IF passed THEN "PASSED" ELSE "FAILED")
    BY <1>4 DEF CompleteSuccess
  <2>4. /\ evaluation' \in [Runs -> EvaluationStatuses]
        /\ summary' \in [Runs -> EvaluationStatuses]
        /\ events' \in [Runs -> SUBSET RunEventTypes]
    BY <1>1, <2>3, FinalizeTypes, {"RUN_SUCCEEDED"} \in SUBSET RunEventTypes,
       (IF passed THEN "PASSED" ELSE "FAILED") \in {"PASSED", "FAILED", "ERROR"}
       DEF RunEventTypes
  <2>5. n \in Nat
    BY DEF HandlerTypeOK
  <2> QED
    BY ZenonT(30), <1>1, <1>4, <2>2, <2>4, <2>5 DEF CompleteSuccess, ClearLease, DatabaseTypeOK,
       ExecutionStatuses, TerminalExecutionStatuses, RunErrorCodes
<1>5. ASSUME NEW code \in ExecutionErrorCodes,
             CompleteFailure(r, n, WorkerOf[h], late[h], code)
      PROVE  DatabaseTypeOK'
  BY <1>1, <1>5, FailAttemptTypes DEF CompleteFailure, MayComplete, AttemptIsOpen
<1>6. CASE CompletePersisted(h)
  BY ZenonT(30), <1>2, <1>3, <1>4, <1>5, <1>6 DEF CompletePersisted, Persisted
<1>7. CASE CompleteLost(h)
  BY ZenonT(30), <1>2, <1>3, <1>7, DatabaseUnchanged DEF CompleteLost, CompleteRefused
<1> QED
  BY <1>6, <1>7

LEMMA DeliveryTypes ==
    ASSUME RowTypeOK, NEW h \in Handlers,
           \/ \E r \in Runs : Deliver(h, r)
           \/ Charge(h) \/ Ack(h) \/ Nack(h) \/ HandlerLost(h) \/ ConnectionLost(h)
    PROVE  RowTypeOK'
<1> USE DEF RowTypeOK
<1>1. DatabaseTypeOK' /\ DispatcherTypeOK' /\ deadLetters' = deadLetters
  BY ZenonT(30), DatabaseUnchanged DEF Deliver, Charge, Ack, Nack, HandlerLost, ConnectionLost,
     DispatcherTypeOK
<1>2. pc[h] # "idle" /\ RequeueDelivery(h) => BrokerTypeOK'
  BY SMTT(10), SMTT(20), <1>1 DEF RequeueDelivery, BrokerTypeOK, HandlerTypeOK
<1>3. HandlerDone(h) => HandlerTypeOK'
  BY SMTT(10), SMTT(20) DEF HandlerDone, Goto, ForgetExecution, HandlerTypeOK, HandlerStates
<1>4. ASSUME NEW r \in Runs, Deliver(h, r) PROVE RowTypeOK'
  <2>1. BrokerTypeOK'
    BY SMTT(10), SMTT(20), <1>1, <1>4 DEF Deliver, BrokerTypeOK
  <2>2. HandlerTypeOK'
    BY <1>4, RunsAssumption DEF Deliver, Goto, HandlerTypeOK, HandlerStates
  <2> QED
    BY <1>1, <2>1, <2>2
<1>5. CASE Charge(h)
  <2>1. HandlerTypeOK'
    BY <1>5 DEF Charge, Goto, HandlerTypeOK, HandlerStates
  <2> QED
    BY ZenonT(30), <1>1, <1>5, <2>1 DEF Charge, BrokerTypeOK
<1>6. CASE Ack(h)
  BY <1>1, <1>3, <1>6 DEF Ack, BrokerTypeOK
<1>7. CASE Nack(h)
  BY <1>1, <1>2, <1>3, <1>7 DEF Nack
<1>8. CASE HandlerLost(h)
  BY <1>1, <1>2, <1>3, <1>8 DEF HandlerLost
<1>9. CASE ConnectionLost(h)
  <2>1. pc[h] # "idle"
    BY <1>9 DEF ConnectionLost, HandlerTypeOK
  <2>2. HandlerTypeOK'
    BY <1>9 DEF ConnectionLost, HandlerTypeOK
  <2> QED
    BY <1>1, <1>2, <1>9, <2>1, <2>2 DEF ConnectionLost
<1> QED
  BY <1>4, <1>5, <1>6, <1>7, <1>8, <1>9

LEMMA SchedulerTypes ==
    ASSUME RowTypeOK, NEW r \in Runs,
           RecoverLease(r) \/ ScheduleRetryDue(r) \/ LeaseExpires(r) \/ RetryFallsDue(r)
    PROVE  RowTypeOK'
<1> USE DEF RowTypeOK
<1>1. BrokerTypeOK' /\ DispatcherTypeOK' /\ HandlerTypeOK'
  BY HandlerUnchanged DEF RecoverLease, ScheduleRetryDue, LeaseExpires, RetryFallsDue, BrokerTypeOK,
     DispatcherTypeOK
<1>2. CASE RecoverLease(r)
  BY ZenonT(30), <1>1, <1>2, FailAttemptTypes, "EXECUTION_LEASE_EXPIRED" \in ExecutionErrorCodes
     DEF RecoverLease, RecoverExpiredLease, ExecutionErrorCodes, RetryableErrorCodes
<1>3. CASE ScheduleRetryDue(r)
  <2>1. outbox' \in [Runs -> [OutboxEventTypes -> Nat]]
    BY SMTT(10), SMTT(20), <1>3 DEF ScheduleRetryDue, ScheduleDueRetry, DatabaseTypeOK, OutboxEventTypes
  <2> QED
    BY <1>1, <1>3, <2>1 DEF ScheduleRetryDue, ScheduleDueRetry, DatabaseTypeOK,
       ExecutionStatuses, ActiveStatuses, RunEventTypes
<1>4. CASE LeaseExpires(r)
  BY <1>1, <1>4 DEF LeaseExpires, DatabaseTypeOK
<1>5. CASE RetryFallsDue(r)
  BY <1>1, <1>5 DEF RetryFallsDue, DatabaseTypeOK
<1> QED
  BY <1>2, <1>3, <1>4, <1>5

\* Every step of the API, a dispatcher, a handler, the scheduler or time keeps
\* every column and local in its type.
LEMMA NextTypes == RowTypeOK /\ [Next]_vars => RowTypeOK'
<1> SUFFICES ASSUME RowTypeOK, [Next]_vars PROVE RowTypeOK'
  OBVIOUS
<1>1. CASE UNCHANGED vars
  BY <1>1, DatabaseUnchanged, HandlerUnchanged DEF RowTypeOK, BrokerTypeOK, DispatcherTypeOK
<1>2. CASE Api
  BY <1>2, SubmitTypes, BeginEvaluateTypes, EvaluateTypes DEF Api
<1>3. CASE \E d \in Dispatchers : Dispatcher(d)
  BY <1>3, DispatcherTypes
<1>4. CASE \E h \in Handlers : Handler(h)
  BY <1>4, ExecutionTypes, ClaimTypes, CompleteTypes, DeliveryTypes DEF Handler
<1>5. CASE Scheduler \/ Time
  BY <1>5, SchedulerTypes DEF Scheduler, Time
<1> QED
  BY <1>1, <1>2, <1>3, <1>4, <1>5 DEF Next

\* Every column but the dates has a value of its type.
LEMMA RowsTyped == Spec => []RowTypeOK
BY InitTypes, NextTypes, PTL DEF Spec

-----------------------------------------------------------------------------
(* What a step may do to one run *)

\* The row of q and its attempts, without its summary and its history.
SameRun(q) ==
    /\ status'[q] = status[q]
    /\ leaseOwner'[q] = leaseOwner[q]
    /\ lease'[q] = lease[q]
    /\ retryAt'[q] = retryAt[q]
    /\ error'[q] = error[q]
    /\ result'[q] = result[q]
    /\ attempts'[q] = attempts[q]

\* One of the two API transactions inserts the row.
Accepted(r) ==
    /\ status[r] = "ABSENT" /\ status'[r] = "QUEUED" /\ Admitted(r)
    /\ leaseOwner'[r] = leaseOwner[r] /\ lease'[r] = lease[r]
    /\ retryAt'[r] = retryAt[r] /\ error'[r] = error[r]
    /\ result'[r] = result[r] /\ attempts'[r] = attempts[r]

\* A claim defers the run or finds its budget used up.
NotStarted(r) ==
    /\ status[r] = "QUEUED"
    /\ \/ status'[r] = "RETRY_SCHEDULED" /\ retryAt'[r] = "waiting"
       \/ status'[r] = "FAILED" /\ retryAt'[r] = retryAt[r]
    /\ leaseOwner'[r] = leaseOwner[r] /\ lease'[r] = lease[r]
    /\ result'[r] = result[r] /\ attempts'[r] = attempts[r]

Started(r) ==
    /\ status[r] = "QUEUED" /\ status'[r] = "RUNNING"
    /\ ~RunningQuotaFull(r) /\ ~AttemptBudgetExhausted(r)
    /\ leaseOwner'[r] \in Workers /\ lease'[r] = "active"
    /\ retryAt'[r] = retryAt[r] /\ error'[r] = error[r] /\ result'[r] = result[r]
    /\ Len(attempts'[r]) = Len(attempts[r]) + 1
    /\ DOMAIN attempts'[r] = DOMAIN attempts[r] \cup {Len(attempts[r]) + 1}
    /\ attempts'[r][Len(attempts[r]) + 1] = "OPEN"
    /\ \A m \in DOMAIN attempts[r] : attempts'[r][m] = attempts[r][m]

\* Attempt n ends: by its worker, or by recovery.
Ended(r, n) ==
    /\ status[r] = "RUNNING" /\ n \in DOMAIN attempts[r] /\ attempts[r][n] = "OPEN"
    /\ leaseOwner'[r] = NoWorker /\ lease'[r] = "none"
    /\ \/ /\ status'[r] = "SUCCEEDED" /\ retryAt'[r] = "none" /\ result'[r] = n
          /\ attempts'[r][n] = "SUCCEEDED"
       \/ /\ \/ status'[r] = "RETRY_SCHEDULED" /\ retryAt'[r] = "waiting"
             \/ status'[r] \in {"FAILED", "DEAD_LETTERED"} /\ retryAt'[r] = "none"
          /\ result'[r] = result[r]
          /\ attempts'[r][n] = "FAILED"
    /\ Len(attempts'[r]) = Len(attempts[r])
    /\ DOMAIN attempts'[r] = DOMAIN attempts[r]
    /\ \A m \in DOMAIN attempts[r] \ {n} : attempts'[r][m] = attempts[r][m]

\* Time passes, or the scheduler queues a retry that is due.
Waited(r) ==
    /\ \/ /\ status'[r] = status[r] /\ retryAt'[r] = retryAt[r]
          /\ lease[r] = "active" /\ lease'[r] = "expired"
       \/ /\ status'[r] = status[r] /\ lease'[r] = lease[r]
          /\ retryAt[r] = "waiting" /\ retryAt'[r] = "due"
       \/ /\ status[r] = "RETRY_SCHEDULED" /\ status'[r] = "QUEUED"
          /\ lease'[r] = lease[r] /\ retryAt'[r] = "none"
    /\ leaseOwner'[r] = leaseOwner[r] /\ error'[r] = error[r]
    /\ result'[r] = result[r] /\ attempts'[r] = attempts[r]

RunStep(r) ==
    Accepted(r) \/ NotStarted(r) \/ Started(r) \/ (\E n \in Nat : Ended(r, n)) \/ Waited(r)

OnlyRun(r) == \A q \in Runs \ {r} : SameRun(q)

\* The number of the next attempt is none of those there are.
LEMMA NextIsNew == \A n \in Nat : n + 1 \notin 1 .. n
BY SMTT(10), SMTT(20)

LEMMA AttemptNumbers ==
    ASSUME RowTypeOK, NEW r \in Runs
    PROVE  /\ attempts[r] \in Seq(Outcomes)
           /\ DOMAIN attempts[r] = 1 .. Len(attempts[r])
           /\ Len(attempts[r]) \in Nat
BY SMTT(10), SMTT(20) DEF RowTypeOK, DatabaseTypeOK, Outcomes

LEMMA FailAttemptEnds ==
    ASSUME RowTypeOK, NEW r \in Runs, NEW n, AttemptIsOpen(r, n), status[r] = "RUNNING",
           NEW code, FailAttempt(r, n, code)
    PROVE  OnlyRun(r) /\ n \in Nat /\ Ended(r, n)
<1> USE DEF RowTypeOK
<1>1. n \in DOMAIN attempts[r] /\ attempts[r][n] = "OPEN" /\ n \in Nat
  BY SMTT(10), SMTT(20), AttemptNumbers DEF AttemptIsOpen
<1>2. /\ \A q \in Runs : q # r => attempts'[q] = attempts[q]
      /\ Len(attempts'[r]) = Len(attempts[r])
      /\ DOMAIN attempts'[r] = DOMAIN attempts[r]
      /\ \A m \in DOMAIN attempts[r] :
            attempts'[r][m] = IF m = n THEN "FAILED" ELSE attempts[r][m]
  BY <1>1, FinishAttempt DEF FailAttempt, DatabaseTypeOK, Outcomes
<1>3. /\ leaseOwner' = [leaseOwner EXCEPT ![r] = NoWorker]
      /\ lease' = [lease EXCEPT ![r] = "none"]
      /\ error' = [error EXCEPT ![r] = code]
      /\ result' = result
  BY DEF FailAttempt, ClearLease
<1>4. \E s \in {"RETRY_SCHEDULED", "DEAD_LETTERED", "FAILED"} :
          /\ status' = [status EXCEPT ![r] = s]
          /\ retryAt' = [retryAt EXCEPT ![r] = IF s = "RETRY_SCHEDULED" THEN "waiting"
                                               ELSE "none"]
  BY DEF FailAttempt, ScheduleRetry, DeadLetter, FailRun
<1>5. OnlyRun(r)
  BY ZenonT(30), <1>2, <1>3, <1>4 DEF OnlyRun, SameRun, DatabaseTypeOK
<1>6. Ended(r, n)
  BY ZenonT(30), <1>1, <1>2, <1>3, <1>4 DEF Ended, DatabaseTypeOK
<1> QED
  BY ZenonT(30), <1>1, <1>5, <1>6

LEMMA SuccessEnds ==
    ASSUME RowTypeOK, NEW r \in Runs, NEW n, NEW w, NEW sawExpired, NEW passed,
           CompleteSuccess(r, n, w, sawExpired, passed)
    PROVE  OnlyRun(r) /\ n \in Nat /\ Ended(r, n)
<1> USE DEF RowTypeOK
<1>1. n \in DOMAIN attempts[r] /\ attempts[r][n] = "OPEN" /\ n \in Nat /\ status[r] = "RUNNING"
  BY SMTT(10), SMTT(20), AttemptNumbers DEF CompleteSuccess, MayComplete, OwnsActiveLease, AttemptIsOpen
<1>2. /\ \A q \in Runs : q # r => attempts'[q] = attempts[q]
      /\ Len(attempts'[r]) = Len(attempts[r])
      /\ DOMAIN attempts'[r] = DOMAIN attempts[r]
      /\ \A m \in DOMAIN attempts[r] :
            attempts'[r][m] = IF m = n THEN "SUCCEEDED" ELSE attempts[r][m]
  BY <1>1, FinishAttempt DEF CompleteSuccess, DatabaseTypeOK, Outcomes
<1>3. /\ status' = [status EXCEPT ![r] = "SUCCEEDED"]
      /\ result' = [result EXCEPT ![r] = n]
      /\ error' = [error EXCEPT ![r] = "NONE"]
      /\ retryAt' = [retryAt EXCEPT ![r] = "none"]
      /\ leaseOwner' = [leaseOwner EXCEPT ![r] = NoWorker]
      /\ lease' = [lease EXCEPT ![r] = "none"]
  BY DEF CompleteSuccess, ClearLease
<1>4. OnlyRun(r)
  BY ZenonT(30), <1>2, <1>3 DEF OnlyRun, SameRun, DatabaseTypeOK
<1>5. Ended(r, n)
  BY ZenonT(30), <1>1, <1>2, <1>3 DEF Ended, DatabaseTypeOK
<1> QED
  BY ZenonT(30), <1>1, <1>4, <1>5

rowVars == <<status, leaseVars, retryAt, error, result, attempts>>

LEMMA RowsUnchanged ==
    ASSUME UNCHANGED rowVars
    PROVE  \A q \in Runs : SameRun(q)
BY ZenonT(30) DEF rowVars, SameRun

\* Every step of the system leaves all runs alone, or changes one run in one of
\* the five ways above.
LEMMA RunSteps ==
    ASSUME RowTypeOK, [Next]_vars
    PROVE  \/ \A q \in Runs : SameRun(q)
           \/ \E r \in Runs : OnlyRun(r) /\ RunStep(r)
<1> USE DEF RowTypeOK
<1>1. CASE UNCHANGED vars
  BY <1>1, RowsUnchanged DEF rowVars
<1>2. CASE Api
  <2>1. ASSUME NEW r \in Runs, Submit(r) \/ Evaluate(r)
        PROVE  OnlyRun(r) /\ Accepted(r)
    BY ZenonT(30), <2>1 DEF Submit, Evaluate, InsertQueuedRun, OnlyRun, SameRun, Accepted,
       DatabaseTypeOK
  <2>2. ASSUME NEW r \in Runs, BeginEvaluate(r)
        PROVE  \A q \in Runs : SameRun(q)
    BY <2>2, RowsUnchanged DEF BeginEvaluate, rowVars
  <2> QED
    BY <1>2, <2>1, <2>2 DEF Api, RunStep
<1>3. CASE \E d \in Dispatchers : Dispatcher(d)
  BY ZenonT(30), <1>3, RowsUnchanged DEF Dispatcher, LockEvent, Publish, PublishFails,
     MarkPublished,
     DispatcherCrash, rowVars
<1>4. ASSUME NEW h \in Handlers, Handler(h)
      PROVE  \/ \A q \in Runs : SameRun(q)
             \/ \E r \in Runs : OnlyRun(r) /\ RunStep(r)
  <2> DEFINE r == msg[h]
  <2>1. pc[h] # "idle" => r \in Runs
    BY DEF HandlerTypeOK
  <2>2. CASE ClaimNotGranted(h)
    <3>1. r \in Runs
      BY ZenonT(30), <2>1, <2>2 DEF ClaimNotGranted
    <3>2. CASE ClaimRefused(r)
      BY <3>2, RowsUnchanged DEF ClaimRefused, rowVars
    <3>3. CASE ClaimDeferred(r) \/ ClaimExhausted(r)
      <4>1. OnlyRun(r)
        BY <3>1, <3>3 DEF ClaimDeferred, ClaimExhausted, OnlyRun, SameRun, DatabaseTypeOK
      <4>2. NotStarted(r)
        BY <3>1, <3>3 DEF ClaimDeferred, ClaimExhausted, Claimable, NotStarted, DatabaseTypeOK
      <4> QED
        BY <3>1, <4>1, <4>2 DEF RunStep
    <3> QED
      BY ZenonT(30), <2>2, <3>2, <3>3 DEF ClaimNotGranted
  <2>3. CASE Claim(h)
    <3>1. r \in Runs /\ ClaimGranted(r, WorkerOf[h]) /\ WorkerOf[h] \in Workers
      BY ZenonT(30), <2>1, <2>3, WorkersAssumption DEF Claim
    <3>2. /\ \A q \in Runs : q # r => attempts'[q] = attempts[q]
          /\ Len(attempts'[r]) = Len(attempts[r]) + 1
          /\ DOMAIN attempts'[r] = DOMAIN attempts[r] \cup {Len(attempts[r]) + 1}
          /\ attempts'[r][Len(attempts[r]) + 1] = "OPEN"
          /\ \A m \in DOMAIN attempts[r] : attempts'[r][m] = attempts[r][m]
      BY ZenonT(30), <3>1, AppendAttempt DEF ClaimGranted, DatabaseTypeOK, Outcomes
    <3>3. OnlyRun(r)
      BY ZenonT(30), <3>1, <3>2 DEF ClaimGranted, OnlyRun, SameRun, DatabaseTypeOK
    <3>4. Started(r)
      BY ZenonT(30), <3>1, <3>2 DEF ClaimGranted, Claimable, Started, DatabaseTypeOK
    <3> QED
      BY ZenonT(30), <3>1, <3>3, <3>4 DEF RunStep
  <2>4. CASE CompletePersisted(h)
    <3>1. r \in Runs
      BY ZenonT(30), <2>1, <2>4 DEF CompletePersisted
    <3>2. CASE CompleteSuccess(r, att[h], WorkerOf[h], late[h], out[h] = "OK")
      BY ZenonT(30), <3>1, <3>2, SuccessEnds DEF RunStep
    <3>3. CASE CompleteFailure(r, att[h], WorkerOf[h], late[h], out[h])
      BY ZenonT(30), <3>1, <3>3, FailAttemptEnds DEF CompleteFailure, MayComplete,
         OwnsActiveLease, RunStep
    <3> QED
      BY ZenonT(30), <2>4, <3>2, <3>3 DEF CompletePersisted, Persisted
  <2>5. CASE UNCHANGED rowVars
    BY <2>5, RowsUnchanged
  <2> QED
    BY ZenonT(30), <1>4, <2>2, <2>3, <2>4, <2>5 DEF Handler, Deliver, Charge, ChargeFenced,
       ChargeDenied,
       ProviderReturns, EvaluateRules, AttemptTimesOut, Report, CompleteLost, CompleteRefused,
       Ack, Nack, HandlerLost, ConnectionLost, rowVars
<1>5. ASSUME NEW r \in Runs, RecoverLease(r)
      PROVE  OnlyRun(r) /\ RunStep(r)
  <2>1. PICK n \in DOMAIN attempts[r] :
            attempts[r][n] = "OPEN" /\ FailAttempt(r, n, "EXECUTION_LEASE_EXPIRED")
    BY <1>5 DEF RecoverLease, RecoverExpiredLease
  <2>2. status[r] = "RUNNING"
    BY <1>5 DEF RecoverLease, RecoverExpiredLease
  <2> QED
    BY ZenonT(30), <2>1, <2>2, FailAttemptEnds DEF AttemptIsOpen, RunStep
<1>6. ASSUME NEW r \in Runs, ScheduleRetryDue(r) \/ LeaseExpires(r) \/ RetryFallsDue(r)
      PROVE  OnlyRun(r) /\ Waited(r)
  BY ZenonT(30), <1>6 DEF ScheduleRetryDue, ScheduleDueRetry, LeaseExpires, RetryFallsDue,
     OnlyRun, SameRun,
     Waited, DatabaseTypeOK
<1>7. CASE Scheduler \/ Time
  BY <1>5, <1>6, <1>7 DEF Scheduler, Time, RunStep
<1> QED
  BY <1>1, <1>2, <1>3, <1>4, <1>7 DEF Next

-----------------------------------------------------------------------------
(* Leases and attempts *)

LEMMA InitRows ==
    Init => /\ LeaseMatchesAttempts /\ ResultFromLastAttempt /\ AttemptBudgetHeld
            /\ \A r \in Runs : status[r] = "ABSENT" /\ retryAt[r] = "none"
<1> SUFFICES ASSUME Init, NEW r \in Runs
             PROVE  /\ status[r] = "RUNNING" <=> lease[r] # "none"
                    /\ status[r] = "RUNNING" <=> leaseOwner[r] # NoWorker
                    /\ {n \in DOMAIN attempts[r] : attempts[r][n] = "OPEN"} =
                          IF status[r] = "RUNNING" THEN {Len(attempts[r])} ELSE {}
                    /\ status[r] = "SUCCEEDED" <=> result[r] # 0
                    /\ {n \in DOMAIN attempts[r] : attempts[r][n] = "SUCCEEDED"} =
                          IF status[r] = "SUCCEEDED" THEN {result[r]} ELSE {}
                    /\ result[r] \in {0, Len(attempts[r])}
                    /\ Len(attempts[r]) <= MaxAttempts[r]
                    /\ Len(attempts[r]) <= ServerMaxAttempts
                    /\ status[r] = "ABSENT" /\ retryAt[r] = "none"
  BY ZenonT(30) DEF LeaseMatchesAttempts, ResultFromLastAttempt, AttemptBudgetHeld
<1>1. /\ status[r] = "ABSENT" /\ lease[r] = "none" /\ leaseOwner[r] = NoWorker
      /\ retryAt[r] = "none" /\ result[r] = 0 /\ attempts[r] = <<>>
  BY ZenonT(30) DEF Init
<1>2. DOMAIN attempts[r] = {} /\ Len(attempts[r]) = 0
  BY SMTT(10), SMTT(20), <1>1
<1>3. Len(attempts[r]) <= MaxAttempts[r] /\ Len(attempts[r]) <= ServerMaxAttempts
  BY SMTT(10), SMTT(20), <1>2, LimitsAssumption
<1> QED
  BY ZenonT(30), <1>1, <1>2, <1>3

\* The attempts of a run, once more: no attempt but the last one of a RUNNING
\* run is open.
LEMMA OpenAttempt ==
    ASSUME RowTypeOK, LeaseMatchesAttempts, NEW r \in Runs
    PROVE  /\ \A n \in DOMAIN attempts[r] :
                 attempts[r][n] = "OPEN" <=> status[r] = "RUNNING" /\ n = Len(attempts[r])
           /\ status[r] = "RUNNING" => Len(attempts[r]) \in DOMAIN attempts[r]
<1> DEFINE Open == {n \in DOMAIN attempts[r] : attempts[r][n] = "OPEN"}
<1>1. Open = IF status[r] = "RUNNING" THEN {Len(attempts[r])} ELSE {}
  BY DEF LeaseMatchesAttempts
<1> QED
  BY SMTT(10), SMTT(20), <1>1

LEMMA NextLease ==
    ASSUME RowTypeOK, LeaseMatchesAttempts, [Next]_vars
    PROVE  LeaseMatchesAttempts'
<1> SUFFICES ASSUME NEW r \in Runs
             PROVE  /\ status'[r] = "RUNNING" <=> lease'[r] # "none"
                    /\ status'[r] = "RUNNING" <=> leaseOwner'[r] # NoWorker
                    /\ {n \in DOMAIN attempts'[r] : attempts'[r][n] = "OPEN"} =
                          IF status'[r] = "RUNNING" THEN {Len(attempts'[r])} ELSE {}
  BY DEF LeaseMatchesAttempts
<1>1. /\ status[r] = "RUNNING" <=> lease[r] # "none"
      /\ status[r] = "RUNNING" <=> leaseOwner[r] # NoWorker
      /\ {n \in DOMAIN attempts[r] : attempts[r][n] = "OPEN"} =
            IF status[r] = "RUNNING" THEN {Len(attempts[r])} ELSE {}
  BY DEF LeaseMatchesAttempts
<1>2. SameRun(r) \/ RunStep(r)
  BY RunSteps DEF OnlyRun
<1>3. CASE SameRun(r)
  BY <1>1, <1>3 DEF SameRun
<1>4. CASE Accepted(r) \/ NotStarted(r) \/ Waited(r)
  BY ZenonT(30), <1>1, <1>4 DEF Accepted, NotStarted, Waited
<1>5. CASE Started(r)
  <2>1. /\ status[r] = "QUEUED" /\ status'[r] = "RUNNING"
        /\ leaseOwner'[r] \in Workers /\ lease'[r] = "active"
        /\ Len(attempts'[r]) = Len(attempts[r]) + 1
        /\ DOMAIN attempts'[r] = DOMAIN attempts[r] \cup {Len(attempts[r]) + 1}
        /\ attempts'[r][Len(attempts[r]) + 1] = "OPEN"
        /\ \A m \in DOMAIN attempts[r] : attempts'[r][m] = attempts[r][m]
    BY ZenonT(30), <1>5 DEF Started
  <2>2. leaseOwner'[r] # NoWorker
    BY ZenonT(30), <2>1, WorkersAssumption
  <2>3. \A m \in DOMAIN attempts[r] : attempts[r][m] # "OPEN"
    <3>1. status[r] # "RUNNING"
      BY ZenonT(30), <2>1
    <3> QED
      BY ZenonT(30), <3>1, OpenAttempt
  <2>4. {n \in DOMAIN attempts'[r] : attempts'[r][n] = "OPEN"} = {Len(attempts'[r])}
    BY ZenonT(30), <2>1, <2>3
  <2> QED
    BY ZenonT(30), <2>1, <2>2, <2>4
<1>6. ASSUME NEW n \in Nat, Ended(r, n)
      PROVE  /\ status'[r] # "RUNNING" /\ lease'[r] = "none" /\ leaseOwner'[r] = NoWorker
             /\ \A m \in DOMAIN attempts'[r] : attempts'[r][m] # "OPEN"
  <2>1. /\ status'[r] # "RUNNING" /\ lease'[r] = "none" /\ leaseOwner'[r] = NoWorker
        /\ attempts'[r][n] # "OPEN"
    BY ZenonT(30), <1>6 DEF Ended
  <2>2. /\ n \in DOMAIN attempts[r] /\ attempts[r][n] = "OPEN"
        /\ DOMAIN attempts'[r] = DOMAIN attempts[r]
        /\ \A m \in DOMAIN attempts[r] \ {n} : attempts'[r][m] = attempts[r][m]
    BY ZenonT(30), <1>6 DEF Ended
  <2>3. \A m \in DOMAIN attempts[r] : m # n => attempts[r][m] # "OPEN"
    <3>1. \A m \in DOMAIN attempts[r] : attempts[r][m] = "OPEN" => m = Len(attempts[r])
      BY ZenonT(30), OpenAttempt
    <3> QED
      BY ZenonT(30), <2>2, <3>1
  <2> QED
    BY ZenonT(30), <2>1, <2>2, <2>3
<1> QED
  BY ZenonT(30), <1>2, <1>3, <1>4, <1>5, <1>6 DEF RunStep

\* A run without attempts left to finish keeps its verdict and its result.
LEMMA NextResult ==
    ASSUME RowTypeOK, LeaseMatchesAttempts, ResultFromLastAttempt, [Next]_vars
    PROVE  ResultFromLastAttempt'
<1> DEFINE Won(r) == {n \in DOMAIN attempts[r] : attempts[r][n] = "SUCCEEDED"}
<1> SUFFICES ASSUME NEW r \in Runs
             PROVE  /\ status'[r] = "SUCCEEDED" <=> result'[r] # 0
                    /\ {n \in DOMAIN attempts'[r] : attempts'[r][n] = "SUCCEEDED"} =
                          IF status'[r] = "SUCCEEDED" THEN {result'[r]} ELSE {}
                    /\ result'[r] \in {0, Len(attempts'[r])}
  BY ZenonT(30) DEF ResultFromLastAttempt
<1>1. /\ status[r] = "SUCCEEDED" <=> result[r] # 0
      /\ Won(r) = IF status[r] = "SUCCEEDED" THEN {result[r]} ELSE {}
      /\ result[r] \in {0, Len(attempts[r])}
  BY ZenonT(30) DEF ResultFromLastAttempt
<1>2. SameRun(r) \/ RunStep(r)
  BY RunSteps DEF OnlyRun
<1>3. CASE SameRun(r)
  BY <1>1, <1>3 DEF SameRun
<1>4. CASE Accepted(r) \/ NotStarted(r) \/ Waited(r)
  BY ZenonT(30), <1>1, <1>4 DEF Accepted, NotStarted, Waited
<1>5. CASE Started(r)
  BY ZenonT(30), <1>1, <1>5 DEF Started
<1>6. ASSUME NEW n \in Nat, Ended(r, n)
      PROVE  /\ status'[r] = "SUCCEEDED" <=> result'[r] # 0
             /\ {m \in DOMAIN attempts'[r] : attempts'[r][m] = "SUCCEEDED"} =
                   IF status'[r] = "SUCCEEDED" THEN {result'[r]} ELSE {}
             /\ result'[r] \in {0, Len(attempts'[r])}
  <2>1. n = Len(attempts[r]) /\ n # 0
    <3>1. n \in DOMAIN attempts[r] /\ attempts[r][n] = "OPEN"
      BY ZenonT(30), <1>6 DEF Ended
    <3>2. n = Len(attempts[r])
      BY ZenonT(30), <3>1, OpenAttempt
    <3>3. n \in 1 .. Len(attempts[r]) /\ Len(attempts[r]) \in Nat
      BY ZenonT(30), <3>1, AttemptNumbers
    <3>4. n # 0
      BY SMTT(10), SMTT(20), <3>3
    <3> QED
      BY <3>2, <3>4
  <2>2. Won(r) = {} /\ result[r] = 0
    BY ZenonT(30), <1>1, <1>6 DEF Ended
  <2> QED
    BY ZenonT(30), <1>6, <2>1, <2>2 DEF Ended
<1> QED
  BY ZenonT(30), <1>2, <1>3, <1>4, <1>5, <1>6 DEF RunStep

\* claim is the only step that adds an attempt, and it checks both budgets.
LEMMA NextBudget ==
    ASSUME RowTypeOK, AttemptBudgetHeld, [Next]_vars
    PROVE  AttemptBudgetHeld'
<1> SUFFICES ASSUME NEW r \in Runs
             PROVE  Len(attempts'[r]) <= MaxAttempts[r] /\ Len(attempts'[r]) <= ServerMaxAttempts
  BY DEF AttemptBudgetHeld
<1>1. Len(attempts[r]) <= MaxAttempts[r] /\ Len(attempts[r]) <= ServerMaxAttempts
  BY DEF AttemptBudgetHeld
<1>2. SameRun(r) \/ RunStep(r)
  BY RunSteps DEF OnlyRun
<1>3. CASE Started(r)
  BY SMTT(10), SMTT(20), <1>3, AttemptNumbers, LimitsAssumption
     DEF Started, AttemptBudgetExhausted, NextAttemptNumber
<1> QED
  BY ZenonT(30), <1>1, <1>2, <1>3 DEF RunStep, SameRun, Accepted, NotStarted, Ended, Waited

\* next_attempt_at is set exactly while the run waits for a retry.
RetryDated == \A r \in Runs : status[r] = "RETRY_SCHEDULED" <=> retryAt[r] # "none"

LEMMA NextDated ==
    ASSUME RowTypeOK, RetryDated, [Next]_vars
    PROVE  RetryDated'
<1> SUFFICES ASSUME NEW r \in Runs
             PROVE  status'[r] = "RETRY_SCHEDULED" <=> retryAt'[r] # "none"
  BY ZenonT(30) DEF RetryDated
<1>1. status[r] = "RETRY_SCHEDULED" <=> retryAt[r] # "none"
  BY DEF RetryDated
<1>2. SameRun(r) \/ RunStep(r)
  BY RunSteps DEF OnlyRun
<1>3. CASE SameRun(r)
  BY <1>1, <1>3 DEF SameRun
<1>4. CASE Accepted(r)
  BY <1>1, <1>4 DEF Accepted
<1>5. CASE NotStarted(r)
  BY <1>1, <1>5 DEF NotStarted
<1>6. CASE Started(r)
  BY <1>1, <1>6 DEF Started
<1>7. ASSUME NEW n \in Nat, Ended(r, n)
      PROVE  status'[r] = "RETRY_SCHEDULED" <=> retryAt'[r] # "none"
  BY <1>7 DEF Ended
<1>8. CASE Waited(r)
  BY <1>1, <1>8 DEF Waited
<1> QED
  BY ZenonT(30), <1>2, <1>3, <1>4, <1>5, <1>6, <1>7, <1>8 DEF RunStep

\* The inductive invariant of the runs table.
RowsInv ==
    RowTypeOK /\ LeaseMatchesAttempts /\ ResultFromLastAttempt /\ AttemptBudgetHeld /\ RetryDated

LEMMA RowsInvariant == Spec => []RowsInv
<1>1. Init => RowsInv
  BY InitTypes, InitRows DEF RowsInv, RetryDated
<1>2. RowsInv /\ [Next]_vars => RowsInv'
  BY ZenonT(30), NextTypes, NextLease, NextResult, NextBudget, NextDated DEF RowsInv
<1> QED
  BY <1>1, <1>2, PTL DEF Spec

\* RUNNING, lease and open attempt always go together.
THEOREM LeaseSafety == Spec => []LeaseMatchesAttempts
<1>1. RowsInv => LeaseMatchesAttempts
  BY DEF RowsInv
<1> QED
  BY <1>1, RowsInvariant, PTL

\* A stored result is the one of the run's last attempt.
THEOREM ResultSafety == Spec => []ResultFromLastAttempt
<1>1. RowsInv => ResultFromLastAttempt
  BY DEF RowsInv
<1> QED
  BY <1>1, RowsInvariant, PTL

\* No run is attempted more often than its policy and its workers allow.
THEOREM BudgetSafety == Spec => []AttemptBudgetHeld
<1>1. RowsInv => AttemptBudgetHeld
  BY DEF RowsInv
<1> QED
  BY <1>1, RowsInvariant, PTL

-----------------------------------------------------------------------------
(* What no step may do *)

\* Attempt rows are append-only and finished once.
THEOREM HistorySafety == Spec => AttemptHistoryIsFinal
<1> DEFINE Final(r) ==
        /\ Len(attempts'[r]) >= Len(attempts[r])
        /\ \A n \in DOMAIN attempts[r] :
              attempts[r][n] # "OPEN" => attempts'[r][n] = attempts[r][n]
<1>1. ASSUME RowsInv, [Next]_vars, NEW r \in Runs PROVE Final(r)
  <2>1. SameRun(r) \/ RunStep(r)
    BY <1>1, RunSteps DEF RowsInv, OnlyRun
  <2>2. Len(attempts[r]) \in Nat
    BY ZenonT(30), <1>1, AttemptNumbers DEF RowsInv
  <2>3. CASE attempts'[r] = attempts[r]
    BY SMTT(10), SMTT(20), <2>2, <2>3
  <2>4. CASE Started(r)
    BY SMTT(10), SMTT(20), <2>2, <2>4 DEF Started
  <2>5. CASE \E n \in Nat : Ended(r, n)
    <3>1. PICK n \in Nat : Ended(r, n)
      BY <2>5
    <3>2. attempts[r][n] = "OPEN" /\ Len(attempts'[r]) = Len(attempts[r])
      BY ZenonT(30), <3>1 DEF Ended
    <3>3. \A m \in DOMAIN attempts[r] \ {n} : attempts'[r][m] = attempts[r][m]
      BY ZenonT(30), <3>1 DEF Ended
    <3> QED BY SMTT(10), SMTT(20), <2>2, <3>2, <3>3
  <2>6. attempts'[r] = attempts[r] \/ Started(r) \/ (\E n \in Nat : Ended(r, n))
    BY ZenonT(30), <2>1 DEF RunStep, SameRun, Accepted, NotStarted, Waited
  <2> QED
    BY ZenonT(30), <2>3, <2>4, <2>5, <2>6
<1>2. RowsInv /\ [Next]_vars => [\A r \in Runs : Final(r)]_vars
  BY ZenonT(30), <1>1
<1> QED
  BY <1>2, RowsInvariant, PTL DEF Spec, AttemptHistoryIsFinal

\* No step changes a decided run.
THEOREM TerminalSafety == Spec => TerminalRunsImmutable
<1> DEFINE Kept(r) ==
        status[r] \in TerminalExecutionStatuses =>
            UNCHANGED <<status[r], result[r], error[r], retryAt[r], attempts[r],
                        leaseOwner[r], lease[r]>>
<1>1. ASSUME RowsInv, [Next]_vars, NEW r \in Runs PROVE Kept(r)
  <2>1. SUFFICES ASSUME status[r] \in TerminalExecutionStatuses PROVE SameRun(r)
    BY ZenonT(30) DEF SameRun
  <2>2. SameRun(r) \/ RunStep(r)
    BY <1>1, RunSteps DEF RowsInv, OnlyRun
  <2>3. lease[r] = "none" /\ retryAt[r] = "none"
    BY ZenonT(30), <1>1, <2>1 DEF RowsInv, LeaseMatchesAttempts, RetryDated, TerminalExecutionStatuses
  <2> QED
    BY ZenonT(30), <2>1, <2>2, <2>3 DEF TerminalExecutionStatuses, RunStep, Accepted,
       NotStarted, Started,
       Ended, Waited
<1>2. RowsInv /\ [Next]_vars => [\A r \in Runs : Kept(r)]_vars
  BY ZenonT(30), <1>1
<1> QED
  BY <1>2, RowsInvariant, PTL DEF Spec, TerminalRunsImmutable

-----------------------------------------------------------------------------
(* One handler per attempt *)

LEMMA NextOneHandler ==
    ASSUME RowTypeOK, LeaseMatchesAttempts, AttemptHasOneHandler, [Next]_vars
    PROVE  AttemptHasOneHandler'
<1> USE DEF RowTypeOK
\* A handler that is executing after the step has just claimed, or was
\* executing the same attempt before it.
<1> DEFINE Kept(h) == Executing(h) /\ msg'[h] = msg[h] /\ att'[h] = att[h]
           Claimed(h) == Claim(h) /\ msg' = msg /\ att' = [att EXCEPT ![h] = Len(attempts[msg[h]]) + 1]
                         /\ \A g \in Handlers \ {h} : pc'[g] = pc[g]
<1>1. \A h \in Handlers : Executing(h)' => Kept(h) \/ Claimed(h)
  <2> SUFFICES ASSUME NEW h \in Handlers, Executing(h)' PROVE Kept(h) \/ Claimed(h)
    BY ZenonT(30)
  <2>1. CASE UNCHANGED handlerVars
    BY ZenonT(30), <2>1 DEF Executing
  <2>2. ASSUME NEW g \in Handlers, Handler(g) PROVE Kept(h) \/ Claimed(h)
    <3>1. CASE g # h
      <4>1. pc'[h] = pc[h] /\ msg'[h] = msg[h] /\ att'[h] = att[h]
        BY ZenonT(30), <2>2, <3>1 DEF Handler, Deliver, ClaimNotGranted, Claim, Charge,
           ChargeFenced,
           ChargeDenied, ProviderReturns, EvaluateRules, AttemptTimesOut, Report,
           CompletePersisted, CompleteLost, Ack, Nack, HandlerLost, ConnectionLost, HandlerDone,
           ForgetExecution, Goto, HandlerTypeOK
      <4> QED
        BY ZenonT(30), <4>1 DEF Executing
    <3>2. CASE g = h
      <4>1. CASE Claim(h)
        BY <4>1 DEF Claim, Goto, NextAttemptNumber, HandlerTypeOK
      <4>2. CASE ClaimNotGranted(h) \/ CompletePersisted(h) \/ CompleteLost(h)
                 \/ HandlerDone(h)
        BY ZenonT(30), <4>2 DEF ClaimNotGranted, CompletePersisted, CompleteLost, HandlerDone, Goto,
           Executing, HandlerTypeOK
      <4>3. ASSUME NEW r \in Runs, Deliver(h, r) PROVE FALSE
        BY <4>3 DEF Deliver, Goto, Executing, HandlerTypeOK
      <4>4. CASE ConnectionLost(h)
        BY ZenonT(30), <4>4 DEF ConnectionLost, Executing
      <4>5. CASE Charge(h) \/ ChargeFenced(h) \/ ChargeDenied(h) \/ ProviderReturns(h)
                 \/ EvaluateRules(h) \/ AttemptTimesOut(h)
        BY ZenonT(30), <4>5 DEF Charge, ChargeFenced, ChargeDenied, ProviderReturns, EvaluateRules,
           AttemptTimesOut, Report, Executing
      <4> QED
        BY ZenonT(30), <2>2, <3>2, <4>1, <4>2, <4>3, <4>4, <4>5 DEF Handler, Ack, Nack, HandlerLost
    <3> QED
      BY ZenonT(30), <3>1, <3>2
  <2> QED
    BY ZenonT(30), <2>1, <2>2 DEF Next, Api, Submit, BeginEvaluate, Evaluate, Dispatcher,
       LockEvent, Publish,
       PublishFails, MarkPublished, DispatcherCrash, Scheduler, RecoverLease, ScheduleRetryDue,
       Time, LeaseExpires, RetryFallsDue
<1>2. \A r \in Runs : \A n \in DOMAIN attempts[r] :
          /\ n \in DOMAIN attempts'[r]
          /\ AttemptIsOpen(r, n)' => AttemptIsOpen(r, n) /\ leaseOwner'[r] = leaseOwner[r]
  <2> SUFFICES ASSUME NEW r \in Runs, NEW n \in DOMAIN attempts[r]
               PROVE  /\ n \in DOMAIN attempts'[r]
                      /\ AttemptIsOpen(r, n)' =>
                            AttemptIsOpen(r, n) /\ leaseOwner'[r] = leaseOwner[r]
    BY ZenonT(30)
  <2>1. SameRun(r) \/ RunStep(r)
    BY RunSteps DEF OnlyRun
  <2>2. CASE SameRun(r) \/ Accepted(r) \/ NotStarted(r) \/ Waited(r)
    BY ZenonT(30), <2>2 DEF SameRun, Accepted, NotStarted, Waited, AttemptIsOpen
  <2>3. CASE Started(r)
    <3>1. n \in DOMAIN attempts'[r] /\ attempts'[r][n] = attempts[r][n]
      BY <2>3 DEF Started
    <3>2. attempts[r][n] # "OPEN"
      <4>1. status[r] # "RUNNING"
        BY ZenonT(30), <2>3 DEF Started
      <4> QED
        BY ZenonT(30), <4>1, OpenAttempt
    <3> QED
      BY ZenonT(30), <3>1, <3>2 DEF AttemptIsOpen
  <2>4. ASSUME NEW m \in Nat, Ended(r, m)
        PROVE  n \in DOMAIN attempts'[r] /\ ~AttemptIsOpen(r, n)'
    <3>1. n \in DOMAIN attempts'[r] /\ m \in DOMAIN attempts[r] /\ attempts[r][m] = "OPEN"
      BY <2>4 DEF Ended
    <3>2. CASE n = m
      BY <2>4, <3>2 DEF Ended, AttemptIsOpen
    <3>3. CASE n # m
      <4>1. attempts[r][n] # "OPEN"
        BY SMTT(10), SMTT(20), <3>1, <3>3, OpenAttempt
      <4>2. attempts'[r][n] = attempts[r][n]
        BY <2>4, <3>3 DEF Ended
      <4> QED
        BY <3>1, <4>1, <4>2 DEF AttemptIsOpen
    <3> QED
      BY <3>1, <3>2, <3>3
  <2> QED
    BY ZenonT(30), <2>1, <2>2, <2>3, <2>4 DEF RunStep
<1>3. \A h \in Handlers : Executing(h) => msg[h] \in Runs /\ att[h] \in DOMAIN attempts[msg[h]]
  BY ZenonT(30) DEF Executing, HandlerTypeOK, AttemptHasOneHandler
<1>4. ASSUME NEW h \in Handlers, Claimed(h)
      PROVE  /\ msg[h] \in Runs
             /\ att'[h] \in DOMAIN attempts'[msg[h]]
             /\ att'[h] \notin DOMAIN attempts[msg[h]]
             /\ leaseOwner'[msg[h]] = WorkerOf[h]
  <2>1. msg[h] \in Runs /\ ClaimGranted(msg[h], WorkerOf[h])
    BY <1>4 DEF Claim, HandlerTypeOK
  <2>2. DOMAIN attempts'[msg[h]] = DOMAIN attempts[msg[h]] \cup {Len(attempts[msg[h]]) + 1}
    BY ZenonT(30), <2>1, AppendAttempt DEF ClaimGranted, DatabaseTypeOK, Outcomes
  <2>3. att'[h] = Len(attempts[msg[h]]) + 1
    BY <1>4 DEF HandlerTypeOK
  <2>4. leaseOwner'[msg[h]] = WorkerOf[h]
    BY ZenonT(30), <2>1 DEF ClaimGranted, DatabaseTypeOK
  <2>5. Len(attempts[msg[h]]) + 1 \notin DOMAIN attempts[msg[h]]
    <3>1. Len(attempts[msg[h]]) \in Nat
      BY ZenonT(30), <2>1, AttemptNumbers
    <3>2. DOMAIN attempts[msg[h]] = 1 .. Len(attempts[msg[h]])
      BY ZenonT(30), <2>1, AttemptNumbers
    <3> QED
      BY ZenonT(30), <3>1, <3>2, NextIsNew
  <2> QED
    BY ZenonT(30), <2>1, <2>2, <2>3, <2>4, <2>5
<1>5. ASSUME NEW h \in Handlers, Executing(h)'
      PROVE  /\ att'[h] \in DOMAIN attempts'[msg'[h]]
             /\ AttemptIsOpen(msg[h], att[h])' => leaseOwner'[msg'[h]] = WorkerOf[h]
  <2>1. CASE Kept(h)
    <3>1. msg[h] \in Runs /\ att[h] \in DOMAIN attempts[msg[h]]
      BY ZenonT(30), <1>3, <2>1
    <3>2. AttemptIsOpen(msg[h], att[h]) => leaseOwner[msg[h]] = WorkerOf[h]
      BY <2>1 DEF AttemptHasOneHandler
    <3>3. AttemptIsOpen(msg[h], att[h])' <=>
              att[h] \in DOMAIN attempts'[msg[h]] /\ attempts'[msg[h]][att[h]] = "OPEN"
      BY <2>1 DEF AttemptIsOpen
    <3> QED
      BY ZenonT(30), <1>2, <2>1, <3>1, <3>2, <3>3 DEF AttemptIsOpen
  <2>2. CASE Claimed(h)
    BY ZenonT(30), <1>4, <2>2
  <2> QED
    BY ZenonT(30), <1>1, <1>5, <2>1, <2>2
<1>6. ASSUME NEW h \in Handlers, NEW g \in Handlers \ {h}, Executing(h)', Executing(g)',
             msg'[g] = msg'[h]
      PROVE  att'[g] # att'[h]
  <2>1. CASE Kept(h) /\ Kept(g)
    BY ZenonT(30), <1>6, <2>1 DEF AttemptHasOneHandler
  <2>2. ASSUME NEW i \in Handlers, NEW j \in Handlers \ {i}, Claimed(i), Kept(j),
               msg'[i] = msg'[j]
        PROVE  att'[i] # att'[j]
    BY ZenonT(30), <1>3, <1>4, <2>2
  <2>3. ~(Claimed(h) /\ Claimed(g))
    <3> SUFFICES ASSUME Claimed(h), Claimed(g) PROVE FALSE
      OBVIOUS
    <3>1. pc[g] = "claiming" /\ pc'[g] = pc[g]
      BY ZenonT(30) DEF Claim
    <3> QED
      BY ZenonT(30), <1>6, <3>1 DEF Executing
  <2> QED
    BY ZenonT(30), <1>1, <1>6, <2>1, <2>2, <2>3
<1> QED
  BY ZenonT(30), <1>5, <1>6 DEF AttemptHasOneHandler

\* No two handlers execute the same attempt, and an open attempt belongs to a
\* worker that holds the lease.
THEOREM OneHandlerSafety == Spec => []AttemptHasOneHandler
<1>1. Init => AttemptHasOneHandler
  BY DEF Init, AttemptHasOneHandler, Executing
<1>2. RowsInv /\ AttemptHasOneHandler /\ [Next]_vars => AttemptHasOneHandler'
  BY NextOneHandler DEF RowsInv
<1> QED
  BY <1>1, <1>2, RowsInvariant, PTL DEF Spec

-----------------------------------------------------------------------------
(* The contract: every step of Runtime is a step of RunContract under the
   mapping of Runtime!Contract, or invisible in it *)

\* The refinement mapping of Runtime!Contract.
Outcome == [r \in Runs |-> IF status[r] \in ActiveStatuses THEN "PENDING" ELSE status[r]]
Tries == [r \in Runs |-> Len(attempts[r])]
Budget == [r \in Runs |-> IF MaxAttempts[r] < ServerMaxAttempts THEN MaxAttempts[r]
                          ELSE ServerMaxAttempts]

LEMMA SameFunction ==
    ASSUME NEW S, NEW T, NEW f \in [S -> T], NEW g \in [S -> T], \A s \in S : f[s] = g[s]
    PROVE  f = g
BY SMTT(10), SMTT(20)

\* A step that changes one run is a step of the contract, or invisible in it.
LEMMA ContractStep ==
    ASSUME RowsInv, NEW r \in Runs, OnlyRun(r), RunStep(r), result \in [Runs -> Nat],
           result' \in [Runs -> Nat]
    PROVE  \/ Contract!Accept(r) \/ Contract!Try(r) \/ Contract!Succeed(r)
           \/ \E verdict \in {"FAILED", "DEAD_LETTERED"} : Contract!GiveUp(r, verdict)
           \/ UNCHANGED <<Outcome, Tries, result>>
<1>1. \A q \in Runs \ {r} : SameRun(q)
  BY DEF OnlyRun
<1>2. ASSUME result'[r] = result[r] PROVE result' = result
  <2>1. \A q \in Runs : result'[q] = result[q]
    BY ZenonT(30), <1>1, <1>2 DEF SameRun
  <2> QED
    BY SMTT(10), SMTT(20), <2>1, SameFunction
<1>3. ASSUME Len(attempts'[r]) = Len(attempts[r]) PROVE Tries' = Tries
  BY ZenonT(30), <1>1, <1>3 DEF SameRun, Tries
<1>4. ASSUME status[r] \in ActiveStatuses, status'[r] \in ActiveStatuses PROVE Outcome' = Outcome
  BY ZenonT(30), <1>1, <1>4 DEF SameRun, Outcome
<1>5. ASSUME NEW o, Outcome'[r] = o PROVE Outcome' = [Outcome EXCEPT ![r] = o]
  BY ZenonT(30), <1>1, <1>5 DEF SameRun, Outcome
<1>6. CASE Accepted(r)
  <2>1. Outcome[r] = "ABSENT" /\ Outcome'[r] = "PENDING" /\ Tries' = Tries /\ result' = result
    BY ZenonT(30), <1>2, <1>3, <1>6 DEF Accepted, Outcome, ActiveStatuses
  <2> QED
    BY ZenonT(30), <1>5, <2>1 DEF Contract!Accept, Outcome, Tries
<1>7. CASE NotStarted(r)
  <2>1. Outcome[r] = "PENDING" /\ Tries' = Tries /\ result' = result
    BY ZenonT(30), <1>2, <1>3, <1>7 DEF NotStarted, Outcome, ActiveStatuses
  <2>2. CASE status'[r] = "RETRY_SCHEDULED"
    BY ZenonT(30), <1>4, <1>7, <2>1, <2>2 DEF NotStarted, ActiveStatuses
  <2>3. CASE status'[r] = "FAILED"
    <3>1. Outcome'[r] = "FAILED"
      BY <2>3 DEF Outcome, ActiveStatuses
    <3> QED
      BY ZenonT(30), <1>5, <2>1, <3>1 DEF Contract!GiveUp, Outcome, Tries
  <2> QED
    BY ZenonT(30), <1>7, <2>2, <2>3 DEF NotStarted
<1>8. CASE Started(r)
  <2>1. Outcome[r] = "PENDING" /\ Outcome' = Outcome /\ result' = result
    BY ZenonT(30), <1>2, <1>4, <1>8 DEF Started, Outcome, ActiveStatuses
  <2>2. Tries' = [Tries EXCEPT ![r] = @ + 1]
    BY ZenonT(30), <1>1, <1>8 DEF Started, SameRun, Tries
  <2>3. Tries[r] < Budget[r]
    <3>1. ~AttemptBudgetExhausted(r)
      BY ZenonT(30), <1>8 DEF Started
    <3>2. Len(attempts[r]) \in Nat
      BY AttemptNumbers DEF RowsInv
    <3>3. MaxAttempts[r] \in Nat /\ ServerMaxAttempts \in Nat
      BY LimitsAssumption
    <3>4. Len(attempts[r]) < MaxAttempts[r] /\ Len(attempts[r]) < ServerMaxAttempts
      BY SMTT(10), SMTT(20), <3>1, <3>2, <3>3 DEF AttemptBudgetExhausted, NextAttemptNumber
    <3>5. Tries[r] = Len(attempts[r]) /\ Budget[r] \in {MaxAttempts[r], ServerMaxAttempts}
      BY DEF Tries, Budget
    <3> QED
      BY <3>4, <3>5
  <2> QED
    BY ZenonT(30), <2>1, <2>2, <2>3 DEF Contract!Try, Outcome, Tries, Budget
<1>9. ASSUME NEW n \in Nat, Ended(r, n)
      PROVE  \/ Contract!Succeed(r)
             \/ \E verdict \in {"FAILED", "DEAD_LETTERED"} : Contract!GiveUp(r, verdict)
             \/ UNCHANGED <<Outcome, Tries, result>>
  <2>1. Outcome[r] = "PENDING" /\ Tries' = Tries
    BY ZenonT(30), <1>3, <1>9 DEF Ended, Outcome, ActiveStatuses
  <2>2. n = Tries[r] /\ n > 0
    <3>1. RowTypeOK /\ LeaseMatchesAttempts
      BY DEF RowsInv
    <3>2. n \in DOMAIN attempts[r] /\ attempts[r][n] = "OPEN"
      BY ZenonT(30), <1>9 DEF Ended
    <3>3. n = Len(attempts[r])
      BY ZenonT(30), <3>1, <3>2, OpenAttempt
    <3>4. n \in 1 .. Len(attempts[r]) /\ Len(attempts[r]) \in Nat
      BY <3>1, <3>2, AttemptNumbers
    <3> QED
      BY SMTT(10), SMTT(20), <3>3, <3>4 DEF Tries
  <2>3. CASE status'[r] = "SUCCEEDED"
    <3>1. Outcome'[r] = "SUCCEEDED"
      BY <2>3 DEF Outcome, ActiveStatuses
    <3>2. result' = [result EXCEPT ![r] = n]
      BY ZenonT(30), <1>1, <1>9, <2>3 DEF Ended, SameRun
    <3> QED
      BY ZenonT(30), <1>5, <2>1, <2>2, <3>1, <3>2 DEF Contract!Succeed, Outcome, Tries
  <2>4. CASE status'[r] = "RETRY_SCHEDULED"
    BY ZenonT(30), <1>2, <1>4, <1>9, <2>1, <2>4 DEF Ended, ActiveStatuses
  <2>5. ASSUME NEW verdict \in {"FAILED", "DEAD_LETTERED"}, status'[r] = verdict
        PROVE  Contract!GiveUp(r, verdict)
    <3>1. Outcome'[r] = verdict /\ result' = result
      BY ZenonT(30), <1>2, <1>9, <2>5 DEF Ended, Outcome, ActiveStatuses
    <3> QED
      BY ZenonT(30), <1>5, <2>1, <2>2, <3>1 DEF Contract!GiveUp, Outcome, Tries
  <2> QED
    BY ZenonT(30), <1>9, <2>3, <2>4, <2>5 DEF Ended
<1>10. CASE Waited(r)
  <2>1. Tries' = Tries /\ result' = result
    BY ZenonT(30), <1>2, <1>3, <1>10 DEF Waited
  <2>2. Outcome'[r] = Outcome[r]
    BY ZenonT(30), <1>10 DEF Waited, Outcome, ActiveStatuses
  <2>3. Outcome' = Outcome
    BY ZenonT(30), <1>5, <2>2 DEF Outcome
  <2> QED
    BY <2>1, <2>3
<1> QED
  BY <1>6, <1>7, <1>8, <1>9, <1>10 DEF RunStep

\* A client of the runtime sees what RunContract promises: attempts within the
\* budget, one verdict, and the result of the attempt that was current.
THEOREM RuntimeImplementsContract == Spec => ImplementsContract
<1>1. Init => Contract!ContractInit
  BY SMTT(10), SMTT(20) DEF Init, Contract!ContractInit, ActiveStatuses
<1>2. RowsInv /\ RowsInv' /\ [Next]_vars => [Contract!ContractNext]_(Contract!contractVars)
  <2> SUFFICES ASSUME RowsInv, RowsInv', [Next]_vars
               PROVE  Contract!ContractNext \/ UNCHANGED <<Outcome, Tries, result>>
    BY DEF Contract!contractVars, Outcome, Tries
  <2>1. result \in [Runs -> Nat] /\ result' \in [Runs -> Nat]
    BY ZenonT(30) DEF RowsInv, RowTypeOK, DatabaseTypeOK
  <2>2. CASE \A q \in Runs : SameRun(q)
    <3>1. result' = result
      <4>1. \A q \in Runs : result'[q] = result[q]
        BY ZenonT(30), <2>2 DEF SameRun
      <4> QED
        BY SMTT(10), SMTT(20), <2>1, <4>1, SameFunction
    <3>2. Outcome' = Outcome
      BY <2>2 DEF SameRun, Outcome
    <3>3. Tries' = Tries
      BY ZenonT(30), <2>2 DEF SameRun, Tries
    <3> QED
      BY <3>1, <3>2, <3>3
  <2>3. ASSUME NEW r \in Runs, OnlyRun(r), RunStep(r)
        PROVE  Contract!ContractNext \/ UNCHANGED <<Outcome, Tries, result>>
    BY <2>1, <2>3, ContractStep DEF Contract!ContractNext
  <2> QED
    BY <2>2, <2>3, RunSteps DEF RowsInv
<1> QED
  BY <1>1, <1>2, RowsInvariant, PTL DEF Spec, ImplementsContract, Contract!ContractSpec
=============================================================================
