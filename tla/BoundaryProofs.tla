--------------------------- MODULE BoundaryProofs ----------------------------
(***************************************************************************)
(* Proofs about ApiBoundary, for any number of callers, open requests and  *)
(* failures.                                                               *)
(*                                                                         *)
(* Both properties speak of the end of a request; RequestInv follows it    *)
(* there, stage by stage: what its handler may find done (HandledOnce) and *)
(* what the audit holds by then (AuditedBefore).                           *)
(***************************************************************************)
EXTENDS ApiBoundary, TLAPS

Stages == {"free", "received", "identify", "limit", "deny", "record", "handle", "record_read",
           "reply"}

RequestTypes ==
    /\ stage \in [Requests -> Stages]
    /\ kind \in [Requests -> {"submit", "read"}]
    /\ answer \in [Requests -> Answers]
    /\ rows \in [Requests -> SUBSET {"denied", "allowed", "read"}]
    /\ worked \in [Requests -> BOOLEAN]

\* A run is inserted by the handler of a submission, which replies at once.
HandledOnce(q) ==
    /\ worked[q] => /\ stage[q] = "reply" /\ kind[q] = "submit"
                    /\ answer[q] \in {"ok", "error"}
    /\ stage[q] = "deny" => answer[q] \in Refusals
    /\ stage[q] = "record" => kind[q] = "submit"
    /\ stage[q] = "record_read" => kind[q] = "read"

\* The row that a fail-closed policy asks for is there before the handler of a
\* submission, and before the reply to a read.
AuditedBefore(q) == config.onFailure = "fail_closed" =>
    /\ /\ kind[q] = "submit" /\ config.auth = "api_key"
       /\ stage[q] = "handle" \/ worked[q] \/ (stage[q] = "reply" /\ answer[q] \in {"ok", "running"})
       => "allowed" \in rows[q]
    /\ kind[q] = "read" /\ stage[q] = "reply" /\ answer[q] \in {"ok", "running"}
       => "read" \in rows[q]

RequestInv(q) == HandledOnce(q) /\ AuditedBefore(q)

BoundaryInv == RequestTypes /\ \A q \in Requests : RequestInv(q)
-----------------------------------------------------------------------------
\* A request that a step does not touch keeps its invariant.
LEMMA OtherRequests ==
  ASSUME NEW v \in Requests, RequestInv(v), UNCHANGED config,
         UNCHANGED <<stage[v], kind[v], answer[v], rows[v], worked[v]>>
  PROVE  RequestInv(v)'
  BY DEF RequestInv, HandledOnce, AuditedBefore

\* What is common to the steps of the server: one request moves.
LEMMA ServeTouchesOne ==
  ASSUME BoundaryInv, NEW q \in Requests, Serve(q)
  PROVE  /\ RequestTypes'
         /\ UNCHANGED config
         /\ \A v \in Requests \ {q} :
               UNCHANGED <<stage[v], kind[v], answer[v], rows[v], worked[v]>>
<1>0. RequestTypes
  BY DEF BoundaryInv
<1>1. CASE Receive(q)
  BY <1>0, <1>1 DEF Receive, RequestTypes, Stages, Move, Answer, Answers, Refusals, Elsewhere
<1>2. CASE Authenticate(q)
  BY <1>0, <1>2 DEF Authenticate, RequestTypes, Stages, Move, Answer, Answers, Refusals, Elsewhere
<1>3. CASE RateLimit(q)
  BY <1>0, <1>3 DEF RateLimit, RequestTypes, Stages, Admitted, Move, Answer, Answers, Refusals,
     Elsewhere
<1>4. CASE Deny(q)
  BY <1>0, <1>4 DEF Deny, Write, Recorded, RequestTypes, Stages, Move, Elsewhere
<1>5. CASE RecordAllowed(q)
  BY <1>0, <1>5 DEF RecordAllowed, Write, Recorded, RequestTypes, Stages, Move, Answer, Answers,
     Refusals, Elsewhere
<1>6. CASE HandleSubmit(q)
  BY <1>0, <1>6 DEF HandleSubmit, InsertRun, AfterHandler, RequestTypes, Stages, Move, Answer,
     Answers, Refusals, Elsewhere
<1>7. CASE HandleRead(q)
  BY <1>0, <1>7 DEF HandleRead, AfterHandler, RequestTypes, Stages, Move, Answer, Answers,
     Elsewhere
<1>8. CASE RecordRead(q)
  BY <1>0, <1>8 DEF RecordRead, Write, Recorded, RequestTypes, Stages, Move, Answer, Answers,
     Refusals, Elsewhere
<1>9. CASE Reply(q)
  BY <1>0, <1>9 DEF Reply, RequestTypes, Stages, Move, Answer, Answers
<1> QED BY <1>1, <1>2, <1>3, <1>4, <1>5, <1>6, <1>7, <1>8, <1>9 DEF Serve

\* The layers before the handler do no work and end a request they refuse.
LEMMA LayersKeep ==
  ASSUME BoundaryInv, NEW q \in Requests,
         Receive(q) \/ Authenticate(q) \/ RateLimit(q) \/ Deny(q)
  PROVE  RequestInv(q)'
<1>0. RequestTypes /\ RequestInv(q)
  BY DEF BoundaryInv
<1>1. worked[q] = FALSE /\ worked' = worked /\ config' = config /\ kind' = kind
  BY <1>0 DEF RequestInv, HandledOnce, RequestTypes, Receive, Authenticate, RateLimit, Deny,
     Elsewhere
<1>2. CASE Receive(q)
  <2>1. \/ stage'[q] = "identify"
        \/ stage'[q] = "reply" /\ answer'[q] = "body"
    BY <1>0, <1>2 DEF Receive, Move, Answer, RequestTypes
  <2> QED BY <1>1, <2>1 DEF RequestInv, HandledOnce, AuditedBefore
<1>3. CASE Authenticate(q)
  <2>1. \/ stage'[q] = "limit"
        \/ stage'[q] = "handle" /\ config.auth = "disabled"
        \/ stage'[q] = "deny" /\ answer'[q] \in {"unauthenticated", "forbidden"}
    BY <1>0, <1>3 DEF Authenticate, Move, Answer, RequestTypes
  <2> QED BY <1>1, <2>1 DEF RequestInv, HandledOnce, AuditedBefore, Refusals
<1>4. CASE RateLimit(q)
  <2>1. \/ stage'[q] = "handle" /\ kind[q] = "read"
        \/ stage'[q] = "record" /\ kind[q] = "submit"
        \/ stage'[q] = "deny" /\ answer'[q] \in {"limited", "limiter_unavailable"}
    BY <1>0, <1>4 DEF RateLimit, Admitted, Move, Answer, RequestTypes
  <2> QED BY <1>1, <2>1 DEF RequestInv, HandledOnce, AuditedBefore, Refusals
<1>5. CASE Deny(q)
  <2>1. stage'[q] = "reply" /\ answer'[q] = answer[q] /\ answer[q] \in Refusals
    BY <1>0, <1>5 DEF Deny, Move, RequestTypes, RequestInv, HandledOnce
  <2> QED BY <1>1, <2>1 DEF RequestInv, HandledOnce, AuditedBefore, Refusals
<1> QED BY <1>2, <1>3, <1>4, <1>5

\* The audit writes: under fail_closed what goes on has its row.
LEMMA AuditsKeep ==
  ASSUME BoundaryInv, NEW q \in Requests, RecordAllowed(q) \/ RecordRead(q)
  PROVE  RequestInv(q)'
<1>0. RequestTypes /\ RequestInv(q)
  BY DEF BoundaryInv
<1>1. worked[q] = FALSE /\ worked' = worked /\ config' = config /\ kind' = kind
  BY <1>0 DEF RequestInv, HandledOnce, RequestTypes, RecordAllowed, RecordRead, Elsewhere
<1>2. ASSUME NEW row \in {"allowed", "read"}, Write(q, row, TRUE), config.onFailure = "fail_closed"
      PROVE  row \in rows'[q]
  BY <1>0, <1>2 DEF Write, Recorded, RequestTypes
<1>3. CASE RecordAllowed(q)
  <2>1. PICK ok \in BOOLEAN : /\ Write(q, "allowed", ok)
                              /\ IF ok THEN Move(q, "handle") /\ UNCHANGED answer
                                       ELSE Answer(q, "audit_unavailable", "reply")
    BY <1>3 DEF RecordAllowed
  <2>2. kind[q] = "submit"
    BY <1>0, <1>3 DEF RecordAllowed, RequestInv, HandledOnce
  <2>3. CASE ok = TRUE
    <3>1. stage'[q] = "handle"
      BY <1>0, <2>1, <2>3 DEF Move, RequestTypes
    <3>2. config.onFailure = "fail_closed" => "allowed" \in rows'[q]
      BY <1>2, <2>1, <2>3
    <3> QED BY <1>1, <2>2, <3>1, <3>2 DEF RequestInv, HandledOnce, AuditedBefore
  <2>4. CASE ok = FALSE
    <3>1. stage'[q] = "reply" /\ answer'[q] = "audit_unavailable"
      BY <1>0, <2>1, <2>4 DEF Move, Answer, RequestTypes
    <3> QED BY <1>1, <3>1 DEF RequestInv, HandledOnce, AuditedBefore
  <2> QED BY <2>3, <2>4
<1>4. CASE RecordRead(q)
  <2>1. PICK ok \in BOOLEAN :
           /\ Write(q, "read", ok)
           /\ Answer(q, IF ok \/ answer[q] = "error" THEN answer[q] ELSE "audit_unavailable",
                     "reply")
    BY <1>4 DEF RecordRead
  <2>2. kind[q] = "read"
    BY <1>0, <1>4 DEF RecordRead, RequestInv, HandledOnce
  <2>3. /\ stage'[q] = "reply"
        /\ ok = TRUE \/ answer'[q] \in {"error", "audit_unavailable"}
    BY <1>0, <2>1 DEF Move, Answer, RequestTypes
  <2>4. ok = TRUE /\ config.onFailure = "fail_closed" => "read" \in rows'[q]
    BY <1>2, <2>1
  <2> QED BY <1>1, <2>2, <2>3, <2>4 DEF RequestInv, HandledOnce, AuditedBefore
<1> QED BY <1>3, <1>4

\* The handlers, and the reply that frees the request.
LEMMA HandlersKeep ==
  ASSUME BoundaryInv, NEW q \in Requests, HandleSubmit(q) \/ HandleRead(q) \/ Reply(q)
  PROVE  RequestInv(q)'
<1>0. RequestTypes /\ RequestInv(q)
  BY DEF BoundaryInv
<1>1. CASE HandleSubmit(q)
  <2>1. /\ kind[q] = "submit" /\ kind' = kind /\ config' = config /\ rows' = rows
        /\ worked[q] = FALSE /\ stage[q] = "handle"
    BY <1>0, <1>1 DEF HandleSubmit, Elsewhere, RequestInv, HandledOnce, RequestTypes
  <2>2. /\ stage'[q] = "reply"
        /\ answer'[q] \in {"ok", "quota", "error"}
        /\ answer'[q] = "quota" => worked'[q] = FALSE
    BY <1>0, <1>1, <2>1 DEF HandleSubmit, AfterHandler, InsertRun, Move, Answer, RequestTypes
  <2> QED BY <1>0, <2>1, <2>2 DEF RequestInv, HandledOnce, AuditedBefore
<1>2. CASE HandleRead(q)
  <2>1. /\ kind[q] = "read" /\ kind' = kind /\ config' = config
        /\ worked[q] = FALSE /\ worked' = worked
    BY <1>0, <1>2 DEF HandleRead, Elsewhere, RequestInv, HandledOnce, RequestTypes
  <2>2. stage'[q] = "record_read"
    BY <1>0, <1>2, <2>1 DEF HandleRead, AfterHandler, Move, Answer, RequestTypes
  <2> QED BY <2>1, <2>2 DEF RequestInv, HandledOnce, AuditedBefore
<1>3. CASE Reply(q)
  <2>1. stage'[q] = "free" /\ worked'[q] = FALSE
    BY <1>0, <1>3 DEF Reply, Move, Answer, RequestTypes
  <2> QED BY <2>1 DEF RequestInv, HandledOnce, AuditedBefore
<1> QED BY <1>1, <1>2, <1>3

\* A caller sends a request: nothing has been done for it.
LEMMA SendKeeps ==
  ASSUME BoundaryInv, NEW c \in Callers, Call(c) \/ Poll(c)
  PROVE  BoundaryInv'
<1>1. PICK what \in {"submit", "read"}, q \in Requests :
         /\ stage[q] = "free"
         /\ stage' = [stage EXCEPT ![q] = "received"]
         /\ kind' = [kind EXCEPT ![q] = what]
         /\ UNCHANGED <<config, answer, rows, worked>>
  BY DEF Call, Poll, Send
<1>2. RequestTypes /\ \A v \in Requests : RequestInv(v)
  BY DEF BoundaryInv
<1>3. RequestTypes'
  BY <1>1, <1>2 DEF RequestTypes, Stages
<1>4. RequestInv(q)'
  <2>1. worked[q] = FALSE /\ worked'[q] = FALSE /\ stage'[q] = "received"
    BY <1>1, <1>2 DEF RequestTypes, RequestInv, HandledOnce
  <2> QED BY <2>1 DEF RequestInv, HandledOnce, AuditedBefore
<1>5. ASSUME NEW v \in Requests, v # q PROVE RequestInv(v)'
  <2>1. UNCHANGED <<stage[v], kind[v], answer[v], rows[v], worked[v]>>
    BY <1>1, <1>2, <1>5 DEF RequestTypes
  <2> QED BY <1>1, <1>2, <2>1, OtherRequests
<1> QED BY <1>3, <1>4, <1>5 DEF BoundaryInv
-----------------------------------------------------------------------------
LEMMA BoundaryInit == Init => BoundaryInv
<1> SUFFICES ASSUME Init PROVE BoundaryInv
  OBVIOUS
<1>1. RequestTypes
  BY DEF Init, RequestTypes, Stages, Answers
<1>2. \A q \in Requests : RequestInv(q)
  BY DEF Init, RequestInv, HandledOnce, AuditedBefore
<1> QED BY <1>1, <1>2 DEF BoundaryInv

LEMMA BoundaryStep == BoundaryInv /\ [Next]_vars => BoundaryInv'
<1> SUFFICES ASSUME BoundaryInv, [Next]_vars PROVE BoundaryInv'
  OBVIOUS
<1>1. CASE \E c \in Callers : Call(c) \/ Poll(c)
  BY <1>1, SendKeeps
<1>2. CASE \E q \in Requests : Serve(q)
  <2>1. PICK q \in Requests : Serve(q)
    BY <1>2
  <2>2. /\ RequestTypes'
        /\ UNCHANGED config
        /\ \A v \in Requests \ {q} :
              UNCHANGED <<stage[v], kind[v], answer[v], rows[v], worked[v]>>
    BY <2>1, ServeTouchesOne
  <2>3. RequestInv(q)'
    BY <2>1, LayersKeep, AuditsKeep, HandlersKeep DEF Serve
  <2>4. ASSUME NEW v \in Requests, v # q PROVE RequestInv(v)'
    BY <2>2, <2>4, OtherRequests DEF BoundaryInv
  <2> QED BY <2>2, <2>3, <2>4 DEF BoundaryInv
<1>3. CASE \/ UNCHANGED vars
           \/ \E c \in Callers : Disconnect(c) \/ Stop(c)
           \/ WindowEnds
           \/ \E k \in Keys : RunEnds(k)
  <2>1. UNCHANGED <<config, stage, kind, answer, rows, worked>>
    BY <1>3 DEF vars, Disconnect, Stop, WindowEnds, RunEnds, serverVars
  <2>2. ASSUME NEW v \in Requests PROVE RequestInv(v)'
    BY <2>1, OtherRequests DEF BoundaryInv
  <2> QED BY <2>1, <2>2 DEF BoundaryInv, RequestTypes
<1> QED BY <1>1, <1>2, <1>3 DEF Next

\* With a fail-closed audit no run is created and none is shown that the audit
\* does not hold, whatever fails between the statements of the middleware.
THEOREM AuditSafety == Spec => []NothingUnaudited
<1>1. BoundaryInv => NothingUnaudited
  <2> SUFFICES ASSUME BoundaryInv, config.onFailure = "fail_closed", NEW q \in Requests
               PROVE  /\ worked[q] /\ config.auth = "api_key" => "allowed" \in rows[q]
                      /\ stage[q] = "reply" /\ answer[q] \in {"ok", "running"} =>
                            \/ kind[q] = "read" /\ "read" \in rows[q]
                            \/ /\ kind[q] = "submit"
                               /\ config.auth = "api_key" => "allowed" \in rows[q]
    BY DEF NothingUnaudited
  <2>1. RequestInv(q) /\ kind[q] \in {"submit", "read"}
    BY DEF BoundaryInv, RequestTypes
  <2> QED BY <2>1 DEF RequestInv, HandledOnce, AuditedBefore
<1> QED BY <1>1, BoundaryInit, BoundaryStep, PTL DEF Spec

\* A refusal, of any layer, means that no run was created.
THEOREM RefusalSafety == Spec => []RefusedWithoutWork
<1>1. BoundaryInv => RefusedWithoutWork
  BY DEF BoundaryInv, RequestInv, HandledOnce, RefusedWithoutWork, Refusals
<1> QED BY <1>1, BoundaryInit, BoundaryStep, PTL DEF Spec
=============================================================================
