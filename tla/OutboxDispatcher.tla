-------------------------- MODULE OutboxDispatcher --------------------------
(***************************************************************************)
(* infrastructure/messaging/dispatcher.py and publisher.py.  One database  *)
(* transaction locks an unpublished row (FOR UPDATE SKIP LOCKED), publishes *)
(* it with a broker confirmation, and only then marks it; the message is   *)
(* visible to workers before the transaction commits.  Rows are taken in   *)
(* any order, which covers the code's oldest-first.                        *)
(***************************************************************************)
EXTENDS RuntimeState

LockEvent(d, r, type) ==
    /\ dpc[d] = "idle"
    /\ outbox[r][type] > 0
    /\ outbox' = [outbox EXCEPT ![r][type] = @ - 1]
    /\ dpc' = [dpc EXCEPT ![d] = "locked"]
    /\ devent' = [devent EXCEPT ![d] = <<r, type>>]
    /\ UNCHANGED <<status, leaseVars, retryAt, error, result, attempts,
                   evalVars, events, brokerVars, handlerVars>>

\* publisher._destination_for: the exchange of each event type.
Route(r, type) ==
    \/ /\ type = "RUN_QUEUED"
       /\ queue' = [queue EXCEPT ![r] = @ + 1]
       /\ UNCHANGED deadLetters
    \/ /\ type = "RUN_DEAD_LETTERED"
       /\ deadLetters' = deadLetters \cup {r}
       /\ UNCHANGED queue

Publish(d) ==
    /\ dpc[d] = "locked"
    /\ Route(devent[d][1], devent[d][2])
    /\ dpc' = [dpc EXCEPT ![d] = "confirmed"]
    /\ UNCHANGED <<dbVars, devent, handlerVars>>

\* Mutant: published_at is written although publish raised.
UnlockAsPublished(d) ==
    /\ dpc' = [dpc EXCEPT ![d] = "idle"]
    /\ devent' = [devent EXCEPT ![d] = <<>>]
    /\ UNCHANGED outbox

\* The row d has locked becomes visible again as unpublished.
Unlock(d) ==
    /\ outbox' = [outbox EXCEPT ![devent[d][1]][devent[d][2]] = @ + 1]
    /\ dpc' = [dpc EXCEPT ![d] = "idle"]
    /\ devent' = [devent EXCEPT ![d] = <<>>]

\* Bound: a failure duplicates a message only below MaxCopies ready copies.
MayDuplicate(d) == queue[devent[d][1]] < MaxCopies

\* publish raised.  The broker may have taken the message all the same: the
\* confirmation can time out after the message was enqueued.
PublishFails(d) ==
    /\ "publish" \in Faults
    /\ dpc[d] = "locked"
    /\ \/ UNCHANGED brokerVars
       \/ MayDuplicate(d) /\ Route(devent[d][1], devent[d][2])
    /\ Unlock(d)
    /\ UNCHANGED <<status, leaseVars, retryAt, error, result, attempts,
                   evalVars, events, handlerVars>>

MarkPublished(d) ==
    /\ dpc[d] = "confirmed"
    /\ dpc' = [dpc EXCEPT ![d] = "idle"]
    /\ devent' = [devent EXCEPT ![d] = <<>>]
    /\ UNCHANGED <<dbVars, brokerVars, handlerVars>>

\* The process dies, or its commit fails: the transaction rolls back.
DispatcherCrash(d) ==
    /\ "dispatcher" \in Faults
    /\ dpc[d] = "locked" \/ (dpc[d] = "confirmed" /\ MayDuplicate(d))
    /\ Unlock(d)
    /\ UNCHANGED <<status, leaseVars, retryAt, error, result, attempts,
                   evalVars, events, brokerVars, handlerVars>>
=============================================================================
