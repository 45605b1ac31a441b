--------------------------- MODULE AuditRetention ----------------------------
(***************************************************************************)
(* The retention job of security/audit_retention.py: a cutoff fixed once,  *)
(* a count, then batches, one transaction each.  Nothing keeps two jobs    *)
(* from running at once.  A DELETE takes its rows from the snapshot of the *)
(* statement and waits for a row another transaction is deleting; when     *)
(* that one commits, the row is skipped.                                   *)
(***************************************************************************)
EXTENDS AuditTrail, FiniteSetsExt

CONSTANTS
    Purges,          \* runs of the job
    AuditHorizon,    \* audit_retention_days
    BatchSize,       \* audit_purge_batch_size
    BatchLimits,     \* values of --max-batches
    NoLimit          \* a number of batches no job reaches: --max-batches not given

ASSUME RetentionAssumption ==
    /\ AuditHorizon \in Nat
    /\ BatchSize \in Nat \ {0}
    /\ BatchLimits \subseteq Nat

VARIABLES
    stage,     \* what a job does next, or how it ended
    before,    \* its cutoff
    left,      \* batches it may still commit
    deleted,   \* rows it reports as deleted
    doomed,    \* rows the running batch selected
    owed,      \* ghost: rows it is to delete, as it counted them
    alone,     \* ghost: no other job was deleting while it was
    taken      \* ghost: rows it deleted

purgeVars == <<stage, before, left, deleted, doomed, owed, alone, taken>>

purged == UNION {taken[p] : p \in Purges}

Deleting == {"batch", "deleting"}
Ended == {"done", "stopped_early", "failed"}
-----------------------------------------------------------------------------
Expired(rows, cut) == {e \in rows : e.at < cut}

\* resolve_cutoff, for an operator who has set a horizon and, to apply it, has
\* restated it.
StartPurge(p) ==
    /\ stage[p] = "idle"
    /\ stage' = [stage EXCEPT ![p] = "count"]
    /\ before' = [before EXCEPT ![p] = clock - AuditHorizon]
    /\ UNCHANGED <<left, deleted, doomed, owed, alone, taken, trailVars>>

\* The job ends; what it kept for its batches ends with it.
EndPurge(p, how) ==
    /\ stage' = [stage EXCEPT ![p] = how]
    /\ before' = [before EXCEPT ![p] = 0]
    /\ left' = [left EXCEPT ![p] = 0]

NextBatch(p, more) ==
    /\ stage' = [stage EXCEPT ![p] = "batch"]
    /\ left' = [left EXCEPT ![p] = more]
    /\ UNCHANGED before

ContinueUnmarked(p, more) == IF more > 0 THEN NextBatch(p, more) ELSE EndPurge(p, "done")

\* while max_batches is None or batches < max_batches, and its else.
Continue(p, more) == IF more > 0 THEN NextBatch(p, more) ELSE EndPurge(p, "stopped_early")

\* count_expired, and the loop unless this is a dry run or nothing is expired.
\* This is where the options of the command, --apply and --max-batches, come in.
Count(p, dry, most) == LET found == Expired(audit, before[p]) IN
    /\ stage[p] = "count"
    /\ IF dry \/ found = {} THEN EndPurge(p, "done") /\ UNCHANGED owed
       ELSE Continue(p, most) /\ owed' = [owed EXCEPT ![p] = found]
    /\ alone' = [q \in Purges |->
          IF q = p THEN \A o \in Purges \ {p} : stage[o] \notin Deleting
          ELSE alone[q] /\ stage'[p] # "batch"]
    /\ UNCHANGED <<deleted, doomed, taken, trailVars>>

\* The rows of a batch: the oldest that are expired, as many as it may take.
IsBatch(d, found) ==
    /\ d \subseteq found
    /\ \A e \in d, f \in found \ d : e.at <= f.at
    /\ Cardinality(d) = Min({BatchSize, Cardinality(found)})

SelectBatch(p) ==
    /\ stage[p] = "batch"
    /\ \E d \in SUBSET audit :
          /\ IsBatch(d, Expired(audit, before[p]))
          /\ doomed' = [doomed EXCEPT ![p] = d]
    /\ stage' = [stage EXCEPT ![p] = "deleting"]
    /\ UNCHANGED <<before, left, deleted, owed, alone, taken, trailVars>>

\* The DELETE takes effect: the selected rows that are still there go.
Remove(p, rows) ==
    /\ audit' = audit \ rows
    /\ taken' = [taken EXCEPT ![p] = @ \cup rows]
    /\ doomed' = [doomed EXCEPT ![p] = {}]
    /\ UNCHANGED <<clock, serial, owed, alone>>

SelectedCount(rows) == Cardinality(rows)

RowCount(rows) == Cardinality(rows \cap audit)

CommitBatch(p) == LET removed == RowCount(doomed[p]) IN
    /\ stage[p] = "deleting"
    /\ Remove(p, doomed[p] \cap audit)
    /\ deleted' = [deleted EXCEPT ![p] = @ + removed]
    /\ IF removed = 0 THEN EndPurge(p, "done") ELSE Continue(p, left[p] - 1)

\* The connection is lost in a batch, before its commit or after it.
FailBatch(p) ==
    /\ stage[p] = "deleting"
    /\ EndPurge(p, "failed")
    /\ Remove(p, {}) \/ Remove(p, doomed[p] \cap audit)
    /\ UNCHANGED deleted
-----------------------------------------------------------------------------
PurgeInit ==
    /\ stage = [p \in Purges |-> "idle"]
    /\ before = [p \in Purges |-> 0]
    /\ left = [p \in Purges |-> 0]
    /\ deleted = [p \in Purges |-> 0]
    /\ doomed = [p \in Purges |-> {}]
    /\ owed = [p \in Purges |-> {}]
    /\ alone = [p \in Purges |-> FALSE]
    /\ taken = [p \in Purges |-> {}]

PurgeNext == \E p \in Purges :
    \/ StartPurge(p)
    \/ \E dry \in BOOLEAN, most \in BatchLimits \cup {NoLimit} : Count(p, dry, most)
    \/ SelectBatch(p) \/ CommitBatch(p) \/ FailBatch(p)
-----------------------------------------------------------------------------
\* Only rows older than the horizon have ever been deleted, each by one job, and
\* a job reports exactly the rows that it deleted, or fewer if it lost its
\* connection: a row two jobs selected is counted by one of them, so that the
\* reports add up.  (purge_batch and purge_expired_audit_events,
\* audit_retention.py.)
PurgeAccounts ==
    /\ \A e \in purged : e.at < clock - AuditHorizon
    /\ \A p, q \in Purges : p # q => taken[p] \cap taken[q] = {}
    /\ \A p \in Purges :
          /\ deleted[p] <= Cardinality(taken[p])
          /\ stage[p] # "failed" => deleted[p] = Cardinality(taken[p])

\* A job that ends because a batch was empty leaves nothing of what was expired
\* when it counted, unless another job was deleting at the same time: then an
\* empty batch does not mean that nothing is left.
PurgeDrains == [][\A p \in Purges :
    stage[p] = "deleting" /\ stage'[p] = "done" /\ alone[p] =>
        owed[p] \cap audit' = {}]_<<trailVars, purgeVars>>
=============================================================================
