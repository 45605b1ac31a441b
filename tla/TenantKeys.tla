----------------------------- MODULE TenantKeys ------------------------------
(***************************************************************************)
(* The tenant keys of security/envelope.py and their erasure by            *)
(* security/retention_cli.py, transaction by transaction.  Every method    *)
(* runs in a transaction of its caller, which commits or rolls back, and   *)
(* first takes the tenant's advisory lock, the one that admission takes    *)
(* (quotas.lock_identity); a run completes without it.                     *)
(***************************************************************************)
EXTENDS AuditTrail, FiniteSetsExt

CONSTANTS
    Callers,      \* sessions of services and operators
    NoCaller,
    Runs,
    TenantOf,
    Horizon,      \* payload_retention_days
    Never         \* completed_at IS NULL

ASSUME KeysAssumption ==
    /\ NoCaller \notin Callers
    /\ TenantOf \in [Runs -> Tenants]
    /\ Horizon \in Nat
    /\ Never \notin Int

VARIABLES
    pc,          \* what the session of a caller does next
    job,         \* the operation of its transaction
    tenant,      \* the tenant it is for
    began,       \* when an erasure's transaction began: now() of its audit row
    cutoff,      \* an erasure's cutoff
    draft,       \* key row as the transaction leaves it
    holder,      \* who holds an advisory lock
    key,         \* the committed key row of a tenant
    envelopes,   \* committed ciphertexts: tenant and data key
    completed    \* completed_at of the runs that exist

sessionVars == <<pc, job, tenant, began, cutoff, draft>>
keyVars == <<sessionVars, holder, key, envelopes, completed>>

Absent == [row |-> "absent", dek |-> 0, used |-> 0]
Jobs == {"encrypt", "erase", "submit"}

\* The scope of pg_advisory_xact_lock: "t:" and the tenant, here and in quotas.
ScopeByPurpose(x, t) == <<IF x = "submit" THEN "quota" ELSE "key", t>>

Scope(x, t) == <<"t", t>>

Locks == {Scope(x, t) : x \in Jobs, t \in Tenants}
-----------------------------------------------------------------------------
\* A caller opens a transaction for an operation on a tenant.  An operator may
\* name any tenant to erase, whatever the preview (retention_candidates, which
\* only reads) has shown; the cutoff is taken before the transaction.  Bound:
\* one submits only while there is a run to come.
Open(c, x, t) ==
    /\ pc[c] = "idle"
    /\ x = "submit" => \E r \in Runs \ DOMAIN completed : TenantOf[r] = t
    /\ pc' = [pc EXCEPT ![c] = "open"]
    /\ job' = [job EXCEPT ![c] = x]
    /\ tenant' = [tenant EXCEPT ![c] = t]
    /\ IF x = "erase" THEN /\ cutoff' = [cutoff EXCEPT ![c] = clock - Horizon]
                           /\ began' = [began EXCEPT ![c] = clock]
       ELSE UNCHANGED <<cutoff, began>>
    /\ UNCHANGED <<draft, holder, key, envelopes, completed, trailVars>>

RunsOf(t) == {r \in DOMAIN completed : TenantOf[r] = t}
Unsafe(t, cut) == \E r \in RunsOf(t) : completed[r] = Never \/ completed[r] > cut

LockTenant(c) ==
    LET s == Scope(job[c], tenant[c]) IN
    /\ pc[c] = "open"
    /\ holder[s] = NoCaller
    /\ holder' = [holder EXCEPT ![s] = c]
    /\ pc' = [pc EXCEPT ![c] = "locked"]
    /\ UNCHANGED <<job, tenant, began, cutoff, draft, key, envelopes,
                   completed, trailVars>>

Stage(c, row) ==
    /\ draft' = [draft EXCEPT ![c] = row]
    /\ pc' = [pc EXCEPT ![c] = "written"]
    /\ UNCHANGED <<job, tenant, began, cutoff, holder, key, envelopes,
                   completed, trailVars>>

\* The method raises or returns without a write; the caller's transaction ends.
Refuse(c) ==
    /\ pc' = [pc EXCEPT ![c] = "refused"]
    /\ UNCHANGED <<job, tenant, began, cutoff, draft, holder, key,
                   envelopes, completed, trailVars>>

\* os.urandom(32): a data key no row and no ciphertext has.
NewKey == [row |-> "live", used |-> clock,
           dek |-> 1 + Max({key[t].dek : t \in Tenants} \cup {draft[c].dek : c \in Callers}
                           \cup {e.dek : e \in envelopes} \cup {0})]

NeedsKeyReplacing(k) == k.row # "live"

\* _key(create=True): a missing row is created, a tombstone never.
NeedsKey(k) == k.row = "absent"

\* encrypt, or protect_policy of a policy with instructions.
Encrypt(c) == LET k == key[tenant[c]] IN
    /\ pc[c] = "locked" /\ job[c] = "encrypt"
    /\ \/ NeedsKey(k) /\ Stage(c, NewKey)
       \/ k.row = "live" /\ Stage(c, [k EXCEPT !.used = clock])
       \/ ~NeedsKey(k) /\ k.row # "live" /\ Refuse(c)

\* erase_tenant_key: the checks, under the lock.
MayErase(t, cut) ==
    /\ key[t].row = "live"
    /\ key[t].used <= cut
    /\ ~Unsafe(t, cut)

Erase(c) ==
    /\ pc[c] = "locked" /\ job[c] = "erase"
    /\ IF MayErase(tenant[c], cutoff[c])
       THEN Stage(c, [row |-> "destroyed", dek |-> 0, used |-> key[tenant[c]].used])
       ELSE Refuse(c)

\* submit or replay of a run, which encrypts nothing here.
Submit(c) ==
    /\ pc[c] = "locked" /\ job[c] = "submit"
    /\ Stage(c, Absent)

\* The transaction ends and its locks are released.
End(c) ==
    /\ holder' = [s \in Locks |-> IF holder[s] = c THEN NoCaller ELSE holder[s]]
    /\ pc' = [pc EXCEPT ![c] = "idle"]
    /\ job' = [job EXCEPT ![c] = "encrypt"]
    /\ tenant' = [tenant EXCEPT ![c] = NoTenant]
    /\ began' = [began EXCEPT ![c] = 0]
    /\ cutoff' = [cutoff EXCEPT ![c] = 0]
    /\ draft' = [draft EXCEPT ![c] = Absent]

EraseUnrecorded(c) == UNCHANGED <<audit, serial>>

\* The audit row of an erasure, in the transaction that destroys the key.
EraseRecorded(c) == Insert(began[c], tenant[c])

\* The caller commits.
Commit(c) == LET t == tenant[c] IN
    /\ pc[c] = "written"
    /\ IF job[c] \in {"encrypt", "erase"}
       THEN key' = [key EXCEPT ![t] = draft[c]] ELSE UNCHANGED key
    /\ envelopes' = envelopes \cup
          {[tenant |-> t, dek |-> draft[c].dek] : x \in {job[c]} \cap {"encrypt"}}
    /\ IF job[c] = "erase" THEN EraseRecorded(c) ELSE UNCHANGED <<audit, serial>>
    /\ \/ /\ job[c] = "submit"
          /\ \E r \in Runs \ DOMAIN completed :
                /\ TenantOf[r] = t
                /\ completed' = [q \in DOMAIN completed \cup {r} |->
                                    IF q = r THEN Never ELSE completed[q]]
       \/ job[c] # "submit" /\ UNCHANGED completed
    /\ End(c)
    /\ UNCHANGED clock

\* The caller rolls back, or its connection is lost.
Rollback(c) ==
    /\ pc[c] # "idle"
    /\ End(c)
    /\ UNCHANGED <<key, envelopes, completed, trailVars>>

\* A run ends, by a worker or the scheduler, which take no tenant lock.
CompleteRun(r) ==
    /\ r \in DOMAIN completed /\ completed[r] = Never
    /\ completed' = [completed EXCEPT ![r] = clock]
    /\ UNCHANGED <<sessionVars, holder, key, envelopes, trailVars>>
-----------------------------------------------------------------------------
KeysInit ==
    /\ pc = [c \in Callers |-> "idle"]
    /\ job = [c \in Callers |-> "encrypt"]
    /\ tenant = [c \in Callers |-> NoTenant]
    /\ began = [c \in Callers |-> 0]
    /\ cutoff = [c \in Callers |-> 0]
    /\ draft = [c \in Callers |-> Absent]
    /\ holder = [s \in Locks |-> NoCaller]
    /\ key = [t \in Tenants |-> Absent]
    /\ envelopes = {}
    /\ completed = [r \in {} |-> Never]

KeysNext ==
    \/ \E c \in Callers : \/ \E x \in Jobs, t \in Tenants : Open(c, x, t)
                          \/ LockTenant(c)
                          \/ Encrypt(c) \/ Erase(c) \/ Submit(c)
                          \/ Commit(c) \/ Rollback(c)
    \/ \E r \in Runs : CompleteRun(r)

KeyRows == [row : {"absent", "live", "destroyed"}, dek : Nat, used : Nat]

KeysTypeOK ==
    /\ pc \in [Callers -> {"idle", "open", "locked", "written", "refused"}]
    /\ job \in [Callers -> Jobs]
    /\ tenant \in [Callers -> Tenants \cup {NoTenant}]
    /\ began \in [Callers -> Nat]
    /\ cutoff \in [Callers -> Int]
    /\ draft \in [Callers -> KeyRows]
    /\ holder \in [Locks -> Callers \cup {NoCaller}]
    /\ key \in [Tenants -> KeyRows]
    /\ envelopes \subseteq [tenant : Tenants, dek : Nat]
    /\ DOMAIN completed \subseteq Runs
    /\ completed \in [DOMAIN completed -> Nat \cup {Never}]
-----------------------------------------------------------------------------
\* decrypt, which changes nothing: _key(create=False), and the ciphertext's tag.
Readable(e) == key[e.tenant].row = "live" /\ key[e.tenant].dek = e.dek

\* Every committed envelope can be read with the one data key its tenant ever
\* had, or that key is destroyed: no second key is generated beside it, by two
\* callers that both find none or in the place of a tombstone.  (_key,
\* envelope.py; "tombstones must never be recreated automatically", models.py.)
OneKeyForever == \A e \in envelopes :
    \/ key[e.tenant].row = "destroyed"
    \/ Readable(e)

\* A key is destroyed only while no run of its tenant is unfinished or ended
\* within the horizon and nothing was encrypted within it, as of the commit of
\* the erasure, whoever submits or encrypts between its checks and its commit.
\* (erase_tenant_key; "rechecks eligibility under the tenant lock",
\* docs/security/audit-telemetry-data.md.)
ErasureSparesLiveWork == [][\A t \in Tenants :
    key[t].row = "live" /\ key'[t].row = "destroyed" =>
        /\ ~Unsafe(t, clock - Horizon)
        /\ key[t].used <= clock - Horizon]_<<keyVars, trailVars>>
=============================================================================
