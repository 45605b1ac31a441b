--------------------------- MODULE DataProtection ----------------------------
(***************************************************************************)
(* Tenant keys and the retention of the audit trail that records their     *)
(* erasure, together.                                                      *)
(***************************************************************************)
EXTENDS TenantKeys, AuditRetention

vars == <<trailVars, keyVars, purgeVars>>

Init == TrailInit /\ KeysInit /\ PurgeInit

Next ==
    \/ (Tick \/ Record) /\ UNCHANGED <<keyVars, purgeVars>>
    \/ KeysNext /\ UNCHANGED purgeVars
    \/ PurgeNext /\ UNCHANGED keyVars

Spec == Init /\ [][Next]_vars

TypeOK ==
    /\ TrailTypeOK
    /\ KeysTypeOK
    /\ stage \in [Purges -> {"idle", "count"} \cup Deleting \cup Ended]
    /\ before \in [Purges -> Int]
    /\ left \in [Purges -> Nat]
    /\ deleted \in [Purges -> Nat]
    /\ doomed \in [Purges -> SUBSET (audit \cup purged)]

\* A tenant's key is destroyed exactly when its erasure is on record, once: in
\* the trail, or among the rows that have aged out of it.  (erase_tenant_key
\* writes both in one transaction; the retention job takes rows by age alone.)
ErasuresOnRecord == \A t \in Tenants :
    Cardinality({e \in audit \cup purged : e.subject = t})
        = IF key[t].row = "destroyed" THEN 1 ELSE 0
=============================================================================
