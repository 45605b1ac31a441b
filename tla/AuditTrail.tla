----------------------------- MODULE AuditTrail ------------------------------
(***************************************************************************)
(* security_audit_events and the time its rows carry.  Rows are inserted   *)
(* by the API's sink (security/audit.py) and with the erasure of a tenant  *)
(* key (security/envelope.py); the retention job (security/                *)
(* audit_retention.py) alone deletes.  Time is counted in units of which a *)
(* retention horizon has a few.                                            *)
(***************************************************************************)
EXTENDS Integers, FiniteSets

CONSTANTS
    Tenants,
    NoTenant,   \* subject of a row that is about no tenant key
    MaxClock,   \* bound: time that passes
    MaxRows     \* bound: rows the API records

ASSUME TrailAssumption ==
    /\ NoTenant \notin Tenants
    /\ MaxClock \in Nat /\ MaxRows \in Nat

VARIABLES
    clock,
    audit,      \* rows: serial number, created_at, tenant whose key was erased
    serial      \* the next serial number

trailVars == <<clock, audit, serial>>

Row(at, subject) == [n |-> serial, at |-> at, subject |-> subject]

Insert(at, subject) ==
    /\ audit' = audit \cup {Row(at, subject)}
    /\ serial' = serial + 1

TrailInit == clock = 0 /\ audit = {} /\ serial = 0

Tick ==
    /\ clock < MaxClock
    /\ clock' = clock + 1
    /\ UNCHANGED <<audit, serial>>

\* SqlAlchemySecurityAuditSink.record, for any event of the API.
Record ==
    /\ serial < MaxRows
    /\ Insert(clock, NoTenant)
    /\ UNCHANGED clock

TrailTypeOK ==
    /\ clock \in Nat
    /\ serial \in Nat
    /\ audit \subseteq [n : Nat, at : Nat, subject : Tenants \cup {NoTenant}]
=============================================================================
