------------------------------ MODULE KeyProofs ------------------------------
(***************************************************************************)
(* Proofs about DataProtection, for any tenants, callers, runs, horizons   *)
(* and retention jobs.                                                     *)
(*                                                                         *)
(* A transaction decides under its tenant's lock and takes effect at its   *)
(* commit.  KeyInv says what keeps the decision true in between: the lock  *)
(* has one holder (LockHeld) and the row that was looked at is still there *)
(* (DraftFits); and that every erasure is one row of the trail (OnRecord). *)
(* PurgeInv does the same for the retention job: rows are numbered as they *)
(* come, so that none comes back (TrailInv), and a job that deletes alone  *)
(* still finds the rows it selected (JobInv).                              *)
(***************************************************************************)
EXTENDS DataProtection, FiniteSetTheorems, TLAPS

States == {"idle", "open", "locked", "written", "refused"}

\* A key row, whatever its data key is.
IsKeyRow(k) ==
    /\ k = [row |-> k.row, dek |-> k.dek, used |-> k.used]
    /\ k.row \in {"absent", "live", "destroyed"}
    /\ k.used \in Nat

KeyTypes ==
    /\ clock \in Nat
    /\ pc \in [Callers -> States]
    /\ job \in [Callers -> Jobs]
    /\ tenant \in [Callers -> Tenants \cup {NoTenant}]
    /\ began \in [Callers -> Nat]
    /\ cutoff \in [Callers -> Int]
    /\ draft = [c \in Callers |-> draft[c]] /\ \A c \in Callers : IsKeyRow(draft[c])
    /\ holder \in [Locks -> Callers \cup {NoCaller}]
    /\ key = [t \in Tenants |-> key[t]] /\ \A t \in Tenants : IsKeyRow(key[t])
    /\ \A e \in envelopes : e.tenant \in Tenants
    /\ completed = [r \in DOMAIN completed |-> completed[r]]
    /\ DOMAIN completed \subseteq Runs
    /\ \A r \in DOMAIN completed : completed[r] \in Nat \cup {Never}

Holding(c) == pc[c] \in {"locked", "written", "refused"}

LockHeld(c) ==
    /\ pc[c] # "idle" => tenant[c] \in Tenants
    /\ Holding(c) => holder[<<"t", tenant[c]>>] = c
    /\ pc[c] # "idle" /\ job[c] = "erase" => cutoff[c] <= clock - Horizon

\* What was decided still fits the committed rows.
DraftFits(c) == pc[c] = "written" =>
    LET k == key[tenant[c]] IN
    /\ job[c] = "encrypt" =>
          /\ draft[c].row = "live"
          /\ k.row = "absent" \/ (k.row = "live" /\ k.dek = draft[c].dek)
    /\ job[c] = "erase" =>
          /\ draft[c].row = "destroyed"
          /\ k.row = "live" /\ k.used <= cutoff[c]
          /\ ~Unsafe(tenant[c], cutoff[c])

Erasures(t) == {e \in audit \cup purged : e.subject = t}

OnRecord(t) ==
    /\ key[t].row # "destroyed" => Erasures(t) = {}
    /\ key[t].row = "destroyed" => \E e : Erasures(t) = {e}

KeyInv ==
    /\ KeyTypes
    /\ \A c \in Callers : LockHeld(c) /\ DraftFits(c)
    /\ OneKeyForever
    /\ \A t \in Tenants : OnRecord(t)
-----------------------------------------------------------------------------
\* What is at most the cutoff of an erasure is at most the horizon, if the
\* cutoff is.
LEMMA CutoffBounds ==
  \A time, cut, now, horizon \in Int :
      time <= cut /\ cut <= now - horizon => time <= now - horizon /\ ~(time > now - horizon)
BY SMTT(10), SMTT(20)

LEMMA NotAbove == \A time \in Nat, cut \in Int : ~(time > cut) => time \in Int /\ time <= cut
BY SMTT(10), SMTT(20)

LEMMA LocksAre == Locks = {<<"t", t>> : t \in Tenants}
  BY SMTT(10), SMTT(20) DEF Locks, Scope, Jobs

\* Two sessions do not hold one tenant's lock.
LEMMA LockExclusive ==
  ASSUME NEW c \in Callers, NEW d \in Callers, LockHeld(c), LockHeld(d),
         Holding(c), Holding(d), tenant[c] = tenant[d]
  PROVE  c = d
  BY DEF LockHeld

\* A caller's session that a step does not touch keeps its part.
LEMMA OtherSessions ==
  ASSUME NEW d \in Callers, LockHeld(d), DraftFits(d), KeyTypes,
         UNCHANGED <<pc[d], job[d], tenant[d], cutoff[d], draft[d]>>,
         clock' \in Nat, clock' >= clock,
         Holding(d) => UNCHANGED <<holder[<<"t", tenant[d]>>], key[tenant[d]]>>,
         pc[d] = "written" /\ job[d] = "erase" /\ ~Unsafe(tenant[d], cutoff[d])
             => ~Unsafe(tenant[d], cutoff[d])'
  PROVE  LockHeld(d)' /\ DraftFits(d)'
<1>1. LockHeld(d)'
  BY SMTT(10), SMTT(20), KeysAssumption DEF LockHeld, Holding, KeyTypes
<1>2. DraftFits(d)'
  <2>1. CASE pc[d] # "written"
    BY <2>1 DEF DraftFits
  <2>2. CASE pc[d] = "written"
    <3>1. key[tenant[d]]' = key[tenant[d]]
      BY <2>2 DEF Holding
    <3> QED BY <2>2, <3>1 DEF DraftFits
  <2> QED BY <2>1, <2>2
<1> QED BY <1>1, <1>2

\* A step within one transaction, or its rollback: no committed row changes.
LEMMA QuietStep ==
  ASSUME KeyInv, NEW c \in Callers, KeyTypes', LockHeld(c)', DraftFits(c)',
         UNCHANGED <<key, envelopes, completed, clock, audit, purged>>,
         \A d \in Callers \ {c} :
            /\ UNCHANGED <<pc[d], job[d], tenant[d], cutoff[d], draft[d]>>
            /\ Holding(d) => UNCHANGED holder[<<"t", tenant[d]>>]
  PROVE  KeyInv'
<1>1. ASSUME NEW d \in Callers, d # c PROVE LockHeld(d)' /\ DraftFits(d)'
  <2>1. LockHeld(d) /\ DraftFits(d) /\ KeyTypes
    BY DEF KeyInv
  <2>2. Unsafe(tenant[d], cutoff[d])' = Unsafe(tenant[d], cutoff[d])
    BY ZenonT(30), <1>1 DEF Unsafe, RunsOf
  <2>3. Holding(d) => UNCHANGED <<holder[<<"t", tenant[d]>>], key[tenant[d]]>>
    BY <1>1
  <2>4. clock' \in Nat /\ clock' >= clock
    BY SMTT(10), SMTT(20), <2>1 DEF KeyTypes
  <2> QED BY <1>1, <2>1, <2>2, <2>3, <2>4, OtherSessions
<1>2. OneKeyForever'
  BY DEF KeyInv, OneKeyForever, Readable
<1>3. \A t \in Tenants : OnRecord(t)'
  BY ZenonT(30) DEF KeyInv, OnRecord, Erasures
<1> QED BY <1>1, <1>2, <1>3 DEF KeyInv

\* The variables outside the transaction of c, and the sessions of the others.
LEMMA OpenKeeps ==
  ASSUME KeyInv, NEW c \in Callers, NEW x \in Jobs, NEW t \in Tenants, Open(c, x, t),
         UNCHANGED purgeVars
  PROVE  KeyInv'
<1>1. KeyTypes /\ LockHeld(c)
  BY DEF KeyInv
<1>2. UNCHANGED <<draft, holder, key, envelopes, completed, clock, audit, purged>>
  BY DEF Open, trailVars, purgeVars, purged
<1>3. /\ pc' = [pc EXCEPT ![c] = "open"] /\ job' = [job EXCEPT ![c] = x]
      /\ tenant' = [tenant EXCEPT ![c] = t]
  BY DEF Open
<1>4. /\ cutoff' = IF x = "erase" THEN [cutoff EXCEPT ![c] = clock - Horizon] ELSE cutoff
      /\ began' = IF x = "erase" THEN [began EXCEPT ![c] = clock] ELSE began
  BY DEF Open
<1>5. cutoff' \in [Callers -> Int] /\ began' \in [Callers -> Nat]
  BY SMTT(10), SMTT(20), <1>1, <1>4, KeysAssumption DEF KeyTypes
<1>6. KeyTypes'
  BY ZenonT(30), <1>1, <1>2, <1>3, <1>5 DEF KeyTypes, States
<1>7. LockHeld(c)'
  <2>1. pc'[c] = "open" /\ tenant'[c] = t /\ job'[c] = x
    BY <1>1, <1>3 DEF KeyTypes
  <2>2. x = "erase" => cutoff'[c] = clock - Horizon
    BY <1>1, <1>4 DEF KeyTypes
  <2>3. clock' = clock /\ clock - Horizon \in Int
    BY SMTT(10), SMTT(20), <1>1, <1>2, KeysAssumption DEF KeyTypes
  <2> QED BY SMTT(10), SMTT(20), <2>1, <2>2, <2>3 DEF LockHeld, Holding
<1>8. DraftFits(c)'
  BY <1>1, <1>3 DEF DraftFits, KeyTypes
<1>9. \A d \in Callers \ {c} :
         /\ UNCHANGED <<pc[d], job[d], tenant[d], cutoff[d], draft[d]>>
         /\ UNCHANGED holder[<<"t", tenant[d]>>]
  BY <1>1, <1>2, <1>3, <1>4 DEF KeyTypes
<1> QED BY <1>2, <1>6, <1>7, <1>8, <1>9, QuietStep

LEMMA LockKeeps ==
  ASSUME KeyInv, NEW c \in Callers, LockTenant(c), UNCHANGED purgeVars
  PROVE  KeyInv'
<1>1. KeyTypes /\ \A d \in Callers : LockHeld(d)
  BY DEF KeyInv
<1>2. UNCHANGED <<job, tenant, began, cutoff, draft, key, envelopes, completed, clock, audit,
                  purged>>
  BY DEF LockTenant, trailVars, purgeVars, purged
<1>3. /\ pc[c] = "open" /\ pc' = [pc EXCEPT ![c] = "locked"]
      /\ holder[<<"t", tenant[c]>>] = NoCaller
      /\ holder' = [holder EXCEPT ![<<"t", tenant[c]>>] = c]
  BY DEF LockTenant, Scope
<1>4. tenant[c] \in Tenants /\ <<"t", tenant[c]>> \in Locks
  BY <1>1, <1>3, LocksAre DEF LockHeld
<1>5. KeyTypes'
  BY <1>1, <1>2, <1>3, <1>4 DEF KeyTypes, States
<1>6. LockHeld(c)'
  BY <1>1, <1>2, <1>3, <1>4 DEF LockHeld, Holding, KeyTypes
<1>7. DraftFits(c)'
  BY <1>1, <1>3 DEF DraftFits, KeyTypes
<1>8. ASSUME NEW d \in Callers \ {c}
      PROVE  /\ UNCHANGED <<pc[d], job[d], tenant[d], cutoff[d], draft[d]>>
             /\ Holding(d) => UNCHANGED holder[<<"t", tenant[d]>>]
  <2>1. UNCHANGED <<pc[d], job[d], tenant[d], cutoff[d], draft[d]>>
    BY <1>1, <1>2, <1>3 DEF KeyTypes
  <2>2. ASSUME Holding(d) PROVE UNCHANGED holder[<<"t", tenant[d]>>]
    <3>1. holder[<<"t", tenant[d]>>] = d /\ d # NoCaller
      BY <1>1, <2>2, KeysAssumption DEF LockHeld
    <3>2. tenant[d] \in Tenants /\ <<"t", tenant[d]>> \in Locks
      BY ZenonT(30), <1>1, <2>2, LocksAre DEF LockHeld, Holding
    <3>3. <<"t", tenant[d]>> # <<"t", tenant[c]>>
      BY <1>3, <3>1
    <3>4. tenant' = tenant
      BY <1>2
    <3> QED BY <1>1, <1>3, <3>2, <3>3, <3>4 DEF KeyTypes
  <2> QED BY <2>1, <2>2
<1> QED BY <1>2, <1>5, <1>6, <1>7, <1>8, QuietStep

\* What a method finds under the lock is what DraftFits remembers.
LEMMA DecideKeeps ==
  ASSUME KeyInv, NEW c \in Callers, Encrypt(c) \/ Erase(c) \/ Submit(c), UNCHANGED purgeVars
  PROVE  KeyInv'
<1>1. KeyTypes /\ LockHeld(c) /\ pc[c] = "locked"
  BY DEF KeyInv, Encrypt, Erase, Submit
<1>2. UNCHANGED <<job, tenant, began, cutoff, holder, key, envelopes, completed, clock, audit,
                  purged>>
  BY DEF Encrypt, Erase, Submit, Stage, Refuse, trailVars, purgeVars, purged
<1>3. tenant[c] \in Tenants /\ IsKeyRow(key[tenant[c]]) /\ clock \in Nat
  BY <1>1 DEF LockHeld, KeyTypes
<1>4. PICK row, next :
         /\ next \in {"written", "refused"}
         /\ pc' = [pc EXCEPT ![c] = next]
         /\ draft' = [draft EXCEPT ![c] = row]
         /\ IsKeyRow(row)
         /\ next = "written" /\ job[c] = "encrypt" =>
               /\ row.row = "live"
               /\ \/ key[tenant[c]].row = "absent"
                  \/ key[tenant[c]].row = "live" /\ key[tenant[c]].dek = row.dek
         /\ next = "written" /\ job[c] = "erase" =>
               /\ row.row = "destroyed"
               /\ MayErase(tenant[c], cutoff[c])
  <2> DEFINE Ok(row, next) ==
         /\ next \in {"written", "refused"}
         /\ pc' = [pc EXCEPT ![c] = next]
         /\ draft' = [draft EXCEPT ![c] = row]
         /\ IsKeyRow(row)
         /\ next = "written" /\ job[c] = "encrypt" =>
               /\ row.row = "live"
               /\ \/ key[tenant[c]].row = "absent"
                  \/ key[tenant[c]].row = "live" /\ key[tenant[c]].dek = row.dek
         /\ next = "written" /\ job[c] = "erase" =>
               /\ row.row = "destroyed"
               /\ MayErase(tenant[c], cutoff[c])
  <2>1. CASE Refuse(c)
    <3>1. draft' = [draft EXCEPT ![c] = draft[c]]
      BY <1>1, <2>1 DEF Refuse, KeyTypes
    <3>2. Ok(draft[c], "refused")
      BY <1>1, <2>1, <3>1 DEF Refuse, KeyTypes
    <3> QED BY ZenonT(30), <3>2
  <2>2. CASE NeedsKey(key[tenant[c]]) /\ Stage(c, NewKey) /\ job[c] = "encrypt"
    <3>1. IsKeyRow(NewKey) /\ NewKey.row = "live"
      BY <1>3 DEF NewKey, IsKeyRow
    <3>2. Ok(NewKey, "written")
      BY <2>2, <3>1 DEF Stage, NeedsKey
    <3> QED BY ZenonT(30), <3>2
  <2>3. CASE /\ key[tenant[c]].row = "live" /\ job[c] = "encrypt"
             /\ Stage(c, [key[tenant[c]] EXCEPT !.used = clock])
    <3> DEFINE k == [key[tenant[c]] EXCEPT !.used = clock]
    <3>1. IsKeyRow(k) /\ k.row = "live" /\ k.dek = key[tenant[c]].dek
      BY SMTT(10), SMTT(20), <1>3, <2>3 DEF IsKeyRow
    <3> HIDE DEF k
    <3>2. Stage(c, k)
      BY <2>3 DEF k
    <3>3. Ok(k, "written")
      BY ZenonT(30), <2>3, <3>1, <3>2 DEF Stage
    <3> QED BY ZenonT(30), <3>3
  <2>4. CASE /\ job[c] = "erase" /\ MayErase(tenant[c], cutoff[c])
             /\ Stage(c, [row |-> "destroyed", dek |-> 0, used |-> key[tenant[c]].used])
    <3> DEFINE k == [row |-> "destroyed", dek |-> 0, used |-> key[tenant[c]].used]
    <3>1. IsKeyRow(k) /\ k.row = "destroyed"
      BY <1>3 DEF IsKeyRow
    <3> HIDE DEF k
    <3>2. Stage(c, k)
      BY <2>4 DEF k
    <3>3. Ok(k, "written")
      BY ZenonT(30), <2>4, <3>1, <3>2 DEF Stage
    <3> QED BY ZenonT(30), <3>3
  <2>5. CASE job[c] = "submit" /\ Stage(c, Absent)
    <3>1. IsKeyRow(Absent)
      BY DEF IsKeyRow, Absent
    <3>2. Ok(Absent, "written")
      BY <2>5, <3>1 DEF Stage
    <3> QED BY ZenonT(30), <3>2
  <2> QED BY ZenonT(30), <2>1, <2>2, <2>3, <2>4, <2>5 DEF Encrypt, Erase, Submit
<1>5. KeyTypes'
  <2>1. /\ draft' = [d \in Callers |-> draft'[d]]
        /\ \A d \in Callers : IsKeyRow(draft'[d])
    BY <1>1, <1>4 DEF KeyTypes
  <2>2. pc' \in [Callers -> States]
    BY <1>1, <1>4 DEF KeyTypes, States
  <2> QED BY <1>1, <1>2, <2>1, <2>2 DEF KeyTypes
<1>6. LockHeld(c)'
  BY <1>1, <1>2, <1>4 DEF LockHeld, Holding, KeyTypes
<1>7. DraftFits(c)'
  <2>1. pc'[c] = next /\ draft'[c] = row
    BY <1>1, <1>4 DEF KeyTypes
  <2>2. Unsafe(tenant[c], cutoff[c])' = Unsafe(tenant[c], cutoff[c])
    BY <1>2 DEF Unsafe, RunsOf
  <2> QED BY <1>2, <1>4, <2>1, <2>2 DEF DraftFits, MayErase
<1>8. \A d \in Callers \ {c} :
         /\ UNCHANGED <<pc[d], job[d], tenant[d], cutoff[d], draft[d]>>
         /\ UNCHANGED holder[<<"t", tenant[d]>>]
  BY <1>1, <1>2, <1>4 DEF KeyTypes
<1> QED BY <1>2, <1>5, <1>6, <1>7, <1>8, QuietStep

\* The end of a transaction: its session is idle, the others are untouched.
LEMMA EndFrees ==
  ASSUME KeyInv, NEW c \in Callers, End(c)
  PROVE  /\ pc' \in [Callers -> States] /\ job' \in [Callers -> Jobs]
         /\ tenant' \in [Callers -> Tenants \cup {NoTenant}]
         /\ began' \in [Callers -> Nat] /\ cutoff' \in [Callers -> Int]
         /\ draft' = [d \in Callers |-> draft'[d]] /\ \A d \in Callers : IsKeyRow(draft'[d])
         /\ holder' \in [Locks -> Callers \cup {NoCaller}]
         /\ LockHeld(c)' /\ DraftFits(c)'
         /\ \A d \in Callers \ {c} :
               /\ UNCHANGED <<pc[d], job[d], tenant[d], cutoff[d], draft[d]>>
               /\ Holding(d) => UNCHANGED holder[<<"t", tenant[d]>>]
<1>1. KeyTypes /\ \A d \in Callers : LockHeld(d)
  BY DEF KeyInv
<1>2. /\ pc' = [pc EXCEPT ![c] = "idle"] /\ job' = [job EXCEPT ![c] = "encrypt"]
      /\ tenant' = [tenant EXCEPT ![c] = NoTenant]
      /\ began' = [began EXCEPT ![c] = 0] /\ cutoff' = [cutoff EXCEPT ![c] = 0]
      /\ draft' = [draft EXCEPT ![c] = Absent]
      /\ holder' = [s \in Locks |-> IF holder[s] = c THEN NoCaller ELSE holder[s]]
  BY DEF End
<1>3. /\ pc' \in [Callers -> States] /\ job' \in [Callers -> Jobs]
      /\ tenant' \in [Callers -> Tenants \cup {NoTenant}]
      /\ began' \in [Callers -> Nat] /\ cutoff' \in [Callers -> Int]
      /\ holder' \in [Locks -> Callers \cup {NoCaller}]
  BY SMTT(10), SMTT(20), <1>1, <1>2 DEF KeyTypes, States, Jobs
<1>4. /\ draft' = [d \in Callers |-> draft'[d]]
      /\ \A d \in Callers : IsKeyRow(draft'[d])
  <2>1. IsKeyRow(Absent)
    BY DEF IsKeyRow, Absent
  <2> QED BY <1>1, <1>2, <2>1 DEF KeyTypes
<1>5. LockHeld(c)' /\ DraftFits(c)'
  <2>1. pc'[c] = "idle"
    BY <1>1, <1>2 DEF KeyTypes
  <2> QED BY <2>1 DEF LockHeld, DraftFits, Holding
<1>6. ASSUME NEW d \in Callers \ {c}
      PROVE  /\ UNCHANGED <<pc[d], job[d], tenant[d], cutoff[d], draft[d]>>
             /\ Holding(d) => UNCHANGED holder[<<"t", tenant[d]>>]
  <2>1. UNCHANGED <<pc[d], job[d], tenant[d], cutoff[d], draft[d]>>
    BY <1>1, <1>2 DEF KeyTypes
  <2>2. ASSUME Holding(d) PROVE holder'[<<"t", tenant[d]>>] = holder[<<"t", tenant[d]>>]
    <3>1. holder[<<"t", tenant[d]>>] = d /\ tenant[d] \in Tenants
      BY <1>1, <2>2 DEF LockHeld, Holding
    <3>2. <<"t", tenant[d]>> \in Locks
      BY <3>1, LocksAre
    <3> QED BY <1>2, <3>1, <3>2
  <2> QED BY <2>1, <2>2
<1> QED BY <1>3, <1>4, <1>5, <1>6

LEMMA RollbackKeeps ==
  ASSUME KeyInv, NEW c \in Callers, Rollback(c), UNCHANGED purgeVars
  PROVE  KeyInv'
<1>1. End(c) /\ UNCHANGED <<key, envelopes, completed, clock, audit, purged>>
  BY DEF Rollback, trailVars, purgeVars, purged
<1>2. KeyTypes'
  BY <1>1, EndFrees DEF KeyTypes, KeyInv
<1>3. /\ LockHeld(c)' /\ DraftFits(c)'
      /\ \A d \in Callers \ {c} :
            /\ UNCHANGED <<pc[d], job[d], tenant[d], cutoff[d], draft[d]>>
            /\ Holding(d) => UNCHANGED holder[<<"t", tenant[d]>>]
  BY <1>1, EndFrees
<1> QED BY <1>1, <1>2, <1>3, QuietStep

\* A commit changes rows of the tenant whose lock it holds, and of no other:
\* what the other transactions have decided stays true.
LEMMA CommitSpares ==
  ASSUME KeyInv, NEW c \in Callers, Commit(c), NEW d \in Callers, d # c
  PROVE  LockHeld(d)' /\ DraftFits(d)'
<1>1. /\ KeyTypes /\ LockHeld(c) /\ LockHeld(d) /\ DraftFits(d)
      /\ pc[c] = "written" /\ End(c) /\ clock' = clock
  BY DEF KeyInv, Commit
<1>2. /\ UNCHANGED <<pc[d], job[d], tenant[d], cutoff[d], draft[d]>>
      /\ Holding(d) => UNCHANGED holder[<<"t", tenant[d]>>]
  BY <1>1, EndFrees
<1>3. Holding(d) => tenant[d] # tenant[c] /\ tenant[d] \in Tenants
  BY <1>1, LockExclusive DEF Holding, LockHeld
<1>4. ASSUME Holding(d) PROVE key[tenant[d]]' = key[tenant[d]]
  <2>1. key' = [key EXCEPT ![tenant[c]] = draft[c]] \/ key' = key
    BY DEF Commit
  <2>2. tenant'[d] = tenant[d]
    BY <1>2
  <2> QED BY <1>1, <1>3, <1>4, <2>1, <2>2 DEF KeyTypes
<1>5. ASSUME pc[d] = "written", ~Unsafe(tenant[d], cutoff[d]) PROVE ~Unsafe(tenant[d], cutoff[d])'
  <2>1. /\ tenant'[d] = tenant[d] /\ cutoff'[d] = cutoff[d] /\ tenant[d] # tenant[c]
    BY <1>2, <1>3, <1>5 DEF Holding
  <2>2. ASSUME NEW r \in DOMAIN completed', TenantOf[r] = tenant[d]
        PROVE  r \in DOMAIN completed /\ completed'[r] = completed[r]
    <3>1. CASE completed' = completed
      BY <2>2, <3>1
    <3>2. CASE job[c] = "submit"
      <4>1. PICK q \in Runs \ DOMAIN completed :
               /\ TenantOf[q] = tenant[c]
               /\ completed' = [i \in DOMAIN completed \cup {q} |->
                                   IF i = q THEN Never ELSE completed[i]]
        BY <3>2 DEF Commit
      <4>2. r # q
        BY <2>1, <2>2, <4>1
      <4> QED BY <2>2, <4>1, <4>2
    <3> QED BY <3>1, <3>2 DEF Commit
  <2> QED BY <1>5, <2>1, <2>2 DEF Unsafe, RunsOf
<1>6. clock' \in Nat /\ clock' >= clock
  BY SMTT(10), SMTT(20), <1>1 DEF KeyTypes
<1> QED BY <1>1, <1>2, <1>4, <1>5, <1>6, OtherSessions

LEMMA CommitTypes ==
  ASSUME KeyInv, NEW c \in Callers, Commit(c)
  PROVE  KeyTypes'
<1>1. /\ KeyTypes /\ LockHeld(c) /\ End(c) /\ clock' = clock /\ tenant[c] \in Tenants
      /\ IsKeyRow(draft[c])
  BY ZenonT(30) DEF KeyInv, Commit, LockHeld, KeyTypes
<1>2. /\ key' = [t \in Tenants |-> key'[t]] /\ \A t \in Tenants : IsKeyRow(key'[t])
  <2>1. key' = [key EXCEPT ![tenant[c]] = draft[c]] \/ key' = key
    BY DEF Commit
  <2> QED BY <1>1, <2>1 DEF KeyTypes
<1>3. \A e \in envelopes' : e.tenant \in Tenants
  BY SMTT(10), SMTT(20), <1>1 DEF Commit, KeyTypes
<1>4. /\ completed' = [r \in DOMAIN completed' |-> completed'[r]]
      /\ DOMAIN completed' \subseteq Runs
      /\ \A r \in DOMAIN completed' : completed'[r] \in Nat \cup {Never}
  <2>1. CASE completed' = completed
    BY <1>1, <2>1 DEF KeyTypes
  <2>2. CASE job[c] = "submit"
    <3>1. PICK q \in Runs \ DOMAIN completed :
             completed' = [i \in DOMAIN completed \cup {q} |->
                              IF i = q THEN Never ELSE completed[i]]
      BY <2>2 DEF Commit
    <3> QED BY <1>1, <3>1 DEF KeyTypes
  <2> QED BY <2>1, <2>2 DEF Commit
<1>5. /\ pc' \in [Callers -> States] /\ job' \in [Callers -> Jobs]
      /\ tenant' \in [Callers -> Tenants \cup {NoTenant}]
      /\ began' \in [Callers -> Nat] /\ cutoff' \in [Callers -> Int]
      /\ draft' = [d \in Callers |-> draft'[d]] /\ \A d \in Callers : IsKeyRow(draft'[d])
      /\ holder' \in [Locks -> Callers \cup {NoCaller}]
  BY <1>1, EndFrees
<1>6. clock' \in Nat
  BY <1>1 DEF KeyTypes
<1> QED BY <1>2, <1>3, <1>4, <1>5, <1>6 DEF KeyTypes

\* The session that commits is idle afterwards; its decision becomes the row.
LEMMA CommitKeeps ==
  ASSUME KeyInv, NEW c \in Callers, Commit(c), UNCHANGED purgeVars
  PROVE  KeyInv'
<1> DEFINE t == tenant[c]
<1>1. /\ KeyTypes /\ LockHeld(c) /\ DraftFits(c) /\ OneKeyForever /\ t \in Tenants
      /\ pc[c] = "written" /\ End(c) /\ purged' = purged
  BY DEF KeyInv, Commit, LockHeld, purgeVars, purged
<1>2. KeyTypes'
  BY CommitTypes
<1>3. \A d \in Callers : LockHeld(d)' /\ DraftFits(d)'
  <2>1. LockHeld(c)' /\ DraftFits(c)'
    BY <1>1, EndFrees
  <2> QED BY <2>1, CommitSpares
<1>4. OneKeyForever' /\ \A u \in Tenants : OnRecord(u)'
  <2>1. CASE job[c] = "submit"
    <3>1. UNCHANGED <<key, audit>> /\ envelopes' = envelopes
      BY <2>1 DEF Commit
    <3>2. OneKeyForever'
      BY <1>1, <3>1 DEF OneKeyForever, Readable
    <3>3. \A u \in Tenants : OnRecord(u)'
      BY ZenonT(30), <1>1, <3>1 DEF KeyInv, OnRecord, Erasures
    <3> QED BY <3>2, <3>3
  <2>2. CASE job[c] = "encrypt"
    <3>1. /\ key' = [key EXCEPT ![t] = draft[c]] /\ UNCHANGED audit
          /\ envelopes' = envelopes \cup {[tenant |-> t, dek |-> draft[c].dek]}
      BY <2>2 DEF Commit
    <3>2. /\ draft[c].row = "live"
          /\ key[t].row = "absent" \/ (key[t].row = "live" /\ key[t].dek = draft[c].dek)
      BY <1>1, <2>2 DEF DraftFits
    <3>3. key'[t] = draft[c] /\ \A u \in Tenants \ {t} : key'[u] = key[u]
      BY ZenonT(30), <1>1, <3>1 DEF KeyTypes
    <3>4. ASSUME NEW e \in envelopes'
          PROVE  key'[e.tenant].row = "destroyed"
                 \/ (key'[e.tenant].row = "live" /\ key'[e.tenant].dek = e.dek)
      <4>1. CASE e = [tenant |-> t, dek |-> draft[c].dek]
        BY <3>2, <3>3, <4>1
      <4>2. CASE e \in envelopes
        <5>1. /\ e.tenant \in Tenants
              /\ key[e.tenant].row = "destroyed"
                 \/ (key[e.tenant].row = "live" /\ key[e.tenant].dek = e.dek)
          BY <1>1, <4>2 DEF OneKeyForever, Readable, KeyTypes
        <5>2. CASE e.tenant = t
          BY <3>2, <3>3, <5>1, <5>2
        <5>3. CASE e.tenant # t
          BY <3>3, <5>1, <5>3
        <5> QED BY <5>2, <5>3
      <4> QED BY ZenonT(30), <3>1, <4>1, <4>2
    <3>5. OneKeyForever'
      BY <3>4 DEF OneKeyForever, Readable
    <3>6. ASSUME NEW u \in Tenants PROVE OnRecord(u)'
      <4>1. OnRecord(u) /\ Erasures(u)' = Erasures(u)
        BY <1>1, <3>1 DEF KeyInv, Erasures
      <4>2. key'[u].row = "destroyed" <=> key[u].row = "destroyed"
        BY <3>2, <3>3
      <4> QED BY <4>1, <4>2 DEF OnRecord
    <3> QED BY <3>5, <3>6
  <2>3. CASE job[c] = "erase"
    <3>1. /\ key' = [key EXCEPT ![t] = draft[c]] /\ envelopes' = envelopes
          /\ audit' = audit \cup {Row(began[c], t)}
      BY <2>3 DEF Commit, EraseRecorded, Insert
    <3>2. draft[c].row = "destroyed" /\ key[t].row = "live"
      BY <1>1, <2>3 DEF DraftFits
    <3>3. key'[t] = draft[c] /\ \A u \in Tenants \ {t} : key'[u] = key[u]
      BY <1>1, <3>1 DEF KeyTypes
    <3>4. OneKeyForever'
      BY <1>1, <3>1, <3>2, <3>3 DEF OneKeyForever, Readable, KeyTypes
    <3>5. ASSUME NEW u \in Tenants PROVE OnRecord(u)'
      <4>1. OnRecord(u) /\ Row(began[c], t).subject = t
        BY DEF KeyInv, Row
      <4>2. CASE u = t
        <5>1. Erasures(t) = {}
          BY <3>2, <4>1, <4>2 DEF OnRecord
        <5>2. Erasures(u)' = {Row(began[c], t)}
          <6>1. \A e \in audit \cup purged : e.subject # t
            BY <5>1 DEF Erasures
          <6>2. audit' \cup purged' = (audit \cup purged) \cup {Row(began[c], t)}
            BY <1>1, <3>1
          <6>3. {e \in audit' \cup purged' : e.subject = t} = {Row(began[c], t)}
            BY <4>1, <6>1, <6>2
          <6>4. Erasures(u)' = {e \in audit' \cup purged' : e.subject = u}
            BY DEF Erasures
          <6> QED BY <6>3, <6>4, <4>2
        <5>3. key'[u].row = "destroyed"
          BY <3>2, <3>3, <4>2
        <5> QED BY <4>2, <5>2, <5>3 DEF OnRecord
      <4>3. CASE u # t
        <5>1. Erasures(u)' = Erasures(u)
          BY <1>1, <3>1, <4>1, <4>3 DEF Erasures
        <5> QED BY ZenonT(30), <3>3, <4>1, <4>3, <5>1 DEF OnRecord
      <4> QED BY <4>2, <4>3
    <3> QED BY <3>4, <3>5
  <2> QED BY <1>1, <2>1, <2>2, <2>3 DEF KeyTypes, Jobs
<1> QED BY <1>2, <1>3, <1>4 DEF KeyInv

\* A run that ends late was unfinished when an erasure was decided, which then
\* was refused: no erasure that is about to commit is of its tenant.
LEMMA CompleteRunKeeps ==
  ASSUME KeyInv, NEW r \in Runs, CompleteRun(r), UNCHANGED purgeVars
  PROVE  KeyInv'
<1>1. /\ KeyTypes /\ OneKeyForever /\ r \in DOMAIN completed /\ completed[r] = Never
      /\ completed' = [completed EXCEPT ![r] = clock]
      /\ UNCHANGED <<pc, job, tenant, began, cutoff, draft, holder, key,
                     envelopes, clock, audit, purged>>
  BY DEF KeyInv, CompleteRun, sessionVars, trailVars, purgeVars, purged
<1>2. DOMAIN completed' = DOMAIN completed /\
      \A q \in DOMAIN completed : completed'[q] = IF q = r THEN clock ELSE completed[q]
  BY <1>1 DEF KeyTypes
<1>3. KeyTypes'
  BY ZenonT(30), <1>1, <1>2 DEF KeyTypes, IsKeyRow
<1>4. ASSUME NEW d \in Callers PROVE LockHeld(d)' /\ DraftFits(d)'
  <2>1. LockHeld(d) /\ DraftFits(d)
    BY DEF KeyInv
  <2>2. ASSUME ~Unsafe(tenant[d], cutoff[d]) PROVE ~Unsafe(tenant[d], cutoff[d])'
    <3>1. TenantOf[r] # tenant[d]
      BY <1>1, <2>2 DEF Unsafe, RunsOf
    <3> QED BY <1>1, <1>2, <2>2, <3>1 DEF Unsafe, RunsOf
  <2>3. clock' \in Nat /\ clock' >= clock
    BY SMTT(10), SMTT(20), <1>1 DEF KeyTypes
  <2> QED BY <1>1, <2>1, <2>2, <2>3, OtherSessions
<1>5. OneKeyForever' /\ \A t \in Tenants : OnRecord(t)'
  BY ZenonT(30), <1>1 DEF KeyInv, OneKeyForever, Readable, OnRecord, Erasures
<1> QED BY <1>3, <1>4, <1>5 DEF KeyInv

TakenTyped == DOMAIN taken = Purges

\* What a batch removes is taken by its job.
LEMMA RemovedRows ==
  ASSUME TakenTyped, NEW p \in Purges, NEW rows, Remove(p, rows)
  PROVE  /\ TakenTyped' /\ purged' = purged \cup rows
         /\ taken'[p] = taken[p] \cup rows
         /\ \A o \in Purges \ {p} : taken'[o] = taken[o]
<1>1. /\ TakenTyped' /\ taken'[p] = taken[p] \cup rows
      /\ \A o \in Purges \ {p} : taken'[o] = taken[o]
  BY DEF TakenTyped, Remove
<1>2. \A e : (\E o \in Purges : e \in taken'[o]) <=> e \in rows \/ \E o \in Purges : e \in taken[o]
  BY <1>1
<1>3. purged' = purged \cup rows
  BY <1>2 DEF purged
<1> QED BY <1>1, <1>3

LEMMA TakenSteps == TakenTyped /\ [Next]_vars => TakenTyped'
<1> SUFFICES ASSUME TakenTyped, [Next]_vars PROVE TakenTyped'
  OBVIOUS
<1>1. CASE UNCHANGED taken
  BY <1>1 DEF TakenTyped
<1>2. ASSUME NEW p \in Purges, NEW rows, Remove(p, rows) PROVE TakenTyped'
  BY <1>2, RemovedRows
<1>3. CASE PurgeNext
  BY ZenonT(30), <1>1, <1>2, <1>3 DEF PurgeNext, StartPurge, Count, SelectBatch, CommitBatch,
     FailBatch
<1> QED BY <1>1, <1>3 DEF Next, vars, purgeVars

\* Time, other audit rows and the retention job: rows of the trail move among
\* those that aged out, and no row about a tenant key appears or is lost.
LEMMA OutsideKeeps ==
  ASSUME KeyInv, TakenTyped, UNCHANGED keyVars,
         ((Tick \/ Record) /\ UNCHANGED purgeVars) \/ PurgeNext
  PROVE  KeyInv'
<1>1. /\ KeyTypes /\ OneKeyForever
      /\ UNCHANGED <<pc, job, tenant, began, cutoff, draft, holder, key, envelopes, completed>>
  BY DEF KeyInv, keyVars, sessionVars
<1>2. clock' \in Nat /\ clock' >= clock
  <2>1. CASE Tick
    BY SMTT(10), SMTT(20), <1>1, <2>1 DEF Tick, KeyTypes
  <2>2. CASE Record
    BY SMTT(10), SMTT(20), <1>1, <2>2 DEF Record, KeyTypes
  <2>3. CASE PurgeNext
    <3>1. clock' = clock
      BY ZenonT(30), <2>3 DEF PurgeNext, StartPurge, Count, SelectBatch, CommitBatch, FailBatch,
         Remove, trailVars
    <3> QED BY SMTT(10), SMTT(20), <1>1, <3>1 DEF KeyTypes
  <2> QED BY <2>1, <2>2, <2>3
<1>3. \A t \in Tenants : Erasures(t)' = Erasures(t)
  <2>1. CASE Tick /\ UNCHANGED purgeVars
    BY <2>1 DEF Tick, purgeVars, Erasures, purged
  <2>2. CASE Record /\ UNCHANGED purgeVars
    <3>1. audit' = audit \cup {Row(clock, NoTenant)} /\ purged' = purged
      BY <2>2 DEF Record, Insert, purgeVars, purged
    <3>2. Row(clock, NoTenant).subject = NoTenant
      BY DEF Row
    <3> QED BY <3>1, <3>2, TrailAssumption DEF Erasures
  <2>3. CASE PurgeNext
    <3>1. PICK p \in Purges :
            \/ UNCHANGED <<audit, taken>>
            \/ Remove(p, doomed[p] \cap audit) \/ Remove(p, {})
      BY ZenonT(30), <2>3 DEF PurgeNext, StartPurge, Count, SelectBatch, CommitBatch, FailBatch,
         trailVars
    <3>2. audit' \cup purged' = audit \cup purged
      <4>1. ASSUME NEW rows, rows \subseteq audit, Remove(p, rows)
            PROVE  audit' \cup purged' = audit \cup purged
        <5>1. purged' = purged \cup rows /\ audit' = audit \ rows
          BY ZenonT(30), <4>1, RemovedRows DEF Remove
        <5> QED BY <4>1, <5>1
      <4>2. CASE UNCHANGED <<audit, taken>>
        BY <4>2 DEF purged
      <4> QED BY <3>1, <4>1, <4>2
    <3> QED BY <3>2 DEF Erasures
  <2> QED BY <2>1, <2>2, <2>3
<1>4. KeyTypes'
  BY <1>1, <1>2 DEF KeyTypes, IsKeyRow
<1>5. ASSUME NEW d \in Callers PROVE LockHeld(d)' /\ DraftFits(d)'
  <2>1. LockHeld(d) /\ DraftFits(d)
    BY DEF KeyInv
  <2>2. Unsafe(tenant[d], cutoff[d])' = Unsafe(tenant[d], cutoff[d])
    BY <1>1 DEF Unsafe, RunsOf
  <2> QED BY ZenonT(30), <1>1, <1>2, <2>1, <2>2, OtherSessions
<1>6. OneKeyForever'
  BY <1>1 DEF OneKeyForever, Readable
<1>7. \A t \in Tenants : OnRecord(t)'
  BY ZenonT(30), <1>1, <1>3 DEF KeyInv, OnRecord
<1> QED BY <1>4, <1>5, <1>6, <1>7 DEF KeyInv

LEMMA KeyInit == Init => KeyInv
<1> SUFFICES ASSUME Init PROVE KeyInv
  OBVIOUS
<1> USE DEF Init, KeysInit, TrailInit, PurgeInit
<1>1. IsKeyRow(Absent) /\ Absent.row = "absent"
  BY DEF IsKeyRow, Absent
<1>2. KeyTypes
  BY SMTT(10), SMTT(20), <1>1 DEF KeyTypes, States, Jobs
<1>3. \A c \in Callers : LockHeld(c) /\ DraftFits(c)
  BY DEF LockHeld, DraftFits, Holding
<1>4. OneKeyForever
  BY DEF OneKeyForever
<1>5. \A t \in Tenants : OnRecord(t)
  <2>1. purged = {}
    BY DEF purged
  <2> QED BY <1>1, <2>1 DEF OnRecord, Erasures
<1> QED BY <1>2, <1>3, <1>4, <1>5 DEF KeyInv

LEMMA KeyStep == KeyInv /\ TakenTyped /\ [Next]_vars => KeyInv'
<1> SUFFICES ASSUME KeyInv, TakenTyped, [Next]_vars PROVE KeyInv'
  OBVIOUS
<1>1. CASE (Tick \/ Record) /\ UNCHANGED <<keyVars, purgeVars>>
  BY <1>1, OutsideKeeps
<1>2. CASE PurgeNext /\ UNCHANGED keyVars
  BY <1>2, OutsideKeeps
<1>3. CASE KeysNext /\ UNCHANGED purgeVars
  <2>1. ASSUME NEW c \in Callers, NEW x \in Jobs, NEW t \in Tenants, Open(c, x, t) PROVE KeyInv'
    BY <1>3, <2>1, OpenKeeps
  <2>2. ASSUME NEW c \in Callers, LockTenant(c) PROVE KeyInv'
    BY <1>3, <2>2, LockKeeps
  <2>3. ASSUME NEW c \in Callers, Encrypt(c) \/ Erase(c) \/ Submit(c) PROVE KeyInv'
    BY <1>3, <2>3, DecideKeeps
  <2>4. ASSUME NEW c \in Callers, Commit(c) PROVE KeyInv'
    BY <1>3, <2>4, CommitKeeps
  <2>5. ASSUME NEW c \in Callers, Rollback(c) PROVE KeyInv'
    BY <1>3, <2>5, RollbackKeeps
  <2>6. ASSUME NEW r \in Runs, CompleteRun(r) PROVE KeyInv'
    BY <1>3, <2>6, CompleteRunKeeps
  <2> QED BY <1>3, <2>1, <2>2, <2>3, <2>4, <2>5, <2>6 DEF KeysNext
<1>4. CASE UNCHANGED vars
  <2>1. UNCHANGED <<pc, job, tenant, began, cutoff, draft, holder, key, envelopes,
                    completed, clock, audit, purged>>
    BY <1>4 DEF vars, keyVars, sessionVars, trailVars, purgeVars, purged
  <2>2. KeyTypes'
    BY <2>1 DEF KeyInv, KeyTypes, IsKeyRow
  <2>3. ASSUME NEW c \in Callers PROVE LockHeld(c)' /\ DraftFits(c)'
    <3>1. LockHeld(c) /\ DraftFits(c) /\ KeyTypes
      BY DEF KeyInv
    <3>2. Unsafe(tenant[c], cutoff[c])' = Unsafe(tenant[c], cutoff[c])
      BY ZenonT(30), <2>1 DEF Unsafe, RunsOf
    <3>3. clock' \in Nat /\ clock' >= clock
      BY SMTT(10), SMTT(20), <2>1, <3>1 DEF KeyTypes
    <3> QED BY ZenonT(30), <2>1, <3>1, <3>2, <3>3, OtherSessions
  <2>4. OneKeyForever'
    BY ZenonT(30), <2>1 DEF KeyInv, OneKeyForever, Readable
  <2>5. \A t \in Tenants : OnRecord(t)'
    BY ZenonT(30), <2>1 DEF KeyInv, OnRecord, Erasures
  <2> QED BY <2>2, <2>3, <2>4, <2>5 DEF KeyInv
<1> QED BY <1>1, <1>2, <1>3, <1>4 DEF Next

LEMMA KeyInvariant == Spec => [](KeyInv /\ TakenTyped)
<1>1. Init => TakenTyped
  BY DEF Init, PurgeInit, TakenTyped
<1> QED BY <1>1, KeyInit, KeyStep, TakenSteps, PTL DEF Spec
-----------------------------------------------------------------------------
\* However calls that encrypt interleave, roll back and meet erasures, every
\* committed envelope is readable with the one data key of its tenant, or that
\* key is destroyed for good.  (_key and its callers, envelope.py.)
THEOREM KeysAreForever == Spec => []OneKeyForever
<1>1. KeyInv => OneKeyForever
  BY DEF KeyInv
<1> QED BY <1>1, KeyInvariant, PTL

\* Every key is destroyed with exactly one audit row, which only age removes.
\* (erase_tenant_key, envelope.py; purge_batch, audit_retention.py.)
THEOREM ErasuresRecorded == Spec => []ErasuresOnRecord
<1>1. KeyInv => ErasuresOnRecord
  <2> SUFFICES ASSUME KeyInv, NEW t \in Tenants
               PROVE  Cardinality(Erasures(t)) = IF key[t].row = "destroyed" THEN 1 ELSE 0
    BY DEF ErasuresOnRecord, Erasures
  <2>1. OnRecord(t)
    BY DEF KeyInv
  <2>2. CASE key[t].row # "destroyed"
    <3>1. Erasures(t) = {}
      BY <2>1, <2>2 DEF OnRecord
    <3> QED BY <2>2, <3>1, FS_EmptySet
  <2>3. CASE key[t].row = "destroyed"
    <3>1. PICK e : Erasures(t) = {e}
      BY ZenonT(30), <2>1, <2>3 DEF OnRecord
    <3>2. Cardinality({e}) = 1
      BY FS_Singleton
    <3> QED BY <2>3, <3>1, <3>2
  <2> QED BY <2>2, <2>3
<1> QED BY <1>1, KeyInvariant, PTL

\* At the commit of an erasure its checks still hold, whatever was submitted,
\* encrypted or completed after they were made.  (erase_tenant_key.)
THEOREM ErasureIsSafe == Spec => ErasureSparesLiveWork
<1>1. KeyInv /\ [Next]_vars => [\A t \in Tenants :
         key[t].row = "live" /\ key'[t].row = "destroyed" =>
             /\ ~Unsafe(t, clock - Horizon)
             /\ key[t].used <= clock - Horizon]_<<keyVars, trailVars>>
  <2> SUFFICES ASSUME KeyInv, [Next]_vars, NEW t \in Tenants,
                      key[t].row = "live", key'[t].row = "destroyed"
               PROVE  ~Unsafe(t, clock - Horizon) /\ key[t].used <= clock - Horizon
    OBVIOUS
  <2>1. key' # key
    OBVIOUS
  <2>2. PICK c \in Callers : Commit(c)
    BY <2>1 DEF Next, vars, KeysNext, keyVars, Open, LockTenant, Encrypt, Erase, Submit,
                Stage, Refuse, Rollback, CompleteRun
  <2>3. KeyTypes /\ LockHeld(c) /\ DraftFits(c) /\ pc[c] = "written" /\ tenant[c] \in Tenants
    BY <2>2 DEF KeyInv, Commit, LockHeld
  <2>4. /\ job[c] \in {"encrypt", "erase"} /\ key' = [key EXCEPT ![tenant[c]] = draft[c]]
    BY <2>1, <2>2 DEF Commit
  <2>5. t = tenant[c] /\ draft[c].row = "destroyed"
    BY ZenonT(30), <2>3, <2>4 DEF KeyTypes
  <2>6. job[c] = "erase"
    BY ZenonT(30), <2>3, <2>4, <2>5 DEF DraftFits
  <2>7. /\ key[t].used <= cutoff[c] /\ ~Unsafe(t, cutoff[c]) /\ cutoff[c] <= clock - Horizon
    BY ZenonT(30), <2>3, <2>5, <2>6 DEF DraftFits, LockHeld
  <2>8. key[t].used \in Int /\ cutoff[c] \in Int /\ clock \in Int /\ Horizon \in Int
    BY SMTT(10), SMTT(20), <2>3, KeysAssumption DEF KeyTypes, IsKeyRow
  <2>9. key[t].used <= clock - Horizon
    BY ZenonT(30), <2>7, <2>8, CutoffBounds
  <2>10. ASSUME NEW r \in RunsOf(t), completed[r] = Never \/ completed[r] > clock - Horizon
         PROVE  FALSE
    <3>1. r \in DOMAIN completed /\ completed[r] # Never /\ ~(completed[r] > cutoff[c])
      BY ZenonT(30), <2>7, <2>10 DEF Unsafe, RunsOf
    <3>2. completed[r] \in Nat
      BY ZenonT(30), <2>3, <3>1 DEF KeyTypes
    <3>3. completed[r] \in Int /\ completed[r] <= cutoff[c]
      BY ZenonT(30), <2>8, <3>1, <3>2, NotAbove
    <3>4. ~(completed[r] > clock - Horizon)
      BY ZenonT(30), <2>7, <2>8, <3>3, CutoffBounds
    <3> QED BY ZenonT(30), <2>10, <3>1, <3>4
  <2> QED BY <2>9, <2>10 DEF Unsafe
<1> QED BY <1>1, KeyInvariant, PTL DEF Spec, ErasureSparesLiveWork
-----------------------------------------------------------------------------
(* The retention job. *)

Stages == {"idle", "count"} \cup Deleting \cup Ended

\* A job takes only what its cutoff lets it take; while no other job deletes,
\* the rows of its batch are still there, and an empty batch was selected when
\* nothing it owes was left.
JobInv(p) ==
    /\ stage[p] \in Deleting \cup {"count"} =>
          before[p] \in Int /\ before[p] <= clock - AuditHorizon
    /\ stage[p] \in Deleting => \A e \in owed[p] : e.at < before[p]
    /\ stage[p] = "deleting" => \A e \in doomed[p] : e.at < before[p]
    /\ owed[p] \subseteq audit \cup purged
    /\ alone[p] /\ stage[p] \in Deleting =>
          \A o \in Purges \ {p} : stage[o] \notin Deleting
    /\ alone[p] /\ stage[p] = "deleting" =>
          /\ doomed[p] \subseteq audit
          /\ doomed[p] = {} => owed[p] \cap audit = {}

\* Rows are numbered in the order of their insertion, and leave by age.
TrailInv ==
    /\ serial \in Nat
    /\ IsFiniteSet(audit)
    /\ \A e \in audit \cup purged : e.at \in Nat /\ e.n \in Nat /\ e.n < serial
    /\ \A e \in purged : e.at < clock - AuditHorizon

PurgeTypes ==
    /\ stage \in [Purges -> Stages]
    /\ before = [p \in Purges |-> before[p]]
    /\ doomed = [p \in Purges |-> doomed[p]]
    /\ owed = [p \in Purges |-> owed[p]]
    /\ alone = [p \in Purges |-> alone[p]]

PurgeInv == PurgeTypes /\ TrailInv /\ \A p \in Purges : JobInv(p)
-----------------------------------------------------------------------------
\* A batch that selected nothing found nothing.
LEMMA EmptyBatch ==
  ASSUME NEW found, IsFiniteSet(found), IsBatch({}, found)
  PROVE  found = {}
<1>1. Cardinality(found) \in Nat /\ BatchSize \in Nat /\ BatchSize # 0
  BY FS_CardinalityType, RetentionAssumption
<1>2. Cardinality({}) = 0
  BY FS_EmptySet
<1>3. 0 = Min({BatchSize, Cardinality(found)})
  BY <1>2 DEF IsBatch
<1>4. \E x \in {BatchSize, Cardinality(found)} :
         \A y \in {BatchSize, Cardinality(found)} : x <= y
  BY SMTT(10), SMTT(20), <1>1
<1>5. 0 \in {BatchSize, Cardinality(found)}
  BY <1>3, <1>4 DEF Min
<1>6. Cardinality(found) = 0
  BY <1>1, <1>5
<1> QED BY <1>6, FS_EmptySet

\* Rows were added with new numbers, and none was removed.
Grown ==
    /\ audit \subseteq audit' /\ IsFiniteSet(audit') /\ serial' \in Nat
    /\ \A e \in audit' \cup purged : e.at \in Nat /\ e.n \in Nat /\ e.n < serial'
    /\ \A e \in audit' \ audit : e.n = serial

LEMMA InsertGrows ==
  ASSUME TrailInv, NEW at \in Nat, NEW subject, Insert(at, subject)
  PROVE  Grown
<1> DEFINE e == Row(at, subject)
<1>1. e.n = serial /\ e.at = at
  BY DEF Row
<1>2. audit' = audit \cup {e} /\ serial' = serial + 1 /\ serial \in Nat
  BY DEF Insert, TrailInv
<1>3. IsFiniteSet(audit')
  BY <1>2, FS_AddElement DEF TrailInv
<1>4. ASSUME NEW f \in audit' \cup purged
      PROVE  f.at \in Nat /\ f.n \in Nat /\ f.n < serial'
  <2>1. CASE f = e
    BY SMTT(10), SMTT(20), <1>1, <1>2, <2>1
  <2>2. CASE f \in audit \cup purged
    <3>1. f.at \in Nat /\ f.n \in Nat /\ f.n < serial
      BY <2>2 DEF TrailInv
    <3> QED BY SMTT(10), SMTT(20), <1>2, <3>1
  <2> QED BY <1>2, <1>4, <2>1, <2>2
<1>5. \A f \in audit' \ audit : f.n = serial
  BY <1>1, <1>2
<1> QED BY SMTT(10), SMTT(20), <1>2, <1>3, <1>4, <1>5 DEF Grown

\* What was old enough stays so.
LEMMA LaterBounds ==
  \A x, now, later, horizon \in Int : later >= now =>
      /\ x < now - horizon => x < later - horizon
      /\ x <= now - horizon => x <= later - horizon
BY SMTT(10), SMTT(20)

\* Time and new rows leave every job what it knew: a new row is none of those
\* it owes, even one that is dated before its cutoff.
LEMMA TrailGrows ==
  ASSUME PurgeInv, UNCHANGED purgeVars, clock \in Nat, clock' \in Nat, clock' >= clock, Grown
  PROVE  PurgeInv'
<1>1. /\ UNCHANGED <<stage, before, doomed, owed, alone, purged>>
      /\ PurgeTypes /\ TrailInv /\ AuditHorizon \in Nat
  BY RetentionAssumption DEF purgeVars, PurgeInv, purged
<1>2. PurgeTypes'
  BY <1>1 DEF PurgeTypes
<1>3. \A x \in Int : (x < clock - AuditHorizon => x < clock' - AuditHorizon)
                  /\ (x <= clock - AuditHorizon => x <= clock' - AuditHorizon)
  <2>1. clock \in Int /\ clock' \in Int /\ AuditHorizon \in Int
    BY SMTT(10), SMTT(20), <1>1
  <2> QED BY <2>1, LaterBounds, ZenonT(30)
<1>4. TrailInv'
  BY SMTT(10), SMTT(20), <1>1, <1>3 DEF TrailInv, Grown
<1>5. ASSUME NEW p \in Purges PROVE JobInv(p)'
  <2>1. JobInv(p)
    BY DEF PurgeInv
  <2>2. owed[p] \cap audit' = owed[p] \cap audit
    <3>1. \A e \in audit' \ audit : e \notin owed[p]
      <4> SUFFICES ASSUME NEW e \in audit' \ audit, e \in owed[p] PROVE FALSE
        OBVIOUS
      <4>1. e.n = serial
        BY DEF Grown
      <4>2. e.n < serial /\ e.n \in Nat /\ serial \in Nat
        BY <1>1, <2>1 DEF JobInv, TrailInv
      <4> QED BY SMTT(10), SMTT(20), <4>1, <4>2
    <3> QED BY <3>1 DEF Grown
  <2> QED BY ZenonT(30), <1>1, <1>3, <2>1, <2>2 DEF JobInv, Grown
<1> QED BY <1>2, <1>4, <1>5 DEF PurgeInv

\* A step of one job that removes no row.
LEMMA QuietJob ==
  ASSUME PurgeInv, NEW p \in Purges, PurgeTypes', JobInv(p)', UNCHANGED <<trailVars, taken>>,
         \A o \in Purges \ {p} :
            /\ UNCHANGED <<stage[o], before[o], doomed[o], owed[o]>>
            /\ alone'[o] => alone[o] /\ (stage[o] \in Deleting => stage'[p] \notin Deleting)
  PROVE  PurgeInv'
<1>1. UNCHANGED <<clock, audit, serial, purged>> /\ TrailInv
  BY DEF trailVars, PurgeInv, purged
<1>2. TrailInv'
  BY ZenonT(30), <1>1 DEF TrailInv
<1>3. ASSUME NEW o \in Purges, o # p PROVE JobInv(o)'
  <2>1. JobInv(o) /\ UNCHANGED <<stage[o], before[o], doomed[o], owed[o]>>
    BY <1>3 DEF PurgeInv
  <2>2. alone'[o] => alone[o] /\ (stage[o] \in Deleting => stage'[p] \notin Deleting)
    BY <1>3
  <2>3. alone'[o] /\ stage[o] \in Deleting =>
           \A q \in Purges \ {o} : stage'[q] \notin Deleting
    <3> SUFFICES ASSUME alone'[o], stage[o] \in Deleting, NEW q \in Purges \ {o}
                 PROVE  stage'[q] \notin Deleting
      OBVIOUS
    <3>1. CASE q = p
      BY ZenonT(30), <2>2, <3>1
    <3>2. CASE q # p
      BY <2>1, <2>2, <3>2 DEF JobInv
    <3> QED BY <3>1, <3>2
  <2> QED BY ZenonT(30), <1>1, <2>1, <2>2, <2>3 DEF JobInv
<1> QED BY ZenonT(30), <1>2, <1>3 DEF PurgeInv

LEMMA StartKeeps ==
  ASSUME PurgeInv, clock \in Nat, NEW p \in Purges, StartPurge(p)
  PROVE  PurgeInv'
<1>1. /\ PurgeTypes /\ JobInv(p) /\ stage[p] = "idle"
      /\ UNCHANGED <<doomed, owed, alone, taken, trailVars>>
      /\ stage' = [stage EXCEPT ![p] = "count"]
      /\ before' = [before EXCEPT ![p] = clock - AuditHorizon]
  BY DEF StartPurge, PurgeInv
<1>2. PurgeTypes' /\ stage'[p] = "count" /\ before'[p] = clock - AuditHorizon
  BY <1>1 DEF PurgeTypes, Stages
<1>3. before'[p] \in Int /\ before'[p] <= clock' - AuditHorizon
  <2>1. clock' = clock /\ clock \in Nat /\ AuditHorizon \in Nat
    BY ZenonT(30), <1>1, RetentionAssumption DEF trailVars
  <2>2. clock - AuditHorizon \in Int /\ clock - AuditHorizon <= clock - AuditHorizon
    BY SMTT(10), SMTT(20), <2>1
  <2> QED BY ZenonT(30), <1>2, <2>1, <2>2
<1>4. JobInv(p)'
  BY ZenonT(30), <1>1, <1>2, <1>3 DEF JobInv, Deleting, trailVars, purged
<1>5. \A o \in Purges \ {p} :
         /\ UNCHANGED <<stage[o], before[o], doomed[o], owed[o]>>
         /\ alone'[o] => alone[o] /\ (stage[o] \in Deleting => stage'[p] \notin Deleting)
  BY <1>1, <1>2 DEF PurgeTypes, Deleting
<1> QED BY ZenonT(30), <1>1, <1>2, <1>4, <1>5, QuietJob

\* Where a job goes from a count or a batch, and with which cutoff.
LEMMA ContinueTo ==
  ASSUME NEW p \in Purges, NEW more, PurgeTypes, Continue(p, more)
  PROVE  /\ stage' \in [Purges -> Stages]
         /\ before' = [q \in Purges |-> before'[q]]
         /\ \A o \in Purges \ {p} : UNCHANGED <<stage[o], before[o]>>
         /\ (stage'[p] = "batch" /\ before'[p] = before[p]) \/ stage'[p] = "stopped_early"
  BY DEF Continue, NextBatch, EndPurge, PurgeTypes, Stages, Deleting, Ended

LEMMA EndTo ==
  ASSUME NEW p \in Purges, NEW how \in Ended, PurgeTypes, EndPurge(p, how)
  PROVE  /\ stage' \in [Purges -> Stages]
         /\ before' = [q \in Purges |-> before'[q]]
         /\ \A o \in Purges \ {p} : UNCHANGED <<stage[o], before[o]>>
         /\ stage'[p] = how
  BY DEF EndPurge, PurgeTypes, Stages

LEMMA CountKeeps ==
  ASSUME PurgeInv, NEW p \in Purges, NEW dry \in BOOLEAN, NEW most, Count(p, dry, most)
  PROVE  PurgeInv'
<1> DEFINE found == Expired(audit, before[p])
<1>1. PurgeTypes /\ JobInv(p) /\ stage[p] = "count" /\ UNCHANGED <<doomed, taken, trailVars>>
  BY DEF Count, PurgeInv
<1>2. /\ stage' \in [Purges -> Stages]
      /\ before' = [q \in Purges |-> before'[q]]
      /\ \A o \in Purges \ {p} : UNCHANGED <<stage[o], before[o]>>
  <2>1. CASE dry \/ found = {}
    BY ZenonT(30), <1>1, <2>1, EndTo DEF Count, Ended
  <2>2. CASE ~(dry \/ found = {})
    BY ZenonT(30), <1>1, <2>2, ContinueTo DEF Count
  <2> QED BY <2>1, <2>2
<1>3. \/ stage'[p] \in Ended /\ (owed' = owed \/ owed' = [owed EXCEPT ![p] = found])
      \/ /\ stage'[p] = "batch" /\ before'[p] = before[p]
         /\ owed' = [owed EXCEPT ![p] = found]
  <2>1. CASE dry \/ found = {}
    BY ZenonT(30), <1>1, <2>1, EndTo DEF Count, Ended
  <2>2. CASE ~(dry \/ found = {})
    BY ZenonT(30), <1>1, <2>2, ContinueTo DEF Count, Ended
  <2> QED BY ZenonT(30), <2>1, <2>2
<1>4. alone' = [q \in Purges |->
          IF q = p THEN \A o \in Purges \ {p} : stage[o] \notin Deleting
          ELSE alone[q] /\ stage'[p] # "batch"]
  BY DEF Count
<1>5. PurgeTypes'
  BY <1>1, <1>2, <1>3, <1>4 DEF PurgeTypes
<1>6. owed'[p] = owed[p] \/ owed'[p] = found
  BY <1>1, <1>3 DEF PurgeTypes
<1>7. \A o \in Purges \ {p} :
         /\ UNCHANGED <<stage[o], before[o], doomed[o], owed[o]>>
         /\ alone'[o] => alone[o] /\ (stage[o] \in Deleting => stage'[p] \notin Deleting)
  <2>1. \A o \in Purges \ {p} : UNCHANGED owed[o]
    BY ZenonT(30), <1>1, <1>3 DEF PurgeTypes
  <2>2. stage'[p] \in Deleting => stage'[p] = "batch"
    BY <1>3 DEF Deleting, Ended
  <2>3. \A o \in Purges \ {p} : alone'[o] => alone[o] /\ stage'[p] # "batch"
    BY <1>4, ZenonT(30)
  <2> QED BY <1>1, <1>2, <2>1, <2>2, <2>3, ZenonT(30)
<1>8. JobInv(p)'
  <2>1. UNCHANGED <<clock, audit, purged>>
    BY ZenonT(30), <1>1 DEF trailVars, purged
  <2>2. found \subseteq audit /\ \A e \in found : e.at < before[p]
    BY DEF Expired
  <2>3. owed'[p] \subseteq audit' \cup purged'
    BY ZenonT(30), <1>1, <1>6, <2>1, <2>2 DEF JobInv
  <2>4. CASE stage'[p] \in Ended
    BY ZenonT(30), <2>3, <2>4 DEF JobInv, Deleting, Ended
  <2>5. CASE stage'[p] = "batch"
    <3>1. before'[p] = before[p] /\ owed'[p] = found
      BY <1>1, <1>3, <2>5 DEF Ended, PurgeTypes
    <3>2. before'[p] \in Int /\ before'[p] <= clock' - AuditHorizon
      BY ZenonT(30), <1>1, <2>1, <3>1 DEF JobInv
    <3>3. alone'[p] => \A o \in Purges \ {p} : stage'[o] \notin Deleting
      BY <1>2, <1>4
    <3> QED BY <2>2, <2>3, <2>5, <3>1, <3>2, <3>3 DEF JobInv
  <2> QED BY <1>3, <2>4, <2>5
<1> QED BY ZenonT(30), <1>1, <1>5, <1>7, <1>8, QuietJob

LEMMA SelectKeeps ==
  ASSUME PurgeInv, NEW p \in Purges, SelectBatch(p)
  PROVE  PurgeInv'
<1>1. /\ PurgeTypes /\ TrailInv /\ JobInv(p) /\ stage[p] = "batch"
      /\ UNCHANGED <<before, owed, alone, taken, trailVars>>
      /\ stage' = [stage EXCEPT ![p] = "deleting"]
  BY DEF SelectBatch, PurgeInv
<1>2. PICK d \in SUBSET audit :
         IsBatch(d, Expired(audit, before[p])) /\ doomed' = [doomed EXCEPT ![p] = d]
  BY ZenonT(30) DEF SelectBatch
<1>3. PurgeTypes' /\ stage'[p] = "deleting" /\ doomed'[p] = d
  BY <1>1, <1>2 DEF PurgeTypes, Stages, Deleting
<1>4. \A o \in Purges \ {p} :
         /\ UNCHANGED <<stage[o], before[o], doomed[o], owed[o]>>
         /\ alone'[o] => alone[o] /\ (stage[o] \in Deleting => stage'[p] \notin Deleting)
  <2> SUFFICES ASSUME NEW o \in Purges \ {p}
               PROVE  /\ UNCHANGED <<stage[o], before[o], doomed[o], owed[o]>>
                      /\ alone'[o] =>
                            alone[o] /\ (stage[o] \in Deleting => stage'[p] \notin Deleting)
    BY ZenonT(30)
  <2>1. UNCHANGED <<stage[o], before[o], doomed[o], owed[o], alone[o]>>
    BY <1>1, <1>2 DEF PurgeTypes
  <2>2. JobInv(o) /\ stage[p] \in Deleting
    BY <1>1 DEF PurgeInv, Deleting
  <2>3. alone[o] => stage[o] \notin Deleting
    BY <2>2 DEF JobInv
  <2> QED BY ZenonT(30), <2>1, <2>3
<1>5. JobInv(p)'
  <2>1. UNCHANGED <<clock, audit, purged>> /\ stage[p] \in Deleting
    BY <1>1 DEF trailVars, Deleting, purged
  <2>2. d \subseteq audit /\ \A e \in d : e.at < before[p]
    BY <1>2 DEF IsBatch, Expired
  <2>3. d = {} => owed[p] \cap audit = {}
    <3> SUFFICES ASSUME d = {} PROVE owed[p] \cap audit = {}
      OBVIOUS
    <3>1. IsFiniteSet(Expired(audit, before[p]))
      BY ZenonT(30), <1>1, FS_Subset DEF TrailInv, Expired
    <3>2. Expired(audit, before[p]) = {}
      BY <1>2, <3>1, EmptyBatch
    <3> QED BY ZenonT(30), <1>1, <2>1, <3>2 DEF JobInv, Expired
  <2>4. alone[p] => \A o \in Purges \ {p} : stage'[o] \notin Deleting
    BY ZenonT(30), <1>1, <1>4, <2>1 DEF JobInv
  <2>5. before'[p] \in Int /\ before'[p] <= clock' - AuditHorizon
    BY <1>1, <2>1 DEF JobInv
  <2>6. UNCHANGED <<before[p], owed[p], alone[p]>>
    BY <1>1
  <2>7. (\A e \in owed[p] : e.at < before[p]) /\ owed[p] \subseteq audit \cup purged
    BY <1>1, <2>1 DEF JobInv
  <2> QED BY <1>3, <2>1, <2>2, <2>3, <2>4, <2>5, <2>6, <2>7 DEF JobInv
<1> QED BY ZenonT(30), <1>1, <1>3, <1>4, <1>5, QuietJob

\* A batch ends: only rows its job was to delete are gone.
LEMMA RemoveKeeps ==
  ASSUME PurgeInv, TakenTyped, clock \in Nat, NEW p \in Purges, stage[p] = "deleting",
         NEW rows, rows \subseteq doomed[p] \cap audit, Remove(p, rows),
         stage' \in [Purges -> Stages],
         before' = [q \in Purges |-> before'[q]],
         \A o \in Purges \ {p} : UNCHANGED <<stage[o], before[o]>>,
         (stage'[p] = "batch" /\ before'[p] = before[p]) \/ stage'[p] \in Ended
  PROVE  PurgeInv'
<1>1. /\ PurgeTypes /\ TrailInv /\ JobInv(p) /\ stage[p] \in Deleting
      /\ audit' = audit \ rows /\ purged' = purged \cup rows
      /\ doomed' = [doomed EXCEPT ![p] = {}]
      /\ UNCHANGED <<clock, serial, owed, alone>>
  BY ZenonT(30), RemovedRows DEF PurgeInv, Remove, Deleting
<1>2. PurgeTypes'
  BY <1>1, ZenonT(30) DEF PurgeTypes
<1>3. audit' \cup purged' = audit \cup purged
  BY <1>1
<1>4. TrailInv'
  <2>1. IsFiniteSet(audit')
    BY <1>1, FS_Subset DEF TrailInv
  <2>2. ASSUME NEW e \in rows PROVE e.at < clock - AuditHorizon
    <3>1. e.at < before[p] /\ before[p] <= clock - AuditHorizon /\ before[p] \in Int
      BY <1>1 DEF JobInv
    <3>2. e.at \in Int /\ clock - AuditHorizon \in Int
      BY SMTT(10), SMTT(20), <1>1, RetentionAssumption DEF TrailInv
    <3> QED BY SMTT(10), SMTT(20), <3>1, <3>2
  <2>3. \A e \in purged' : e.at < clock' - AuditHorizon
    BY <1>1, <2>2 DEF TrailInv
  <2>4. \A e \in audit' \cup purged' : e.at \in Nat /\ e.n \in Nat /\ e.n < serial'
    BY ZenonT(30), <1>1, <1>3 DEF TrailInv
  <2> QED BY <1>1, <2>1, <2>3, <2>4 DEF TrailInv
<1>5. ASSUME NEW o \in Purges, o # p PROVE JobInv(o)'
  <2>1. JobInv(o) /\ UNCHANGED <<stage[o], before[o], doomed[o], owed[o], alone[o], clock>>
    BY ZenonT(30), <1>1, <1>5 DEF PurgeInv, PurgeTypes
  <2>2. ~(alone[o] /\ stage[o] \in Deleting)
    BY <1>1, <1>5, <2>1 DEF JobInv
  <2>3. ~(alone[o] /\ stage[o] = "deleting")
    BY <2>2 DEF Deleting
  <2> QED BY <1>3, <2>1, <2>2, <2>3 DEF JobInv
<1>6. JobInv(p)'
  <2>1. owed[p] \subseteq audit' \cup purged' /\ UNCHANGED <<owed[p], alone[p], clock>>
    BY <1>1, <1>3 DEF JobInv
  <2>2. CASE stage'[p] \in Ended
    BY ZenonT(30), <2>1, <2>2 DEF JobInv, Deleting, Ended
  <2>3. CASE stage'[p] = "batch"
    <3>1. before'[p] = before[p]
      BY <2>3 DEF Ended
    <3>2. alone[p] => \A o \in Purges \ {p} : stage'[o] \notin Deleting
      BY <1>1 DEF JobInv
    <3> QED BY <1>1, <2>1, <2>3, <3>1, <3>2 DEF JobInv
  <2> QED BY <2>2, <2>3
<1> QED BY <1>2, <1>4, <1>5, <1>6 DEF PurgeInv

LEMMA BatchKeeps ==
  ASSUME PurgeInv, TakenTyped, clock \in Nat, NEW p \in Purges, CommitBatch(p) \/ FailBatch(p)
  PROVE  PurgeInv'
<1>1. PurgeTypes /\ stage[p] = "deleting"
  BY ZenonT(30) DEF PurgeInv, CommitBatch, FailBatch
<1>2. PICK rows : rows \subseteq doomed[p] \cap audit /\ Remove(p, rows)
  BY ZenonT(30) DEF CommitBatch, FailBatch
<1>3. EndPurge(p, "done") \/ EndPurge(p, "failed") \/ Continue(p, left[p] - 1)
  BY DEF CommitBatch, FailBatch
<1>4. /\ stage' \in [Purges -> Stages]
      /\ before' = [q \in Purges |-> before'[q]]
      /\ \A o \in Purges \ {p} : UNCHANGED <<stage[o], before[o]>>
      /\ (stage'[p] = "batch" /\ before'[p] = before[p]) \/ stage'[p] \in Ended
  <2>1. CASE EndPurge(p, "done") \/ EndPurge(p, "failed")
    BY <1>1, <2>1, EndTo DEF Ended
  <2>2. CASE Continue(p, left[p] - 1)
    BY <1>1, <2>2, ContinueTo DEF Ended
  <2> QED BY <1>3, <2>1, <2>2
<1> QED BY ZenonT(30), <1>1, <1>2, <1>4, RemoveKeeps

LEMMA PurgeInitial == Init => PurgeInv
<1> SUFFICES ASSUME Init PROVE PurgeInv
  OBVIOUS
<1> USE DEF Init, TrailInit, PurgeInit
<1>1. PurgeTypes
  BY DEF PurgeTypes, Stages
<1>2. TrailInv
  BY FS_EmptySet DEF TrailInv, purged
<1>3. ASSUME NEW p \in Purges PROVE JobInv(p)
  BY DEF JobInv, Deleting
<1> QED BY <1>1, <1>2, <1>3 DEF PurgeInv

LEMMA PurgeStep == KeyInv /\ TakenTyped /\ PurgeInv /\ [Next]_vars => PurgeInv'
<1> SUFFICES ASSUME KeyInv, TakenTyped, PurgeInv, [Next]_vars PROVE PurgeInv'
  OBVIOUS
<1>1. clock \in Nat /\ began \in [Callers -> Nat] /\ TrailInv
  BY DEF KeyInv, KeyTypes, PurgeInv
<1>2. UNCHANGED <<audit, serial>> => Grown
  BY <1>1 DEF Grown, TrailInv
<1>3. CASE Tick /\ UNCHANGED <<keyVars, purgeVars>>
  BY SMTT(10), SMTT(20), <1>1, <1>2, <1>3, TrailGrows DEF Tick
<1>4. CASE Record /\ UNCHANGED <<keyVars, purgeVars>>
  BY SMTT(10), SMTT(20), <1>1, <1>4, InsertGrows, TrailGrows DEF Record
<1>5. CASE KeysNext /\ UNCHANGED purgeVars
  <2>1. ASSUME NEW c \in Callers, Commit(c) PROVE PurgeInv'
    <3>1. clock' = clock /\ (EraseRecorded(c) \/ UNCHANGED <<audit, serial>>)
      BY <2>1 DEF Commit
    <3>2. EraseRecorded(c) => Grown
      BY <1>1, InsertGrows DEF EraseRecorded
    <3> QED BY SMTT(10), SMTT(20), <1>1, <1>2, <1>5, <3>1, <3>2, TrailGrows
  <2>2. CASE UNCHANGED trailVars
    BY SMTT(10), SMTT(20), <1>1, <1>2, <1>5, <2>2, TrailGrows DEF trailVars
  <2>3. UNCHANGED trailVars \/ \E c \in Callers : Commit(c)
    BY <1>5 DEF KeysNext, Open, LockTenant, Encrypt, Erase, Submit, Stage, Refuse, Rollback,
                CompleteRun
  <2> QED BY <2>1, <2>2, <2>3
<1>6. CASE PurgeNext /\ UNCHANGED keyVars
  BY <1>1, <1>6, StartKeeps, CountKeeps, SelectKeeps, BatchKeeps DEF PurgeNext
<1>7. CASE UNCHANGED vars
  BY SMTT(10), SMTT(20), <1>1, <1>2, <1>7, TrailGrows DEF vars, trailVars
<1> QED BY <1>3, <1>4, <1>5, <1>6, <1>7 DEF Next
-----------------------------------------------------------------------------
(* What the jobs report. *)

\* What a job took is gone from the trail, no other job took it, and the job
\* has counted it unless the connection was lost.
JobAccounts(p) ==
    /\ deleted[p] \in Nat /\ IsFiniteSet(taken[p]) /\ taken[p] \cap audit = {}
    /\ deleted[p] <= Cardinality(taken[p])
    /\ stage[p] # "failed" => deleted[p] = Cardinality(taken[p])

AccountsInv ==
    /\ DOMAIN deleted = Purges
    /\ \A p \in Purges : JobAccounts(p)
    /\ \A p, q \in Purges : p # q => taken[p] \cap taken[q] = {}

\* Steps that delete nothing: a new row is none that was taken.
LEMMA QuietAccounts ==
  ASSUME PurgeInv, AccountsInv, UNCHANGED <<deleted, taken>>, Grown,
         \A p \in Purges : stage'[p] # "failed" => stage[p] # "failed"
  PROVE  AccountsInv'
<1>1. ASSUME NEW p \in Purges PROVE JobAccounts(p)'
  <2>1. taken[p] \cap audit' = {}
    <3> SUFFICES ASSUME NEW e \in taken[p], e \in audit' PROVE FALSE
      OBVIOUS
    <3>1. e \in audit' \ audit
      BY DEF AccountsInv, JobAccounts
    <3>2. e \in purged
      BY DEF purged
    <3>3. e.n < serial /\ e.n \in Nat /\ serial \in Nat
      BY <3>2 DEF PurgeInv, TrailInv
    <3>4. e.n = serial
      BY ZenonT(30), <3>1 DEF Grown
    <3> QED BY SMTT(10), SMTT(20), <3>3, <3>4
  <2> QED BY <2>1 DEF AccountsInv, JobAccounts
<1> QED BY <1>1 DEF AccountsInv

\* A batch ends: its rows are taken, and counted if the job hears of it.
LEMMA BatchAccounts ==
  ASSUME PurgeInv, TakenTyped, AccountsInv, NEW p \in Purges,
         NEW rows, rows \subseteq audit, Remove(p, rows),
         \A o \in Purges \ {p} : UNCHANGED stage[o], stage[p] # "failed",
         \/ deleted' = [deleted EXCEPT ![p] = @ + Cardinality(rows)]
         \/ deleted' = deleted /\ stage'[p] = "failed"
  PROVE  AccountsInv'
<1>1. /\ audit' = audit \ rows /\ taken'[p] = taken[p] \cup rows
      /\ \A o \in Purges \ {p} : taken'[o] = taken[o]
  BY ZenonT(30), RemovedRows DEF Remove
<1>2. /\ DOMAIN deleted' = Purges /\ \A o \in Purges \ {p} : deleted'[o] = deleted[o]
      /\ \/ deleted'[p] = deleted[p] + Cardinality(rows)
         \/ deleted'[p] = deleted[p] /\ stage'[p] = "failed"
  BY ZenonT(30) DEF AccountsInv
<1>3. ASSUME NEW o \in Purges, o # p PROVE JobAccounts(o)'
  BY ZenonT(30), <1>1, <1>2, <1>3 DEF AccountsInv, JobAccounts
<1>4. JobAccounts(p)'
  <2>1. /\ deleted[p] \in Nat /\ IsFiniteSet(taken[p]) /\ taken[p] \cap audit = {}
        /\ deleted[p] = Cardinality(taken[p])
    BY DEF AccountsInv, JobAccounts
  <2>2. IsFiniteSet(rows)
    BY FS_Subset DEF PurgeInv, TrailInv
  <2>3. taken[p] \cap rows = {}
    BY ZenonT(30), <2>1
  <2>4. /\ IsFiniteSet(taken'[p]) /\ Cardinality(rows) \in Nat
        /\ Cardinality(taken'[p]) = Cardinality(taken[p]) + Cardinality(rows)
    <3>1. /\ IsFiniteSet(taken[p] \cup rows)
          /\ Cardinality(taken[p] \cup rows) =
                Cardinality(taken[p]) + Cardinality(rows) - Cardinality(taken[p] \cap rows)
      BY ZenonT(30), <2>1, <2>2, FS_Union
    <3>2. Cardinality(taken[p] \cap rows) = 0
      BY ZenonT(30), <2>3, FS_EmptySet
    <3>3. Cardinality(taken[p]) \in Nat /\ Cardinality(rows) \in Nat
      BY ZenonT(30), <2>1, <2>2, FS_CardinalityType
    <3> QED BY SMTT(10), SMTT(20), <1>1, <3>1, <3>2, <3>3
  <2>5. taken'[p] \cap audit' = {}
    BY ZenonT(30), <1>1, <2>1
  <2>6. /\ deleted'[p] \in Nat /\ deleted'[p] <= Cardinality(taken'[p])
        /\ stage'[p] # "failed" => deleted'[p] = Cardinality(taken'[p])
    BY SMTT(10), SMTT(20), <1>2, <2>1, <2>4
  <2> QED BY ZenonT(30), <2>4, <2>5, <2>6 DEF JobAccounts
<1>5. \A o, q \in Purges : o # q => taken'[o] \cap taken'[q] = {}
  <2>1. \A o \in Purges : taken[o] \cap rows = {}
    BY DEF AccountsInv, JobAccounts
  <2>2. \A o, q \in Purges : o # q => taken[o] \cap taken[q] = {}
    BY DEF AccountsInv
  <2> QED BY ZenonT(30), <1>1, <2>1, <2>2
<1> QED BY <1>2, <1>3, <1>4, <1>5 DEF AccountsInv

LEMMA AccountsStep ==
  KeyInv /\ TakenTyped /\ PurgeInv /\ AccountsInv /\ [Next]_vars => AccountsInv'
<1> SUFFICES ASSUME KeyInv, TakenTyped, PurgeInv, AccountsInv, [Next]_vars PROVE AccountsInv'
  OBVIOUS
<1>1. began \in [Callers -> Nat] /\ clock \in Nat /\ TrailInv /\ PurgeTypes
  BY DEF KeyInv, KeyTypes, PurgeInv
<1>2. UNCHANGED <<audit, serial>> => Grown
  BY <1>1 DEF Grown, TrailInv
<1>3. ASSUME UNCHANGED purgeVars, Grown PROVE AccountsInv'
  BY <1>3, QuietAccounts DEF purgeVars
<1>4. CASE (Tick \/ Record) /\ UNCHANGED <<keyVars, purgeVars>>
  BY <1>1, <1>2, <1>3, <1>4, InsertGrows DEF Tick, Record
<1>5. CASE KeysNext /\ UNCHANGED purgeVars
  <2>1. ASSUME NEW c \in Callers, Commit(c) PROVE Grown
    BY <1>1, <1>2, <2>1, InsertGrows DEF Commit, EraseRecorded
  <2>2. UNCHANGED trailVars \/ \E c \in Callers : Commit(c)
    BY <1>5 DEF KeysNext, Open, LockTenant, Encrypt, Erase, Submit, Stage, Refuse, Rollback,
                CompleteRun
  <2> QED BY <1>2, <1>3, <1>5, <2>1, <2>2 DEF trailVars
<1>6. ASSUME NEW p \in Purges, StartPurge(p) PROVE AccountsInv'
  <2>1. \A o \in Purges : stage'[o] # "failed" => stage[o] # "failed"
    BY <1>1, <1>6 DEF StartPurge, PurgeTypes
  <2> QED BY <1>2, <1>6, <2>1, QuietAccounts DEF StartPurge, trailVars
<1>7. ASSUME NEW p \in Purges, NEW dry \in BOOLEAN, NEW most, Count(p, dry, most) PROVE AccountsInv'
  <2>1. \A o \in Purges \ {p} : UNCHANGED stage[o]
    BY ZenonT(30), <1>1, <1>7, ContinueTo, EndTo DEF Count, Ended
  <2>2. UNCHANGED <<audit, serial, deleted, taken>> /\ stage[p] = "count"
    BY ZenonT(30), <1>7 DEF Count, trailVars
  <2> QED BY ZenonT(30), <1>2, <2>1, <2>2, QuietAccounts
<1>8. ASSUME NEW p \in Purges, SelectBatch(p) PROVE AccountsInv'
  <2>1. \A o \in Purges : stage'[o] # "failed" => stage[o] # "failed"
    BY <1>1, <1>8 DEF SelectBatch, PurgeTypes
  <2> QED BY <1>2, <1>8, <2>1, QuietAccounts DEF SelectBatch, trailVars
<1>9. ASSUME NEW p \in Purges, CommitBatch(p) \/ FailBatch(p) PROVE AccountsInv'
  <2>1. stage[p] = "deleting"
    BY ZenonT(30), <1>9 DEF CommitBatch, FailBatch
  <2>2. \A o \in Purges \ {p} : UNCHANGED stage[o]
    BY <1>1, <1>9, ContinueTo, EndTo DEF CommitBatch, FailBatch, Ended
  <2>3. CASE CommitBatch(p)
    <3>1. /\ Remove(p, doomed[p] \cap audit)
          /\ deleted' = [deleted EXCEPT ![p] = @ + Cardinality(doomed[p] \cap audit)]
      BY ZenonT(30), <2>3 DEF CommitBatch, RowCount
    <3> QED BY ZenonT(30), <2>1, <2>2, <3>1, BatchAccounts
  <2>4. CASE FailBatch(p)
    <3>1. deleted' = deleted /\ EndPurge(p, "failed")
      BY <2>4 DEF FailBatch
    <3>2. stage'[p] = "failed"
      BY <1>1, <3>1, EndTo DEF Ended
    <3>3. \E rows : rows \subseteq audit /\ Remove(p, rows)
      BY <2>4 DEF FailBatch
    <3> QED BY ZenonT(30), <2>1, <2>2, <3>1, <3>2, <3>3, BatchAccounts
  <2> QED BY <1>9, <2>3, <2>4
<1>10. CASE UNCHANGED vars
  BY <1>2, <1>3, <1>10 DEF vars, trailVars
<1> QED BY <1>4, <1>5, <1>6, <1>7, <1>8, <1>9, <1>10 DEF Next, PurgeNext

\* However jobs overlap, fail or are cut short, and whatever date a row is
\* inserted with: only expired rows were ever deleted, each by one job, which
\* counts it once if it hears of the commit.
\* (purge_batch and purge_expired_audit_events, audit_retention.py.)
THEOREM PurgesAccounted == Spec => []PurgeAccounts
<1>1. Init => AccountsInv
  <2>1. Cardinality({}) = 0 /\ IsFiniteSet({})
    BY FS_EmptySet
  <2> QED BY SMTT(10), SMTT(20), <2>1 DEF Init, PurgeInit, AccountsInv, JobAccounts
<1>2. PurgeInv /\ AccountsInv => PurgeAccounts
  BY DEF PurgeInv, TrailInv, AccountsInv, JobAccounts, PurgeAccounts
<1> QED BY <1>1, <1>2, KeyInvariant, PurgeInitial, PurgeStep, AccountsStep, PTL DEF Spec

\* A job that met an empty batch, and no other job on the way, has deleted all
\* that it counted as expired, whatever rows came in meanwhile.
\* (purge_expired_audit_events, audit_retention.py.)
THEOREM PurgesDrain == Spec => PurgeDrains
<1>1. PurgeInv /\ [Next]_vars => [\A p \in Purges :
         stage[p] = "deleting" /\ stage'[p] = "done" /\ alone[p] =>
             owed[p] \cap audit' = {}]_<<trailVars, purgeVars>>
  <2> SUFFICES ASSUME PurgeInv, [Next]_vars, NEW p \in Purges,
                      stage[p] = "deleting", stage'[p] = "done", alone[p]
               PROVE  owed[p] \cap audit' = {}
    OBVIOUS
  <2>1. PurgeTypes /\ TrailInv /\ JobInv(p)
    BY DEF PurgeInv
  <2>2. stage' # stage
    OBVIOUS
  <2>3. PurgeNext
    BY ZenonT(30), <2>2 DEF Next, vars, purgeVars
  <2>4. PICK q \in Purges : \/ StartPurge(q)
                            \/ \E dry \in BOOLEAN, most \in BatchLimits \cup {NoLimit} : Count(q, dry, most)
                            \/ SelectBatch(q) \/ CommitBatch(q) \/ FailBatch(q)
    BY <2>3 DEF PurgeNext
  <2>5. q = p
    <3> SUFFICES ASSUME q # p PROVE stage'[p] = stage[p]
      OBVIOUS
    <3>1. \E label : stage' = [stage EXCEPT ![q] = label]
      BY <2>4, ZenonT(30) DEF StartPurge, Count, SelectBatch, CommitBatch, FailBatch, Continue,
                  NextBatch, EndPurge
    <3> QED BY ZenonT(30), <2>1, <3>1 DEF PurgeTypes
  <2>6. CommitBatch(p) \/ FailBatch(p)
    BY <2>4, <2>5, ZenonT(30) DEF StartPurge, Count, SelectBatch
  <2>7. ~FailBatch(p)
    <3> SUFFICES ASSUME FailBatch(p) PROVE stage'[p] = "failed"
      BY ZenonT(30)
    <3> QED BY <2>1 DEF FailBatch, EndPurge, PurgeTypes
  <2>8. RowCount(doomed[p]) = 0 /\ audit' = audit \ (doomed[p] \cap audit)
    <3>1. Continue(p, left[p] - 1) => stage'[p] # "done"
      BY ZenonT(30), <2>1, ContinueTo
    <3> QED BY ZenonT(30), <2>6, <2>7, <3>1 DEF CommitBatch, Remove
  <2>9. doomed[p] \cap audit = {}
    <3>1. IsFiniteSet(doomed[p] \cap audit)
      BY ZenonT(30), <2>1, FS_Subset DEF TrailInv
    <3> QED BY <2>8, <3>1, FS_EmptySet DEF RowCount
  <2>10. owed[p] \cap audit = {}
    BY <2>1, <2>9 DEF JobInv
  <2> QED BY <2>8, <2>10
<1> QED BY <1>1, KeyInvariant, PurgeInitial, PurgeStep, PTL DEF Spec, PurgeDrains
=============================================================================
