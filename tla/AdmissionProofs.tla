-------------------------- MODULE AdmissionProofs ---------------------------
(***************************************************************************)
(* Proofs about Admission, for any calls, identities and limits: its locks *)
(* never deadlock, and what a call checks under them, its quotas, its key  *)
(* and the tenant's budget, still holds when it writes.                    *)
(***************************************************************************)
EXTENDS Admission, FiniteSetTheorems, TLAPS

InTransaction(x) == pc[x] \notin {"new", "locking", "done"}

-----------------------------------------------------------------------------
(* Locks *)

\* The locks of a call, by name.
OwnLocks(x) ==
    {PrincipalScope(x), TenantScope(x)} \cup (IF x \in Creating THEN {} ELSE {RowLock(Target[x])})

\* A call takes its locks in order and stays in "locking" until it has the last.
LockInv ==
    /\ \A l \in Locks : holder[l] # NoCall => l \in OwnLocks(holder[l])
    /\ \A x \in Calls : holder[TenantScope(x)] = x => holder[PrincipalScope(x)] = x
    /\ \A x \in Calls \ Creating :
          holder[RowLock(Target[x])] = x => holder[TenantScope(x)] = x
    /\ \A x \in Calls : pc[x] = "locking" => \E l \in OwnLocks(x) : holder[l] # x

\* The columns and locals that TypeOK leaves out.
LocalsTyped ==
    /\ seen = [x \in Calls |-> seen[x]]
    /\ \A x \in Calls :
          /\ seen[x].window \in 0..MaxWindow
          /\ \A s \in ScopesOf(x) : seen[x].spent[s] \in Nat
    /\ asked = [x \in Calls |-> asked[x]]
    /\ hash = [x \in Creating |-> hash[x]]

-----------------------------------------------------------------------------
(* Lemmas on locks *)

\* A charge is booked in its window.
LEMMA Booking ==
    ASSUME NEW f \in [0..MaxWindow -> Nat], NEW w \in 0..MaxWindow
    PROVE  [f EXCEPT ![w] = @ + 1] \in [0..MaxWindow -> Nat]
<1>1. f[w] + 1 \in Nat
  BY SMTT(10), SMTT(20)
<1> QED
  BY <1>1

LEMMA LockNames ==
    ASSUME NEW x \in Calls
    PROVE  /\ PrincipalScope(x) \in Locks /\ TenantScope(x) \in Locks
           /\ x \notin Creating => RowLock(Target[x]) \in Locks
           /\ OwnLocks(x) \subseteq Locks
           /\ ScopesOf(x) \subseteq OwnLocks(x) /\ ScopesOf(x) \subseteq Scopes
<1>1. ScopesOf(x) \subseteq Scopes
  BY DEF Scopes
<1>2. x \notin Creating => Target[x] \in Creating
  BY TargetAssumption DEF Creating
<1> QED
  BY <1>1, <1>2 DEF Locks, ScopesOf, OwnLocks

\* Locks of different levels differ, and a lock names what it locks.
LEMMA LockLevels ==
    ASSUME NEW x \in Calls, NEW y \in Calls
    PROVE  /\ PrincipalScope(x) # TenantScope(y)
           /\ PrincipalScope(x) # RowLock(Target[y])
           /\ TenantScope(x) # RowLock(Target[y])
           /\ PrincipalScope(x) = PrincipalScope(y) => Principal[x] = Principal[y]
           /\ TenantScope(x) = TenantScope(y) => Tenant[x] = Tenant[y]
           /\ RowLock(Target[x]) = RowLock(Target[y]) => Target[x] = Target[y]
BY DEF PrincipalScope, TenantScope, RowLock

\* A sequence of locks, as its set.
LEMMA SequenceOfLocks ==
    ASSUME NEW x \in Calls
    PROVE  /\ DOMAIN LockSequence(x) = 1..Len(LockSequence(x))
           /\ Len(LockSequence(x)) = IF x \in Creating THEN 2 ELSE 3
           /\ LockSequence(x)[1] = PrincipalScope(x)
           /\ LockSequence(x)[2] = TenantScope(x)
           /\ x \notin Creating => LockSequence(x)[3] = RowLock(Target[x])
<1>1. CASE x \in Creating
  <2>1. LockSequence(x) = <<PrincipalScope(x), TenantScope(x)>>
    BY <1>1 DEF LockSequence
  <2> QED
    BY SMTT(10), SMTT(20), <1>1, <2>1
<1>2. CASE x \notin Creating
  <2>1. LockSequence(x) = <<PrincipalScope(x), TenantScope(x), RowLock(Target[x])>>
    BY <1>2 DEF LockSequence
  <2> QED
    BY SMTT(10), SMTT(20), <1>2, <2>1
<1> QED
  BY <1>1, <1>2

LEMMA AllOfSequence ==
    ASSUME NEW x \in Calls
    PROVE  (\A i \in DOMAIN LockSequence(x) : holder[LockSequence(x)[i]] = x)
               <=> \A l \in OwnLocks(x) : holder[l] = x
<1>1. CASE x \in Creating
  BY SMTT(10), SMTT(20), <1>1, SequenceOfLocks DEF OwnLocks
<1>2. CASE x \notin Creating
  BY SMTT(10), SMTT(20), <1>2, SequenceOfLocks DEF OwnLocks
<1> QED
  BY <1>1, <1>2

-----------------------------------------------------------------------------
(* The locks are taken and released in order *)

Counts == {"count principal", "count tenant", "check budget", "commit"}

PcLabels ==
    {"new", "locking", "begin", "count principal", "count tenant", "check budget",
     "commit", "done"}

\* TypeOK and LockInv on the variables of calls and locks.
LocksOK ==
    /\ pc \in [Calls -> PcLabels]
    /\ reply \in [Calls -> Answers]
    /\ holder \in [Locks -> Calls \cup {NoCall}]
    /\ \A l \in Locks : holder[l] # NoCall => pc[holder[l]] \notin {"new", "done"}
    /\ \A x \in Calls : InTransaction(x) => \A l \in OwnLocks(x) : holder[l] = x
    /\ LockInv

RowsTyped ==
    /\ status \in [Creating -> {"ABSENT", "QUEUED", "RUNNING", "RETRY_SCHEDULED", "ENDED"}]
    /\ used \in [Scopes -> Nat]
    /\ windowOf \in [Scopes -> 0..MaxWindow]
    /\ booked \in [Scopes -> [0..MaxWindow -> Nat]]
    /\ clock \in 0..MaxWindow
    /\ server \in 0..MaxVersion
    /\ LocalsTyped

LEMMA TypesOfParts == TypeOK /\ LockInv /\ LocalsTyped <=> LocksOK /\ RowsTyped
<1>1. (\A x \in Calls : InTransaction(x) => \A l \in OwnLocks(x) : holder[l] = x)
        <=> \A x \in Calls : pc[x] \notin {"new", "locking", "done"} =>
                \A i \in DOMAIN LockSequence(x) : holder[LockSequence(x)[i]] = x
  BY AllOfSequence DEF InTransaction
<1> QED
  BY ZenonT(30), <1>1 DEF TypeOK, LocksOK, RowsTyped, PcLabels

LEMMA AnswerReleases ==
    ASSUME LocksOK, NEW x \in Calls, NEW answer \in Answers, Answer(x, answer)
    PROVE  LocksOK'
<1>1. x # NoCall
  BY CallsAssumption
<1>2. \A l \in Locks : holder'[l] # x /\ holder'[l] \in {holder[l], NoCall}
  BY <1>1 DEF Answer, LocksOK
<1>3. /\ pc' \in [Calls -> PcLabels] /\ reply' \in [Calls -> Answers]
      /\ holder' \in [Locks -> Calls \cup {NoCall}]
  BY ZenonT(30) DEF Answer, LocksOK, PcLabels
<1>4. /\ pc'[x] = "done"
      /\ \A y \in Calls \ {x} : pc'[y] = pc[y]
  BY DEF Answer, LocksOK
<1>5. \A y \in Calls \ {x} : \A l \in Locks : holder'[l] = y <=> holder[l] = y
  BY SMTT(10), SMTT(20), CallsAssumption DEF Answer, LocksOK
<1>6. \A l \in Locks : holder'[l] # NoCall => pc'[holder'[l]] \notin {"new", "done"}
  BY <1>2, <1>4 DEF LocksOK
<1>7. \A y \in Calls : InTransaction(y)' => \A l \in OwnLocks(y) : holder'[l] = y
  BY <1>4, <1>5, LockNames DEF LocksOK, InTransaction
<1>8. LockInv'
  <2>1. \A l \in Locks : holder'[l] # NoCall => l \in OwnLocks(holder'[l])
    BY <1>2 DEF LocksOK, LockInv
  <2>2. \A y \in Calls : holder'[TenantScope(y)] = y => holder'[PrincipalScope(y)] = y
    BY <1>2, <1>5, LockNames DEF LocksOK, LockInv
  <2>3. \A y \in Calls \ Creating :
            holder'[RowLock(Target[y])] = y => holder'[TenantScope(y)] = y
    BY <1>2, <1>5, LockNames DEF LocksOK, LockInv
  <2>4. \A y \in Calls : pc'[y] = "locking" => \E l \in OwnLocks(y) : holder'[l] # y
    BY <1>4, <1>5, LockNames DEF LocksOK, LockInv
  <2> QED
    BY <2>1, <2>2, <2>3, <2>4 DEF LockInv, OwnLocks, PrincipalScope, TenantScope, RowLock
<1> QED
  BY <1>3, <1>6, <1>7, <1>8 DEF LocksOK, InTransaction, OwnLocks, PrincipalScope, TenantScope,
     RowLock

LEMMA GotoKeepsLocks ==
    ASSUME LocksOK, NEW x \in Calls, InTransaction(x), NEW label \in PcLabels,
           label \notin {"new", "locking", "done"}, Goto(x, label)
    PROVE  LocksOK'
<1>1. /\ pc' \in [Calls -> PcLabels] /\ reply' = reply /\ holder' = holder
      /\ pc'[x] = label
      /\ \A y \in Calls \ {x} : pc'[y] = pc[y]
  BY DEF Goto, LocksOK
<1>2. \A y \in Calls : pc'[y] \in {"new", "locking", "done"} <=> pc[y] \in {"new", "locking", "done"}
  BY <1>1 DEF InTransaction
<1>3. \A y \in Calls : pc'[y] \in {"new", "done"} => pc'[y] = pc[y]
  BY <1>1
<1>4. \A y \in Calls : pc'[y] = "locking" => pc[y] = "locking"
  BY <1>1
<1> QED
  BY SMTT(10), SMTT(20), <1>1, <1>2, <1>3, <1>4, LockNames DEF LocksOK, LockInv, InTransaction, OwnLocks

LEMMA ArriveKeepsLocks ==
    ASSUME LocksOK, NEW x \in Calls, Arrive(x)
    PROVE  LocksOK'
<1>1. /\ pc' \in [Calls -> PcLabels] /\ reply' = reply /\ holder' = holder
      /\ pc[x] = "new" /\ pc'[x] = "locking"
      /\ \A y \in Calls \ {x} : pc'[y] = pc[y]
  BY ZenonT(30) DEF Arrive, Goto, LocksOK, PcLabels
<1>2. PrincipalScope(x) \in OwnLocks(x) /\ holder[PrincipalScope(x)] # x
  BY SMTT(10), SMTT(20), <1>1, LockNames, CallsAssumption DEF LocksOK, OwnLocks
<1> QED
  BY SMTT(10), SMTT(20), <1>1, <1>2, LockNames DEF LocksOK, LockInv, InTransaction, OwnLocks

\* What Acquire does, lock by lock.
LEMMA AcquireTakesNext ==
    ASSUME LocksOK, NEW x \in Calls, Acquire(x)
    PROVE  \E l \in OwnLocks(x) :
              /\ holder[l] = NoCall
              /\ holder' = [holder EXCEPT ![l] = x]
              /\ l = TenantScope(x) => holder[PrincipalScope(x)] = x
              /\ x \notin Creating /\ l = RowLock(Target[x]) =>
                    holder[TenantScope(x)] = x /\ holder[PrincipalScope(x)] = x
              /\ pc' = IF IF x \in Creating THEN l = TenantScope(x) ELSE l = RowLock(Target[x])
                       THEN [pc EXCEPT ![x] = "begin"] ELSE pc
<1>1. PICK i \in DOMAIN LockSequence(x) :
         /\ holder[LockSequence(x)[i]] = NoCall
         /\ \A j \in 1..(i - 1) : holder[LockSequence(x)[j]] = x
         /\ holder' = [holder EXCEPT ![LockSequence(x)[i]] = x]
         /\ pc' = IF i = Len(LockSequence(x)) THEN [pc EXCEPT ![x] = "begin"] ELSE pc
  BY ZenonT(30) DEF Acquire
<1>2. i \in 1..(IF x \in Creating THEN 2 ELSE 3)
  BY SequenceOfLocks
<1>3. CASE i = 1
  <2>1. LockSequence(x)[i] = PrincipalScope(x) /\ i # Len(LockSequence(x))
    BY SMTT(10), SMTT(20), <1>3, SequenceOfLocks
  <2>2. /\ PrincipalScope(x) \in OwnLocks(x) /\ PrincipalScope(x) # TenantScope(x)
        /\ PrincipalScope(x) # RowLock(Target[x])
    BY LockLevels DEF OwnLocks
  <2>3. /\ holder[PrincipalScope(x)] = NoCall /\ pc' = pc
        /\ holder' = [holder EXCEPT ![PrincipalScope(x)] = x]
    BY <1>1, <2>1
  <2> QED
    BY ZenonT(30), <2>2, <2>3
<1>4. CASE i = 2
  <2>1. /\ LockSequence(x)[i] = TenantScope(x)
        /\ i = Len(LockSequence(x)) <=> x \in Creating
    BY SMTT(10), SMTT(20), <1>4, SequenceOfLocks
  <2>2. 1 \in 1..(i - 1) /\ LockSequence(x)[1] = PrincipalScope(x)
    BY SMTT(10), SMTT(20), <1>4, SequenceOfLocks
  <2>3. holder[PrincipalScope(x)] = x
    BY <1>1, <2>2
  <2> QED
    BY ZenonT(30), <1>1, <2>1, <2>3, LockLevels DEF OwnLocks
<1>5. CASE i = 3
  <2>1. /\ x \notin Creating /\ LockSequence(x)[i] = RowLock(Target[x])
        /\ i = Len(LockSequence(x))
    BY SMTT(10), SMTT(20), <1>2, <1>5, SequenceOfLocks
  <2>2. /\ 1 \in 1..(i - 1) /\ LockSequence(x)[1] = PrincipalScope(x)
        /\ 2 \in 1..(i - 1) /\ LockSequence(x)[2] = TenantScope(x)
    BY SMTT(10), SMTT(20), <1>5, SequenceOfLocks
  <2>3. holder[PrincipalScope(x)] = x /\ holder[TenantScope(x)] = x
    BY <1>1, <2>2
  <2> QED
    BY ZenonT(30), <1>1, <2>1, <2>3, LockLevels DEF OwnLocks
<1> QED
  BY SMTT(10), SMTT(20), <1>2, <1>3, <1>4, <1>5

LEMMA AcquireKeepsLocks ==
    ASSUME LocksOK, NEW x \in Calls, Acquire(x)
    PROVE  LocksOK'
<1>1. PICK l \in OwnLocks(x) :
         /\ holder[l] = NoCall
         /\ holder' = [holder EXCEPT ![l] = x]
         /\ l = TenantScope(x) => holder[PrincipalScope(x)] = x
         /\ x \notin Creating /\ l = RowLock(Target[x]) =>
               holder[TenantScope(x)] = x /\ holder[PrincipalScope(x)] = x
         /\ pc' = IF IF x \in Creating THEN l = TenantScope(x) ELSE l = RowLock(Target[x])
                  THEN [pc EXCEPT ![x] = "begin"] ELSE pc
  BY AcquireTakesNext
<1>2. pc[x] = "locking" /\ reply' = reply /\ x # NoCall
  BY CallsAssumption DEF Acquire
<1>3. /\ holder'[l] = x
      /\ \A k \in Locks \ {l} : holder'[k] = holder[k]
      /\ holder' \in [Locks -> Calls \cup {NoCall}]
  BY <1>1, LockNames DEF LocksOK
<1>4. /\ pc' \in [Calls -> PcLabels]
      /\ pc'[x] \in {"locking", "begin"}
      /\ \A y \in Calls \ {x} : pc'[y] = pc[y]
  BY ZenonT(30), <1>1, <1>2 DEF LocksOK, PcLabels
<1>5. pc'[x] = "begin" => \A k \in OwnLocks(x) : holder'[k] = x
  BY <1>1, <1>2, <1>3, LockNames DEF OwnLocks, LocksOK
<1>6. pc'[x] = "locking" => \E k \in OwnLocks(x) : holder'[k] # x
  <2> SUFFICES ASSUME pc'[x] = "locking" PROVE \E k \in OwnLocks(x) : holder'[k] # x
    OBVIOUS
  <2>1. ~(IF x \in Creating THEN l = TenantScope(x) ELSE l = RowLock(Target[x]))
    BY <1>1 DEF LocksOK
  <2>2. CASE l = PrincipalScope(x)
    <3>1. holder[TenantScope(x)] # x
      BY <1>1, <1>2, <2>2 DEF LocksOK, LockInv
    <3> QED
      BY SMTT(10), SMTT(20), <1>3, <2>2, <3>1, LockLevels, LockNames DEF OwnLocks
  <2>3. CASE l = TenantScope(x) /\ x \notin Creating
    <3>1. holder[RowLock(Target[x])] # x
      BY <1>1, <1>2, <2>3 DEF LocksOK, LockInv
    <3> QED
      BY <1>3, <2>3, <3>1, LockLevels, LockNames DEF OwnLocks
  <2>4. l = PrincipalScope(x) \/ l = TenantScope(x) \/ (x \notin Creating /\ l = RowLock(Target[x]))
    BY DEF OwnLocks
  <2> QED
    BY <2>1, <2>2, <2>3, <2>4
<1>7. \A k \in Locks : holder'[k] # NoCall => pc'[holder'[k]] \notin {"new", "done"}
  BY <1>3, <1>4 DEF LocksOK
<1>8. \A y \in Calls : InTransaction(y)' => \A k \in OwnLocks(y) : holder'[k] = y
  <2> SUFFICES ASSUME NEW y \in Calls, InTransaction(y)'
               PROVE  \A k \in OwnLocks(y) : holder'[k] = y
    OBVIOUS
  <2>1. CASE y = x
    BY <1>4, <1>5, <2>1 DEF InTransaction
  <2>2. CASE y # x
    <3>1. \A k \in OwnLocks(y) : holder[k] = y
      BY <1>4, <2>2 DEF InTransaction, LocksOK
    <3>2. l \notin OwnLocks(y)
      BY <1>1, <3>1, CallsAssumption
    <3> QED
      BY <1>3, <3>1, <3>2, LockNames
  <2> QED
    BY <2>1, <2>2
<1>9. \A k \in Locks : holder'[k] # NoCall => k \in OwnLocks(holder'[k])
  BY <1>1, <1>3 DEF LocksOK, LockInv
<1>10. \A y \in Calls \ {x} : \A k \in Locks : holder'[k] = y <=> holder[k] = y
  BY <1>1, <1>3, CallsAssumption
<1>11. \A y \in Calls : holder'[TenantScope(y)] = y => holder'[PrincipalScope(y)] = y
  <2> SUFFICES ASSUME NEW y \in Calls, holder'[TenantScope(y)] = y
               PROVE  holder'[PrincipalScope(y)] = y
    OBVIOUS
  <2>1. CASE y = x
    BY <1>1, <1>3, <2>1, LockNames DEF LocksOK, LockInv
  <2>2. CASE y # x
    BY <1>10, <2>2, LockNames DEF LocksOK, LockInv
  <2> QED
    BY <2>1, <2>2
<1>12. \A y \in Calls \ Creating :
           holder'[RowLock(Target[y])] = y => holder'[TenantScope(y)] = y
  <2> SUFFICES ASSUME NEW y \in Calls \ Creating, holder'[RowLock(Target[y])] = y
               PROVE  holder'[TenantScope(y)] = y
    OBVIOUS
  <2>1. CASE y = x
    BY <1>1, <1>3, <2>1, LockNames DEF LocksOK, LockInv
  <2>2. CASE y # x
    BY <1>10, <2>2, LockNames DEF LocksOK, LockInv
  <2> QED
    BY <2>1, <2>2
<1>13. \A y \in Calls : pc'[y] = "locking" => \E k \in OwnLocks(y) : holder'[k] # y
  BY <1>4, <1>6, <1>10, LockNames DEF LocksOK, LockInv
<1> QED
  BY <1>2, <1>3, <1>4, <1>7, <1>8, <1>9, <1>11, <1>12, <1>13
     DEF LocksOK, LockInv, InTransaction, OwnLocks, PrincipalScope, TenantScope, RowLock

\* A statement of a transaction answers the call or leads to the next one.
LEMMA ProceedShape ==
    ASSUME NEW x \in Calls, Proceed(x)
    PROVE  /\ InTransaction(x)
           /\ \/ \E answer \in Answers : Answer(x, answer)
              \/ \E label \in Counts : Goto(x, label)
<1>1. CASE FindExisting(x)
  <2>1. \A r \in Creating : MatchOrRaise(x, r) \in Answers
    BY DEF MatchOrRaise, Answers
  <2>2. \A r \in Existing(x) : r \in Creating
    BY DEF Existing
  <2>3. "not_found" \in Answers /\ "count principal" \in Counts
    BY DEF Answers, Counts
  <2> QED
    BY ZenonT(30), <1>1, <2>1, <2>2, <2>3 DEF FindExisting, InTransaction
<1>2. CASE ReadRun(x)
  BY ZenonT(30), <1>2 DEF ReadRun, InTransaction, Answers, Counts
<1>3. CASE ReadCounters(x)
  BY ZenonT(30), <1>3 DEF ReadCounters, InTransaction, Answers, Counts
<1>4. ASSUME OverQuota(x) PROVE \E answer \in Answers : Answer(x, answer)
  BY <1>4 DEF OverQuota, Answers
<1>5. CASE CountPrincipal(x)
  BY ZenonT(30), <1>4, <1>5 DEF CountPrincipal, Continue, InTransaction, Counts
<1>6. CASE CountTenant(x)
  BY ZenonT(30), <1>4, <1>6 DEF CountTenant, Continue, InTransaction, Counts
<1>7. CASE CheckProviderBudget(x)
  BY ZenonT(30), <1>4, <1>7 DEF CheckProviderBudget, Continue, InTransaction, Counts
<1>8. CASE Insert(x)
  BY <1>8 DEF Insert, InTransaction, Answers
<1>9. CASE Start(x)
  BY <1>9 DEF Start, InTransaction, Answers
<1>10. CASE Charge(x)
  BY <1>10 DEF Charge, InTransaction, Answers
<1> QED
  BY <1>1, <1>2, <1>3, <1>5, <1>6, <1>7, <1>8, <1>9, <1>10 DEF Proceed

LEMMA LocksStep == LocksOK /\ [Next]_vars => LocksOK'
<1> SUFFICES ASSUME LocksOK, [Next]_vars PROVE LocksOK'
  OBVIOUS
<1>1. ASSUME UNCHANGED callVars PROVE LocksOK'
  BY <1>1 DEF LocksOK, LockInv, callVars, InTransaction, OwnLocks
<1>2. ASSUME NEW x \in Calls, Proceed(x) PROVE LocksOK'
  <2>1. \A label \in Counts : label \in PcLabels /\ label \notin {"new", "locking", "done"}
    BY ZenonT(30) DEF Counts, PcLabels
  <2> QED
    BY <1>2, <2>1, ProceedShape, AnswerReleases, GotoKeepsLocks
<1>3. ASSUME NEW x \in Calls, Abort(x) PROVE LocksOK'
  BY <1>3, AnswerReleases DEF Abort, Answers
<1>4. ASSUME NEW r \in Creating, EndAttempt(r) \/ Requeue(r) PROVE LocksOK'
  BY <1>1, <1>4 DEF EndAttempt, Requeue, RunMoves
<1> QED
  BY <1>1, <1>2, <1>3, <1>4, ArriveKeepsLocks, AcquireKeepsLocks
     DEF Next, NextWindow, Redeploy, vars

LEMMA RowsTypedStep == LocksOK /\ RowsTyped /\ [Next]_vars => RowsTyped'
<1> SUFFICES ASSUME LocksOK, RowsTyped, [Next]_vars PROVE RowsTyped'
  OBVIOUS
<1> DEFINE Statuses == {"ABSENT", "QUEUED", "RUNNING", "RETRY_SCHEDULED", "ENDED"}
<1>1. ASSUME UNCHANGED <<seen, asked, hash, quotaVars, clock, server>>,
             status' \in [Creating -> Statuses]
      PROVE  RowsTyped'
  BY ZenonT(30), <1>1 DEF RowsTyped, LocalsTyped, quotaVars, ScopesOf, PrincipalScope, TenantScope
<1>2. ASSUME UNCHANGED <<seen, asked, rowVars, quotaVars, clock, server>> PROVE RowsTyped'
  BY <1>1, <1>2 DEF RowsTyped, rowVars
<1>3. ASSUME NEW r \in Creating, NEW to \in Statuses, status' = [status EXCEPT ![r] = to]
      PROVE  status' \in [Creating -> Statuses]
  BY <1>3 DEF RowsTyped
<1>4. ASSUME NEW x \in Calls, Arrive(x) PROVE RowsTyped'
  <2>1. asked' = [y \in Calls |-> asked'[y]]
    BY ZenonT(30), <1>4 DEF Arrive, RowsTyped, LocalsTyped
  <2> QED
    BY ZenonT(30), <1>4, <2>1 DEF Arrive, RowsTyped, LocalsTyped, quotaVars, rowVars, ScopesOf,
                      PrincipalScope, TenantScope
<1>5. ASSUME NEW x \in Calls, OverQuota(x), x \notin Creating => Kind[x] # "submit"
      PROVE  RowsTyped'
  <2>1. x \notin Creating => Target[x] \in Creating
    BY <1>5, TargetAssumption
  <2>2. status' \in [Creating -> Statuses]
    BY <1>3, <1>5, <2>1 DEF OverQuota, RowsTyped
  <2> QED
    BY <1>1, <1>5, <2>2 DEF OverQuota
<1>6. ASSUME NEW x \in Calls, CountPrincipal(x) \/ CountTenant(x) \/ CheckProviderBudget(x)
      PROVE  RowsTyped'
  <2>1. OverQuota(x) \/ \E label \in Counts : Continue(x, label)
    BY ZenonT(30), <1>6 DEF CountPrincipal, CountTenant, CheckProviderBudget, Counts
  <2>2. x \notin Creating => Kind[x] # "submit"
    BY DEF Creating
  <2> QED
    BY <1>2, <1>5, <2>1, <2>2 DEF Continue
<1>7. ASSUME NEW x \in Calls, Insert(x) PROVE RowsTyped'
  <2>1. hash' = [r \in Creating |-> hash'[r]]
    BY ZenonT(30), <1>7 DEF Insert, RowsTyped, LocalsTyped
  <2>2. status' \in [Creating -> Statuses]
    BY ZenonT(30), <1>3, <1>7 DEF Insert
  <2> QED
    BY ZenonT(30), <1>7, <2>1, <2>2 DEF Insert, RowsTyped, LocalsTyped, quotaVars, ScopesOf,
                            PrincipalScope, TenantScope
<1>8. ASSUME NEW x \in Calls, Start(x) PROVE RowsTyped'
  <2>1. Target[x] \in Creating
    BY <1>8, TargetAssumption DEF Start
  <2>2. status' \in [Creating -> Statuses]
    BY <1>3, <1>8, <2>1 DEF Start
  <2> QED
    BY <1>1, <1>8, <2>2 DEF Start
<1>9. ASSUME NEW x \in Calls, ReadCounters(x) PROVE RowsTyped'
  <2>1. CASE seen' = seen
    BY <1>2, <1>9, <2>1 DEF ReadCounters
  <2>2. CASE seen' = [seen EXCEPT ![x] =
                [window |-> clock, spent |-> [s \in ScopesOf(x) |-> Spent(s, clock)]]]
    <3>1. seen' = [y \in Calls |-> seen'[y]] /\ \A y \in Calls \ {x} : seen'[y] = seen[y]
      BY ZenonT(30), <2>2 DEF RowsTyped, LocalsTyped
    <3>2. \A s \in ScopesOf(x) : Spent(s, clock) \in Nat
      BY LockNames DEF RowsTyped, Spent
    <3>3. seen'[x] = [window |-> clock, spent |-> [s \in ScopesOf(x) |-> Spent(s, clock)]]
      BY <2>2 DEF RowsTyped, LocalsTyped
    <3>4. seen'[x].window \in 0..MaxWindow /\ \A s \in ScopesOf(x) : seen'[x].spent[s] \in Nat
      BY SMTT(10), SMTT(20), <3>2, <3>3 DEF RowsTyped
    <3>5. \A y \in Calls : /\ seen'[y].window \in 0..MaxWindow
                           /\ \A s \in ScopesOf(y) : seen'[y].spent[s] \in Nat
      BY ZenonT(30), <3>1, <3>4 DEF RowsTyped, LocalsTyped
    <3>6. UNCHANGED <<asked, status, hash, used, windowOf, booked, clock, server>>
      BY ZenonT(30), <1>9 DEF ReadCounters, rowVars, quotaVars
    <3>7. LocalsTyped'
      BY ZenonT(30), <3>1, <3>5, <3>6 DEF RowsTyped, LocalsTyped, ScopesOf, PrincipalScope,
         TenantScope
    <3> QED
      BY <3>6, <3>7 DEF RowsTyped
  <2> QED
    BY <1>9, <2>1, <2>2 DEF ReadCounters
<1>10. ASSUME NEW x \in Calls, Charge(x) PROVE RowsTyped'
  <2>1. /\ seen[x].window \in 0..MaxWindow
        /\ \A s \in ScopesOf(x) : seen[x].spent[s] + 1 \in Nat
    BY SMTT(10), SMTT(20) DEF RowsTyped, LocalsTyped
  <2>2. used' \in [Scopes -> Nat] /\ windowOf' \in [Scopes -> 0..MaxWindow]
    BY <1>10, <2>1 DEF Charge, RowsTyped
  <2>3. booked' \in [Scopes -> [0..MaxWindow -> Nat]]
    <3>1. \A s \in Scopes : [booked[s] EXCEPT ![seen[x].window] = @ + 1] \in [0..MaxWindow -> Nat]
      BY <2>1, Booking DEF RowsTyped
    <3> QED
      BY <1>10, <3>1 DEF Charge, RowsTyped
  <2> QED
    BY ZenonT(30), <1>10, <2>2, <2>3 DEF Charge, RowsTyped, LocalsTyped, rowVars, ScopesOf,
                             PrincipalScope, TenantScope
<1>11. ASSUME NEW r \in Creating, EndAttempt(r) \/ Requeue(r) PROVE RowsTyped'
  <2>1. PICK to \in Statuses : \E from \in Statuses : RunMoves(r, from, to)
    BY <1>11 DEF EndAttempt, Requeue
  <2> QED
    BY ZenonT(30), <1>1, <1>3, <2>1 DEF RunMoves, callVars
<1>12. CASE NextWindow
  <2>1. clock' \in 0..MaxWindow
    BY SMTT(10), SMTT(20), <1>12, LimitsAssumption DEF NextWindow, RowsTyped
  <2> QED
    BY ZenonT(30), <1>12, <2>1 DEF NextWindow, RowsTyped, LocalsTyped, callVars, quotaVars,
       rowVars, ScopesOf,
                       PrincipalScope, TenantScope
<1>13. CASE Redeploy
  <2>1. server' \in 0..MaxVersion
    BY SMTT(10), SMTT(20), <1>13, LimitsAssumption DEF Redeploy, RowsTyped
  <2> QED
    BY ZenonT(30), <1>13, <2>1 DEF Redeploy, RowsTyped, LocalsTyped, callVars, quotaVars,
       rowVars, ScopesOf,
                       PrincipalScope, TenantScope
<1>14. ASSUME NEW x \in Calls, Acquire(x) \/ FindExisting(x) \/ ReadRun(x) \/ Abort(x)
       PROVE  RowsTyped'
  BY ZenonT(30), <1>2, <1>14 DEF Acquire, FindExisting, ReadRun, Abort
<1> QED
  BY <1>2, <1>4, <1>6, <1>7, <1>8, <1>9, <1>10, <1>11, <1>12, <1>13, <1>14
     DEF Next, Proceed, vars, callVars

\* Every reachable state is typed, and its locks were taken in order.
LEMMA Locked == Spec => [](TypeOK /\ LockInv /\ LocalsTyped)
<1>1. Init => LocksOK /\ RowsTyped
  <2> SUFFICES ASSUME Init PROVE LocksOK /\ RowsTyped
    OBVIOUS
  <2>1. \A x \in Calls : pc[x] = "new"
    BY DEF Init
  <2>2. \A l \in Locks : holder[l] = NoCall
    BY DEF Init
  <2>3. pc \in [Calls -> PcLabels] /\ reply \in [Calls -> Answers] /\ holder \in [Locks -> Calls \cup {NoCall}]
    BY DEF Init, PcLabels, Answers
  <2>4. LockInv
    BY <2>1, <2>2, LockNames, CallsAssumption DEF LockInv
  <2>5. LocksOK
    BY <2>1, <2>2, <2>3, <2>4 DEF LocksOK, InTransaction
  <2>6. LocalsTyped
    BY SMTT(10), SMTT(20), LimitsAssumption DEF Init, LocalsTyped
  <2> QED
    BY SMTT(10), SMTT(20), <2>5, <2>6, LimitsAssumption DEF Init, RowsTyped
<1>2. LocksOK /\ RowsTyped /\ [Next]_vars => LocksOK' /\ RowsTyped'
  BY LocksStep, RowsTypedStep
<1> QED
  BY <1>1, <1>2, TypesOfParts, PTL DEF Spec

\* submit, replay, claim and the provider-call charge never deadlock, whoever
\* they are for: identity locks are taken principal first, the row last.
\* (lock_identity, quotas.py, and the callers of it.)
THEOREM LocksNeverDeadlock == Spec => []SomeCallProceeds
<1>1. TypeOK /\ LockInv /\ LocalsTyped => SomeCallProceeds
  <2> SUFFICES ASSUME TypeOK, LockInv,
                      NEW x \in Calls, pc[x] = "locking",
                      \A y \in Calls : pc[y] \in {"new", "locking", "done"},
                      \A y \in Calls : pc[y] = "locking" =>
                          ~\E i \in DOMAIN LockSequence(y) :
                              /\ holder[LockSequence(y)[i]] = NoCall
                              /\ \A j \in 1..(i - 1) : holder[LockSequence(y)[j]] = y
               PROVE  FALSE
    BY DEF SomeCallProceeds
  \* Who holds a lock is still taking locks, and this one is its own.
  <2>1. ASSUME NEW l \in Locks, holder[l] # NoCall
        PROVE  holder[l] \in Calls /\ pc[holder[l]] = "locking" /\ l \in OwnLocks(holder[l])
    <3>1. holder[l] \in Calls /\ pc[holder[l]] \notin {"new", "done"}
      BY ZenonT(30), <2>1 DEF TypeOK
    <3>2. l \in OwnLocks(holder[l])
      BY <2>1 DEF LockInv
    <3> QED
      BY <3>1, <3>2
  \* A waiting call finds its next lock taken.
  <2>2. ASSUME NEW y \in Calls, pc[y] = "locking"
        PROVE  /\ holder[PrincipalScope(y)] # NoCall
               /\ holder[PrincipalScope(y)] = y => holder[TenantScope(y)] # NoCall
               /\ y \notin Creating /\ holder[TenantScope(y)] = y =>
                     holder[RowLock(Target[y])] # NoCall
    <3>1. 1 \in DOMAIN LockSequence(y) /\ 2 \in DOMAIN LockSequence(y)
      BY SMTT(10), SMTT(20), SequenceOfLocks
    <3>2. y \notin Creating => 3 \in DOMAIN LockSequence(y)
      BY SMTT(10), SMTT(20), SequenceOfLocks
    <3>3. holder[PrincipalScope(y)] # NoCall
      <4>1. \A j \in 1..(1 - 1) : holder[LockSequence(y)[j]] = y
        BY SMTT(10), SMTT(20)
      <4> QED
        BY <2>2, <3>1, <4>1, SequenceOfLocks
    <3>4. ASSUME holder[PrincipalScope(y)] = y PROVE holder[TenantScope(y)] # NoCall
      <4>1. \A j \in 1..(2 - 1) : holder[LockSequence(y)[j]] = y
        BY SMTT(10), SMTT(20), <3>4, SequenceOfLocks
      <4> QED
        BY <2>2, <3>1, <4>1, SequenceOfLocks
    <3>5. ASSUME y \notin Creating, holder[TenantScope(y)] = y
          PROVE  holder[RowLock(Target[y])] # NoCall
      <4>1. holder[PrincipalScope(y)] = y
        BY <3>5 DEF LockInv
      <4>2. \A j \in 1..(3 - 1) : holder[LockSequence(y)[j]] = y
        BY SMTT(10), SMTT(20), <3>5, <4>1, SequenceOfLocks
      <4> QED
        BY <2>2, <3>2, <3>5, <4>2, SequenceOfLocks
    <3> QED
      BY <3>3, <3>4, <3>5
  <2>3. PICK y \in Calls : pc[y] = "locking" /\ holder[PrincipalScope(y)] = y
    <3>1. PrincipalScope(x) \in Locks /\ holder[PrincipalScope(x)] # NoCall
      BY <2>2, LockNames
    <3>2. PrincipalScope(x) = PrincipalScope(holder[PrincipalScope(x)])
      BY SMTT(10), SMTT(20), <2>1, <3>1, LockLevels DEF OwnLocks
    <3> QED
      BY <2>1, <3>1, <3>2
  <2>4. PICK z \in Calls : pc[z] = "locking" /\ holder[TenantScope(z)] = z
    <3>1. TenantScope(y) \in Locks /\ holder[TenantScope(y)] # NoCall
      BY <2>2, <2>3, LockNames
    <3>2. TenantScope(y) = TenantScope(holder[TenantScope(y)])
      BY SMTT(10), SMTT(20), <2>1, <3>1, LockLevels DEF OwnLocks
    <3> QED
      BY <2>1, <3>1, <3>2
  <2>5. z \notin Creating
    BY <2>4 DEF LockInv, OwnLocks
  <2>6. PICK w \in Calls \ Creating : pc[w] = "locking" /\ holder[RowLock(Target[w])] = w
    <3>1. RowLock(Target[z]) \in Locks /\ holder[RowLock(Target[z])] # NoCall
      BY <2>2, <2>4, <2>5, LockNames
    <3>2. LET w == holder[RowLock(Target[z])] IN
             w \notin Creating /\ RowLock(Target[z]) = RowLock(Target[w])
      BY <2>1, <3>1, LockLevels DEF OwnLocks
    <3> QED
      BY <2>1, <3>1, <3>2
  \* Who has the row has everything, and is not waiting.
  <2> QED
    BY <2>6 DEF LockInv, OwnLocks
<1> QED
  BY <1>1, Locked, PTL

-----------------------------------------------------------------------------
(* What a step of one call leaves to the others *)

\* Two calls in a transaction have nothing in common.
LEMMA Isolation ==
    ASSUME LocksOK, NEW x \in Calls, NEW y \in Calls, x # y,
           InTransaction(x), InTransaction(y)
    PROVE  /\ Principal[x] # Principal[y]
           /\ Tenant[x] # Tenant[y]
           /\ ScopesOf(x) \cap ScopesOf(y) = {}
<1>1. \A l \in OwnLocks(x) : holder[l] = x
  BY DEF LocksOK
<1>2. \A l \in OwnLocks(y) : holder[l] = y
  BY DEF LocksOK
<1>3. OwnLocks(x) \cap OwnLocks(y) = {}
  BY <1>1, <1>2
<1> QED
  BY ZenonT(30), <1>3 DEF OwnLocks, ScopesOf, PrincipalScope, TenantScope

CallStep(x) == Arrive(x) \/ Acquire(x) \/ Proceed(x) \/ Abort(x)

\* The run a call may write.
RunOf(x) == IF x \in Creating THEN x ELSE Target[x]

OwnWrites(x) ==
    /\ \A y \in Calls \ {x} : pc'[y] = pc[y] /\ seen'[y] = seen[y]
    /\ \A r \in Creating \ {RunOf(x)} : status'[r] = status[r]
    /\ \A s \in Scopes \ ScopesOf(x) : used'[s] = used[s] /\ windowOf'[s] = windowOf[s]
    /\ clock' = clock
    /\ ~InTransaction(x) => UNCHANGED <<rowVars, quotaVars>>

LEMMA RunOfCall ==
    ASSUME NEW x \in Calls
    PROVE  RunOf(x) \in Creating /\ Principal[RunOf(x)] = Principal[x] /\ Tenant[RunOf(x)] = Tenant[x]
<1>1. x \notin Creating => Kind[x] # "submit"
  BY DEF Creating
<1> QED
  BY <1>1, TargetAssumption DEF RunOf

LEMMA WritesAreOwn ==
    ASSUME LocksOK, RowsTyped, NEW x \in Calls, CallStep(x)
    PROVE  OwnWrites(x)
<1> USE DEF rowVars, quotaVars
<1>1. ASSUME UNCHANGED <<seen, rowVars, quotaVars, clock>>,
             \A y \in Calls \ {x} : pc'[y] = pc[y]
      PROVE  OwnWrites(x)
  BY <1>1 DEF OwnWrites
<1>2. ASSUME NEW answer, Answer(x, answer) PROVE \A y \in Calls \ {x} : pc'[y] = pc[y]
  BY <1>2 DEF Answer, LocksOK
<1>3. ASSUME NEW label, Goto(x, label) PROVE \A y \in Calls \ {x} : pc'[y] = pc[y]
  BY <1>3 DEF Goto, LocksOK
<1>4. CASE Arrive(x)
  BY <1>1, <1>3, <1>4 DEF Arrive
<1>5. CASE Acquire(x)
  <2>1. \A y \in Calls \ {x} : pc'[y] = pc[y]
    BY ZenonT(30), <1>5 DEF Acquire, LocksOK
  <2> QED
    BY <1>1, <1>5, <2>1 DEF Acquire
<1>6. CASE Abort(x)
  BY <1>1, <1>2, <1>6 DEF Abort
<1>7. CASE FindExisting(x)
  BY ZenonT(30), <1>1, <1>2, <1>3, <1>7 DEF FindExisting
<1>8. CASE ReadRun(x)
  BY ZenonT(30), <1>1, <1>2, <1>3, <1>8 DEF ReadRun
<1>9. CASE ReadCounters(x)
  <2>1. \A y \in Calls \ {x} : pc'[y] = pc[y]
    BY ZenonT(30), <1>2, <1>3, <1>9 DEF ReadCounters
  <2>2. \A y \in Calls \ {x} : seen'[y] = seen[y]
    BY <1>9 DEF ReadCounters, RowsTyped, LocalsTyped
  <2> QED
    BY <1>9, <2>1, <2>2 DEF ReadCounters, OwnWrites
<1>10. ASSUME InTransaction(x), UNCHANGED <<seen, quotaVars, clock>>,
              \/ status' = status
              \/ \E to : status' = [status EXCEPT ![RunOf(x)] = to],
              \A y \in Calls \ {x} : pc'[y] = pc[y]
       PROVE  OwnWrites(x)
  <2>1. \A r \in Creating \ {RunOf(x)} : status'[r] = status[r]
    BY <1>10 DEF RowsTyped
  <2> QED
    BY ZenonT(30), <1>10, <2>1 DEF OwnWrites
<1>11. ASSUME OverQuota(x), InTransaction(x) PROVE OwnWrites(x)
  BY ZenonT(30), <1>2, <1>10, <1>11 DEF OverQuota, RunOf
<1>12. ASSUME NEW label, Continue(x, label) PROVE OwnWrites(x)
  BY ZenonT(30), <1>1, <1>3, <1>12 DEF Continue
<1>13. CASE CountPrincipal(x)
  BY ZenonT(30), <1>11, <1>12, <1>13 DEF CountPrincipal, InTransaction
<1>14. CASE CountTenant(x)
  BY ZenonT(30), <1>11, <1>12, <1>14 DEF CountTenant, InTransaction
<1>15. CASE CheckProviderBudget(x)
  BY ZenonT(30), <1>11, <1>12, <1>15 DEF CheckProviderBudget, InTransaction
<1>16. CASE Insert(x)
  BY ZenonT(30), <1>2, <1>10, <1>16 DEF Insert, RunOf, InTransaction
<1>17. CASE Start(x)
  <2>1. RunOf(x) = Target[x] /\ InTransaction(x)
    BY ZenonT(30), <1>17 DEF Start, RunOf, Creating, InTransaction
  <2> QED
    BY ZenonT(30), <1>2, <1>10, <1>17, <2>1 DEF Start
<1>18. CASE Charge(x)
  <2>1. \A s \in Scopes \ ScopesOf(x) : used'[s] = used[s] /\ windowOf'[s] = windowOf[s]
    BY <1>18 DEF Charge
  <2> QED
    BY <1>2, <1>18, <2>1 DEF Charge, OwnWrites, InTransaction
<1> QED
  BY <1>4, <1>5, <1>6, <1>7, <1>8, <1>9, <1>13, <1>14, <1>15, <1>16, <1>17, <1>18
     DEF CallStep, Proceed
-----------------------------------------------------------------------------
-----------------------------------------------------------------------------
(* Checks *)

\* What a submit or replay knows after each statement.
CreationChecked(x) ==
    /\ pc[x] \in Counts => Existing(x) = {} /\ ~SourceMissing(x)
    /\ pc[x] \in {"count tenant", "check budget", "commit"} => ~PrincipalFull(x)
    /\ pc[x] \in {"check budget", "commit"} => ~TenantFull(x)
    /\ pc[x] = "commit" => ~BudgetSpent(x, clock)

\* What a claim knows.
ClaimChecked(x) ==
    /\ pc[x] # "check budget"
    /\ pc[x] \in Counts => status[Target[x]] = "QUEUED"
    /\ pc[x] \in {"count tenant", "commit"} => ~PrincipalFull(x)
    /\ pc[x] = "commit" => ~TenantFull(x)

\* What a charge knows: it read the counters in a window that is not older than
\* the one stored and not later than now, and there was room.
ChargeChecked(x) ==
    /\ pc[x] \in Counts => pc[x] = "commit"
    /\ pc[x] = "commit" =>
          /\ status[Target[x]] = "RUNNING"
          /\ seen[x].window \in 0..clock
          /\ \A s \in ScopesOf(x) :
                /\ windowOf[s] <= seen[x].window
                /\ Spent(s, seen[x].window) = seen[x].spent[s]
                /\ seen[x].spent[s] < CallLimit(s)

CallChecked(x) ==
    /\ x \in Creating => CreationChecked(x)
    /\ Kind[x] = "claim" => ClaimChecked(x)
    /\ Kind[x] = "charge" => ChargeChecked(x)

\* A run is inserted by the last step of its call; no counter is of a window
\* to come.
RowsAreCommitted ==
    /\ \A x \in Creating : status[x] # "ABSENT" => pc[x] = "done"
    /\ \A s \in Scopes : windowOf[s] <= clock

ChecksInv == RowsAreCommitted /\ \A x \in Calls : CallChecked(x)

-----------------------------------------------------------------------------
(* Call budgets and keys *)

\* The counter of a scope is what was charged in its window, and nothing was
\* charged in a later one.
BooksBalance ==
    \A s \in Scopes, w \in 0..MaxWindow :
        windowOf[s] <= w => booked[s][w] = Spent(s, w)

BooksInv == BooksBalance /\ WindowBudgetHeld

\* A call that was given a run has ended, and the run is there.
ReplyIsRun(x) ==
    reply[x] \in Creating =>
        /\ pc[x] = "done"
        /\ status[reply[x]] # "ABSENT"
        /\ Tenant[reply[x]] = Tenant[x] /\ Key[reply[x]] = Key[x]
        /\ hash[reply[x]] = Fingerprint(x)
        /\ ~SourceMissing(x)

\* The unique constraint on client_id and idempotency_key.
KeysUnique ==
    \A x, y \in Creating :
        /\ status[x] # "ABSENT" /\ status[y] # "ABSENT"
        /\ Tenant[x] = Tenant[y] /\ Key[x] = Key[y]
        => x = y

KeysInv ==
    /\ \A x \in Creating : ReplyIsRun(x)
    /\ \A x \in Creating : Kind[x] = "submit" /\ pc[x] # "new" => asked[x][1] = Input[x]
    /\ KeysUnique

-----------------------------------------------------------------------------
(* What was checked still holds *)

LEMMA RunsFinite ==
    ASSUME NEW S \in SUBSET Creating
    PROVE  IsFiniteSet(S) /\ Cardinality(S) \in Nat
<1>1. S \subseteq Calls
  BY DEF Creating
<1>2. IsFiniteSet(S)
  BY <1>1, CallsAssumption, FS_Subset
<1> QED
  BY <1>2, FS_CardinalityType

LEMMA CountingIsNat ==
    ASSUME NEW S \in SUBSET Creating, NEW A
    PROVE  Counting(S, A) \in Nat
BY RunsFinite DEF Counting

\* A count does not grow when no run joins it.
LEMMA CountingShrinks ==
    ASSUME NEW S \in SUBSET Creating, NEW A,
           \A r \in S : status'[r] \in A => status[r] \in A
    PROVE  Counting(S, A)' <= Counting(S, A)
<1>1. {r \in S : status'[r] \in A} \subseteq {r \in S : status[r] \in A}
  OBVIOUS
<1>2. IsFiniteSet({r \in S : status[r] \in A})
  BY RunsFinite
<1> QED
  BY <1>1, <1>2, FS_Subset DEF Counting

\* A count grows by one at most when one run joins it.
LEMMA CountingGrowsByOne ==
    ASSUME NEW S \in SUBSET Creating, NEW A, NEW q,
           \A r \in S \ {q} : status'[r] \in A => status[r] \in A
    PROVE  Counting(S, A)' <= Counting(S, A) + 1
<1> DEFINE Before == {r \in S : status[r] \in A}
           After == {r \in S : status'[r] \in A}
<1>1. After \subseteq Before \cup {q}
  OBVIOUS
<1>2. IsFiniteSet(Before) /\ Cardinality(Before) \in Nat /\ Cardinality(After) \in Nat
  BY RunsFinite
<1>3. /\ IsFiniteSet(Before \cup {q})
      /\ Cardinality(Before \cup {q}) \in {Cardinality(Before), Cardinality(Before) + 1}
  BY <1>2, FS_AddElement
<1>4. Cardinality(After) <= Cardinality(Before \cup {q})
  BY <1>1, <1>3, FS_Subset
<1>5. Cardinality(After) <= Cardinality(Before) + 1
  BY SMTT(10), SMTT(20), <1>2, <1>3, <1>4
<1> QED
  BY <1>5 DEF Counting

LEMMA LimitsAreNat ==
    ASSUME NEW x \in Calls
    PROVE  PrincipalLimit(x) \in Nat /\ TenantLimit(x) \in Nat
BY LimitsAssumption DEF PrincipalLimit, TenantLimit

LEMMA BelowLimit ==
    ASSUME NEW a \in Nat, NEW b \in Nat, NEW limit \in Nat, b <= a, ~(a >= limit)
    PROVE  ~(b >= limit)
BY SMTT(10), SMTT(20)

LEMMA NotFuller ==
    ASSUME NEW x \in Calls,
           \A r \in OfPrincipal(x) \cup OfTenant(x) : status'[r] \in Counted(x) => status[r] \in Counted(x)
    PROVE  /\ ~PrincipalFull(x) => ~PrincipalFull(x)'
           /\ ~TenantFull(x) => ~TenantFull(x)'
<1>1. OfPrincipal(x) \in SUBSET Creating /\ OfTenant(x) \in SUBSET Creating
  BY DEF OfPrincipal, OfTenant
<1>2. /\ Counting(OfPrincipal(x), Counted(x))' <= Counting(OfPrincipal(x), Counted(x))
      /\ Counting(OfPrincipal(x), Counted(x)) \in Nat
      /\ Counting(OfPrincipal(x), Counted(x))' \in Nat
  <2>1. \A r \in OfPrincipal(x) : status'[r] \in Counted(x) => status[r] \in Counted(x)
    OBVIOUS
  <2>2. Cardinality({r \in OfPrincipal(x) : status'[r] \in Counted(x)}) \in Nat
    BY <1>1, RunsFinite
  <2> QED
    BY ZenonT(30), <1>1, <2>1, <2>2, CountingShrinks, CountingIsNat DEF Counting
<1>3. /\ Counting(OfTenant(x), Counted(x))' <= Counting(OfTenant(x), Counted(x))
      /\ Counting(OfTenant(x), Counted(x)) \in Nat
      /\ Counting(OfTenant(x), Counted(x))' \in Nat
  <2>1. \A r \in OfTenant(x) : status'[r] \in Counted(x) => status[r] \in Counted(x)
    OBVIOUS
  <2>2. Cardinality({r \in OfTenant(x) : status'[r] \in Counted(x)}) \in Nat
    BY <1>1, RunsFinite
  <2> QED
    BY ZenonT(30), <1>1, <2>1, <2>2, CountingShrinks, CountingIsNat DEF Counting
<1>4. PrincipalFull(x)' <=> Counting(OfPrincipal(x), Counted(x))' >= PrincipalLimit(x)
  BY DEF PrincipalFull, Counting
<1>5. TenantFull(x)' <=> Counting(OfTenant(x), Counted(x))' >= TenantLimit(x)
  BY DEF TenantFull, Counting
<1>6. ~PrincipalFull(x) => ~PrincipalFull(x)'
  BY <1>2, <1>4, BelowLimit, LimitsAreNat DEF PrincipalFull
<1>7. ~TenantFull(x) => ~TenantFull(x)'
  BY ZenonT(30), <1>3, <1>5, BelowLimit, LimitsAreNat DEF TenantFull
<1> QED
  BY <1>6, <1>7

\* What a call has checked is untouched by a step that does not add to what it
\* counted, nor writes its key, its run or its counters.
LEMMA ChecksKept ==
    ASSUME NEW x \in Calls, CallChecked(x), pc'[x] = pc[x], seen'[x] = seen[x], clock' = clock,
           \A r \in OfPrincipal(x) \cup OfTenant(x) :
               status'[r] \in Counted(x) => status[r] \in Counted(x),
           \A r \in OfTenant(x) : status'[r] = "ABSENT" <=> status[r] = "ABSENT",
           x \notin Creating => status'[Target[x]] = status[Target[x]],
           \A s \in ScopesOf(x) : used'[s] = used[s] /\ windowOf'[s] = windowOf[s]
    PROVE  CallChecked(x)'
<1>1. /\ ~PrincipalFull(x) => ~PrincipalFull(x)'
      /\ ~TenantFull(x) => ~TenantFull(x)'
  BY ZenonT(30), NotFuller
<1>2. Existing(x)' = Existing(x)
  BY ZenonT(30) DEF Existing, OfTenant
<1>3. SourceMissing(x)' <=> SourceMissing(x)
  <2>1. Kind[x] = "replay" => Target[x] \in OfTenant(x)
    BY ZenonT(30), TargetAssumption DEF OfTenant
  <2> QED
    BY ZenonT(30), <2>1 DEF SourceMissing
<1>4. \A w : \A s \in ScopesOf(x) : Spent(s, w)' = Spent(s, w)
  BY DEF Spent
<1>5. BudgetSpent(x, clock)' <=> BudgetSpent(x, clock)
  BY ZenonT(30), <1>4 DEF BudgetSpent, Spent, ScopesOf, PrincipalScope, TenantScope
<1>6. CASE x \in Creating
  <2>1. CreationChecked(x)'
    BY ZenonT(30), <1>1, <1>2, <1>3, <1>5, <1>6 DEF CallChecked, CreationChecked
  <2> QED
    BY ZenonT(30), <1>6, <2>1 DEF CallChecked, Creating
<1>7. CASE Kind[x] = "claim"
  <2>1. ClaimChecked(x)' /\ x \notin Creating
    BY ZenonT(30), <1>1, <1>7 DEF CallChecked, ClaimChecked, Creating
  <2> QED
    BY ZenonT(30), <1>7, <2>1 DEF CallChecked
<1>8. CASE Kind[x] = "charge"
  <2>1. ChargeChecked(x)' /\ x \notin Creating
    BY ZenonT(30), <1>4, <1>8 DEF CallChecked, ChargeChecked, Creating, ScopesOf,
       PrincipalScope, TenantScope
  <2> QED
    BY ZenonT(30), <1>8, <2>1 DEF CallChecked
<1> QED
  BY <1>6, <1>7, <1>8, CallsAssumption DEF Creating, Kinds

\* A call that is not in its transaction has nothing checked.
LEMMA NothingChecked ==
    ASSUME NEW x \in Calls, pc'[x] \in {"new", "locking", "begin", "done"}
    PROVE  CallChecked(x)'
BY ZenonT(30) DEF CallChecked, CreationChecked, ClaimChecked, ChargeChecked, Counts

LEMMA OthersKeepChecks ==
    ASSUME LocksOK, RowsTyped, NEW x \in Calls, CallStep(x), NEW y \in Calls, y # x, CallChecked(y)
    PROVE  CallChecked(y)'
<1>1. OwnWrites(x)
  BY WritesAreOwn
<1>2. pc'[y] = pc[y] /\ seen'[y] = seen[y] /\ clock' = clock
  BY ZenonT(30), <1>1 DEF OwnWrites
<1>3. CASE ~InTransaction(y)
  BY <1>2, <1>3, NothingChecked DEF InTransaction
<1>4. CASE InTransaction(y) /\ InTransaction(x)
  <2>1. /\ Principal[y] # Principal[x] /\ Tenant[y] # Tenant[x]
        /\ ScopesOf(y) \cap ScopesOf(x) = {}
    BY <1>4, Isolation
  <2>2. RunOf(x) \in Creating /\ Principal[RunOf(x)] = Principal[x] /\ Tenant[RunOf(x)] = Tenant[x]
    BY RunOfCall
  <2>3. \A r \in OfPrincipal(y) \cup OfTenant(y) : status'[r] = status[r]
    BY <1>1, <2>1, <2>2 DEF OwnWrites, OfPrincipal, OfTenant
  <2>4. y \notin Creating => Target[y] \in OfPrincipal(y)
    BY TargetAssumption DEF OfPrincipal, Creating
  <2>5. \A s \in ScopesOf(y) : used'[s] = used[s] /\ windowOf'[s] = windowOf[s]
    BY <1>1, <2>1, LockNames DEF OwnWrites
  <2>6. \A r \in OfTenant(y) : status'[r] = "ABSENT" <=> status[r] = "ABSENT"
    BY <2>3
  <2>7. \A r \in OfPrincipal(y) \cup OfTenant(y) :
           status'[r] \in Counted(y) => status[r] \in Counted(y)
    BY <2>3
  <2> QED
    BY ZenonT(30), <1>2, <2>3, <2>4, <2>5, <2>6, <2>7, ChecksKept
<1>5. CASE ~InTransaction(x)
  <2>1. status' = status /\ used' = used /\ windowOf' = windowOf
    BY ZenonT(30), <1>1, <1>5 DEF OwnWrites, rowVars, quotaVars
  <2> QED
    BY ZenonT(30), <1>2, <2>1, ChecksKept
<1> QED
  BY <1>3, <1>4, <1>5

\* complete_*, recovery and the retry scheduler take a row lock only; they
\* never make room disappear.
LEMMA OtherTransactionsKeepChecks ==
    ASSUME LocksOK, RowsTyped, NEW r \in Creating, EndAttempt(r) \/ Requeue(r),
           NEW y \in Calls, CallChecked(y)
    PROVE  CallChecked(y)'
<1>1. /\ UNCHANGED <<pc, seen, used, windowOf, clock>>
      /\ holder[RowLock(r)] = NoCall
      /\ \A q \in Creating \ {r} : status'[q] = status[q]
      /\ status[r] # "ABSENT" /\ status'[r] # "ABSENT"
      /\ status'[r] # "RUNNING"
      /\ status[r] \in {"RUNNING", "RETRY_SCHEDULED"}
  BY ZenonT(30) DEF EndAttempt, Requeue, RunMoves, RowsTyped, callVars, quotaVars
<1>2. CASE ~InTransaction(y)
  BY ZenonT(30), <1>1, <1>2, NothingChecked DEF InTransaction
<1>3. CASE InTransaction(y)
  <2>1. \A q \in OfPrincipal(y) \cup OfTenant(y) :
           status'[q] \in Counted(y) => status[q] \in Counted(y)
    BY ZenonT(30), <1>1 DEF OfPrincipal, OfTenant, Counted
  <2>2. \A q \in OfTenant(y) : status'[q] = "ABSENT" <=> status[q] = "ABSENT"
    BY ZenonT(30), <1>1 DEF OfTenant
  <2>3. y \notin Creating => status'[Target[y]] = status[Target[y]]
    <3> SUFFICES ASSUME y \notin Creating PROVE status'[Target[y]] = status[Target[y]]
      OBVIOUS
    <3>1. RowLock(Target[y]) \in OwnLocks(y)
      BY DEF OwnLocks
    <3>2. holder[RowLock(Target[y])] = y
      BY ZenonT(30), <1>3, <3>1 DEF LocksOK
    <3>3. Kind[y] # "submit"
      BY ZenonT(30) DEF Creating
    <3>4. Target[y] \in Creating
      BY <3>3, TargetAssumption
    <3>5. Target[y] # r
      BY <1>1, <3>2, CallsAssumption
    <3> QED
      BY ZenonT(30), <1>1, <3>4, <3>5
  <2> QED
    BY ZenonT(30), <1>1, <2>1, <2>2, <2>3, ChecksKept
<1> QED
  BY <1>2, <1>3

\* Nothing is spent yet in a window that has just begun.
LEMMA NextWindowKeepsChecks ==
    ASSUME RowsTyped, RowsAreCommitted, NextWindow, NEW y \in Calls, CallChecked(y)
    PROVE  CallChecked(y)'
<1>1. UNCHANGED <<pc, seen, status, used, windowOf>> /\ clock' = clock + 1 /\ clock \in Nat
  BY SMTT(10), SMTT(20) DEF NextWindow, RowsTyped, callVars, rowVars, quotaVars
<1>2. \A s \in ScopesOf(y) : windowOf[s] # clock'
  <2>1. \A s \in Scopes : windowOf[s] \in Nat /\ windowOf[s] <= clock
    BY SMTT(10), SMTT(20) DEF RowsTyped, RowsAreCommitted
  <2> QED
    BY SMTT(10), SMTT(20), <1>1, <2>1, LockNames
<1>3. \A s : CallLimit(s) \in Nat \ {0}
  BY LimitsAssumption DEF CallLimit
<1>4. ~BudgetSpent(y, clock)'
  BY SMTT(10), SMTT(20), <1>1, <1>2, <1>3 DEF BudgetSpent, Spent, ScopesOf, PrincipalScope, TenantScope
<1>5. (PrincipalFull(y)' <=> PrincipalFull(y)) /\ (TenantFull(y)' <=> TenantFull(y))
  BY <1>1 DEF PrincipalFull, TenantFull, Counting
<1>6. CreationChecked(y) => CreationChecked(y)'
  BY ZenonT(30), <1>1, <1>4, <1>5 DEF CreationChecked, Existing, SourceMissing
<1>7. ClaimChecked(y) => ClaimChecked(y)'
  BY ZenonT(30), <1>1, <1>5 DEF ClaimChecked
<1>8. ChargeChecked(y) => ChargeChecked(y)'
  BY SMTT(10), SMTT(20), <1>1 DEF ChargeChecked, Spent, ScopesOf, PrincipalScope, TenantScope
<1> QED
  BY <1>6, <1>7, <1>8 DEF CallChecked

\* Each statement of a transaction establishes what the next ones rely on.
LEMMA OwnStepChecks ==
    ASSUME LocksOK, RowsTyped, RowsAreCommitted, NEW x \in Calls, CallStep(x), CallChecked(x)
    PROVE  CallChecked(x)'
<1>1. ASSUME NEW answer, Answer(x, answer) PROVE CallChecked(x)'
  BY <1>1, NothingChecked DEF Answer, LocksOK
<1>2. ASSUME NEW label, Goto(x, label) PROVE pc'[x] = label
  BY <1>2 DEF Goto, LocksOK
<1>3. ASSUME UNCHANGED <<status, used, windowOf, clock>>
      PROVE  /\ PrincipalFull(x)' <=> PrincipalFull(x)
             /\ TenantFull(x)' <=> TenantFull(x)
             /\ BudgetSpent(x, clock)' <=> BudgetSpent(x, clock)
             /\ Existing(x)' = Existing(x)
             /\ SourceMissing(x)' <=> SourceMissing(x)
  BY ZenonT(30), <1>3 DEF PrincipalFull, TenantFull, Counting, BudgetSpent, Spent, Existing, SourceMissing
<1>4. CASE Arrive(x)
  BY ZenonT(30), <1>2, <1>4, NothingChecked DEF Arrive
<1>5. CASE Acquire(x)
  <2>1. pc'[x] \in {"locking", "begin"}
    BY ZenonT(30), <1>5 DEF Acquire, LocksOK
  <2> QED
    BY <2>1, NothingChecked
<1>6. CASE Abort(x)
  BY <1>1, <1>6 DEF Abort
<1>7. CASE FindExisting(x)
  <2>1. CASE Existing(x) = {} /\ ~SourceMissing(x) /\ Goto(x, "count principal")
    <3>1. pc'[x] = "count principal" /\ x \in Creating /\ UNCHANGED <<status, used, windowOf, clock>>
      BY ZenonT(30), <1>2, <1>7, <2>1 DEF FindExisting, rowVars, quotaVars
    <3>2. Existing(x)' = {} /\ ~SourceMissing(x)'
      BY ZenonT(30), <1>3, <2>1, <3>1
    <3> QED
      BY ZenonT(30), <3>1, <3>2 DEF CallChecked, CreationChecked, Creating
  <2> QED
    BY ZenonT(30), <1>1, <1>7, <2>1 DEF FindExisting
<1>8. CASE ReadRun(x)
  <2>1. CASE status[Target[x]] = "QUEUED" /\ Goto(x, "count principal")
    <3>1. pc'[x] = "count principal" /\ x \notin Creating /\ Kind[x] = "claim" /\ status' = status
      BY ZenonT(30), <1>2, <1>8, <2>1 DEF ReadRun, rowVars, Creating
    <3> QED
      BY ZenonT(30), <2>1, <3>1 DEF CallChecked, ClaimChecked
  <2> QED
    BY ZenonT(30), <1>1, <1>8, <2>1 DEF ReadRun
<1>9. CASE ReadCounters(x)
  <2>1. CASE /\ status[Target[x]] = "RUNNING"
             /\ ~BudgetSpent(x, clock)
             /\ seen' = [seen EXCEPT ![x] =
                   [window |-> clock, spent |-> [s \in ScopesOf(x) |-> Spent(s, clock)]]]
             /\ Goto(x, "commit")
    <3>1. /\ pc'[x] = "commit" /\ x \notin Creating /\ Kind[x] = "charge"
          /\ UNCHANGED <<status, used, windowOf, clock>>
      BY ZenonT(30), <1>2, <1>9, <2>1 DEF ReadCounters, rowVars, quotaVars, Creating
    <3>2. seen'[x] = [window |-> clock, spent |-> [s \in ScopesOf(x) |-> Spent(s, clock)]]
      BY <2>1 DEF RowsTyped, LocalsTyped
    <3>3. clock \in 0..clock /\ \A s \in ScopesOf(x) : windowOf[s] <= clock
      BY SMTT(10), SMTT(20), LockNames DEF RowsTyped, RowsAreCommitted
    <3>4. \A s \in ScopesOf(x) : Spent(s, clock) < CallLimit(s)
      <4>1. \A s \in ScopesOf(x) : Spent(s, clock) \in Nat /\ CallLimit(s) \in Nat
        BY ZenonT(30), LockNames, LimitsAssumption DEF Spent, CallLimit, RowsTyped
      <4>2. \A s \in ScopesOf(x) : ~(Spent(s, clock) >= CallLimit(s))
        BY ZenonT(30), <2>1 DEF BudgetSpent
      <4> QED
        BY SMTT(10), SMTT(20), <4>1, <4>2
    <3>5. /\ seen'[x].window = clock
          /\ \A s \in ScopesOf(x) : seen'[x].spent[s] = Spent(s, clock)
      BY SMTT(10), SMTT(20), <3>2
    <3>6. \A w : \A s \in ScopesOf(x) : Spent(s, w)' = Spent(s, w)
      BY <3>1 DEF Spent
    <3>7. ChargeChecked(x)'
      BY ZenonT(30), <2>1, <3>1, <3>3, <3>4, <3>5, <3>6 DEF ChargeChecked, ScopesOf,
         PrincipalScope, TenantScope
    <3> QED
      BY <3>1, <3>7 DEF CallChecked
  <2> QED
    BY ZenonT(30), <1>1, <1>9, <2>1 DEF ReadCounters
<1>10. ASSUME OverQuota(x) PROVE CallChecked(x)'
  BY <1>1, <1>10 DEF OverQuota
<1>11. ASSUME NEW label, Continue(x, label)
       PROVE  pc'[x] = label /\ UNCHANGED <<status, used, windowOf, clock>>
  BY <1>2, <1>11 DEF Continue, rowVars, quotaVars
<1>12. CASE CountPrincipal(x)
  <2>1. CASE ~PrincipalFull(x) /\ Continue(x, "count tenant")
    <3>1. pc[x] = "count principal" /\ pc'[x] = "count tenant" /\ UNCHANGED <<status, used, windowOf, clock>>
      BY ZenonT(30), <1>11, <1>12, <2>1 DEF CountPrincipal
    <3>2. Kind[x] # "charge"
      BY ZenonT(30), <3>1 DEF CallChecked, ChargeChecked, Counts
    <3>3. x \in Creating => CreationChecked(x)'
      BY ZenonT(30), <1>3, <2>1, <3>1 DEF CallChecked, CreationChecked, Counts
    <3>4. Kind[x] = "claim" => ClaimChecked(x)'
      BY ZenonT(30), <1>3, <2>1, <3>1 DEF CallChecked, ClaimChecked, Counts
    <3> QED
      BY <3>2, <3>3, <3>4 DEF CallChecked
  <2> QED
    BY ZenonT(30), <1>10, <1>12, <2>1 DEF CountPrincipal
<1>13. CASE CountTenant(x)
  <2>1. CASE ~TenantFull(x) /\ Continue(x, IF x \in Creating THEN "check budget" ELSE "commit")
    <3>1. /\ pc[x] = "count tenant" /\ pc'[x] = IF x \in Creating THEN "check budget" ELSE "commit"
          /\ UNCHANGED <<status, used, windowOf, clock>>
      BY ZenonT(30), <1>11, <1>13, <2>1 DEF CountTenant
    <3>2. Kind[x] # "charge"
      BY ZenonT(30), <3>1 DEF CallChecked, ChargeChecked, Counts
    <3>3. x \in Creating => CreationChecked(x)'
      BY ZenonT(30), <1>3, <2>1, <3>1 DEF CallChecked, CreationChecked, Counts
    <3>4. Kind[x] = "claim" => ClaimChecked(x)'
      BY ZenonT(30), <1>3, <2>1, <3>1 DEF CallChecked, ClaimChecked, Counts, Creating
    <3> QED
      BY <3>2, <3>3, <3>4 DEF CallChecked
  <2> QED
    BY ZenonT(30), <1>10, <1>13, <2>1 DEF CountTenant
<1>14. CASE CheckProviderBudget(x)
  <2>1. CASE ~BudgetSpent(x, clock) /\ Continue(x, "commit")
    <3>1. pc[x] = "check budget" /\ pc'[x] = "commit" /\ UNCHANGED <<status, used, windowOf, clock>>
      BY ZenonT(30), <1>11, <1>14, <2>1 DEF CheckProviderBudget
    <3>2. Kind[x] # "charge" /\ Kind[x] # "claim"
      BY ZenonT(30), <3>1 DEF CallChecked, ChargeChecked, ClaimChecked, Counts
    <3>3. x \in Creating => CreationChecked(x)'
      BY ZenonT(30), <1>3, <2>1, <3>1 DEF CallChecked, CreationChecked, Counts
    <3> QED
      BY <3>2, <3>3 DEF CallChecked
  <2> QED
    BY ZenonT(30), <1>10, <1>14, <2>1 DEF CheckProviderBudget
<1>15. CASE Insert(x) \/ Start(x) \/ Charge(x)
  BY ZenonT(30), <1>1, <1>15 DEF Insert, Start, Charge
<1> QED
  BY <1>4, <1>5, <1>6, <1>7, <1>8, <1>9, <1>12, <1>13, <1>14, <1>15 DEF CallStep, Proceed

Inserted(x) ==
    /\ x \in Creating /\ pc[x] = "commit" /\ pc'[x] = "done"
    /\ status' = [status EXCEPT ![x] = "QUEUED"]

Claimed(x, to) ==
    /\ Kind[x] = "claim" /\ Target[x] \in Creating
    /\ status[Target[x]] = "QUEUED"
    /\ to = "RUNNING" => pc[x] = "commit"
    /\ status' = [status EXCEPT ![Target[x]] = to]

\* The only ways a call changes a run.
LEMMA RunWrites ==
    ASSUME LocksOK, NEW x \in Calls, CallStep(x), CallChecked(x)
    PROVE  \/ status' = status
           \/ Inserted(x)
           \/ \E to \in {"RUNNING", "RETRY_SCHEDULED", "ENDED"} : Claimed(x, to)
<1>1. ASSUME OverQuota(x), pc[x] \in {"count principal", "count tenant", "check budget"}
      PROVE  status' = status \/ Claimed(x, "RETRY_SCHEDULED")
  <2>1. x \notin Creating => Kind[x] = "claim"
    BY ZenonT(30), <1>1, CallsAssumption DEF CallChecked, ChargeChecked, Counts, Creating, Kinds
  <2>2. x \notin Creating => status[Target[x]] = "QUEUED" /\ Target[x] \in Creating
    BY ZenonT(30), <1>1, <2>1, TargetAssumption DEF CallChecked, ClaimChecked, Counts
  <2> QED
    BY ZenonT(30), <1>1, <2>1, <2>2 DEF OverQuota, Claimed
<1>2. CASE Insert(x)
  BY <1>2 DEF Insert, Answer, LocksOK, Inserted
<1>3. CASE Start(x)
  <2>1. Kind[x] = "claim" /\ pc[x] = "commit" /\ Target[x] \in Creating
    BY ZenonT(30), <1>3, TargetAssumption DEF Start
  <2>2. status[Target[x]] = "QUEUED"
    BY <2>1 DEF CallChecked, ClaimChecked, Counts
  <2> QED
    BY ZenonT(30), <1>3, <2>1, <2>2 DEF Start, Claimed
<1>4. CASE CountPrincipal(x) \/ CountTenant(x) \/ CheckProviderBudget(x)
  BY ZenonT(30), <1>1, <1>4 DEF CountPrincipal, CountTenant, CheckProviderBudget, Continue, rowVars
<1>5. CASE \/ Arrive(x) \/ Acquire(x) \/ Abort(x) \/ FindExisting(x) \/ ReadRun(x)
           \/ ReadCounters(x) \/ Charge(x)
  BY ZenonT(30), <1>5 DEF Arrive, Acquire, Abort, FindExisting, ReadRun, ReadCounters, Charge,
     rowVars
<1> QED
  BY <1>2, <1>3, <1>4, <1>5 DEF CallStep, Proceed

LEMMA RowsCommittedStep ==
    ASSUME LocksOK, RowsTyped, ChecksInv, [Next]_vars
    PROVE  RowsAreCommitted'
<1>1. ASSUME NEW x \in Calls, CallStep(x)
      PROVE  \A r \in Creating : status'[r] # "ABSENT" => pc'[r] = "done"
  <2>1. CallChecked(x) /\ OwnWrites(x)
    BY <1>1, WritesAreOwn DEF ChecksInv
  <2>2. \A r \in Creating : pc[r] = "done" => pc'[r] = "done"
    <3>1. \A r \in Creating : r \in Calls
      BY ZenonT(30) DEF Creating
    <3>2. pc[x] # "done"
      BY ZenonT(30), <1>1, ProceedShape DEF CallStep, Arrive, Acquire, Abort, InTransaction
    <3> QED
      BY ZenonT(30), <2>1, <3>1, <3>2 DEF OwnWrites
  <2>3. \A r \in Creating : status[r] # "ABSENT" => pc[r] = "done"
    BY DEF ChecksInv, RowsAreCommitted
  <2>4. CASE status' = status
    BY <2>2, <2>3, <2>4
  <2>5. CASE Inserted(x)
    BY <2>2, <2>3, <2>5 DEF Inserted, RowsTyped
  <2>6. ASSUME NEW to, Claimed(x, to)
        PROVE  \A r \in Creating : status'[r] # "ABSENT" => pc'[r] = "done"
    BY <2>2, <2>3, <2>6 DEF Claimed, RowsTyped
  <2> QED
    BY ZenonT(30), <1>1, <2>1, <2>4, <2>5, <2>6, RunWrites
<1>2. ASSUME NEW x \in Calls, CallStep(x)
      PROVE  \A s \in Scopes : windowOf'[s] <= clock'
  <2>1. \A s \in Scopes : windowOf[s] <= clock
    BY DEF ChecksInv, RowsAreCommitted
  <2>2. clock' = clock
    BY <1>2, WritesAreOwn DEF OwnWrites
  <2>3. CASE Charge(x)
    <3>1. seen[x].window \in 0..clock
      BY ZenonT(30), <2>3 DEF Charge, ChecksInv, CallChecked, ChargeChecked
    <3>2. seen[x].window <= clock
      BY SMTT(10), SMTT(20), <3>1 DEF RowsTyped
    <3> QED
      BY ZenonT(30), <2>1, <2>2, <2>3, <3>2 DEF Charge
  <2>4. CASE windowOf' = windowOf
    BY <2>1, <2>2, <2>4
  <2> QED
    BY ZenonT(30), <1>2, <2>3, <2>4 DEF CallStep, Proceed, Arrive, Acquire, Abort, FindExisting,
       ReadRun,
          ReadCounters, CountPrincipal, CountTenant, CheckProviderBudget, OverQuota, Continue,
          Insert, Start, quotaVars
<1>3. ASSUME NEW r \in Creating, EndAttempt(r) \/ Requeue(r) PROVE RowsAreCommitted'
  BY <1>3 DEF EndAttempt, Requeue, RunMoves, RowsTyped, ChecksInv, RowsAreCommitted, callVars,
              quotaVars
<1>4. CASE NextWindow
  <2>1. \A s \in Scopes : windowOf'[s] \in Nat /\ windowOf'[s] <= clock /\ clock \in Nat /\ clock' = clock + 1
    BY SMTT(10), SMTT(20), <1>4 DEF NextWindow, RowsTyped, ChecksInv, RowsAreCommitted, quotaVars
  <2>2. \A s \in Scopes : windowOf'[s] <= clock'
    BY SMTT(10), SMTT(20), <2>1
  <2> QED
    BY <1>4, <2>2 DEF NextWindow, ChecksInv, RowsAreCommitted, callVars, rowVars
<1>5. CASE Redeploy \/ UNCHANGED vars
  BY <1>5 DEF Redeploy, vars, callVars, rowVars, quotaVars, ChecksInv, RowsAreCommitted
<1> QED
  BY ZenonT(30), <1>1, <1>2, <1>3, <1>4, <1>5 DEF Next, RowsAreCommitted, CallStep

LEMMA ChecksStep ==
    ASSUME LocksOK, RowsTyped, ChecksInv, [Next]_vars
    PROVE  ChecksInv'
<1> SUFFICES ASSUME NEW y \in Calls PROVE CallChecked(y)'
  BY RowsCommittedStep DEF ChecksInv
<1>1. CallChecked(y) /\ RowsAreCommitted
  BY DEF ChecksInv
<1>2. ASSUME NEW x \in Calls, CallStep(x) PROVE CallChecked(y)'
  BY <1>1, <1>2, OthersKeepChecks, OwnStepChecks
<1>3. ASSUME NEW r \in Creating, EndAttempt(r) \/ Requeue(r) PROVE CallChecked(y)'
  BY <1>1, <1>3, OtherTransactionsKeepChecks
<1>4. CASE NextWindow
  BY ZenonT(30), <1>1, <1>4, NextWindowKeepsChecks
<1>5. CASE Redeploy \/ UNCHANGED vars
  <2>1. UNCHANGED <<pc, seen, status, used, windowOf, clock>>
    BY <1>5 DEF Redeploy, vars, callVars, rowVars, quotaVars
  <2> QED
    BY <1>1, <2>1, ChecksKept
<1> QED
  BY <1>2, <1>3, <1>4, <1>5 DEF Next, CallStep

\* Typing, locks and checks together, the invariant the theorems start from.
LEMMA Checked == Spec => [](LocksOK /\ RowsTyped /\ ChecksInv)
<1>1. Init => ChecksInv
  <2> SUFFICES ASSUME Init PROVE ChecksInv
    OBVIOUS
  <2>1. \A x \in Calls : CallChecked(x)
    BY ZenonT(30) DEF Init, CallChecked, CreationChecked, ClaimChecked, ChargeChecked, Counts
  <2>2. RowsAreCommitted
    BY SMTT(10), SMTT(20) DEF Init, RowsAreCommitted
  <2> QED
    BY <2>1, <2>2 DEF ChecksInv
<1>2. LocksOK /\ RowsTyped /\ ChecksInv /\ [Next]_vars => ChecksInv'
  BY ChecksStep
<1>3. TypeOK /\ LockInv /\ LocalsTyped => LocksOK /\ RowsTyped
  BY TypesOfParts
<1> QED
  BY <1>1, <1>2, <1>3, Locked, PTL DEF Spec

\* What submit, replay, claim and a charge checked under their locks is still
\* true when they write: a free key, counts below their limits, the state of
\* the run, the counters that were read.  (run_service.py, quotas.py.)
THEOREM ChecksHoldAtCommit == Spec => []ChecksStillHold
<1>1. ChecksInv => ChecksStillHold
  <2> SUFFICES ASSUME ChecksInv, NEW x \in Calls, pc[x] = "commit"
               PROVE  \/ /\ x \in Creating
                         /\ Existing(x) = {}
                         /\ ~PrincipalFull(x) /\ ~TenantFull(x) /\ ~BudgetSpent(x, clock)
                      \/ /\ Kind[x] = "claim"
                         /\ status[Target[x]] = "QUEUED"
                         /\ ~PrincipalFull(x) /\ ~TenantFull(x)
                      \/ /\ Kind[x] = "charge"
                         /\ status[Target[x]] = "RUNNING"
                         /\ \A s \in ScopesOf(x) : Spent(s, seen[x].window) = seen[x].spent[s]
    BY ZenonT(30) DEF ChecksStillHold
  <2>1. CallChecked(x)
    BY DEF ChecksInv
  <2>2. x \in Creating \/ Kind[x] = "claim" \/ Kind[x] = "charge"
    BY CallsAssumption DEF Creating, Kinds
  <2> QED
    BY ZenonT(30), <2>1, <2>2 DEF CallChecked, CreationChecked, ClaimChecked, ChargeChecked, Counts
<1> QED
  BY <1>1, Checked, PTL

-----------------------------------------------------------------------------
(* Quotas *)

\* A count stays within its limit if the one run that may join it finds room.
LEMMA WithinLimit ==
    ASSUME NEW S \in SUBSET Creating, NEW A, NEW limit \in Nat, Counting(S, A) <= limit, NEW q,
           \A r \in S \ {q} : status'[r] \in A => status[r] \in A,
           q \in S /\ status'[q] \in A => status[q] \in A \/ ~(Counting(S, A) >= limit)
    PROVE  Counting(S, A)' <= limit
<1>1. Counting(S, A) \in Nat
  BY CountingIsNat
<1>2. Counting(S, A)' \in Nat
  <2>1. {r \in S : status'[r] \in A} \in SUBSET Creating
    OBVIOUS
  <2> QED
    BY <2>1, RunsFinite DEF Counting
<1>3. CASE \A r \in S : status'[r] \in A => status[r] \in A
  <2>1. Counting(S, A)' <= Counting(S, A)
    BY <1>3, CountingShrinks
  <2> QED
    BY SMTT(10), SMTT(20), <1>1, <1>2, <2>1
<1>4. CASE ~(Counting(S, A) >= limit)
  <2>1. Counting(S, A)' <= Counting(S, A) + 1
    BY ZenonT(30), CountingGrowsByOne
  <2> QED
    BY SMTT(10), SMTT(20), <1>1, <1>2, <1>4, <2>1
<1> QED
  BY <1>3, <1>4

ActiveStatuses == {"QUEUED", "RUNNING", "RETRY_SCHEDULED"}

QuotasOf(x) ==
    /\ Counting(OfPrincipal(x), ActiveStatuses) <= PrincipalActive
    /\ Counting(OfTenant(x), ActiveStatuses) <= TenantActive
    /\ Counting(OfPrincipal(x), {"RUNNING"}) <= PrincipalRunning
    /\ Counting(OfTenant(x), {"RUNNING"}) <= TenantRunning

\* A step keeps the quotas of x if the run q it writes finds room where it joins.
LEMMA QuotasKept ==
    ASSUME NEW x \in Creating, QuotasOf(x), NEW q \in Creating,
           \A r \in Creating \ {q} : status'[r] = status[r],
           status'[q] \in ActiveStatuses =>
               \/ status[q] \in ActiveStatuses
               \/ /\ q \in OfPrincipal(x) => ~(Counting(OfPrincipal(x), ActiveStatuses) >= PrincipalActive)
                  /\ q \in OfTenant(x) => ~(Counting(OfTenant(x), ActiveStatuses) >= TenantActive),
           status'[q] = "RUNNING" =>
               \/ status[q] = "RUNNING"
               \/ /\ q \in OfPrincipal(x) => ~(Counting(OfPrincipal(x), {"RUNNING"}) >= PrincipalRunning)
                  /\ q \in OfTenant(x) => ~(Counting(OfTenant(x), {"RUNNING"}) >= TenantRunning)
    PROVE  QuotasOf(x)'
<1>1. OfPrincipal(x) \in SUBSET Creating /\ OfTenant(x) \in SUBSET Creating
  BY ZenonT(30) DEF OfPrincipal, OfTenant
<1>2. PrincipalActive \in Nat /\ TenantActive \in Nat /\ PrincipalRunning \in Nat /\ TenantRunning \in Nat
  BY LimitsAssumption
<1>3. \A S \in SUBSET Creating : \A A : \A r \in S \ {q} : status'[r] \in A => status[r] \in A
  OBVIOUS
<1>4. Counting(OfPrincipal(x), ActiveStatuses)' <= PrincipalActive
  BY ZenonT(30), <1>1, <1>2, <1>3, WithinLimit DEF QuotasOf
<1>5. Counting(OfTenant(x), ActiveStatuses)' <= TenantActive
  BY ZenonT(30), <1>1, <1>2, <1>3, WithinLimit DEF QuotasOf
<1>6. Counting(OfPrincipal(x), {"RUNNING"})' <= PrincipalRunning
  BY SMTT(10), SMTT(20), <1>1, <1>2, <1>3, WithinLimit DEF QuotasOf
<1>7. Counting(OfTenant(x), {"RUNNING"})' <= TenantRunning
  BY SMTT(10), SMTT(20), <1>1, <1>2, <1>3, WithinLimit DEF QuotasOf
<1> QED
  BY <1>4, <1>5, <1>6, <1>7 DEF QuotasOf, Counting, ActiveStatuses, OfPrincipal, OfTenant

LEMMA QuotasStep ==
    ASSUME LocksOK, RowsTyped, ChecksInv, [Next]_vars, NEW x \in Creating, QuotasOf(x)
    PROVE  QuotasOf(x)'
<1>1. ASSUME status' = status PROVE QuotasOf(x)'
  BY ZenonT(30), <1>1 DEF QuotasOf, Counting
<1>2. ASSUME NEW y \in Calls, Inserted(y), CallChecked(y) PROVE QuotasOf(x)'
  <2>1. ~PrincipalFull(y) /\ ~TenantFull(y) /\ y \in Creating
    BY ZenonT(30), <1>2 DEF Inserted, CallChecked, CreationChecked
  <2>2. status'[y] = "QUEUED" /\ \A r \in Creating \ {y} : status'[r] = status[r]
    BY ZenonT(30), <1>2, <2>1 DEF Inserted, RowsTyped
  <2>3. y \in OfPrincipal(x) => ~(Counting(OfPrincipal(x), ActiveStatuses) >= PrincipalActive)
    BY <2>1 DEF PrincipalFull, OfPrincipal, Counted, PrincipalLimit, ActiveStatuses
  <2>4. y \in OfTenant(x) => ~(Counting(OfTenant(x), ActiveStatuses) >= TenantActive)
    BY ZenonT(30), <2>1 DEF TenantFull, OfTenant, Counted, TenantLimit, ActiveStatuses
  <2> QED
    BY <2>1, <2>2, <2>3, <2>4, QuotasKept
<1>3. ASSUME NEW y \in Calls, NEW to \in {"RUNNING", "RETRY_SCHEDULED", "ENDED"}, Claimed(y, to), CallChecked(y)
      PROVE  QuotasOf(x)'
  <2> DEFINE q == Target[y]
  <2>1. /\ q \in Creating /\ status[q] = "QUEUED" /\ y \notin Creating
        /\ Principal[q] = Principal[y] /\ Tenant[q] = Tenant[y]
    BY ZenonT(30), <1>3, TargetAssumption DEF Claimed, Creating
  <2>2. status'[q] = to /\ \A r \in Creating \ {q} : status'[r] = status[r]
    BY <1>3, <2>1 DEF Claimed, RowsTyped
  <2>3. to = "RUNNING" => ~PrincipalFull(y) /\ ~TenantFull(y)
    BY ZenonT(30), <1>3 DEF Claimed, CallChecked, ClaimChecked
  <2>4. to = "RUNNING" /\ q \in OfPrincipal(x) =>
           ~(Counting(OfPrincipal(x), {"RUNNING"}) >= PrincipalRunning)
    BY <2>1, <2>3 DEF PrincipalFull, OfPrincipal, Counted, PrincipalLimit
  <2>5. to = "RUNNING" /\ q \in OfTenant(x) =>
           ~(Counting(OfTenant(x), {"RUNNING"}) >= TenantRunning)
    BY <2>1, <2>3 DEF TenantFull, OfTenant, Counted, TenantLimit
  <2>6. status[q] \in ActiveStatuses
    BY <2>1 DEF ActiveStatuses
  <2> HIDE DEF q
  <2> QED
    BY <2>1, <2>2, <2>4, <2>5, <2>6, QuotasKept
<1>4. ASSUME NEW y \in Calls, CallStep(y) PROVE QuotasOf(x)'
  BY ZenonT(30), <1>1, <1>2, <1>3, <1>4, RunWrites DEF ChecksInv
<1>5. ASSUME NEW r \in Creating, EndAttempt(r) \/ Requeue(r) PROVE QuotasOf(x)'
  <2>1. /\ \A q \in Creating \ {r} : status'[q] = status[q]
        /\ status'[r] # "RUNNING" /\ status[r] \in ActiveStatuses
    BY <1>5 DEF EndAttempt, Requeue, RunMoves, RowsTyped, ActiveStatuses
  <2> QED
    BY <2>1, QuotasKept
<1> QED
  BY <1>1, <1>4, <1>5 DEF Next, CallStep, NextWindow, Redeploy, vars, rowVars

\* No interleaving of submissions, replays, claims and what other transactions
\* do to runs takes a principal or a tenant over a quota.
\* (check_admission, quotas.py; claim, execution_service.py.)
THEOREM QuotasNeverExceeded == Spec => []QuotasHeld
<1> DEFINE Quotas == \A x \in Creating : QuotasOf(x)
<1>1. Init => Quotas
  <2> SUFFICES ASSUME Init, NEW x \in Creating PROVE QuotasOf(x)
    OBVIOUS
  <2>1. \A S \in SUBSET Creating : Counting(S, ActiveStatuses) = 0 /\ Counting(S, {"RUNNING"}) = 0
    <3> SUFFICES ASSUME NEW S \in SUBSET Creating
                 PROVE  Counting(S, ActiveStatuses) = 0 /\ Counting(S, {"RUNNING"}) = 0
      OBVIOUS
    <3>1. {r \in S : status[r] \in ActiveStatuses} = {} /\ {r \in S : status[r] \in {"RUNNING"}} = {}
      BY DEF Init, ActiveStatuses
    <3> QED
      BY <3>1, FS_EmptySet DEF Counting
  <2>2. OfPrincipal(x) \in SUBSET Creating /\ OfTenant(x) \in SUBSET Creating
    BY DEF OfPrincipal, OfTenant
  <2> QED
    BY SMTT(10), SMTT(20), <2>1, <2>2, LimitsAssumption DEF QuotasOf
<1>2. Quotas /\ LocksOK /\ RowsTyped /\ ChecksInv /\ [Next]_vars => Quotas'
  <2> SUFFICES ASSUME Quotas, LocksOK, RowsTyped, ChecksInv, [Next]_vars,
                      NEW x \in Creating
               PROVE  QuotasOf(x)'
    OBVIOUS
  <2> QED
    BY QuotasStep
<1>3. Quotas => QuotasHeld
  BY DEF QuotasHeld, QuotasOf, Counted, ActiveStatuses
<1> QED
  BY <1>1, <1>2, <1>3, Checked, PTL DEF Spec

-----------------------------------------------------------------------------
(* Provider-call budgets *)

LEMMA NextIsAtMost == ASSUME NEW k \in Nat, NEW l \in Nat, k < l PROVE k + 1 <= l
BY SMTT(10), SMTT(20)

LEMMA ChargeKeepsBooks ==
    ASSUME RowsTyped, BooksInv, NEW x \in Calls, Charge(x), ChargeChecked(x),
           NEW s \in Scopes, NEW w \in 0..MaxWindow
    PROVE  /\ windowOf'[s] <= w => booked'[s][w] = Spent(s, w)'
           /\ booked'[s][w] <= CallLimit(s)
<1> DEFINE W == seen[x].window
<1>1. /\ booked[s] \in [0..MaxWindow -> Nat] /\ W \in 0..MaxWindow
      /\ windowOf[s] \in 0..MaxWindow /\ CallLimit(s) \in Nat
  BY ZenonT(30), LimitsAssumption DEF RowsTyped, LocalsTyped, CallLimit
<1>2. /\ windowOf[s] <= w => booked[s][w] = Spent(s, w)
      /\ windowOf[s] <= W => booked[s][W] = Spent(s, W)
      /\ booked[s][w] <= CallLimit(s)
  BY ZenonT(30), <1>1 DEF BooksInv, BooksBalance, WindowBudgetHeld
<1>3. CASE s \notin ScopesOf(x)
  <2>1. booked'[s] = booked[s] /\ windowOf'[s] = windowOf[s] /\ used'[s] = used[s]
    BY ZenonT(30), <1>3 DEF Charge
  <2> QED
    BY <1>2, <2>1 DEF Spent
<1>4. CASE s \in ScopesOf(x)
  <2>1. /\ windowOf'[s] = W /\ used'[s] = seen[x].spent[s] + 1
        /\ booked'[s] = [booked[s] EXCEPT ![W] = @ + 1]
    BY ZenonT(30), <1>4 DEF Charge
  <2>2. /\ windowOf[s] <= W /\ Spent(s, W) = seen[x].spent[s]
        /\ seen[x].spent[s] < CallLimit(s) /\ seen[x].spent[s] \in Nat
    BY <1>4 DEF Charge, ChargeChecked, RowsTyped, LocalsTyped
  <2>3. CASE w = W
    <3>1. booked'[s][w] = seen[x].spent[s] + 1
      BY ZenonT(30), <1>1, <1>2, <2>1, <2>2, <2>3
    <3>2. Spent(s, w)' = seen[x].spent[s] + 1
      BY ZenonT(30), <2>1, <2>3 DEF Spent
    <3>3. seen[x].spent[s] + 1 <= CallLimit(s)
      BY ZenonT(30), <1>1, <2>2, NextIsAtMost
    <3> QED
      BY ZenonT(30), <3>1, <3>2, <3>3
  <2>4. CASE w # W
    <3>1. booked'[s][w] = booked[s][w]
      BY ZenonT(30), <1>1, <2>1, <2>4
    <3>2. ASSUME W <= w PROVE booked[s][w] = 0 /\ Spent(s, w)' = 0
      <4>1. windowOf[s] <= w /\ windowOf[s] # w
        BY SMTT(10), SMTT(20), <1>1, <2>2, <2>4, <3>2
      <4>2. Spent(s, w) = 0
        BY ZenonT(30), <4>1 DEF Spent
      <4>3. Spent(s, w)' = 0
        BY <2>1, <2>4 DEF Spent
      <4> QED
        BY ZenonT(30), <1>2, <4>1, <4>2, <4>3
    <3> QED
      BY ZenonT(30), <1>2, <2>1, <3>1, <3>2
  <2> QED
    BY <2>3, <2>4
<1> QED
  BY <1>3, <1>4

LEMMA BooksStep ==
    ASSUME LocksOK, RowsTyped, ChecksInv, BooksInv, [Next]_vars
    PROVE  BooksInv'
<1>1. ASSUME UNCHANGED quotaVars PROVE BooksInv'
  BY ZenonT(30), <1>1 DEF BooksInv, BooksBalance, WindowBudgetHeld, Spent, quotaVars
<1>2. ASSUME NEW x \in Calls, Charge(x) PROVE BooksInv'
  <2>1. ChargeChecked(x)
    BY ZenonT(30), <1>2 DEF Charge, ChecksInv, CallChecked
  <2>2. \A s \in Scopes, w \in 0..MaxWindow :
           /\ windowOf'[s] <= w => booked'[s][w] = Spent(s, w)'
           /\ booked'[s][w] <= CallLimit(s)
    BY ZenonT(30), <1>2, <2>1, ChargeKeepsBooks
  <2> QED
    BY <2>2 DEF BooksInv, BooksBalance, WindowBudgetHeld
<1>3. ASSUME NEW x \in Calls, Arrive(x) \/ Acquire(x) \/ Abort(x) PROVE UNCHANGED quotaVars
  BY ZenonT(30), <1>3 DEF Arrive, Acquire, Abort
<1>4. ASSUME NEW x \in Calls, Proceed(x), ~Charge(x) PROVE UNCHANGED quotaVars
  BY ZenonT(30), <1>4 DEF Proceed, FindExisting, ReadRun, ReadCounters, CountPrincipal, CountTenant,
              CheckProviderBudget, OverQuota, Continue, Insert, Start
<1>5. ASSUME NEW r \in Creating, EndAttempt(r) \/ Requeue(r) PROVE UNCHANGED quotaVars
  BY <1>5 DEF EndAttempt, Requeue, RunMoves
<1> QED
  BY ZenonT(30), <1>1, <1>2, <1>3, <1>4, <1>5 DEF Next, NextWindow, Redeploy, vars

\* charge_provider_call never books more calls in a window than its limit, for
\* a principal or a tenant, although the window is read before the counters
\* are written and may have passed by then.
THEOREM WindowBudgetsKept == Spec => []WindowBudgetHeld
<1>1. Init => BooksInv
  <2> SUFFICES ASSUME Init PROVE BooksInv
    OBVIOUS
  <2>1. \A s \in Scopes, w \in 0..MaxWindow : booked[s][w] = 0 /\ Spent(s, w) = 0
    BY DEF Init, Spent
  <2>2. \A s : 0 <= CallLimit(s)
    BY SMTT(10), SMTT(20), LimitsAssumption DEF CallLimit
  <2> QED
    BY ZenonT(30), <2>1, <2>2 DEF BooksInv, BooksBalance, WindowBudgetHeld
<1>2. LocksOK /\ RowsTyped /\ ChecksInv /\ BooksInv /\ [Next]_vars => BooksInv'
  BY BooksStep
<1>3. BooksInv => WindowBudgetHeld
  BY DEF BooksInv
<1> QED
  BY <1>1, <1>2, <1>3, Checked, PTL DEF Spec

-----------------------------------------------------------------------------
(* Idempotency keys *)

Strings ==
    {"conflict", "not_found", "denied", "deferred", "refused", "started", "charged",
     "aborted", "none"}

\* A call is given a run by finding one that matches or by inserting its own.
LEMMA ReplyShape ==
    ASSUME LocksOK, NEW x \in Calls, CallStep(x), reply'[x] \in Creating
    PROVE  \/ reply'[x] = reply[x]
           \/ Insert(x) /\ reply'[x] = x
           \/ /\ FindExisting(x) /\ ~SourceMissing(x)
              /\ reply'[x] \in Existing(x) /\ hash[reply'[x]] = Fingerprint(x)
<1>1. \A a \in Strings : a \notin Creating
  BY CallsAssumption DEF Strings, Creating
<1>2. ASSUME NEW a, Answer(x, a) PROVE reply'[x] = a
  BY <1>2 DEF Answer, LocksOK
<1>3. ASSUME NEW label, Goto(x, label) PROVE reply'[x] = reply[x]
  BY <1>3 DEF Goto
<1>4. CASE FindExisting(x)
  <2>1. CASE SourceMissing(x) /\ Answer(x, "not_found")
    BY <1>1, <1>2, <2>1 DEF Strings
  <2>2. ASSUME NEW r \in Existing(x), ~SourceMissing(x), Answer(x, MatchOrRaise(x, r))
        PROVE  reply'[x] \in Existing(x) /\ hash[reply'[x]] = Fingerprint(x)
    <3>1. reply'[x] = MatchOrRaise(x, r) /\ "conflict" \notin Creating
      BY <1>1, <1>2, <2>2 DEF Strings
    <3> QED
      BY <3>1 DEF MatchOrRaise
  <2> QED
    BY ZenonT(30), <1>3, <1>4, <2>1, <2>2 DEF FindExisting
<1>5. CASE Insert(x)
  BY ZenonT(30), <1>2, <1>5 DEF Insert
<1>6. ASSUME NEW a \in Strings PROVE ~Answer(x, a)
  BY <1>1, <1>2, <1>6
<1>7. ~OverQuota(x)
  BY <1>6 DEF OverQuota, Strings
<1>8. CASE CountPrincipal(x) \/ CountTenant(x) \/ CheckProviderBudget(x)
  BY ZenonT(30), <1>3, <1>7, <1>8 DEF CountPrincipal, CountTenant, CheckProviderBudget, Continue
<1>9. CASE ReadRun(x)
  BY ZenonT(30), <1>3, <1>6, <1>9 DEF ReadRun, Strings
<1>10. CASE ReadCounters(x)
  BY ZenonT(30), <1>3, <1>6, <1>10 DEF ReadCounters, Strings
<1>11. CASE Start(x) \/ Charge(x) \/ Abort(x)
  BY ZenonT(30), <1>6, <1>11 DEF Start, Charge, Abort, Strings
<1>12. CASE Arrive(x) \/ Acquire(x)
  BY ZenonT(30), <1>3, <1>12 DEF Arrive, Acquire
<1> QED
  BY ZenonT(30), <1>4, <1>5, <1>8, <1>9, <1>10, <1>11, <1>12 DEF CallStep, Proceed

\* A committed run stays, with its fingerprint.
LEMMA RowsPersist ==
    ASSUME LocksOK, RowsTyped, ChecksInv, [Next]_vars, NEW r \in Creating, status[r] # "ABSENT"
    PROVE  status'[r] # "ABSENT" /\ hash'[r] = hash[r]
<1>1. ASSUME NEW x \in Calls, CallStep(x) PROVE status'[r] # "ABSENT"
  <2>1. CallChecked(x)
    BY DEF ChecksInv
  <2>2. CASE Inserted(x)
    BY <2>2 DEF Inserted, RowsTyped
  <2>3. ASSUME NEW to \in {"RUNNING", "RETRY_SCHEDULED", "ENDED"}, Claimed(x, to)
        PROVE  status'[r] # "ABSENT"
    BY <2>3 DEF Claimed, RowsTyped
  <2> QED
    BY <1>1, <2>1, <2>2, <2>3, RunWrites
<1>2. ASSUME NEW x \in Calls, CallStep(x) PROVE hash'[r] = hash[r]
  <2>1. CASE Insert(x)
    <3>1. r # x
      BY <2>1 DEF Insert, ChecksInv, RowsAreCommitted
    <3> QED
      BY ZenonT(30), <2>1, <3>1 DEF Insert, RowsTyped, LocalsTyped
  <2>2. CASE ~Insert(x)
    BY ZenonT(30), <1>2, <2>2 DEF CallStep, Proceed, Arrive, Acquire, Abort, FindExisting, ReadRun,
          ReadCounters, CountPrincipal, CountTenant, CheckProviderBudget, OverQuota, Continue,
          Start, Charge, rowVars
  <2> QED
    BY <2>1, <2>2
<1>3. ASSUME NEW q \in Creating, EndAttempt(q) \/ Requeue(q)
      PROVE  status'[r] # "ABSENT" /\ hash'[r] = hash[r]
  BY ZenonT(30), <1>3 DEF EndAttempt, Requeue, RunMoves, RowsTyped
<1>4. CASE NextWindow \/ Redeploy \/ UNCHANGED vars
  BY <1>4 DEF NextWindow, Redeploy, vars, rowVars
<1> QED
  BY <1>1, <1>2, <1>3, <1>4 DEF Next, CallStep

\* An answer that was given stays true.
LEMMA RepliesPersist ==
    ASSUME LocksOK, RowsTyped, ChecksInv, [Next]_vars, NEW y \in Creating,
           ReplyIsRun(y), reply[y] \in Creating,
           reply'[y] = reply[y], pc'[y] = pc[y], asked'[y] = asked[y]
    PROVE  ReplyIsRun(y)'
<1>1. /\ pc[y] = "done" /\ status[reply[y]] # "ABSENT"
      /\ Tenant[reply[y]] = Tenant[y] /\ Key[reply[y]] = Key[y]
      /\ hash[reply[y]] = Fingerprint(y) /\ ~SourceMissing(y)
  BY ZenonT(30) DEF ReplyIsRun
<1>2. status'[reply[y]] # "ABSENT" /\ hash'[reply[y]] = hash[reply[y]]
  BY ZenonT(30), <1>1, RowsPersist
<1>3. Kind[y] = "replay" => /\ Target[y] \in Creating
                            /\ status'[Target[y]] # "ABSENT" /\ hash'[Target[y]] = hash[Target[y]]
  <2> SUFFICES ASSUME Kind[y] = "replay"
               PROVE  /\ Target[y] \in Creating
                      /\ status'[Target[y]] # "ABSENT" /\ hash'[Target[y]] = hash[Target[y]]
    BY ZenonT(30)
  <2>1. y \in Calls /\ Kind[y] # "submit"
    BY ZenonT(30) DEF Creating
  <2>2. Target[y] \in Creating
    BY <2>1, TargetAssumption
  <2>3. status[Target[y]] # "ABSENT"
    BY ZenonT(30), <1>1 DEF SourceMissing
  <2> QED
    BY ZenonT(30), <2>2, <2>3, RowsPersist
<1>4. Kind[y] = "submit" \/ Kind[y] = "replay"
  BY ZenonT(30) DEF Creating
<1>5. Fingerprint(y)' = Fingerprint(y) /\ ~SourceMissing(y)'
  BY ZenonT(30), <1>3, <1>4 DEF Fingerprint, SourceMissing
<1> QED
  BY ZenonT(30), <1>1, <1>2, <1>5 DEF ReplyIsRun

\* An answer that is given is true.
LEMMA RepliesAreRuns ==
    ASSUME LocksOK, RowsTyped, ChecksInv, [Next]_vars, NEW x \in Creating, CallStep(x),
           ReplyIsRun(x)
    PROVE  ReplyIsRun(x)'
<1> SUFFICES ASSUME reply'[x] \in Creating PROVE ReplyIsRun(x)'
  BY ZenonT(30) DEF ReplyIsRun
<1>1. x \in Calls /\ pc[x] # "done" /\ reply[x] \notin Creating
  BY ProceedShape DEF CallStep, Arrive, Acquire, Abort, InTransaction, ReplyIsRun, Creating
<1>2. CallChecked(x)
  BY <1>1 DEF ChecksInv
<1>3. Kind[x] = "submit" \/ Kind[x] = "replay"
  BY DEF Creating
<1>4. CASE Insert(x) /\ reply'[x] = x
  <2>1. /\ pc'[x] = "done" /\ status'[x] = "QUEUED" /\ hash'[x] = Fingerprint(x)
        /\ asked' = asked
    BY <1>1, <1>4 DEF Insert, Answer, LocksOK, RowsTyped, LocalsTyped
  <2>2. ~SourceMissing(x)
    BY ZenonT(30), <1>2, <1>4 DEF Insert, CallChecked, CreationChecked, Counts
  <2>3. Kind[x] = "replay" => /\ status'[Target[x]] # "ABSENT"
                              /\ hash'[Target[x]] = hash[Target[x]]
    <3> SUFFICES ASSUME Kind[x] = "replay"
                 PROVE  status'[Target[x]] # "ABSENT" /\ hash'[Target[x]] = hash[Target[x]]
      BY ZenonT(30)
    <3>1. Target[x] \in Creating /\ status[Target[x]] # "ABSENT"
      BY ZenonT(30), <1>1, <2>2, TargetAssumption DEF SourceMissing
    <3> QED
      BY ZenonT(30), <3>1, RowsPersist
  <2>4. Fingerprint(x)' = Fingerprint(x) /\ ~SourceMissing(x)'
    BY ZenonT(30), <1>3, <2>1, <2>3 DEF Fingerprint, SourceMissing
  <2> QED
    BY ZenonT(30), <1>4, <2>1, <2>4 DEF ReplyIsRun
<1>5. CASE /\ FindExisting(x) /\ ~SourceMissing(x)
           /\ reply'[x] \in Existing(x) /\ hash[reply'[x]] = Fingerprint(x)
  <2>1. asked' = asked /\ status' = status /\ hash' = hash
    BY ZenonT(30), <1>5 DEF FindExisting, rowVars
  <2>2. pc'[x] = "done"
    <3>1. ASSUME Goto(x, "count principal") PROVE FALSE
      BY ZenonT(30), <1>1, <3>1 DEF Goto
    <3> QED
      BY ZenonT(30), <1>1, <1>5, <3>1 DEF FindExisting, Answer, LocksOK
  <2>3. /\ status[reply'[x]] # "ABSENT"
        /\ Tenant[reply'[x]] = Tenant[x] /\ Key[reply'[x]] = Key[x]
    BY ZenonT(30), <1>5 DEF Existing
  <2>4. Fingerprint(x)' = Fingerprint(x) /\ ~SourceMissing(x)'
    BY ZenonT(30), <1>5, <2>1 DEF Fingerprint, SourceMissing
  <2> QED
    BY ZenonT(30), <1>5, <2>1, <2>2, <2>3, <2>4 DEF ReplyIsRun
<1> QED
  BY ZenonT(30), <1>1, <1>4, <1>5, ReplyShape

LEMMA KeysStep ==
    ASSUME LocksOK, RowsTyped, ChecksInv, KeysInv, [Next]_vars
    PROVE  KeysInv'
<1>1. \A x \in Creating : x \in Calls
  BY DEF Creating
<1>2. ASSUME NEW x \in Calls, CallStep(x), NEW y \in Calls, y # x
      PROVE  pc'[y] = pc[y] /\ reply'[y] = reply[y] /\ asked'[y] = asked[y]
  <2>1. pc'[y] = pc[y]
    BY ZenonT(30), <1>2, WritesAreOwn DEF OwnWrites
  <2>2. asked'[y] = asked[y]
    <3>1. CASE Arrive(x)
      BY <1>2, <3>1 DEF Arrive, RowsTyped, LocalsTyped
    <3>2. CASE ~Arrive(x)
      BY ZenonT(30), <1>2, <3>2 DEF CallStep, Proceed, Acquire, Abort, FindExisting, ReadRun,
         ReadCounters,
            CountPrincipal, CountTenant, CheckProviderBudget, OverQuota, Continue, Insert, Start, Charge
    <3> QED
      BY <3>1, <3>2
  <2>3. reply'[y] = reply[y]
    <3>1. ASSUME NEW answer, Answer(x, answer) PROVE reply'[y] = reply[y]
      BY <1>2, <3>1 DEF Answer, LocksOK
    <3>2. CASE Arrive(x) \/ Acquire(x)
      BY ZenonT(30), <3>2 DEF Arrive, Acquire, Goto
    <3>3. CASE Abort(x)
      BY ZenonT(30), <3>1, <3>3 DEF Abort
    <3>4. CASE Proceed(x)
      BY <3>1, <3>4, ProceedShape DEF Goto
    <3> QED
      BY <1>2, <3>2, <3>3, <3>4 DEF CallStep
  <2> QED
    BY ZenonT(30), <2>1, <2>2, <2>3
<1>3. ASSUME ~\E x \in Calls : CallStep(x) PROVE UNCHANGED <<pc, reply, asked>>
  BY <1>3 DEF Next, CallStep, EndAttempt, Requeue, RunMoves, NextWindow, Redeploy, vars, callVars
<1>4. \A y \in Creating : ReplyIsRun(y)'
  <2> SUFFICES ASSUME NEW y \in Creating PROVE ReplyIsRun(y)'
    OBVIOUS
  <2>1. ReplyIsRun(y)
    BY DEF KeysInv
  <2>2. CASE CallStep(y)
    BY <2>1, <2>2, RepliesAreRuns
  <2>3. CASE ~CallStep(y)
    <3>1. pc'[y] = pc[y] /\ reply'[y] = reply[y] /\ asked'[y] = asked[y]
      BY <1>1, <1>2, <1>3, <2>3
    <3>2. CASE reply[y] \in Creating
      BY ZenonT(30), <2>1, <3>1, <3>2, RepliesPersist
    <3>3. CASE reply[y] \notin Creating
      BY ZenonT(30), <3>1, <3>3 DEF ReplyIsRun
    <3> QED
      BY <3>2, <3>3
  <2> QED
    BY <2>2, <2>3
<1>5. \A y \in Creating : Kind[y] = "submit" /\ pc'[y] # "new" => asked'[y][1] = Input[y]
  <2> SUFFICES ASSUME NEW y \in Creating, Kind[y] = "submit", pc'[y] # "new"
               PROVE  asked'[y][1] = Input[y]
    OBVIOUS
  <2>1. pc[y] # "new" => asked[y][1] = Input[y]
    BY ZenonT(30) DEF KeysInv
  <2>2. CASE ~CallStep(y)
    BY ZenonT(30), <1>1, <1>2, <1>3, <2>1, <2>2
  <2>3. CASE Arrive(y)
    <3>1. asked'[y] = <<Input[y], server>>
      BY <1>1, <2>3 DEF Arrive, RowsTyped, LocalsTyped
    <3> QED
      BY SMTT(10), SMTT(20), <3>1
  <2>4. CASE CallStep(y) /\ ~Arrive(y)
    <3>1. asked' = asked
      BY ZenonT(30), <2>4 DEF CallStep, Proceed, Acquire, Abort, FindExisting, ReadRun,
         ReadCounters,
            CountPrincipal, CountTenant, CheckProviderBudget, OverQuota, Continue, Insert, Start, Charge
    <3>2. pc[y] # "new"
      BY ZenonT(30), <1>1, <2>4, ProceedShape DEF CallStep, Acquire, Abort, InTransaction
    <3> QED
      BY <2>1, <3>1, <3>2
  <2> QED
    BY ZenonT(30), <2>2, <2>3, <2>4
<1>6. KeysUnique'
  <2>1. KeysUnique
    BY DEF KeysInv
  <2>2. ASSUME \A r \in Creating : status'[r] # "ABSENT" => status[r] # "ABSENT" PROVE KeysUnique'
    BY <2>1, <2>2 DEF KeysUnique
  <2>3. ASSUME NEW x \in Calls, Inserted(x) PROVE KeysUnique'
    <3>1. Existing(x) = {}
      BY ZenonT(30), <2>3 DEF Inserted, ChecksInv, CallChecked, CreationChecked, Counts
    <3>2. \A r \in Creating \ {x} : status'[r] = status[r]
      BY <2>3 DEF Inserted, RowsTyped
    <3>3. \A r \in Creating : status[r] # "ABSENT" /\ Tenant[r] = Tenant[x] => Key[r] # Key[x]
      BY <3>1 DEF Existing
    <3> QED
      BY <2>1, <3>2, <3>3 DEF KeysUnique
  <2>4. ASSUME NEW x \in Calls, CallStep(x) PROVE KeysUnique'
    <3>1. CallChecked(x)
      BY DEF ChecksInv
    <3>2. ASSUME NEW to \in {"RUNNING", "RETRY_SCHEDULED", "ENDED"}, Claimed(x, to)
          PROVE  \A r \in Creating : status'[r] # "ABSENT" => status[r] # "ABSENT"
      BY <3>2 DEF Claimed, RowsTyped
    <3> QED
      BY <2>2, <2>3, <2>4, <3>1, <3>2, RunWrites
  <2>5. ASSUME NEW q \in Creating, EndAttempt(q) \/ Requeue(q)
        PROVE  \A r \in Creating : status'[r] # "ABSENT" => status[r] # "ABSENT"
    BY ZenonT(30), <2>5 DEF EndAttempt, Requeue, RunMoves, RowsTyped
  <2> QED
    BY <2>2, <2>4, <2>5 DEF Next, CallStep, NextWindow, Redeploy, vars, rowVars
<1> QED
  BY ZenonT(30), <1>4, <1>5, <1>6 DEF KeysInv

\* Whatever submissions and replays race for a tenant's Idempotency-Key, all
\* that were given a run were given the same one, and it is what they asked.
\* (submit and replay, run_service.py.)
THEOREM KeysNameOneRun == Spec => []OneRunPerKey
<1>1. Init => KeysInv
  <2>1. Init => \A x \in Creating : reply[x] \notin Creating /\ pc[x] = "new" /\ status[x] = "ABSENT"
    BY ZenonT(30), CallsAssumption DEF Init, Creating
  <2> QED
    BY <2>1 DEF KeysInv, KeysUnique, ReplyIsRun
<1>2. LocksOK /\ RowsTyped /\ ChecksInv /\ KeysInv /\ [Next]_vars => KeysInv'
  BY KeysStep
<1>3. KeysInv => OneRunPerKey
  <2> SUFFICES ASSUME KeysInv, NEW x \in Creating, NEW y \in Creating
               PROVE  /\ reply[x] \in Creating => hash[reply[x]] = Fingerprint(x)
                      /\ /\ reply[x] \in Creating /\ reply[y] \in Creating
                         /\ Tenant[x] = Tenant[y] /\ Key[x] = Key[y]
                         => /\ reply[x] = reply[y]
                            /\ Kind[x] = Kind[y]
                            /\ IF Kind[x] = "submit" THEN Input[x] = Input[y]
                                                     ELSE Target[x] = Target[y]
    BY ZenonT(30) DEF OneRunPerKey
  <2>1. ReplyIsRun(x) /\ ReplyIsRun(y)
    BY DEF KeysInv
  <2>2. reply[x] \in Creating => hash[reply[x]] = Fingerprint(x)
    BY <2>1 DEF ReplyIsRun
  <2>3. ASSUME reply[x] \in Creating, reply[y] \in Creating, Tenant[x] = Tenant[y], Key[x] = Key[y]
        PROVE  /\ reply[x] = reply[y] /\ Kind[x] = Kind[y]
               /\ IF Kind[x] = "submit" THEN Input[x] = Input[y] ELSE Target[x] = Target[y]
    <3>1. /\ pc[x] = "done" /\ status[reply[x]] # "ABSENT"
          /\ Tenant[reply[x]] = Tenant[x] /\ Key[reply[x]] = Key[x]
          /\ hash[reply[x]] = Fingerprint(x)
      BY ZenonT(30), <2>1, <2>3 DEF ReplyIsRun
    <3>2. /\ pc[y] = "done" /\ status[reply[y]] # "ABSENT"
          /\ Tenant[reply[y]] = Tenant[y] /\ Key[reply[y]] = Key[y]
          /\ hash[reply[y]] = Fingerprint(y)
      BY ZenonT(30), <2>1, <2>3 DEF ReplyIsRun
    <3>3. reply[x] = reply[y]
      BY ZenonT(30), <2>3, <3>1, <3>2 DEF KeysInv, KeysUnique
    <3>4. Fingerprint(x) = Fingerprint(y)
      BY ZenonT(30), <3>1, <3>2, <3>3
    <3>5. /\ Fingerprint(x)[1] = IF Kind[x] = "submit" THEN Input[x] ELSE Target[x]
          /\ Fingerprint(y)[1] = IF Kind[y] = "submit" THEN Input[y] ELSE Target[y]
      BY <3>1, <3>2 DEF KeysInv, Fingerprint
    <3>6. x \in Calls /\ y \in Calls /\ Target[x] \in Calls /\ Target[y] \in Calls
      BY TargetAssumption DEF Creating
    <3>7. Kind[x] \in {"submit", "replay"} /\ Kind[y] \in {"submit", "replay"}
      BY DEF Creating
    <3> QED
      BY ZenonT(30), <3>3, <3>4, <3>5, <3>6, <3>7, InputAssumption
  <2> QED
    BY ZenonT(30), <2>2, <2>3
<1> QED
  BY <1>1, <1>2, <1>3, Checked, PTL DEF Spec
=============================================================================
