---------------------------- MODULE RunContract -----------------------------
(***************************************************************************)
(* What a client of the runtime is promised about a run it was told is     *)
(* accepted: it stays pending while attempts are made one after another,   *)
(* at most Budget of them, and is decided exactly once.  A success carries *)
(* the result of the attempt that was current when it was decided.         *)
(***************************************************************************)
EXTENDS Naturals

CONSTANTS Runs, Budget

VARIABLES
    outcome,   \* "ABSENT", "PENDING", or how the run was decided
    tries,     \* attempts made so far
    winner     \* the attempt whose result was kept, 0 if none

contractVars == <<outcome, tries, winner>>

ContractInit ==
    /\ outcome = [r \in Runs |-> "ABSENT"]
    /\ tries = [r \in Runs |-> 0]
    /\ winner = [r \in Runs |-> 0]

Accept(r) ==
    /\ outcome[r] = "ABSENT"
    /\ outcome' = [outcome EXCEPT ![r] = "PENDING"]
    /\ UNCHANGED <<tries, winner>>

Try(r) ==
    /\ outcome[r] = "PENDING"
    /\ tries[r] < Budget[r]
    /\ tries' = [tries EXCEPT ![r] = @ + 1]
    /\ UNCHANGED <<outcome, winner>>

Succeed(r) ==
    /\ outcome[r] = "PENDING"
    /\ tries[r] > 0
    /\ outcome' = [outcome EXCEPT ![r] = "SUCCEEDED"]
    /\ winner' = [winner EXCEPT ![r] = tries[r]]
    /\ UNCHANGED tries

\* Dead-lettering is for a run that was tried; FAILED may come before any try.
GiveUp(r, verdict) ==
    /\ outcome[r] = "PENDING"
    /\ verdict = "DEAD_LETTERED" => tries[r] > 0
    /\ outcome' = [outcome EXCEPT ![r] = verdict]
    /\ UNCHANGED <<tries, winner>>

ContractNext ==
    \E r \in Runs :
        \/ Accept(r)
        \/ Try(r)
        \/ Succeed(r)
        \/ \E verdict \in {"FAILED", "DEAD_LETTERED"} : GiveUp(r, verdict)

ContractSpec == ContractInit /\ [][ContractNext]_contractVars
=============================================================================
