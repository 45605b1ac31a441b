-------------------------- MODULE MCDataProtection ---------------------------
(***************************************************************************)
(* An instance of DataProtection for TLC.                                  *)
(***************************************************************************)
EXTENDS DataProtection, TLC

CONSTANTS t1, r1, c1, c2, p1, p2

OneTenant == [r \in Runs |-> t1]
Symmetry == Permutations(Callers) \cup Permutations(Purges)
=============================================================================
