----------------------------- MODULE MCRuntime ------------------------------
(***************************************************************************)
(* Instances of Runtime for TLC.  The cfg files choose among these values. *)
(***************************************************************************)
EXTENDS Runtime, TLC

CONSTANTS r1, r2, r3, h1, h2, w1, w2, d1, t1, p1, p2

OneWorker == [h \in Handlers |-> w1]

OneTenant == [r \in Runs |-> t1]
OnePrincipal == [r \in Runs |-> p1]
TwoPrincipals == (r1 :> p1) @@ (r2 :> p1) @@ (r3 :> p2)

NoJobs == [r \in Runs |-> NoRun]
TwoJobsOfR1 == (r1 :> NoRun) @@ (r2 :> r1) @@ (r3 :> r1)

OneAttempt == [r \in Runs |-> 1]
FirstRunTwoAttempts == [r \in Runs |-> IF r = r1 THEN 2 ELSE 1]
TwoAttempts == [r \in Runs |-> 2]

HandlerSymmetry == Permutations(Handlers)
JobSymmetry == Permutations({r2, r3}) \cup Permutations(Handlers)
=============================================================================
