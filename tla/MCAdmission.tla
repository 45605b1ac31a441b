---------------------------- MODULE MCAdmission -----------------------------
(***************************************************************************)
(* Instances of Admission for TLC: principal p1 submits s1 and s2, p2      *)
(* replays s1 as y1 with the key of s2; c1 and c2 claim s1 and y1, g1 and  *)
(* g2 charge a provider call to them.  s3 repeats s1.                      *)
(***************************************************************************)
EXTENDS Admission, TLC

CONSTANTS s1, s2, s3, y1, c1, c2, g1, g2, p1, p2, t1, k1, k2, i1

MCKind == [x \in Calls |->
    IF x \in {s1, s2, s3} THEN "submit" ELSE IF x = y1 THEN "replay"
    ELSE IF x \in {c1, c2} THEN "claim" ELSE "charge"]
MCTarget == [x \in Calls |->
    IF x \in {y1, c1, g1} THEN s1 ELSE IF x \in {c2, g2} THEN y1 ELSE x]
MCPrincipal == [x \in Calls |-> IF x \in {y1, c2, g2} THEN p2 ELSE p1]
MCTenant == [x \in Calls |-> t1]
MCKey == [x \in Calls |-> IF x \in {s1, s3} THEN k1 ELSE k2]
MCInput == [x \in Calls |-> i1]
=============================================================================
