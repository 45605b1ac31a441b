---------------------------- MODULE MCApiBoundary ----------------------------
(***************************************************************************)
(* An instance of ApiBoundary for TLC.                                     *)
(***************************************************************************)
EXTENDS ApiBoundary

CONSTANTS c1, c2, q1, q2
=============================================================================
