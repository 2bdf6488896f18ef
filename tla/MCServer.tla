------------------------------ MODULE MCServer ------------------------------
(* Server with two processes, so that one may follow or overlap another,   *)
(* a short request and a long one.                                         *)
EXTENDS Server

CONSTANTS p1, p2, r1, r2

=============================================================================
