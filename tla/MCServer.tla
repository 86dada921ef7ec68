------------------------------ MODULE MCServer ------------------------------
(* Server with two workers and two clients.                                 *)
EXTENDS Server

CONSTANTS w1, w2, c1, c2
=============================================================================
