------------------------------ MODULE MCClient ------------------------------
(* Client with two callers, one of them a DiskHashClient, and one worker.   *)
EXTENDS Client, TLC

(* Five bytes have more bits than the int of the decoder.                   *)
MCBusyKey == <<251, 0, 251, 251, 251>>

(* No action and no property tells the values apart.                        *)
Symmetry == Permutations(Values)
=============================================================================
