------------------------------ MODULE MCTunnel ------------------------------
(***************************************************************************)
(* A small instance of Tunnel for TLC: each client has its address, and    *)
(* may get that of the other when it is gone.                              *)
(***************************************************************************)
EXTENDS Tunnel

CONSTANTS c1, c2, x, y

HomeOfTwo == [c \in {c1, c2} |-> IF c = c1 THEN {x} ELSE {y}]
=============================================================================
