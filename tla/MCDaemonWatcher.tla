-------------------------- MODULE MCDaemonWatcher ---------------------------
(***************************************************************************)
(* A small instance of DaemonWatcher for TLC.                              *)
(***************************************************************************)
EXTENDS DaemonWatcher

CONSTANTS fileA, fileB

TwoAndOne == [s \in Stream |-> IF s = "out" THEN 2 ELSE 1]
=============================================================================
