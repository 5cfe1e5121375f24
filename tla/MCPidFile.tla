----------------------------- MODULE MCPidFile ------------------------------
(***************************************************************************)
(* Small instances of PidFile for TLC.                                     *)
(***************************************************************************)
EXTENDS PidFile

CONSTANTS p1, p2, p3
=============================================================================
