--------------------------- MODULE MCSignalEvents ---------------------------
(***************************************************************************)
(* Small instances of SignalEvents for TLC.                                *)
(***************************************************************************)
EXTENDS SignalEvents, TLC

CONSTANTS a, b, fd, usr, hup

Sigs == [e \in Event |-> CASE e = b -> hup [] e = fd -> Null [] OTHER -> usr]
=============================================================================
