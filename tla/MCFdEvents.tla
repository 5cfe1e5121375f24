----------------------------- MODULE MCFdEvents -----------------------------
(***************************************************************************)
(* Small instances of FdEvents for TLC.                                    *)
(***************************************************************************)
EXTENDS FdEvents

CONSTANTS a, b, sock, file

OneBit == {{x} : x \in Bit}
=============================================================================
