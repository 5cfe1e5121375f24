---------------------------- MODULE MCFIFORunner ----------------------------
(***************************************************************************)
(* Small instances of FIFORunner for TLC.                                  *)
(***************************************************************************)
EXTENDS FIFORunner, TLC

CONSTANTS a, b, c, d

\* Three fd or timer events, which share the normal segment, and a POST hook.
TwoSegments == (a :> "NORMAL") @@ (b :> "NORMAL") @@ (c :> "NORMAL") @@ (d :> "LOW")

=============================================================================
