--------------------------- MODULE MCPassiveInput ---------------------------
(***************************************************************************)
(* Small instances of PassiveInput for TLC.                                *)
(***************************************************************************)
EXTENDS PassiveInput

CONSTANTS o1, o2

RouteSymmetry == Permutations(Route)
=============================================================================
