-------------------------- MODULE MCUpdateManager --------------------------
(***************************************************************************)
(* The instance TLC checks: two goroutines and three releases, the least    *)
(* with two packages newer than the build.                                 *)
(***************************************************************************)
EXTENDS UpdateManager

CONSTANTS p1, p2
=============================================================================
