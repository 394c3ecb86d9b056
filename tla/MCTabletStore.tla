---------------------------- MODULE MCTabletStore ----------------------------
(* Two resident tablets of three, so that each load may evict; tablet 0 has *)
(* two cells, so that logs of several cells interleave.                     *)
EXTENDS TabletStore, TLC

CONSTANTS a, b, c, v1, v2

MCCells == {a, b, c}
MCValues == {v1, v2}
MCTabletOf == a :> 0 @@ b :> 0 @@ c :> 1

Symm == Permutations({v1, v2})
=============================================================================
