-------------------------------- MODULE MCDrive --------------------------------
(***************************************************************************)
(* Drive on a small instance: two pages that may be exchanged.             *)
(***************************************************************************)
EXTENDS Drive, TLC

PageSymmetry == Permutations(Pages)

=============================================================================
