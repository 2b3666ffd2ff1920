---------------------------- MODULE MCExpiration ----------------------------
(***************************************************************************)
(* Instances of ExpirationIndex for TLC.                                   *)
(***************************************************************************)
EXTENDS ExpirationIndex, TLC

SweeperSymmetry == Permutations(Sweepers)
=============================================================================
