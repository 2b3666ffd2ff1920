---------------------------- MODULE MCTransition ----------------------------
(***************************************************************************)
(* Instances of SandboxTransition for TLC.                                 *)
(***************************************************************************)
EXTENDS SandboxTransition, TLC

RequestSymmetry == Permutations(Requests)
=============================================================================
