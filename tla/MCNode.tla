------------------------------- MODULE MCNode -------------------------------
(***************************************************************************)
(* Instances of SandboxNode for TLC.                                       *)
(***************************************************************************)
EXTENDS SandboxNode, TLC

NodeSymmetry == Permutations(Slots) \cup Permutations(Lifecycles) \cup Permutations(Requests)
=============================================================================
