---------------------------- MODULE MCLifecycle ----------------------------
(***************************************************************************)
(* Instances of SandboxLifecycle for TLC.                                  *)
(***************************************************************************)
EXTENDS SandboxLifecycle
=============================================================================
