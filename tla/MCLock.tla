------------------------------- MODULE MCLock -------------------------------
(***************************************************************************)
(* Instances of StorageLock for TLC.                                       *)
(***************************************************************************)
EXTENDS StorageLock
=============================================================================
