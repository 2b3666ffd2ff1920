---------------------------- MODULE AbstractLock ----------------------------
(***************************************************************************)
(* What the code between Obtain and Release of the lock of a sandbox       *)
(* record relies on: at any time at most one caller is between the two.    *)
(***************************************************************************)
CONSTANT Clients

VARIABLE inside

Init == inside = {}

Enter(c) == inside = {} /\ inside' = {c}

Leave(c) == inside = {c} /\ inside' = {}

Next == \E c \in Clients : Enter(c) \/ Leave(c)

Spec == Init /\ [][Next]_inside
=============================================================================
