--------------------------- MODULE MCReservation ---------------------------
(***************************************************************************)
(* Instances of SandboxReservation for TLC.                                *)
(***************************************************************************)
EXTENDS SandboxReservation, TLC

RequestSymmetry == Permutations(Requests)

\* Requests are numbers and alike: they come in the order of their numbers.
\* This is the symmetry of requests, in a form that liveness allows.
InOrder == \A q, r \in Requests : q < r /\ pc'[r] # "idle" => pc'[q] # "idle"

OrderedSpec == Init /\ [][Next /\ InOrder]_vars /\ Fairness
=============================================================================
