------------------------------ MODULE MCLimits ------------------------------
(***************************************************************************)
(* The semaphore with callers of all kinds, an evictor and the connections *)
(* of a lifecycle, for TLC.  They have nothing to do with each other, so a *)
(* behaviour is one of a single one of them: states add up and are not     *)
(* multiplied.                                                             *)
(***************************************************************************)
EXTENDS Evictor, ConnectionLimiter

VARIABLE system     \* the one that runs

allVars == <<vars, connVars, system>>

\* No limit, a block of all connections, and a limit that is reached.
MCMaxLimits == {-1, 0, 2}

\* What does not run has one initial state.
LimitsInit ==
    /\ Init
    /\ ConnInit
    /\ system \in {"semaphore", "evictor", "connections"}
    /\ system = "connections" => \A n \in Limits : limit <= n
    /\ system # "connections" => \A c \in Conns, n \in MaxLimits : maxLimit[c] <= n

Free(c) == pc[c] = "idle" /\ callback[c] = "none" /\ stage[c] = "none"

\* Names are numbers and mean nothing: who comes takes the least one that is
\* free.  This is the symmetry of names, in a form that liveness allows.
LeastName ==
    /\ \A c, d \in Callers : c < d /\ Free(c) /\ Free(d) => Free(d)'
    /\ \A c, d \in Conns : c < d /\ step[c] = "new" => step'[d] = "new"

LimitsNext ==
    /\ \/ system = "semaphore" /\ SemNext /\ UNCHANGED <<evictVars, connVars>>
       \/ system = "evictor" /\ Next /\ UNCHANGED connVars
       \/ system = "connections" /\ ConnNext /\ UNCHANGED vars
    /\ UNCHANGED system
    /\ LeastName

LimitsSpec == LimitsInit /\ [][LimitsNext]_allVars /\ SemFairness /\ Fairness
=============================================================================
