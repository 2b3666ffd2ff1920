-------------------------- MODULE AbstractLimiter --------------------------
(***************************************************************************)
(* What CreateSandbox and a team rely on when a start is reserved: an ID   *)
(* has one start or one execution at a time, an execution runs only after  *)
(* it was let in, and those that were let in stay within the limit until   *)
(* they are gone.  An ID may be counted for longer than it is needed (a    *)
(* start that died, a removal that is not quite over), never for less.     *)
(***************************************************************************)
EXTENDS Integers, FiniteSets

CONSTANTS Sandboxes, Executions, None, Limit

VARIABLES
    counted,    \* IDs that count against the limit
    starts,     \* <<ID, execution>> let in and not yet running
    runs        \* the execution that runs under an ID

limiterVars == <<counted, starts, runs>>

Init ==
    /\ counted = {}
    /\ starts = {}
    /\ runs = [s \in Sandboxes |-> None]

Vacant(s) == runs[s] = None /\ \A e \in Executions : <<s, e>> \notin starts

Within(ids) == Limit >= 0 => Cardinality(ids) <= Limit

\* IDs that are not in use any more stop counting.
Forget(gone) ==
    /\ \A s \in gone : Vacant(s)
    /\ counted' = counted \ gone
    /\ UNCHANGED <<starts, runs>>

\* A start is let in; IDs out of use may stop counting at the same time.
Admit(s, e, gone) ==
    /\ Vacant(s)
    /\ \A t \in gone : Vacant(t)
    /\ counted' = (counted \ gone) \cup {s}
    /\ Within(counted')
    /\ starts' = starts \cup {<<s, e>>}
    /\ UNCHANGED runs

\* The start ends in a running execution, which takes up no new room, ...
Run(s, e) ==
    /\ <<s, e>> \in starts
    /\ s \in counted
    /\ starts' = starts \ {<<s, e>>}
    /\ runs' = [runs EXCEPT ![s] = e]
    /\ UNCHANGED counted

\* ... or it fails or dies.
Abort(s, e) ==
    /\ <<s, e>> \in starts
    /\ starts' = starts \ {<<s, e>>}
    /\ UNCHANGED <<counted, runs>>

\* The execution is over; its ID stops counting now or is forgotten later.
Stop(s) ==
    /\ runs[s] # None
    /\ runs' = [runs EXCEPT ![s] = None]
    /\ counted' \in {counted, counted \ {s}}
    /\ UNCHANGED starts

Next ==
    \/ \E gone \in SUBSET Sandboxes : Forget(gone)
    \/ \E s \in Sandboxes, e \in Executions :
        \/ \E gone \in SUBSET Sandboxes : Admit(s, e, gone)
        \/ Run(s, e) \/ Abort(s, e)
    \/ \E s \in Sandboxes : Stop(s)

Spec == Init /\ [][Next]_limiterVars
=============================================================================
