------------------------- MODULE AdjustableSemaphore -------------------------
(***************************************************************************)
(* The counting semaphore whose limit can be changed while it is in use    *)
(* (packages/shared/pkg/utils/resizable_semaphore.go): a mutex, a condition *)
(* variable, the units in use and the limit.  It bounds the sandboxes that *)
(* start on a node, the evictions, the uploads and some database queries.  *)
(*                                                                         *)
(* A caller is one call in flight: an Acquire or a TryAcquire, the Release  *)
(* that follows and the callback of its context; its name is used again    *)
(* when all of these are over.  Every caller asks for one unit, as all the  *)
(* calls of the repository do.                                             *)
(*                                                                         *)
(* What is done under the mutex is one step, but for the way into          *)
(* cond.Wait: the callback of a context broadcasts without the mutex, so it *)
(* can come after the look at ctx.Err and before the caller is on the list. *)
(***************************************************************************)
EXTENDS Integers, FiniteSets

CONSTANTS
    Callers,    \* names of calls in flight
    Limits      \* the limits that NewAdjustableSemaphore and SetLimit are given

ASSUME SemaphoreAssumption ==
    /\ IsFiniteSet(Callers)
    /\ Limits \subseteq Nat \ {0}

VARIABLES
    used,       \* units in use
    limit,
    pc,         \* where each caller is
    cancelled,  \* callers whose context has ended
    callback    \* the callback of each context: none, set, or due

semVars == <<used, limit, pc, cancelled, callback>>

\* In Acquire.  A caller that is "checked" has the mutex.
Waiting == {"enter", "checked", "parked", "woken"}

SemTypeOK ==
    /\ used \in Nat
    /\ limit \in Limits
    /\ pc \in [Callers -> {"idle", "held"} \cup Waiting]
    /\ cancelled \subseteq Callers
    /\ callback \in [Callers -> {"none", "set", "due"}]

SemInit ==
    /\ used = 0
    /\ limit \in Limits
    /\ pc = [c \in Callers |-> "idle"]
    /\ cancelled = {}
    /\ callback = [c \in Callers |-> "none"]

-----------------------------------------------------------------------------
MutexFree == \A c \in Callers : pc[c] # "checked"

\* Mutant: off by one.
FullLate == used > limit

Full == used + 1 > limit

\* cond.Broadcast: whoever is on the list goes for the mutex again.
Broadcast == [c \in Callers |-> IF pc[c] = "parked" THEN "woken" ELSE pc[c]]

\* context.AfterFunc, of a context that may have ended already.
AfterFunc(c) == IF c \in cancelled THEN "due" ELSE "set"

\* The deferred stop(), which does not stop a callback that is due.
Stop(cb) == IF cb = "due" THEN "due" ELSE "none"

\* Acquire returns, with or without a unit.
Returns(c, p, cb) ==
    /\ pc' = [pc EXCEPT ![c] = p]
    /\ cancelled' = cancelled \ {c}
    /\ callback' = [callback EXCEPT ![c] = Stop(cb)]

\* The condition of the loop and its body up to cond.Wait, with the mutex.
Tests(c, cb) ==
    /\ MutexFree
    /\ \/ ~Full /\ used' = used + 1 /\ Returns(c, "held", cb)
       \/ Full /\ c \in cancelled /\ UNCHANGED used /\ Returns(c, "idle", cb)
       \/ /\ Full
          /\ c \notin cancelled
          /\ pc' = [pc EXCEPT ![c] = "checked"]
          /\ callback' = [callback EXCEPT ![c] = cb]
          /\ UNCHANGED <<used, cancelled>>
    /\ UNCHANGED limit

-----------------------------------------------------------------------------
\* Acquire is called, with a context of its own.
Acquire(c) ==
    /\ pc[c] = "idle"
    /\ callback[c] = "none"
    /\ pc' = [pc EXCEPT ![c] = "enter"]
    /\ UNCHANGED <<used, limit, cancelled, callback>>

Enters(c) == pc[c] = "enter" /\ Tests(c, AfterFunc(c))

\* cond.Wait: on the list first, and only then is the mutex unlocked.
Parks(c) ==
    /\ pc[c] = "checked"
    /\ pc' = [pc EXCEPT ![c] = "parked"]
    /\ UNCHANGED <<used, limit, cancelled, callback>>

\* cond.Wait has the mutex again: the condition is looked at once more.
Resumes(c) == pc[c] = "woken" /\ Tests(c, callback[c])

Cancel(c) ==
    /\ pc[c] \in Waiting
    /\ cancelled' = cancelled \cup {c}
    /\ callback' = [callback EXCEPT ![c] = IF @ = "set" THEN "due" ELSE @]
    /\ UNCHANGED <<used, limit, pc>>

\* The callback's goroutine broadcasts, without the mutex.
CallbackRuns(c) ==
    /\ callback[c] = "due"
    /\ callback' = [callback EXCEPT ![c] = "none"]
    /\ pc' = Broadcast
    /\ UNCHANGED <<used, limit, cancelled>>

\* TryAcquire; when it fails it changes nothing.
TryAcquire(c) ==
    /\ pc[c] = "idle"
    /\ callback[c] = "none"
    /\ MutexFree
    /\ ~Full
    /\ used' = used + 1
    /\ pc' = [pc EXCEPT ![c] = "held"]
    /\ UNCHANGED <<limit, cancelled, callback>>

\* Release.  If less is in use than is released it panics.
Release(c) ==
    /\ pc[c] = "held"
    /\ MutexFree
    /\ used >= 1
    /\ used' = used - 1
    /\ pc' = [Broadcast EXCEPT ![c] = "idle"]
    /\ UNCHANGED <<limit, cancelled, callback>>

\* Mutant: nobody is told of the new limit.
SetLimitSilently(n) ==
    /\ n # limit
    /\ MutexFree
    /\ limit' = n
    /\ UNCHANGED <<used, pc, cancelled, callback>>

\* SetLimit; a limit that is not positive, or the same, changes nothing.
SetLimit(n) ==
    /\ n # limit
    /\ MutexFree
    /\ limit' = n
    /\ pc' = Broadcast
    /\ UNCHANGED <<used, cancelled, callback>>

-----------------------------------------------------------------------------
\* The steps of an Acquire that goes on without anybody's help.
AcquireStep(c) == Enters(c) \/ Resumes(c) \/ Parks(c) \/ CallbackRuns(c)

SemNext ==
    \/ \E c \in Callers : Acquire(c) \/ AcquireStep(c) \/ Cancel(c) \/ TryAcquire(c) \/ Release(c)
    \/ \E n \in Limits : SetLimit(n)

SemSpec == SemInit /\ [][SemNext]_semVars

\* A mutex that is unlocked again and again is locked by each who waits for it
\* in the end (the starvation mode of sync.Mutex), a goroutine that can run
\* runs.  Whoever has a unit may keep it, and contexts need not end.
SemFairness ==
    \A c \in Callers :
        /\ SF_semVars(Enters(c) \/ Resumes(c))
        /\ WF_semVars(Parks(c))
        /\ WF_semVars(CallbackRuns(c))

-----------------------------------------------------------------------------
Holders == {c \in Callers : pc[c] = "held"}

\* The units in use are the callers that have one: what a caller whose context
\* ended while it waited, or a lowered limit, leaves behind is exact, and
\* Release never panics.
UsedIsHeld == used = Cardinality(Holders)

\* No wake-up is lost: whoever sleeps in cond.Wait, sleeps because all units
\* are in use, whatever was released and however the limit was changed since.
ParkedMeansFull == \A c \in Callers : pc[c] = "parked" => Full

\* A unit is taken within the limit of that moment only; after the limit was
\* lowered below what is in use nobody gets one until enough are back.
WithinLimit == [][used' > used => used' <= limit]_semVars

\* Who waits while a unit is free gets one, or somebody else has taken the last.
RoomIsUsed ==
    \A c \in Callers : (pc[c] \in Waiting /\ ~Full) ~> (pc[c] \notin Waiting \/ Full)
=============================================================================
