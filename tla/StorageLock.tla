----------------------------- MODULE StorageLock -----------------------------
(***************************************************************************)
(* The lock of a sandbox record                                            *)
(* (packages/api/internal/sandbox/storage/redis/lock.go over               *)
(* github.com/bsm/redislock): a Redis key with a TTL that holds the token  *)
(* of its owner, and the notifications of its release.                     *)
(*                                                                         *)
(* A client is one call of Obtain, by Update, Remove, StartRemoving or the *)
(* callback of a transition, with what it does under the lock and its      *)
(* Release.  Clients of other API instances see the same key.              *)
(***************************************************************************)
EXTENDS Notifier

CONSTANT SlowHolders    \* may a client be at work beyond lockTimeout?

ASSUME LockAssumption == SlowHolders \in BOOLEAN

VARIABLES
    key,    \* the client whose token the Redis key holds, if any
    pc      \* where each client is

lockVars == <<key, pc>>
vars == <<notifyVars, lockVars>>

TypeOK ==
    /\ NotifierTypeOK
    /\ key \subseteq Clients
    /\ pc \in [Clients -> {"idle", "sub", "try", "select", "in", "release", "publish", "out"}]

Init ==
    /\ NotifierInit
    /\ key = {}
    /\ pc = [c \in Clients |-> "idle"]

Goto(c, p) == pc' = [pc EXCEPT ![c] = p]

-----------------------------------------------------------------------------
\* Obtain.

\* SET NX of the client's token.
Granted(c) == key = {} /\ key' = {c} /\ Goto(c, "in")

FirstTry(c) ==
    /\ pc[c] = "idle"
    /\ \/ Granted(c)
       \/ key # {} /\ Goto(c, "sub") /\ UNCHANGED key
    /\ UNCHANGED notifyVars

\* Mutant: the lock is not tried again once the client is subscribed.
AfterSubscribeSelect == "select"

AfterSubscribe == "try"

Subscribe(c) ==
    /\ pc[c] = "sub"
    /\ Subscribed(c)
    /\ Goto(c, AfterSubscribe)
    /\ UNCHANGED <<pubVars, lost, faults, key>>

TryLock(c) ==
    /\ pc[c] = "try"
    /\ \/ Granted(c) /\ Unsubscribed(c)
       \/ key # {} /\ Goto(c, "select") /\ UNCHANGED <<key, subVars>>
    /\ UNCHANGED <<pubVars, lost, faults>>

Notified(c) ==
    /\ pc[c] = "select"
    /\ c \in signal
    /\ signal' = signal \ {c}
    /\ Goto(c, "try")
    /\ UNCHANGED <<pubVars, waiters, listening, lost, faults, key>>

\* Mutant: there is no timer, only the notification.
NoTimer(c) == FALSE

\* The backoff timer may fire at any time.
TimerFires(c) ==
    /\ pc[c] = "select"
    /\ Goto(c, "try")
    /\ UNCHANGED <<notifyVars, key>>

\* The context ends.
TimesOut(c) ==
    /\ pc[c] = "select"
    /\ Goto(c, "out")
    /\ Unsubscribed(c)
    /\ UNCHANGED <<pubVars, lost, faults, key>>

\* A Redis error, which may hide that the key was set.
TryFails(c) ==
    /\ pc[c] \in {"idle", "try"}
    /\ Fault
    /\ key' = key \/ (key = {} /\ key' = {c})
    /\ Goto(c, "out")
    /\ Unsubscribed(c)
    /\ UNCHANGED <<pubVars, lost>>

-----------------------------------------------------------------------------
\* Under the lock, and Release.

Leave(c) ==
    /\ pc[c] = "in"
    /\ Goto(c, "release")
    /\ UNCHANGED <<notifyVars, key>>

\* Mutant: the key is deleted whoever holds it.
OwnsAny(c) == key # {}

\* redislock deletes the key if it still has the client's token.
Owns(c) == key = {c}

\* ErrLockNotHeld ends the call without a notification.
Release(c) ==
    /\ pc[c] = "release"
    /\ \/ Owns(c) /\ key' = {} /\ Goto(c, "publish")
       \/ ~Owns(c) /\ UNCHANGED key /\ Goto(c, "out")
    /\ UNCHANGED notifyVars

ReleaseFails(c) ==
    /\ pc[c] = "release"
    /\ Fault
    /\ \/ UNCHANGED key
       \/ Owns(c) /\ key' = {}
    /\ lost' = TRUE
    /\ Goto(c, "out")
    /\ UNCHANGED <<pubVars, subVars>>

PublishRelease(c) ==
    /\ pc[c] = "publish"
    /\ Publish
    /\ Goto(c, "out")
    /\ UNCHANGED key

-----------------------------------------------------------------------------
\* The key's TTL ends: for a client that left without deleting it, or that is
\* slow.  Nobody is told.
KeyExpires ==
    /\ key # {}
    /\ \A c \in key : pc[c] = "in" => SlowHolders
    /\ key' = {}
    /\ lost' = TRUE
    /\ UNCHANGED <<pubVars, subVars, faults, pc>>

Dies(c) ==
    /\ pc[c] \notin {"idle", "out"}
    /\ Fault
    /\ Goto(c, "out")
    /\ Unsubscribed(c)
    /\ lost' = TRUE
    /\ UNCHANGED <<pubVars, key>>

ClientStep(c) ==
    FirstTry(c) \/ Subscribe(c) \/ TryLock(c) \/ Leave(c) \/ Release(c) \/ PublishRelease(c)

NotifierStep == NotifierNext /\ UNCHANGED lockVars

Next ==
    \/ \E c \in Clients :
        ClientStep(c) \/ Notified(c) \/ TimerFires(c) \/ TimesOut(c) \/ TryFails(c) \/ ReleaseFails(c) \/ Dies(c)
    \/ KeyExpires \/ NotifierStep

Spec == Init /\ [][Next]_vars

\* Goroutines go on, the backoff timer fires and Redis drops keys past their
\* TTL.  Nothing is assumed of the notifications or of a waiter's deadline.
FairSpec ==
    /\ Spec
    /\ \A c \in Clients :
        WF_vars(ClientStep(c) /\ pc[c] # "idle") /\ WF_vars(TimerFires(c))
    /\ WF_vars(KeyExpires)
    /\ WF_vars(PublisherStep /\ UNCHANGED lockVars)
    /\ WF_vars(CloseStep /\ UNCHANGED lockVars)

-----------------------------------------------------------------------------
\* Clients that are between Obtain and Release.
Inside == {c \in Clients : pc[c] = "in"}

Abs == INSTANCE AbstractLock WITH inside <- Inside

\* The lock is a lock: whatever fails, expires or is released late, no client
\* enters before the one inside has left.  (As long as none is inside beyond
\* the TTL.)
ImplementsLock == Abs!Spec

\* No wakeup is missed while the dispatch loop listens: a waiter sleeps on a free
\* lock only while a signal for it is on its way, unless a notification was lost
\* or never sent.  Once the loop has ended, keys reach nobody and the backoff
\* timer is all a waiter has (WaiterGetsThrough).
NoMissedWakeup ==
    \A c \in Clients :
        pc[c] = "select" /\ key = {} /\ listening /\ ~lost =>
            \/ c \in signal
            \/ queue + busy + net > 0
            \/ \E d \in Clients : pc[d] = "publish"

\* A waiter gets the lock or an answer even if every notification is lost and
\* the holder died: the retries do not depend on them.
WaiterGetsThrough ==
    \A c \in Clients : pc[c] \in {"sub", "try", "select"} ~> pc[c] \in {"in", "release", "out"}
=============================================================================
