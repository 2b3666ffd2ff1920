----------------------------- MODULE LockProofs -----------------------------
(***************************************************************************)
(* Theorems about the lock of a sandbox record and its notifications, for  *)
(* any number of clients, workers and faults and any queue depth.          *)
(***************************************************************************)
EXTENDS StorageLock, TLAPS

\* Every step of the notifier, alone or by a client's Publish, keeps its types.
LEMMA NotifierTypeStep ==
    NotifierTypeOK /\ (NotifierNext \/ Publish \/ UNCHANGED notifyVars) => NotifierTypeOK'
<1> SUFFICES ASSUME NotifierTypeOK, NotifierNext \/ Publish \/ UNCHANGED notifyVars
             PROVE  NotifierTypeOK'
  OBVIOUS
<1> USE NotifierAssumption DEF NotifierTypeOK, pubVars, subVars, Fault
<1>1. CASE Publish
  <2>1. CASE Accepts
    BY <1>1, <2>1 DEF Publish, Accepts
  <2>2. CASE ~Accepts
    BY <1>1, <2>2 DEF Publish
  <2> QED  BY <2>1, <2>2
<1>2. CASE RunStarts \/ WorkerTakes \/ WorkersEnd \/ Drained
  <2>1. CASE WorkerTakes
    BY <2>1 DEF WorkerTakes
  <2>2. CASE RunStarts \/ WorkersEnd \/ Drained
    BY <2>2 DEF RunStarts, WorkersEnd, Drained
  <2> QED  BY <1>2, <2>1, <2>2
<1>3. CASE PublishOne
  <2>1. busy' \in 0..Workers
    BY <1>3 DEF PublishOne
  <2>2. net' \in Nat /\ faults' \in 0..MaxFaults
    BY <1>3 DEF PublishOne
  <2>3. lost' \in BOOLEAN
    BY <1>3, Zenon DEF PublishOne
  <2> QED  BY <1>3, <2>1, <2>2, <2>3 DEF PublishOne
<1>4. CASE Drain
  <2>1. queue' \in 0..QueueDepth
    BY <1>4 DEF Drain
  <2>2. net' \in Nat /\ faults' \in 0..MaxFaults
    BY <1>4 DEF Drain
  <2>3. lost' \in BOOLEAN
    BY <1>4, Zenon DEF Drain
  <2> QED  BY <1>4, <2>1, <2>2, <2>3 DEF Drain
<1>5. CASE DrainGivesUp
  BY <1>5 DEF DrainGivesUp
<1>6. CASE Dispatch
  BY <1>6 DEF Dispatch
<1>7. CASE MessageLost
  BY <1>7 DEF MessageLost
<1>8. CASE ListenerEnds
  BY <1>8 DEF ListenerEnds
<1>9. CASE CloseSubscriptions \/ CloseSwaps \/ CloseReturns
  BY <1>9 DEF CloseSubscriptions, CloseSwaps, CloseReturns, RunAfterSwap
<1>10. CASE CloseMarks
  BY <1>10 DEF CloseMarks
<1>11. CASE ContextEnds
  BY <1>11 DEF ContextEnds
<1>12. CASE UNCHANGED notifyVars
  BY <1>12 DEF notifyVars
<1> QED
  BY <1>1, <1>2, <1>3, <1>4, <1>5, <1>6, <1>7, <1>8, <1>9, <1>10, <1>11, <1>12
     DEF NotifierNext, PublisherStep, CloseStep

\* Every step keeps the types.
LEMMA LockTypeStep == TypeOK /\ [Next]_vars => TypeOK'
<1> SUFFICES ASSUME TypeOK, [Next]_vars PROVE TypeOK'
  OBVIOUS
<1> USE DEF TypeOK, Goto, Granted
<1>1. ASSUME NEW c \in Clients, FirstTry(c) \/ TimerFires(c) \/ Leave(c) \/ Release(c) PROVE TypeOK'
  <2>1. NotifierTypeOK'
    BY <1>1, NotifierTypeStep DEF FirstTry, TimerFires, Leave, Release
  <2> QED  BY <1>1, <2>1 DEF FirstTry, TimerFires, Leave, Release
<1>2. ASSUME NEW c \in Clients, PublishRelease(c) PROVE TypeOK'
  <2>1. NotifierTypeOK'
    BY <1>2, NotifierTypeStep DEF PublishRelease
  <2> QED  BY <1>2, <2>1 DEF PublishRelease
<1>3. ASSUME NEW c \in Clients, Subscribe(c) PROVE TypeOK'
  BY <1>3 DEF Subscribe, Subscribed, AfterSubscribe, NotifierTypeOK, pubVars
<1>4. ASSUME NEW c \in Clients, TryLock(c) PROVE TypeOK'
  BY <1>4 DEF TryLock, Unsubscribed, NotifierTypeOK, pubVars, subVars
<1>5. ASSUME NEW c \in Clients, Notified(c) \/ TimesOut(c) PROVE TypeOK'
  BY <1>5 DEF Notified, TimesOut, Unsubscribed, NotifierTypeOK, pubVars
<1>6. ASSUME NEW c \in Clients, TryFails(c) PROVE TypeOK'
  BY <1>6, NotifierAssumption DEF TryFails, Unsubscribed, Fault, NotifierTypeOK, pubVars
<1>7. ASSUME NEW c \in Clients, ReleaseFails(c) PROVE TypeOK'
  BY <1>7, NotifierAssumption DEF ReleaseFails, Fault, NotifierTypeOK, pubVars, subVars
<1>8. ASSUME NEW c \in Clients, Dies(c) PROVE TypeOK'
  BY <1>8, NotifierAssumption DEF Dies, Unsubscribed, Fault, NotifierTypeOK, pubVars
<1>9. CASE KeyExpires
  BY <1>9 DEF KeyExpires, NotifierTypeOK, pubVars, subVars
<1>10. CASE NotifierStep
  BY <1>10, NotifierTypeStep DEF NotifierStep, lockVars
<1>11. CASE UNCHANGED vars
  BY <1>11, NotifierTypeStep DEF vars, lockVars
<1> QED
  BY <1>1, <1>2, <1>3, <1>4, <1>5, <1>6, <1>7, <1>8, <1>9, <1>10, <1>11 DEF Next, ClientStep

\* Types hold in every environment, slow holders included.
THEOREM LockTypeCorrect == Spec => []TypeOK
<1>1. Init => TypeOK
  <2> SUFFICES ASSUME Init PROVE TypeOK
    OBVIOUS
  <2>1. listening \in BOOLEAN /\ closing \in BOOLEAN /\ ended \in BOOLEAN /\ spent \in BOOLEAN /\ lost \in BOOLEAN
    BY Zenon DEF Init, NotifierInit
  <2> QED
    BY <2>1, NotifierAssumption DEF Init, NotifierInit, TypeOK, NotifierTypeOK
<1> QED  BY <1>1, LockTypeStep, PTL DEF Spec

-----------------------------------------------------------------------------
\* A client inside the lock is the one whose token the key has.
HolderInv == \A c \in Clients : pc[c] = "in" => key = {c}

\* Every step keeps it, if no client stays inside beyond the TTL.
LEMMA HolderStep ==
    TypeOK /\ HolderInv /\ ~SlowHolders /\ [Next]_vars => HolderInv'
<1> SUFFICES ASSUME TypeOK, HolderInv, ~SlowHolders, [Next]_vars PROVE HolderInv'
  OBVIOUS
<1>p. pc \in [Clients -> {"idle", "sub", "try", "select", "in", "release", "publish", "out"}]
  BY DEF TypeOK
<1> USE DEF HolderInv, Goto, Granted
<1>1. ASSUME NEW c \in Clients, ClientStep(c) PROVE HolderInv'
  BY <1>1, <1>p DEF ClientStep, FirstTry, Subscribe, AfterSubscribe, TryLock, Leave, Release, Owns, PublishRelease
<1>2. ASSUME NEW c \in Clients, Notified(c) \/ TimerFires(c) \/ TimesOut(c) \/ TryFails(c) PROVE HolderInv'
  BY <1>2, <1>p DEF Notified, TimerFires, TimesOut, TryFails
<1>3. ASSUME NEW c \in Clients, ReleaseFails(c) \/ Dies(c) PROVE HolderInv'
  BY <1>3, <1>p DEF ReleaseFails, Owns, Dies
<1>4. CASE KeyExpires
  BY <1>4, <1>p DEF KeyExpires
<1>5. CASE NotifierStep \/ UNCHANGED vars
  BY <1>5 DEF NotifierStep, lockVars, vars
<1> QED
  BY <1>1, <1>2, <1>3, <1>4, <1>5 DEF Next

\* With a client's token in the key, every step of the detailed lock is a step
\* of the abstract one or leaves it alone.
LEMMA LockStep ==
    TypeOK /\ HolderInv /\ [Next]_vars => [Abs!Next]_Inside
<1> SUFFICES ASSUME TypeOK, HolderInv, [Next]_vars PROVE [Abs!Next]_Inside
  OBVIOUS
<1>p. pc \in [Clients -> {"idle", "sub", "try", "select", "in", "release", "publish", "out"}]
  BY DEF TypeOK
<1> USE DEF HolderInv, Goto, Inside
<1>1. ASSUME NEW c \in Clients, Granted(c), pc[c] # "in" PROVE Abs!Next
  <2>1. Inside = {}
    BY <1>1, <1>p DEF Granted
  <2>2. Inside' = {c}
    BY <1>1, <2>1, <1>p DEF Granted
  <2> QED  BY <2>1, <2>2 DEF Abs!Next, Abs!Enter
<1>2. ASSUME NEW c \in Clients, pc[c] = "in", pc' = [pc EXCEPT ![c] = "release"] \/ pc' = [pc EXCEPT ![c] = "out"]
      PROVE  Abs!Next
  <2>1. Inside = {c}
    BY <1>2, <1>p
  <2>2. Inside' = {}
    BY <1>2, <2>1, <1>p
  <2> QED  BY <2>1, <2>2 DEF Abs!Next, Abs!Leave
<1>3. ASSUME NEW c \in Clients, NEW p, pc[c] # "in", p # "in", pc' = [pc EXCEPT ![c] = p]
      PROVE  Inside' = Inside
  BY <1>3, <1>p
<1>4. ASSUME NEW c \in Clients, ClientStep(c) PROVE [Abs!Next]_Inside
  BY <1>4, <1>1, <1>2, <1>3
     DEF ClientStep, FirstTry, Subscribe, AfterSubscribe, TryLock, Leave, Release, PublishRelease
<1>5. ASSUME NEW c \in Clients, Notified(c) \/ TimerFires(c) \/ TimesOut(c) \/ TryFails(c) \/ ReleaseFails(c)
      PROVE  [Abs!Next]_Inside
  BY <1>5, <1>3 DEF Notified, TimerFires, TimesOut, TryFails, ReleaseFails
<1>6. ASSUME NEW c \in Clients, Dies(c) PROVE [Abs!Next]_Inside
  BY <1>6, <1>2, <1>3 DEF Dies
<1>7. CASE KeyExpires \/ NotifierStep \/ UNCHANGED vars
  BY <1>7 DEF KeyExpires, NotifierStep, vars, lockVars
<1> QED
  BY <1>4, <1>5, <1>6, <1>7 DEF Next

\* The Redis lock implements a lock: for any number of clients and faults, as
\* long as no client stays inside beyond lockTimeout.
THEOREM LockImplemented == ASSUME ~SlowHolders PROVE Spec => ImplementsLock
<1>1. Init => HolderInv /\ Abs!Init
  BY DEF Init, HolderInv, Abs!Init, Inside
<1>2. TypeOK /\ HolderInv /\ [Next]_vars => HolderInv'
  BY HolderStep
<1> QED
  BY <1>1, <1>2, LockStep, LockTypeCorrect, PTL DEF Spec, ImplementsLock, Abs!Spec

-----------------------------------------------------------------------------
\* A client that tries again, or waits for a notification, is subscribed.
WakeupInv == NoMissedWakeup /\ \A c \in Clients : pc[c] \in {"try", "select"} => c \in waiters

\* No step leaves a waiter asleep on a free lock with no signal on its way.
LEMMA WakeupStep == TypeOK /\ WakeupInv /\ [Next]_vars => WakeupInv'
<1> SUFFICES ASSUME TypeOK, WakeupInv, [Next]_vars PROVE WakeupInv'
  OBVIOUS
<1>p. pc \in [Clients -> {"idle", "sub", "try", "select", "in", "release", "publish", "out"}]
  BY DEF TypeOK
<1>n. queue \in Nat /\ busy \in Nat /\ net \in Nat
  BY NotifierAssumption DEF TypeOK, NotifierTypeOK
<1> USE DEF WakeupInv, NoMissedWakeup, Goto, Granted
<1>1. ASSUME NEW c \in Clients, FirstTry(c) \/ Leave(c) \/ Release(c) \/ TimerFires(c) PROVE WakeupInv'
  BY <1>1, <1>p, <1>n DEF FirstTry, Leave, Release, TimerFires, notifyVars, pubVars, subVars
<1>2. ASSUME NEW c \in Clients, Subscribe(c) \/ TryLock(c) PROVE WakeupInv'
  <2>1. CASE Subscribe(c)
    BY <2>1, <1>p, <1>n DEF Subscribe, Subscribed, AfterSubscribe, pubVars
  <2>2. CASE TryLock(c) /\ key = {}
    BY <2>2, <1>p DEF TryLock, Unsubscribed, pubVars, subVars
  <2>3. CASE TryLock(c) /\ key # {}
    <3>1. key' # {} /\ UNCHANGED waiters /\ pc' = [pc EXCEPT ![c] = "select"]
      BY <2>3 DEF TryLock, subVars
    <3>2. c \in waiters
      BY <2>3, <1>p DEF TryLock
    <3> QED  BY <3>1, <3>2, <1>p
  <2> QED  BY <1>2, <2>1, <2>2, <2>3
<1>3. ASSUME NEW c \in Clients, PublishRelease(c) PROVE WakeupInv'
  <2>1. CASE Accepts
    BY <1>3, <2>1, <1>p, <1>n DEF PublishRelease, Publish, subVars
  <2>2. CASE ~Accepts
    <3>1. lost' = TRUE
      BY <1>3, <2>2, Zenon DEF PublishRelease, Publish
    <3> QED  BY <1>3, <3>1, <1>p DEF PublishRelease, Publish, subVars
  <2> QED  BY <2>1, <2>2
<1>4. ASSUME NEW c \in Clients, Notified(c) \/ TimesOut(c) \/ TryFails(c) PROVE WakeupInv'
  BY <1>4, <1>p, <1>n DEF Notified, TimesOut, TryFails, Unsubscribed, pubVars
<1>5. ASSUME NEW c \in Clients, ReleaseFails(c) \/ Dies(c) PROVE WakeupInv'
  BY <1>5, <1>p, <1>n DEF ReleaseFails, Dies, Unsubscribed, pubVars, subVars
<1>6. CASE KeyExpires
  BY <1>6 DEF KeyExpires, subVars
<1>7. CASE NotifierStep
  <2> USE <1>7 DEF NotifierStep, lockVars, pubVars, subVars
  <2>1. CASE RunStarts \/ WorkerTakes \/ WorkersEnd \/ Drained
    BY <2>1, <1>n DEF RunStarts, WorkerTakes, WorkersEnd, Drained
  <2>5. CASE PublishOne
    <3>1. CASE net' = net + 1 /\ UNCHANGED lost
      BY <2>5, <3>1, <1>n DEF PublishOne
    <3>2. CASE lost' = TRUE
      BY <2>5, <3>2 DEF PublishOne
    <3> QED  BY <2>5, <3>1, <3>2 DEF PublishOne
  <2>2. CASE Drain \/ DrainGivesUp \/ MessageLost \/ ListenerEnds
    BY <2>2, <1>n DEF Drain, DrainGivesUp, MessageLost, ListenerEnds
  <2>3. CASE Dispatch
    BY <2>3, <1>n DEF Dispatch
  <2>4. CASE CloseSubscriptions \/ CloseStep \/ ContextEnds
    BY <2>4, <1>n DEF CloseSubscriptions, CloseStep, CloseMarks, CloseSwaps, CloseReturns, ContextEnds
  <2> QED  BY <2>1, <2>2, <2>3, <2>4, <2>5 DEF NotifierNext, PublisherStep
<1>8. CASE UNCHANGED vars
  BY <1>8 DEF vars, lockVars, notifyVars, pubVars, subVars
<1> QED
  BY <1>1, <1>2, <1>3, <1>4, <1>5, <1>6, <1>7, <1>8 DEF Next, ClientStep

\* A waiter never sleeps on a free lock without a signal on its way, unless a
\* notification was lost: subscribing before the second try closes the gap.
THEOREM WakeupsReach == Spec => []NoMissedWakeup
<1>1. Init => WakeupInv
  BY DEF Init, NotifierInit, WakeupInv, NoMissedWakeup
<1>2. WakeupInv => NoMissedWakeup
  BY DEF WakeupInv
<1> QED  BY <1>1, <1>2, WakeupStep, LockTypeCorrect, PTL DEF Spec

-----------------------------------------------------------------------------
\* The drain starts once Publish accepts nothing more, or the context has
\* ended; what it leaves behind it has given up.
DrainInv ==
    /\ closer \in {"swap", "wait", "end"} => closing
    /\ closer = "end" => run = "done"
    /\ run \in {"drain", "done"} => closing \/ ended
    /\ run = "done" /\ ~spent /\ ~ended => queue = 0

\* Every step keeps this.
LEMMA DrainStep == TypeOK /\ DrainInv /\ [Next]_vars => DrainInv'
<1> SUFFICES ASSUME TypeOK, DrainInv, [Next]_vars PROVE DrainInv'
  OBVIOUS
<1> USE DEF DrainInv, pubVars
<1>1. ASSUME NEW c \in Clients, PublishRelease(c) PROVE DrainInv'
  BY <1>1 DEF PublishRelease, Publish, Accepts
<1>2. CASE UNCHANGED pubVars
  BY <1>2
<1>3. CASE NotifierStep
  <2>1. CASE RunStarts \/ WorkerTakes \/ PublishOne
    BY <2>1 DEF RunStarts, WorkerTakes, PublishOne
  <2>2. CASE WorkersEnd \/ Drain \/ DrainGivesUp \/ Drained
    BY <2>2 DEF WorkersEnd, Cancelled, Drain, DrainGivesUp, Drained
  <2>3. CASE Dispatch \/ MessageLost \/ ListenerEnds
    BY <2>3 DEF Dispatch, MessageLost, ListenerEnds
  <2>4. CASE CloseSubscriptions \/ CloseMarks \/ CloseSwaps
    BY <2>4 DEF CloseSubscriptions, CloseMarks, CloseSwaps, RunAfterSwap
  <2>5. CASE CloseReturns \/ ContextEnds
    BY <2>5 DEF CloseReturns, ContextEnds
  <2> QED
    BY <1>3, <2>1, <2>2, <2>3, <2>4, <2>5 DEF NotifierStep, NotifierNext, PublisherStep, CloseStep
<1>4. ASSUME NEW c \in Clients, ClientStep(c), ~PublishRelease(c) PROVE UNCHANGED pubVars
  BY <1>4 DEF ClientStep, FirstTry, Subscribe, TryLock, Leave, Release, notifyVars
<1>5. ASSUME NEW c \in Clients,
             Notified(c) \/ TimerFires(c) \/ TimesOut(c) \/ TryFails(c) \/ ReleaseFails(c) \/ Dies(c)
      PROVE  UNCHANGED pubVars
  BY <1>5 DEF Notified, TimerFires, TimesOut, TryFails, ReleaseFails, Dies, notifyVars
<1>6. KeyExpires \/ UNCHANGED vars => UNCHANGED pubVars
  BY DEF KeyExpires, vars, notifyVars
<1> QED
  BY <1>1, <1>2, <1>3, <1>4, <1>5, <1>6 DEF Next

\* Whatever Publish accepts is taken from the queue before Close returns, unless
\* the drain gives up or the context of run ended by itself.
THEOREM CloseLeavesNothing == Spec => []CloseDrainsQueue
<1>1. Init => DrainInv
  BY DEF Init, NotifierInit, DrainInv
<1>2. DrainInv => CloseDrainsQueue
  BY DEF DrainInv, CloseDrainsQueue
<1> QED  BY <1>1, <1>2, DrainStep, LockTypeCorrect, PTL DEF Spec
=============================================================================
