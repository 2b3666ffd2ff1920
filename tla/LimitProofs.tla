----------------------------- MODULE LimitProofs -----------------------------
(***************************************************************************)
(* Theorems about the adjustable semaphore, the evictor that uses it and    *)
(* the connection limiter, for any number of callers, goroutines, sandboxes *)
(* and connections and for all limits.                                     *)
(***************************************************************************)
EXTENDS Evictor, ConnectionLimiter, FiniteSetTheorems, TLAPS

\* A finite set that gains, or loses, one element.
LEMMA OneMore ==
    ASSUME NEW S, IsFiniteSet(S), NEW x, x \notin S
    PROVE  Cardinality(S \cup {x}) = Cardinality(S) + 1
BY FS_AddElement

\* Without one of its members a finite set has one member less.
LEMMA OneLess ==
    ASSUME NEW S, IsFiniteSet(S), NEW x \in S
    PROVE  Cardinality(S \ {x}) = Cardinality(S) - 1 /\ Cardinality(S) >= 1
<1>1. IsFiniteSet(S \ {x}) /\ Cardinality(S \ {x}) = Cardinality(S) - 1
  BY FS_RemoveElement
<1>2. Cardinality(S \ {x}) \in Nat /\ Cardinality(S) \in Nat
  BY <1>1, FS_CardinalityType
<1> QED  BY <1>1, <1>2

-----------------------------------------------------------------------------
\* The semaphore.

\* A caller on its way into cond.Wait has seen that all units are in use, and
\* keeps the mutex until it is on the list.
CheckedMeansFull == \A c \in Callers : pc[c] = "checked" => Full

SemInv == SemTypeOK /\ UsedIsHeld /\ ParkedMeansFull /\ CheckedMeansFull

\* The sets of callers that have a unit are finite.
LEMMA HoldersFinite == IsFiniteSet(Holders) /\ Cardinality(Holders) \in Nat
<1>1. IsFiniteSet(Holders)
  BY SemaphoreAssumption, FS_Subset DEF Holders
<1> QED  BY <1>1, FS_CardinalityType

\* Every step of the semaphore keeps the types.
LEMMA SemTypeStep == SemTypeOK /\ [SemNext]_semVars => SemTypeOK'
<1> SUFFICES ASSUME SemTypeOK, [SemNext]_semVars PROVE SemTypeOK'
  OBVIOUS
<1> USE DEF SemTypeOK, Waiting
<1>1. ASSUME NEW c \in Callers, Acquire(c) \/ Parks(c) \/ Cancel(c) PROVE SemTypeOK'
  BY <1>1 DEF Acquire, Parks, Cancel
<1>2. ASSUME NEW c \in Callers, Enters(c) \/ Resumes(c) PROVE SemTypeOK'
  <2>1. PICK cb \in {"none", "set", "due"} : Tests(c, cb)
    BY <1>2 DEF Enters, Resumes, AfterFunc
  <2>2. PICK p \in {"held", "idle", "checked"}, d \in {"none", "set", "due"} :
          /\ pc' = [pc EXCEPT ![c] = p]
          /\ callback' = [callback EXCEPT ![c] = d]
    BY <2>1 DEF Tests, Returns, Stop
  <2>3. used' \in Nat /\ limit' = limit /\ cancelled' \subseteq Callers
    BY <2>1 DEF Tests, Returns
  <2> QED  BY <2>2, <2>3
<1>3. ASSUME NEW c \in Callers, CallbackRuns(c) \/ TryAcquire(c) \/ Release(c) PROVE SemTypeOK'
  <2>0. Broadcast \in [Callers -> {"idle", "held"} \cup Waiting]
    BY DEF Broadcast
  <2>1. CASE CallbackRuns(c)
    BY <2>0, <2>1 DEF CallbackRuns
  <2>2. CASE TryAcquire(c)
    BY <2>2 DEF TryAcquire
  <2>3. CASE Release(c)
    BY <2>0, <2>3 DEF Release
  <2> QED  BY <1>3, <2>1, <2>2, <2>3
<1>4. ASSUME NEW n \in Limits, SetLimit(n) PROVE SemTypeOK'
  BY <1>4 DEF SetLimit, Broadcast
<1>5. CASE UNCHANGED semVars
  BY <1>5 DEF semVars
<1> QED  BY <1>1, <1>2, <1>3, <1>4, <1>5 DEF SemNext, AcquireStep

\* A step either leaves the holders and the count alone, or one caller takes or
\* gives back one unit.
LEMMA UnitStep ==
    ASSUME SemTypeOK, [SemNext]_semVars
    PROVE  \/ Holders' = Holders /\ used' = used
           \/ \E c \in Callers \ Holders : Holders' = Holders \cup {c} /\ used' = used + 1 /\ used + 1 <= limit
           \/ \E c \in Holders : Holders' = Holders \ {c} /\ used' = used - 1
<1> USE DEF SemTypeOK, Holders
<1>1. ASSUME NEW c \in Callers, Acquire(c) \/ Parks(c) \/ Cancel(c) PROVE Holders' = Holders /\ used' = used
  BY <1>1 DEF Acquire, Parks, Cancel
<1>2. ASSUME NEW c \in Callers, Enters(c) \/ Resumes(c)
      PROVE  \/ Holders' = Holders /\ used' = used
             \/ c \notin Holders /\ Holders' = Holders \cup {c} /\ used' = used + 1 /\ used + 1 <= limit
  <2>1. pc[c] # "held" /\ used \in Nat /\ limit \in Nat
    BY <1>2, SemaphoreAssumption DEF Enters, Resumes
  <2>2. PICK p \in {"held", "idle", "checked"} :
          /\ pc' = [pc EXCEPT ![c] = p]
          /\ p = "held" => used' = used + 1 /\ ~Full
          /\ p # "held" => used' = used
    BY <1>2 DEF Enters, Resumes, Tests, Returns
  <2> QED  BY <2>1, <2>2 DEF Full
<1>3. ASSUME NEW c \in Callers, CallbackRuns(c) PROVE Holders' = Holders /\ used' = used
  BY <1>3 DEF CallbackRuns, Broadcast
<1>4. ASSUME NEW c \in Callers, TryAcquire(c)
      PROVE  c \notin Holders /\ Holders' = Holders \cup {c} /\ used' = used + 1 /\ used + 1 <= limit
  <2>1. used \in Nat /\ limit \in Nat
    BY SemaphoreAssumption
  <2> QED  BY <1>4, <2>1 DEF TryAcquire, Full
<1>5. ASSUME NEW c \in Callers, Release(c) PROVE c \in Holders /\ Holders' = Holders \ {c} /\ used' = used - 1
  BY <1>5 DEF Release, Broadcast
<1>6. ASSUME NEW n \in Limits, SetLimit(n) PROVE Holders' = Holders /\ used' = used
  BY <1>6 DEF SetLimit, Broadcast
<1>7. CASE UNCHANGED semVars
  BY <1>7 DEF semVars
<1> QED  BY <1>1, <1>2, <1>3, <1>4, <1>5, <1>6, <1>7 DEF SemNext, AcquireStep

\* The count stays exact.
LEMMA UsedStep == SemTypeOK /\ UsedIsHeld /\ [SemNext]_semVars => UsedIsHeld'
<1> SUFFICES ASSUME SemTypeOK, UsedIsHeld, [SemNext]_semVars PROVE used' = Cardinality(Holders')
  BY DEF UsedIsHeld
<1>1. CASE Holders' = Holders /\ used' = used
  BY <1>1 DEF UsedIsHeld
<1>2. ASSUME NEW c \in Callers \ Holders, Holders' = Holders \cup {c}, used' = used + 1
      PROVE  used' = Cardinality(Holders')
  BY <1>2, HoldersFinite, OneMore DEF UsedIsHeld
<1>3. ASSUME NEW c \in Holders, Holders' = Holders \ {c}, used' = used - 1
      PROVE  used' = Cardinality(Holders')
  BY <1>3, HoldersFinite, OneLess DEF UsedIsHeld
<1> QED  BY <1>1, <1>2, <1>3, UnitStep

\* Nobody parks, or stays parked, while a unit is free.
LEMMA ParkedStep == SemInv /\ [SemNext]_semVars => ParkedMeansFull' /\ CheckedMeansFull'
<1> SUFFICES ASSUME SemTypeOK, ParkedMeansFull, CheckedMeansFull, [SemNext]_semVars
             PROVE  ParkedMeansFull' /\ CheckedMeansFull'
  BY DEF SemInv
<1>t. used \in Nat /\ limit \in Nat /\ pc \in [Callers -> {"idle", "held"} \cup Waiting]
  BY SemaphoreAssumption DEF SemTypeOK
<1> USE <1>t DEF ParkedMeansFull, CheckedMeansFull, Full
<1>1. ASSUME NEW c \in Callers, Acquire(c) \/ Parks(c) \/ Cancel(c) \/ TryAcquire(c)
      PROVE  ParkedMeansFull' /\ CheckedMeansFull'
  BY <1>1 DEF Acquire, Parks, Cancel, TryAcquire
<1>2. ASSUME NEW c \in Callers, Enters(c) \/ Resumes(c) PROVE ParkedMeansFull' /\ CheckedMeansFull'
  BY <1>2 DEF Enters, Resumes, Tests, Returns
<1>3. ASSUME NEW c \in Callers, CallbackRuns(c) PROVE ParkedMeansFull' /\ CheckedMeansFull'
  BY <1>3 DEF CallbackRuns, Broadcast
<1>4. ASSUME NEW c \in Callers, Release(c) PROVE ParkedMeansFull' /\ CheckedMeansFull'
  BY <1>4 DEF Release, Broadcast, MutexFree
<1>5. ASSUME NEW n \in Limits, SetLimit(n) PROVE ParkedMeansFull' /\ CheckedMeansFull'
  BY <1>5 DEF SetLimit, Broadcast, MutexFree
<1>6. CASE UNCHANGED semVars
  BY <1>6 DEF semVars
<1> QED  BY <1>1, <1>2, <1>3, <1>4, <1>5, <1>6 DEF SemNext, AcquireStep

\* The inductive invariant of the semaphore.
LEMMA SemInvariant == SemSpec => []SemInv
<1>1. SemInit => SemInv
  <2> SUFFICES ASSUME SemInit PROVE SemInv
    OBVIOUS
  <2>1. Holders = {}
    BY DEF SemInit, Holders
  <2>2. UsedIsHeld
    BY <2>1, FS_EmptySet DEF SemInit, UsedIsHeld
  <2> QED  BY <2>2 DEF SemInit, SemInv, SemTypeOK, ParkedMeansFull, CheckedMeansFull
<1>2. SemInv /\ [SemNext]_semVars => SemInv'
  BY SemTypeStep, UsedStep, ParkedStep DEF SemInv
<1> QED  BY <1>1, <1>2, PTL DEF SemSpec

\* Every variable of the semaphore keeps its type; the count never goes below
\* zero.
THEOREM SemaphoreTypes == SemSpec => []SemTypeOK
BY SemInvariant, PTL DEF SemInv

\* The count is the number of callers that have a unit, so that Release, called
\* by one of them, never panics.
THEOREM SemaphoreCountIsExact == SemSpec => []UsedIsHeld
BY SemInvariant, PTL DEF SemInv

\* No caller sleeps while a unit is free, however releases, changes of the
\* limit and ends of contexts interleave.
THEOREM NoLostWakeUp == SemSpec => []ParkedMeansFull
BY SemInvariant, PTL DEF SemInv

\* A unit is only ever taken within the limit.
THEOREM UnitsWithinLimit == SemSpec => WithinLimit
<1>1. SemInv /\ [SemNext]_semVars => (used' > used => used' <= limit)
  <2> SUFFICES ASSUME SemInv, [SemNext]_semVars, used' > used PROVE used' <= limit
    OBVIOUS
  <2>1. used \in Nat
    BY DEF SemInv, SemTypeOK
  <2> QED  BY <2>1, UnitStep DEF SemInv
<1> QED  BY <1>1, SemInvariant, PTL DEF SemSpec, WithinLimit

-----------------------------------------------------------------------------
\* The evictor.

\* Every step of the evictor is a step of its semaphore, or leaves it alone.
LEMMA EvictorSemStep == [Next]_vars => [SemNext]_semVars
<1> SUFFICES ASSUME [Next]_vars PROVE [SemNext]_semVars
  OBVIOUS
<1>1. ASSUME NEW g \in Callers, Starts(g) PROVE TryAcquire(g)
  BY <1>1 DEF Starts
<1>2. ASSUME NEW g \in Callers, GoroutineStep(g) PROVE Release(g) \/ UNCHANGED semVars
  BY <1>2 DEF GoroutineStep, Removed, Deletes, Releases, Ends
<1>3. ASSUME NEW n \in Limits, Refresh(n) PROVE SetLimit(n)
  BY <1>3 DEF Refresh
<1>4. CASE Tick \/ AtCapacity \/ Stops \/ ContextDone
  BY <1>4 DEF Tick, AtCapacity, Stops, ContextDone
<1>5. ASSUME NEW s \in Sandboxes, Skips(s) \/ LoadOrStore(s) \/ Expires(s) PROVE UNCHANGED semVars
  BY <1>5 DEF Skips, LoadOrStore, Expires
<1>6. CASE UNCHANGED vars
  BY <1>6 DEF vars
<1> QED  BY <1>1, <1>2, <1>3, <1>4, <1>5, <1>6 DEF Next, LoopStep, SemNext

\* The evictor implements the semaphore: it acquires, releases and sets the
\* limit as a caller of it may, and what is proved of it holds here.
THEOREM EvictorImplementsSemaphore == Spec => SemSpec
<1>1. Init => SemInit
  BY DEF Init
<1> QED  BY <1>1, EvictorSemStep, PTL DEF Spec, SemSpec

\* The evictor's own types.
EvictTypes ==
    /\ expired \subseteq Sandboxes
    /\ todo \subseteq Sandboxes
    /\ item \subseteq Sandboxes
    /\ active \subseteq Sandboxes
    /\ stage \in [Callers -> {"none", "evicting", "removed", "deleted", "released"}]
    /\ target \in [Callers -> SUBSET Sandboxes]
    /\ phase \in {"running", "stopping", "stopped"}

\* Every step keeps them.
LEMMA EvictTypeStep == EvictTypes /\ [Next]_vars => EvictTypes'
<1> SUFFICES ASSUME EvictTypes, [Next]_vars PROVE EvictTypes'
  OBVIOUS
<1> USE DEF EvictTypes, loopVars
<1>1. CASE Tick \/ AtCapacity \/ Stops \/ ContextDone
  BY <1>1 DEF Tick, AtCapacity, Stops, ContextDone
<1>2. ASSUME NEW s \in Sandboxes, Skips(s) \/ LoadOrStore(s) \/ Expires(s) PROVE EvictTypes'
  BY <1>2 DEF Skips, LoadOrStore, Expires
<1>3. ASSUME NEW g \in Callers, Starts(g) PROVE EvictTypes'
  BY <1>3 DEF Starts
<1>4. ASSUME NEW g \in Callers, GoroutineStep(g) PROVE EvictTypes'
  BY <1>4 DEF GoroutineStep, Removed, Deletes, Releases, Ends, GoesOn
<1>5. ASSUME NEW n \in Limits, Refresh(n) PROVE EvictTypes'
  BY <1>5 DEF Refresh, evictVars
<1>6. CASE UNCHANGED vars
  BY <1>6 DEF vars, evictVars
<1> QED  BY <1>1, <1>2, <1>3, <1>4, <1>5, <1>6 DEF Next, LoopStep

Owning == {"evicting", "removed"}

\* Every entry has exactly one owner: the loop, or a goroutine that has not
\* deleted it yet.
OwnerInv ==
    /\ item \subseteq active
    /\ \A s \in item : item = {s}
    /\ \A g \in Callers : stage[g] \in Owning =>
         target[g] # {} /\ target[g] \subseteq active /\ target[g] \cap item = {}
    /\ \A g, h \in Callers :
         g # h /\ stage[g] \in Owning /\ stage[h] \in Owning => target[g] \cap target[h] = {}
    /\ EntryHasOwner

\* Every step keeps that.
LEMMA OwnerStep == EvictTypes /\ OwnerInv /\ [Next]_vars => OwnerInv'
<1> SUFFICES ASSUME EvictTypes, OwnerInv, [Next]_vars PROVE OwnerInv'
  OBVIOUS
<1>t. /\ stage \in [Callers -> {"none", "evicting", "removed", "deleted", "released"}]
      /\ target \in [Callers -> SUBSET Sandboxes]
  BY DEF EvictTypes
<1> USE <1>t DEF OwnerInv, EntryHasOwner, Owning, loopVars
<1>1. CASE Tick \/ Stops \/ ContextDone
  BY <1>1 DEF Tick, Stops, ContextDone
<1>2. CASE AtCapacity
  BY <1>2 DEF AtCapacity
<1>3. ASSUME NEW s \in Sandboxes, Skips(s) \/ Expires(s) PROVE OwnerInv'
  BY <1>3 DEF Skips, Expires
<1>4. ASSUME NEW s \in Sandboxes, LoadOrStore(s) PROVE OwnerInv'
  BY <1>4 DEF LoadOrStore
<1>5. ASSUME NEW g \in Callers, Starts(g) PROVE OwnerInv'
  BY <1>5 DEF Starts
<1>6. ASSUME NEW g \in Callers, Removed(g) PROVE OwnerInv'
  BY <1>6 DEF Removed, GoesOn
<1>7. ASSUME NEW g \in Callers, Deletes(g) PROVE OwnerInv'
  BY <1>7 DEF Deletes, GoesOn
<1>8. ASSUME NEW g \in Callers, Releases(g) \/ Ends(g) PROVE OwnerInv'
  BY <1>8 DEF Releases, Ends, GoesOn
<1>9. ASSUME NEW n \in Limits, Refresh(n) PROVE OwnerInv'
  BY <1>9 DEF Refresh, evictVars
<1>10. CASE UNCHANGED vars
  BY <1>10 DEF vars, evictVars
<1> QED
  BY <1>1, <1>2, <1>3, <1>4, <1>5, <1>6, <1>7, <1>8, <1>9, <1>10 DEF Next, LoopStep, GoroutineStep

\* The goroutines in flight are the holders of the semaphore's units, and once
\* the context is done no more of them are started.
LoopInv ==
    /\ \A g \in Callers : pc[g] = "held" <=> g \in InFlight
    /\ phase # "running" => todo = {} /\ item = {}
    /\ phase = "stopped" => \A g \in Callers : stage[g] = "none"

\* Every step keeps that.
LEMMA LoopStays == SemTypeOK /\ EvictTypes /\ LoopInv /\ [Next]_vars => LoopInv'
<1> SUFFICES ASSUME SemTypeOK, EvictTypes, LoopInv, [Next]_vars PROVE LoopInv'
  OBVIOUS
<1>t. /\ stage \in [Callers -> {"none", "evicting", "removed", "deleted", "released"}]
      /\ pc \in [Callers -> {"idle", "held"} \cup Waiting]
  BY DEF EvictTypes, SemTypeOK
<1> USE <1>t DEF LoopInv, InFlight, loopVars, semVars, AtSelect
<1>1. CASE Tick \/ AtCapacity \/ Stops \/ ContextDone
  BY <1>1 DEF Tick, AtCapacity, Stops, ContextDone
<1>2. ASSUME NEW s \in Sandboxes, Skips(s) \/ LoadOrStore(s) \/ Expires(s) PROVE LoopInv'
  BY <1>2 DEF Skips, LoadOrStore, Expires
<1>3. ASSUME NEW g \in Callers, Starts(g) PROVE LoopInv'
  BY <1>3 DEF Starts, TryAcquire
<1>4. ASSUME NEW g \in Callers, Removed(g) \/ Deletes(g) \/ Ends(g) PROVE LoopInv'
  BY <1>4 DEF Removed, Deletes, Ends, GoesOn
<1>5. ASSUME NEW g \in Callers, Releases(g) PROVE LoopInv'
  BY <1>5 DEF Releases, Release, Broadcast, GoesOn
<1>6. ASSUME NEW n \in Limits, Refresh(n) PROVE LoopInv'
  BY <1>6 DEF Refresh, SetLimit, Broadcast, evictVars
<1>7. CASE UNCHANGED vars
  BY <1>7 DEF vars, evictVars
<1> QED  BY <1>1, <1>2, <1>3, <1>4, <1>5, <1>6, <1>7 DEF Next, LoopStep, GoroutineStep

\* The inductive invariant of the evictor.
EvictInv == SemInv /\ EvictTypes /\ OwnerInv /\ LoopInv

\* Entries, goroutines and units agree in every state of an evictor.
LEMMA EvictInvariant == Spec => []EvictInv
<1>1. Init => EvictTypes /\ OwnerInv /\ LoopInv
  <2> SUFFICES ASSUME Init PROVE EvictTypes /\ OwnerInv /\ LoopInv
    OBVIOUS
  <2>1. EvictTypes /\ OwnerInv
    BY DEF Init, EvictTypes, OwnerInv, EntryHasOwner, Owning
  <2>2. LoopInv
    BY DEF Init, SemInit, LoopInv, InFlight
  <2> QED  BY <2>1, <2>2
<1>2. SemInv /\ EvictTypes /\ OwnerInv /\ LoopInv /\ [Next]_vars => EvictTypes' /\ OwnerInv' /\ LoopInv'
  BY EvictTypeStep, OwnerStep, LoopStays DEF SemInv
<1>3. Spec => []SemInv
  BY EvictorImplementsSemaphore, SemInvariant, PTL
<1> QED  BY <1>1, <1>2, <1>3, PTL DEF Spec, EvictInv

\* Every variable of the evictor and of its semaphore keeps its type.
THEOREM EvictorTypes == Spec => []TypeOK
<1>1. EvictInv => TypeOK
  BY DEF EvictInv, SemInv, EvictTypes, TypeOK
<1> QED  BY <1>1, EvictInvariant, PTL

\* However ticks overlap with removals, an instance removes a sandbox once at a
\* time.
THEOREM NoSecondEviction == Spec => []OneEvictionPerSandbox
<1>1. EvictInv => OneEvictionPerSandbox
  BY DEF EvictInv, OwnerInv, Owning, OneEvictionPerSandbox
<1> QED  BY <1>1, EvictInvariant, PTL

\* No entry of activeEvictions is ever left without somebody to delete it.
THEOREM EntriesAreOwned == Spec => []EntryHasOwner
<1>1. EvictInv => EntryHasOwner
  BY DEF EvictInv, OwnerInv
<1> QED  BY <1>1, EvictInvariant, PTL

\* When Start has returned, nothing is in flight and nothing is held.
THEOREM ShutdownIsComplete == Spec => []StoppedIsQuiet
<1>1. EvictInv => StoppedIsQuiet
  <2> SUFFICES ASSUME EvictInv, phase = "stopped" PROVE active = {} /\ used = 0
    BY DEF StoppedIsQuiet
  <2>1. item = {} /\ \A g \in Callers : stage[g] = "none"
    BY DEF EvictInv, LoopInv
  <2>2. active = {}
    BY <2>1 DEF EvictInv, OwnerInv, EntryHasOwner
  <2>3. Holders = {}
    BY <2>1 DEF EvictInv, LoopInv, InFlight, Holders
  <2> QED  BY <2>2, <2>3, FS_EmptySet DEF EvictInv, SemInv, UsedIsHeld
<1> QED  BY <1>1, EvictInvariant, PTL

\* A goroutine is only started within the limit.
THEOREM EvictionsWithinLimit == Spec => StartsWithinLimit
<1>1. EvictInv /\ EvictInv' /\ [Next]_vars =>
        \A g \in Callers : stage[g] = "none" /\ stage'[g] = "evicting" => Cardinality(InFlight') <= limit
  <2> SUFFICES ASSUME EvictInv, EvictInv', [Next]_vars,
                      NEW g \in Callers, stage[g] = "none", stage'[g] = "evicting"
               PROVE  Cardinality(InFlight') <= limit
    OBVIOUS
  <2>1. g \notin Holders /\ g \in Holders'
    BY DEF EvictInv, LoopInv, InFlight, Holders
  <2>2. InFlight' = Holders'
    BY DEF EvictInv, LoopInv, InFlight, Holders
  <2>3. used' = used + 1 /\ used + 1 <= limit
    BY <2>1, EvictorSemStep, UnitStep DEF EvictInv, SemInv
  <2>4. used' = Cardinality(Holders')
    BY DEF EvictInv, SemInv, UsedIsHeld
  <2> QED  BY <2>2, <2>3, <2>4
<1> QED  BY <1>1, EvictInvariant, PTL DEF Spec, StartsWithinLimit

-----------------------------------------------------------------------------
\* The connection limiter.

\* What a connection knows before it swaps: a unit is free, or there is one to
\* give back.
LoadedInv ==
    \A c \in Conns :
        /\ step[c] = "swap" => ~Exceeds(c, current[c])
        /\ step[c] = "unswap" => current[c] >= 1

\* Every step keeps the types and that.
LEMMA ConnTypeStep == ConnTypeOK /\ LoadedInv /\ [ConnNext]_connVars => ConnTypeOK' /\ LoadedInv'
<1> SUFFICES ASSUME ConnTypeOK, LoadedInv, [ConnNext]_connVars PROVE ConnTypeOK' /\ LoadedInv'
  OBVIOUS
<1> USE DEF ConnTypeOK, LoadedInv, Moves, Exceeds
<1>1. ASSUME NEW c \in Conns, GetCounter(c) PROVE ConnTypeOK' /\ LoadedInv'
  BY <1>1 DEF GetCounter, Found
<1>2. ASSUME NEW c \in Conns, AcquireLoads(c) PROVE ConnTypeOK' /\ LoadedInv'
  BY <1>2 DEF AcquireLoads, Loads
<1>3. ASSUME NEW c \in Conns, AcquireSwaps(c) PROVE ConnTypeOK' /\ LoadedInv'
  BY <1>3 DEF AcquireSwaps, Swaps
<1>4. ASSUME NEW c \in Conns, ReleaseGets(c) PROVE ConnTypeOK' /\ LoadedInv'
  BY <1>4 DEF ReleaseGets
<1>5. ASSUME NEW c \in Conns, ReleaseLoads(c) PROVE ConnTypeOK' /\ LoadedInv'
  BY <1>5 DEF ReleaseLoads, Loads
<1>6. ASSUME NEW c \in Conns, ReleaseSwaps(c) PROVE ConnTypeOK' /\ LoadedInv'
  <2>1. current[c] - 1 \in Nat
    BY <1>6 DEF ReleaseSwaps
  <2> QED  BY <1>6, <2>1 DEF ReleaseSwaps, Swaps
<1>7. CASE Remove
  BY <1>7 DEF Remove
<1>8. CASE UNCHANGED connVars
  BY <1>8 DEF connVars
<1> QED  BY <1>1, <1>2, <1>3, <1>4, <1>5, <1>6, <1>7, <1>8 DEF ConnNext

\* The map has one counter at most, and the counter that a connection would
\* bring is nobody else's and at zero.
FreshInv ==
    /\ \A k \in entry : entry = {k}
    /\ \A c \in Conns : step[c] = "new" =>
         count[c] = 0 /\ c \notin entry /\ \A d \in Conns : step[d] # "new" => counter[d] # c

\* Every step keeps that.
LEMMA FreshStep == ConnTypeOK /\ FreshInv /\ [ConnNext]_connVars => FreshInv'
<1> SUFFICES ASSUME ConnTypeOK, FreshInv, [ConnNext]_connVars PROVE FreshInv'
  OBVIOUS
<1> USE DEF ConnTypeOK, FreshInv, Moves
<1>1. ASSUME NEW c \in Conns, GetCounter(c) PROVE FreshInv'
  BY <1>1 DEF GetCounter, Found
<1>2. ASSUME NEW c \in Conns, AcquireLoads(c) \/ ReleaseLoads(c) PROVE FreshInv'
  BY <1>2 DEF AcquireLoads, ReleaseLoads, Loads
<1>3. ASSUME NEW c \in Conns, AcquireSwaps(c) \/ ReleaseSwaps(c) PROVE FreshInv'
  BY <1>3 DEF AcquireSwaps, ReleaseSwaps, Swaps
<1>4. ASSUME NEW c \in Conns, ReleaseGets(c) PROVE FreshInv'
  BY <1>4 DEF ReleaseGets
<1>5. CASE Remove
  BY <1>5 DEF Remove
<1>6. CASE UNCHANGED connVars
  BY <1>6 DEF connVars
<1> QED  BY <1>1, <1>2, <1>3, <1>4, <1>5, <1>6 DEF ConnNext

\* The connections that are counted, and will be released, in a counter.
CountedBy(k) == {c \in Counted : counter[c] = k}

\* They are finitely many.
LEMMA CountedFinite ==
    /\ IsFiniteSet(Counted) /\ Cardinality(Counted) \in Nat
    /\ \A k \in Conns :
         /\ IsFiniteSet(CountedBy(k)) /\ Cardinality(CountedBy(k)) \in Nat
         /\ Cardinality(CountedBy(k)) <= Cardinality(Counted)
<1>1. IsFiniteSet(Counted)
  BY ConnAssumption, FS_Subset DEF Counted
<1>2. ASSUME NEW k \in Conns
      PROVE  IsFiniteSet(CountedBy(k)) /\ Cardinality(CountedBy(k)) <= Cardinality(Counted)
  BY <1>1, FS_Subset DEF CountedBy
<1> QED  BY <1>1, <1>2, FS_CardinalityType

\* As long as the key is there, all connections use the counter the map has, and
\* that is exact; one that is made later counts no more than the connections
\* that will be released from it.
CountInv ==
    /\ ~removed => \A c \in Conns : step[c] \notin {"new", "over"} => entry = {counter[c]}
    /\ CountIsExact
    /\ \A k \in entry : count[k] <= Cardinality(CountedBy(k))

\* Every step keeps that.
LEMMA CountStep ==
    ConnTypeOK /\ LoadedInv /\ FreshInv /\ CountInv /\ [ConnNext]_connVars => CountInv'
<1> SUFFICES ASSUME ConnTypeOK, LoadedInv, FreshInv, CountInv, [ConnNext]_connVars PROVE CountInv'
  OBVIOUS
<1>t. /\ entry \subseteq Conns
      /\ count \in [Conns -> Nat]
      /\ step \in [Conns -> {"new", "load", "swap", "open", "unload", "unswap", "over"}]
      /\ counter \in [Conns -> Conns]
      /\ current \in [Conns -> Nat]
  BY DEF ConnTypeOK
<1>i. /\ ~removed => \A c \in Conns : step[c] \notin {"new", "over"} => entry = {counter[c]}
      /\ ~removed => \A k \in entry : count[k] = Cardinality(Counted)
      /\ \A k \in entry : count[k] <= Cardinality(CountedBy(k))
      /\ \A k \in entry : entry = {k}
  BY DEF CountInv, CountIsExact, FreshInv
<1>1. ASSUME NEW c \in Conns, GetCounter(c) PROVE CountInv'
  <2>1. /\ step[c] = "new" /\ step' = [step EXCEPT ![c] = "load"]
        /\ count' = count /\ removed' = removed
        /\ entry' = IF entry = {} THEN {c} ELSE entry
    BY <1>1 DEF GetCounter, Moves, Found
  <2>2. PICK k \in entry' : counter' = [counter EXCEPT ![c] = k]
    BY <1>1 DEF GetCounter
  <2>3. Counted' = Counted
    BY <2>1, <1>t DEF Counted
  <2>4. \A j \in Conns : CountedBy(j)' = CountedBy(j)
    BY <2>1, <2>2, <2>3, <1>t DEF CountedBy, Counted
  <2>5. count[c] = 0
    BY <2>1 DEF FreshInv
  <2>6. entry = {} /\ ~removed => Cardinality(Counted) = 0
    BY <1>i, FS_EmptySet DEF Counted
  <2>7. ~removed' => \A d \in Conns : step'[d] \notin {"new", "over"} => entry' = {counter'[d]}
    BY <2>1, <2>2, <1>i, <1>t
  <2>8. ~removed' => \A j \in entry' : count'[j] = Cardinality(Counted')
    BY <2>1, <2>3, <2>5, <2>6, <1>i
  <2>9. \A j \in entry' : count'[j] <= Cardinality(CountedBy(j)')
    BY <2>1, <2>4, <2>5, <1>i, <1>t, CountedFinite
  <2> QED  BY <2>7, <2>8, <2>9 DEF CountInv, CountIsExact
<1>2. ASSUME NEW c \in Conns, step[c] \in {"load", "swap"}, step'[c] \in {"load", "swap", "over"},
             step' = [step EXCEPT ![c] = step'[c]], UNCHANGED <<entry, count, counter, removed>>
      PROVE  CountInv'
  <2>1. Counted' = Counted
    BY <1>2, <1>t DEF Counted
  <2>2. \A j \in Conns : CountedBy(j)' = CountedBy(j)
    BY <1>2, <2>1 DEF CountedBy
  <2> QED  BY <1>2, <2>1, <2>2, <1>i, <1>t DEF CountInv, CountIsExact
<1>3. ASSUME NEW c \in Conns, step[c] \in {"unload", "unswap"}, step'[c] \in {"unload", "unswap"},
             step' = [step EXCEPT ![c] = step'[c]], UNCHANGED <<entry, count, counter, removed>>
      PROVE  CountInv'
  <2>1. Counted' = Counted
    BY <1>3, <1>t DEF Counted
  <2>2. \A j \in Conns : CountedBy(j)' = CountedBy(j)
    BY <1>3, <2>1 DEF CountedBy
  <2> QED  BY <1>3, <2>1, <2>2, <1>i, <1>t DEF CountInv, CountIsExact
<1>4. ASSUME NEW c \in Conns, step[c] = "swap", step' = [step EXCEPT ![c] = "open"],
             count' = [count EXCEPT ![counter[c]] = count[counter[c]] + 1],
             UNCHANGED <<entry, counter, removed>>
      PROVE  CountInv'
  <2>1. c \notin Counted /\ Counted' = Counted \cup {c}
    BY <1>4, <1>t DEF Counted
  <2>2. \A j \in Conns : CountedBy(j)' = IF j = counter[c] THEN CountedBy(j) \cup {c} ELSE CountedBy(j)
    BY <1>4, <2>1 DEF CountedBy
  <2>3. Cardinality(Counted') = Cardinality(Counted) + 1
    BY <2>1, CountedFinite, OneMore
  <2>4. c \notin CountedBy(counter[c])
    BY <2>1 DEF CountedBy
  <2>5. \A j \in Conns : j = counter[c] => Cardinality(CountedBy(j)') = Cardinality(CountedBy(j)) + 1
    <3> SUFFICES ASSUME NEW j \in Conns, j = counter[c]
                 PROVE  Cardinality(CountedBy(j)') = Cardinality(CountedBy(j)) + 1
      OBVIOUS
    <3>1. CountedBy(j)' = CountedBy(j) \cup {c} /\ c \notin CountedBy(j) /\ IsFiniteSet(CountedBy(j))
      BY <2>2, <2>4, CountedFinite
    <3> QED  BY <3>1, OneMore
  <2>6. ~removed' => \A d \in Conns : step'[d] \notin {"new", "over"} => entry' = {counter'[d]}
    BY <1>4, <1>i, <1>t
  <2>7. ~removed' => \A j \in entry' : count'[j] = Cardinality(Counted')
    BY <1>4, <2>3, <1>i, <1>t
  <2>8. \A j \in entry' : count'[j] <= Cardinality(CountedBy(j)')
    BY <1>4, <2>2, <2>5, <1>i, <1>t, CountedFinite
  <2> QED  BY <2>6, <2>7, <2>8 DEF CountInv, CountIsExact
<1>5. ASSUME NEW c \in Conns, step[c] = "unswap", step' = [step EXCEPT ![c] = "over"],
             count' = [count EXCEPT ![counter[c]] = count[counter[c]] - 1],
             UNCHANGED <<entry, counter, removed>>
      PROVE  CountInv'
  <2>1. c \in Counted /\ Counted' = Counted \ {c}
    BY <1>5, <1>t DEF Counted
  <2>2. \A j \in Conns : CountedBy(j)' = IF j = counter[c] THEN CountedBy(j) \ {c} ELSE CountedBy(j)
    BY <1>5, <2>1 DEF CountedBy
  <2>3. Cardinality(Counted') = Cardinality(Counted) - 1
    BY <2>1, CountedFinite, OneLess
  <2>4. c \in CountedBy(counter[c])
    BY <2>1 DEF CountedBy
  <2>5. \A j \in Conns : j = counter[c] => Cardinality(CountedBy(j)') = Cardinality(CountedBy(j)) - 1
    <3> SUFFICES ASSUME NEW j \in Conns, j = counter[c]
                 PROVE  Cardinality(CountedBy(j)') = Cardinality(CountedBy(j)) - 1
      OBVIOUS
    <3>1. CountedBy(j)' = CountedBy(j) \ {c} /\ c \in CountedBy(j) /\ IsFiniteSet(CountedBy(j))
      BY <2>2, <2>4, CountedFinite
    <3> QED  BY <3>1, OneLess
  <2>6. ~removed' => \A d \in Conns : step'[d] \notin {"new", "over"} => entry' = {counter'[d]}
    BY <1>5, <1>i, <1>t
  <2>7. ~removed' => \A j \in entry' : count'[j] = Cardinality(Counted')
    BY <1>5, <2>3, <1>i, <1>t
  <2>8. \A j \in entry' : count'[j] <= Cardinality(CountedBy(j)')
    BY <1>5, <2>2, <2>5, <1>i, <1>t, CountedFinite
  <2> QED  BY <2>6, <2>7, <2>8 DEF CountInv, CountIsExact
<1>6. ASSUME NEW c \in Conns, step[c] = "unload", count[counter[c]] <= 0,
             step' = [step EXCEPT ![c] = "over"], UNCHANGED <<entry, count, counter, removed>>
      PROVE  CountInv'
  <2>1. removed
    <3> SUFFICES ASSUME ~removed PROVE FALSE
      OBVIOUS
    <3>1. entry = {counter[c]}
      BY <1>6, <1>i
    <3>2. c \in Counted
      BY <1>6 DEF Counted
    <3>3. Cardinality(Counted) >= 1
      BY <3>2, CountedFinite, OneLess
    <3>4. count[counter[c]] = Cardinality(Counted)
      BY <3>1, <1>i
    <3> QED  BY <3>3, <3>4, <1>6, <1>t, CountedFinite
  <2>2. \A j \in Conns : j # counter[c] => CountedBy(j)' = CountedBy(j)
    BY <1>6, <1>t DEF CountedBy, Counted
  <2>3. \A j \in Conns : Cardinality(CountedBy(j)') \in Nat
    <3>1. IsFiniteSet(Counted')
      BY ConnAssumption, FS_Subset DEF Counted
    <3>2. \A j \in Conns : IsFiniteSet(CountedBy(j)')
      BY <3>1, FS_Subset DEF CountedBy
    <3> QED  BY <3>2, FS_CardinalityType
  <2>4. \A j \in entry' : count'[j] <= Cardinality(CountedBy(j)')
    BY <1>6, <2>2, <2>3, <1>i, <1>t
  <2> QED  BY <1>6, <2>1, <2>4 DEF CountInv, CountIsExact
<1>7. ASSUME NEW c \in Conns, ReleaseGets(c) PROVE CountInv'
  <2>1. step[c] = "open" /\ UNCHANGED <<entry, count, removed>>
    BY <1>7 DEF ReleaseGets
  <2>2. CASE entry = {} /\ step' = [step EXCEPT ![c] = "over"] /\ counter' = counter
    BY <2>1, <2>2, <1>i, <1>t DEF CountInv, CountIsExact
  <2>3. ASSUME NEW k \in entry, counter' = [counter EXCEPT ![c] = k], step' = [step EXCEPT ![c] = "unload"]
        PROVE  CountInv'
    <3>1. Counted' = Counted
      BY <2>1, <2>3, <1>t DEF Counted
    <3>2. IsFiniteSet(CountedBy(k)') /\ CountedBy(k) \subseteq CountedBy(k)'
      <4>1. CountedBy(k)' \subseteq Counted
        BY <3>1 DEF CountedBy
      <4>2. CountedBy(k) \subseteq CountedBy(k)'
        BY <2>3, <3>1, <1>t DEF CountedBy, Counted
      <4> QED  BY <4>1, <4>2, CountedFinite, FS_Subset
    <3>3. Cardinality(CountedBy(k)) <= Cardinality(CountedBy(k)')
      BY <3>2, FS_Subset
    <3>4. Cardinality(CountedBy(k)') \in Nat /\ entry = {k}
      BY <3>2, <1>i, FS_CardinalityType
    <3>5. count[k] <= Cardinality(CountedBy(k)')
      BY <3>3, <3>4, <1>i, <1>t, CountedFinite
    <3>6. ~removed' => \A d \in Conns : step'[d] \notin {"new", "over"} => entry' = {counter'[d]}
      BY <2>1, <2>3, <3>4, <1>i, <1>t
    <3> QED  BY <2>1, <3>1, <3>4, <3>5, <3>6, <1>i DEF CountInv, CountIsExact
  <2> QED  BY <1>7, <2>2, <2>3 DEF ReleaseGets, Moves
<1>8. CASE Remove
  BY <1>8 DEF Remove, CountInv, CountIsExact
<1>9. CASE UNCHANGED connVars
  BY <1>9 DEF connVars, CountInv, CountIsExact, CountedBy, Counted
<1>10. ASSUME NEW c \in Conns, AcquireLoads(c) PROVE CountInv'
  <2>1. /\ step[c] = "load" /\ step'[c] \in {"swap", "over"} /\ step' = [step EXCEPT ![c] = step'[c]]
        /\ UNCHANGED <<entry, count, counter, removed>>
    BY <1>10, <1>t DEF AcquireLoads, Loads, Moves
  <2> QED  BY <2>1, <1>2
<1>11. ASSUME NEW c \in Conns, ReleaseLoads(c) PROVE CountInv'
  <2>1. /\ step[c] = "unload"
        /\ UNCHANGED <<entry, count, counter, removed>>
        /\ step' = [step EXCEPT ![c] = IF count[counter[c]] <= 0 THEN "over" ELSE "unswap"]
    BY <1>11 DEF ReleaseLoads, Loads, Moves
  <2>2. CASE count[counter[c]] <= 0
    BY <2>1, <2>2, <1>6
  <2>3. CASE ~(count[counter[c]] <= 0)
    <3>1. step' = [step EXCEPT ![c] = step'[c]] /\ step'[c] = "unswap"
      BY <2>1, <2>3, <1>t
    <3> QED  BY <2>1, <3>1, <1>3
  <2> QED  BY <2>2, <2>3
<1>12. ASSUME NEW c \in Conns, AcquireSwaps(c) PROVE CountInv'
  <2>1. step[c] = "swap" /\ UNCHANGED <<entry, counter, removed>>
    BY <1>12 DEF AcquireSwaps, Swaps
  <2>2. CASE count[counter[c]] = current[c]
    BY <1>12, <2>1, <2>2, <1>4 DEF AcquireSwaps, Swaps, Moves
  <2>3. CASE count[counter[c]] # current[c]
    <3>1. step' = [step EXCEPT ![c] = step'[c]] /\ step'[c] = "load" /\ count' = count
      BY <1>12, <2>3, <1>t DEF AcquireSwaps, Swaps, Moves
    <3> QED  BY <2>1, <3>1, <1>2
  <2> QED  BY <2>2, <2>3
<1>13. ASSUME NEW c \in Conns, ReleaseSwaps(c) PROVE CountInv'
  <2>1. step[c] = "unswap" /\ UNCHANGED <<entry, counter, removed>>
    BY <1>13 DEF ReleaseSwaps, Swaps
  <2>2. CASE count[counter[c]] = current[c]
    <3>1. current[c] + -1 = count[counter[c]] - 1
      BY <2>2, <1>t
    <3> QED  BY <1>13, <2>1, <2>2, <3>1, <1>5 DEF ReleaseSwaps, Swaps, Moves
  <2>3. CASE count[counter[c]] # current[c]
    <3>1. step' = [step EXCEPT ![c] = step'[c]] /\ step'[c] = "unload" /\ count' = count
      BY <1>13, <2>3, <1>t DEF ReleaseSwaps, Swaps, Moves
    <3> QED  BY <2>1, <3>1, <1>3
  <2> QED  BY <2>2, <2>3
<1> QED  BY <1>1, <1>7, <1>8, <1>9, <1>10, <1>11, <1>12, <1>13 DEF ConnNext

\* The inductive invariant of the limiter.
ConnInv == ConnTypeOK /\ LoadedInv /\ FreshInv /\ CountInv

\* Counters and connections agree in every state of a limiter.
LEMMA ConnInvariant == ConnSpec => []ConnInv
<1>1. ConnInit => ConnInv
  <2> SUFFICES ASSUME ConnInit PROVE ConnInv
    OBVIOUS
  <2>1. ConnTypeOK
    <3>1. removed \in BOOLEAN
      BY Zenon DEF ConnInit
    <3> QED  BY <3>1 DEF ConnInit, ConnTypeOK
  <2>2. LoadedInv /\ FreshInv
    BY DEF ConnInit, LoadedInv, FreshInv
  <2>3. CountInv
    BY DEF ConnInit, CountInv, CountIsExact
  <2> QED  BY <2>1, <2>2, <2>3 DEF ConnInv
<1>2. ConnInv /\ [ConnNext]_connVars => ConnInv'
  BY ConnTypeStep, FreshStep, CountStep DEF ConnInv
<1> QED  BY <1>1, <1>2, PTL DEF ConnSpec

\* Every variable of the limiter keeps its type: no counter goes below zero,
\* however connections end around the removal of their key.
THEOREM LimiterTypes == ConnSpec => []ConnTypeOK
BY ConnInvariant, PTL DEF ConnInv

\* As long as the key is there, its counter is the number of connections.
THEOREM ConnectionsCounted == ConnSpec => []CountIsExact
BY ConnInvariant, PTL DEF ConnInv, CountInv

\* An entry that a late connection makes is back at zero once all are over.
THEOREM LateEntriesDrain == ConnSpec => []LateEntryDrains
<1>1. ConnInv => LateEntryDrains
  <2> SUFFICES ASSUME ConnInv, NEW k \in entry PROVE count[k] <= Cardinality(Counted)
    BY DEF LateEntryDrains
  <2>1. k \in Conns /\ count[k] \in Nat
    BY DEF ConnInv, ConnTypeOK
  <2>2. count[k] <= Cardinality(CountedBy(k))
    BY DEF ConnInv, CountInv
  <2> QED  BY <2>1, <2>2, CountedFinite
<1> QED  BY <1>1, ConnInvariant, PTL

\* A connection is let through within the limit, while the key is there.
THEOREM ConnectionsWithinLimit == ConnSpec => AdmittedWithinLimit
<1>1. ConnInv /\ [ConnNext]_connVars =>
        \A c \in Conns :
          ~removed /\ step[c] = "swap" /\ step'[c] = "open" /\ maxLimit[c] >= 0
            => Cardinality(Counted') <= maxLimit[c]
  <2> SUFFICES ASSUME ConnInv, [ConnNext]_connVars, NEW c \in Conns,
                      ~removed, step[c] = "swap", step'[c] = "open", maxLimit[c] >= 0
               PROVE  Cardinality(Counted') <= maxLimit[c]
    OBVIOUS
  <2>t. /\ step \in [Conns -> {"new", "load", "swap", "open", "unload", "unswap", "over"}]
        /\ counter[c] \in Conns /\ count[counter[c]] \in Nat /\ current[c] \in Nat /\ maxLimit[c] \in Int
    BY ConnAssumption DEF ConnInv, ConnTypeOK
  <2>1. AcquireSwaps(c)
    BY <2>t DEF ConnNext, connVars, Remove, GetCounter, AcquireLoads, ReleaseGets, ReleaseLoads, ReleaseSwaps,
       AcquireSwaps, Loads, Swaps, Moves
  <2>2. count[counter[c]] = current[c] /\ step' = [step EXCEPT ![c] = "open"]
    BY <2>1, <2>t DEF AcquireSwaps, Swaps, Moves
  <2>3. current[c] < maxLimit[c]
    BY <2>t DEF ConnInv, LoadedInv, Exceeds
  <2>4. count[counter[c]] = Cardinality(Counted)
    BY DEF ConnInv, CountInv, CountIsExact
  <2>5. c \notin Counted /\ Counted' = Counted \cup {c}
    BY <2>2, <2>t DEF Counted
  <2>6. Cardinality(Counted') = Cardinality(Counted) + 1
    BY <2>5, CountedFinite, OneMore
  <2> QED  BY <2>2, <2>3, <2>4, <2>6, <2>t
<1> QED  BY <1>1, ConnInvariant, PTL DEF ConnSpec, AdmittedWithinLimit
=============================================================================
