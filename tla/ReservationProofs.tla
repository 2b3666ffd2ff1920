------------------------- MODULE ReservationProofs -------------------------
(***************************************************************************)
(* Proofs about SandboxReservation.  The types hold in every environment.  *)
(* The concurrency limit and the single start need the two environment     *)
(* assumptions the code leans on: no start outlives staleTTL, and no start *)
(* of an ID is reserved between the Store.Remove of its last execution and *)
(* the Release and finishStart that are still to come for it.              *)
(***************************************************************************)
EXTENDS SandboxReservation, FiniteSetTheorems, TLAPS

\* Type correctness of the reservation protocol: every Redis value and every
\* request stays in its range, and only pending members can be stale.
THEOREM TypeCorrect == Spec => []TypeOK
<1>1. Init => TypeOK
  BY ConstantsAssumption DEF Init, TypeOK, Starting, Joining, Finished, Executions
<1>2. TypeOK /\ [Next]_vars => TypeOK'
  <2> SUFFICES ASSUME TypeOK, [Next]_vars PROVE TypeOK'
    OBVIOUS
  <2> USE DEF TypeOK, Starting, Joining, Finished, Executions
  <2>1. ASSUME NEW r \in Requests, Reserve(r) PROVE TypeOK'
    <3> USE <2>1 DEF Reserve, Goto, Return, SweptPending, DeletedResult
    <3>1. CASE ReserveInStorage(r, target[r])
      BY <3>1 DEF ReserveInStorage
    <3>2. CASE ReservePending(r, target[r])
      BY <3>2 DEF ReservePending
    <3>3. CASE ReserveExceeded(r, target[r])
      BY <3>3 DEF ReserveExceeded
    <3>4. CASE ReserveGranted(r, target[r])
      BY <3>4 DEF ReserveGranted
    <3> QED  BY <3>1, <3>2, <3>3, <3>4
  <2>2. ASSUME NEW r \in Requests, StartStep(r) PROVE TypeOK'
    <3> USE DEF Goto, Return
    <3>1. CASE StartFails(r)
      BY <3>1 DEF StartFails
    <3>2. CASE AddSandbox(r)
      BY <3>2 DEF AddSandbox
    <3>3. CASE AddSandboxFails(r)
      BY <3>3 DEF AddSandboxFails
    <3>4. CASE FinishStart(r)
      BY <3>4 DEF FinishStart, StartOutcome
    <3>5. CASE FinishStartFails(r)
      BY <3>5 DEF FinishStartFails, StartOutcome
    <3> QED  BY <2>2, <3>1, <3>2, <3>3, <3>4, <3>5 DEF StartStep
  <2>3. ASSUME NEW r \in Requests, JoinStep(r) \/ CancelWait(r) PROVE TypeOK'
    BY <2>3 DEF JoinStep, JoinStored, ReadResult, ReadPending, RereadResult, Wake,
                CancelWait, Goto, Return, redisVars
  <2>4. ASSUME NEW r \in Requests, Crash(r) PROVE TypeOK'
    BY <2>4 DEF Crash, redisVars
  <2>5. ASSUME NEW s \in Sandboxes, RemoveStep(s) \/ PendingAges(s) \/ ResultExpires(s)
        PROVE  TypeOK'
    BY <2>5 DEF RemoveStep, StorageRemove, StorageRemoveFails, Release, ReleaseFails,
                PendingAges, ResultExpires, DeletedResult
  <2>6. CASE UNCHANGED vars
    BY <2>6 DEF vars
  <2> QED  BY <2>1, <2>2, <2>3, <2>4, <2>5, <2>6 DEF Next
<1> QED  BY <1>1, <1>2, PTL DEF Spec

-----------------------------------------------------------------------------
\* A smaller set of sandboxes has no more members: used wherever a step only
\* takes members away from the index or the pending zset.
LEMMA SmallerCount ==
    ASSUME NEW S \in SUBSET Sandboxes, NEW T \in SUBSET S
    PROVE  /\ IsFiniteSet(S) /\ IsFiniteSet(T)
           /\ Cardinality(S) \in Nat /\ Cardinality(T) \in Nat
           /\ Cardinality(T) <= Cardinality(S)
<1>1. IsFiniteSet(S)
  BY FS_Subset, ConstantsAssumption
<1> QED  BY <1>1, FS_Subset, FS_CardinalityType

\* The test of reserveScript is enough: when the index and the pending zset
\* together count fewer than n members, adding one reservation keeps their
\* union within n.
LEMMA GrantKeepsLimit ==
    ASSUME NEW I \in SUBSET Sandboxes, NEW P \in SUBSET Sandboxes,
           NEW s \in Sandboxes, NEW n \in Int,
           Cardinality(I) + Cardinality(P) < n
    PROVE  Cardinality(I \cup (P \cup {s})) <= n
<1>1. /\ IsFiniteSet(I) /\ Cardinality(I) \in Nat
      /\ IsFiniteSet(P) /\ Cardinality(P) \in Nat
  BY SmallerCount
<1>2. /\ IsFiniteSet(P \cup {s})
      /\ Cardinality(P \cup {s}) = IF s \in P THEN Cardinality(P) ELSE Cardinality(P) + 1
  BY <1>1, FS_AddElement
<1>3. Cardinality(P \cup {s}) \in Nat
  BY <1>2, FS_CardinalityType
<1>4. Cardinality(I \cup (P \cup {s})) =
        Cardinality(I) + Cardinality(P \cup {s}) - Cardinality(I \cap (P \cup {s}))
  BY <1>1, <1>2, FS_Union
<1>5. Cardinality(I \cap (P \cup {s})) \in Nat
  BY SmallerCount
<1> QED  BY <1>1, <1>2, <1>3, <1>4, <1>5

\* A step that takes members away keeps the limit.
LEMMA ShrinkKeepsLimit ==
    ASSUME TypeOK, ConcurrencyLimit, (index \cup pending)' \subseteq index \cup pending
    PROVE  ConcurrencyLimit'
<1>1. index \cup pending \in SUBSET Sandboxes
  BY DEF TypeOK, index
<1>2. Cardinality((index \cup pending)') <= Cardinality(index \cup pending)
  BY <1>1, SmallerCount
<1>3. /\ Cardinality((index \cup pending)') \in Nat
      /\ Cardinality(index \cup pending) \in Nat
  BY <1>1, SmallerCount
<1> QED  BY <1>2, <1>3, ConstantsAssumption DEF ConcurrencyLimit

-----------------------------------------------------------------------------
\* The invariant of the reservation protocol is preserved by every step of a
\* start: the reservation itself, the stages of CreateSandbox, finishStart.
LEMMA StartPreserves ==
    ASSUME TypeOK, ReservationInv, ~OverlappingResume, ~SlowStarts,
           NEW r \in Requests, Reserve(r) \/ StartStep(r)
    PROVE  ReservationInv'
<1> USE DEF TypeOK, At, Starter, Starting, Executions, Goto, Return, DeletedResult
<1> DEFINE Others == StartingHoldsReservation /\ OneStarterPerSandbox /\ NoStaleResult
<1>1. CASE Reserve(r)
  <2> USE <1>1 DEF Reserve, SweptPending
  <2>1. CASE ReserveInStorage(r, target[r])
    <3>1. Others'
      BY <2>1 DEF ReserveInStorage, ReservationInv, StartingHoldsReservation,
                  OneStarterPerSandbox, NoStaleResult
    <3>2. ConcurrencyLimit'
      BY <2>1, ShrinkKeepsLimit DEF ReserveInStorage, ReservationInv, index
    <3> QED  BY <3>1, <3>2 DEF ReservationInv
  <2>2. CASE ReservePending(r, target[r])
    <3>1. Others'
      BY <2>2 DEF ReservePending, ReservationInv, StartingHoldsReservation,
                  OneStarterPerSandbox, NoStaleResult
    <3>2. ConcurrencyLimit'
      BY <2>2, ShrinkKeepsLimit DEF ReservePending, ReservationInv, index
    <3> QED  BY <3>1, <3>2 DEF ReservationInv
  <2>3. CASE ReserveExceeded(r, target[r])
    <3>1. Others'
      BY <2>3 DEF ReserveExceeded, ReservationInv, StartingHoldsReservation,
                  OneStarterPerSandbox, NoStaleResult
    <3>2. ConcurrencyLimit'
      BY <2>3, ShrinkKeepsLimit DEF ReserveExceeded, ReservationInv, index
    <3> QED  BY <3>1, <3>2 DEF ReservationInv
  <2>4. CASE ReserveGranted(r, target[r])
    <3>1. Settled(target[r])
      BY <2>4 DEF ReserveGranted
    <3>2. StartingHoldsReservation'
      BY <2>4, <3>1 DEF ReserveGranted, ReservationInv, StartingHoldsReservation, Settled, index
    <3>3. OneStarterPerSandbox'
      BY <2>4, <3>1 DEF ReserveGranted, ReservationInv, StartingHoldsReservation, OneStarterPerSandbox,
          Settled, index
    <3>4. NoStaleResult'
      BY <2>4 DEF ReserveGranted, ReservationInv, NoStaleResult
    <3>5. ConcurrencyLimit'
      <4>1. SUFFICES ASSUME Limit >= 0 PROVE Cardinality((index \cup pending)') <= Limit
        BY DEF ConcurrencyLimit
      <4>2. index \in SUBSET Sandboxes /\ SweptPending \in SUBSET Sandboxes
        BY DEF index
      <4>3. Cardinality(index) \in Nat /\ Cardinality(SweptPending) \in Nat
        BY <4>2, SmallerCount
      <4>4. Cardinality(index) + Cardinality(SweptPending) < Limit
        BY <2>4, <4>1, <4>3, ConstantsAssumption DEF ReserveGranted, AtLimit
      <4>5. Cardinality(index \cup (SweptPending \cup {target[r]})) <= Limit
        BY <4>2, <4>4, GrantKeepsLimit, ConstantsAssumption
      <4>6. (index \cup pending)' = index \cup (SweptPending \cup {target[r]})
        BY <2>4 DEF ReserveGranted, index
      <4> QED  BY <4>5, <4>6
    <3> QED  BY <3>2, <3>3, <3>4, <3>5 DEF ReservationInv
  <2> QED  BY <2>1, <2>2, <2>3, <2>4
<1>2. CASE StartStep(r)
  <2>1. CASE StartFails(r)
    <3>1. Others'
      BY <2>1 DEF StartFails, ReservationInv, StartingHoldsReservation,
                  OneStarterPerSandbox, NoStaleResult
    <3>2. ConcurrencyLimit'
      BY <2>1, ShrinkKeepsLimit DEF StartFails, ReservationInv, index
    <3> QED  BY <3>1, <3>2 DEF ReservationInv
  <2>2. CASE AddSandbox(r) \/ AddSandboxFails(r)
    <3>1. StartingHoldsReservation'
      BY <2>2 DEF AddSandbox, AddSandboxFails, ReservationInv, StartingHoldsReservation,
                  OneStarterPerSandbox
    <3>2. OneStarterPerSandbox' /\ NoStaleResult'
      BY <2>2 DEF AddSandbox, AddSandboxFails, ReservationInv, OneStarterPerSandbox, NoStaleResult
    <3>3. target[r] \in pending
      BY <2>2 DEF AddSandbox, AddSandboxFails, ReservationInv, StartingHoldsReservation
    <3>4. ConcurrencyLimit'
      BY <2>2, <3>3, ShrinkKeepsLimit DEF AddSandbox, AddSandboxFails, ReservationInv, index
    <3> QED  BY <3>1, <3>2, <3>4 DEF ReservationInv
  <2>3. CASE FinishStart(r) \/ FinishStartFails(r)
    <3>1. \A q \in Requests : q # r /\ Starter(q) => target[q] # target[r]
      BY <2>3 DEF FinishStart, FinishStartFails, ReservationInv, OneStarterPerSandbox
    <3>2. StartingHoldsReservation'
      BY <2>3, <3>1 DEF FinishStart, FinishStartFails, ReservationInv, StartingHoldsReservation
    <3>3. OneStarterPerSandbox'
      BY <2>3 DEF FinishStart, FinishStartFails, ReservationInv, OneStarterPerSandbox
    <3>4. NoStaleResult'
      BY <2>3, <3>1 DEF FinishStart, FinishStartFails, ReservationInv, NoStaleResult
    <3>5. ConcurrencyLimit'
      BY <2>3, ShrinkKeepsLimit DEF FinishStart, FinishStartFails, ReservationInv, index
    <3> QED  BY <3>2, <3>3, <3>4, <3>5 DEF ReservationInv
  <2> QED  BY <1>2, <2>1, <2>2, <2>3 DEF StartStep
<1> QED  BY <1>1, <1>2

\* ... and by every other step: joiners, Store.Remove, time and crashes.
LEMMA OtherStepsPreserve ==
    ASSUME TypeOK, ReservationInv, ~OverlappingResume, ~SlowStarts,
           \/ \E r \in Requests : JoinStep(r) \/ CancelWait(r) \/ Crash(r)
           \/ \E s \in Sandboxes : RemoveStep(s) \/ PendingAges(s) \/ ResultExpires(s)
           \/ UNCHANGED vars
    PROVE  ReservationInv'
<1> USE DEF TypeOK, At, Starter, Starting, Executions, ReservationInv, DeletedResult
<1> DEFINE Others == StartingHoldsReservation /\ OneStarterPerSandbox /\ NoStaleResult
<1>1. ASSUME NEW r \in Requests, JoinStep(r) \/ CancelWait(r) \/ Crash(r)
      PROVE  ReservationInv'
  <2> USE <1>1 DEF JoinStep, JoinStored, ReadResult, ReadPending, RereadResult, Wake,
                   CancelWait, Crash, Goto, Return, redisVars
  <2>1. Others'
    BY DEF StartingHoldsReservation, OneStarterPerSandbox, NoStaleResult
  <2>2. ConcurrencyLimit'
    BY ShrinkKeepsLimit DEF index
  <2> QED  BY <2>1, <2>2
<1>2. ASSUME NEW s \in Sandboxes, RemoveStep(s)
      PROVE  ReservationInv'
  <2> USE <1>2 DEF RemoveStep, StorageRemove, StorageRemoveFails, Release, ReleaseFails
  <2>1. Others'
    BY DEF StartingHoldsReservation, OneStarterPerSandbox, NoStaleResult, index
  <2>2. ConcurrencyLimit'
    BY ShrinkKeepsLimit DEF index
  <2> QED  BY <2>1, <2>2
<1>3. ASSUME NEW s \in Sandboxes, PendingAges(s) \/ ResultExpires(s)
      PROVE  ReservationInv'
  <2> USE <1>3 DEF PendingAges, ResultExpires
  <2>1. Others'
    BY DEF StartingHoldsReservation, OneStarterPerSandbox, NoStaleResult
  <2>2. ConcurrencyLimit'
    BY ShrinkKeepsLimit DEF index
  <2> QED  BY <2>1, <2>2
<1>4. CASE UNCHANGED vars
  <2> USE <1>4 DEF vars
  <2>1. Others'
    BY DEF StartingHoldsReservation, OneStarterPerSandbox, NoStaleResult
  <2>2. ConcurrencyLimit'
    BY ShrinkKeepsLimit DEF index
  <2> QED  BY <2>1, <2>2
<1> QED  BY <1>1, <1>2, <1>3, <1>4

\* The reservation invariant holds in every state, for every limit and every
\* number of requests and sandboxes, in an environment where no start outlives
\* staleTTL and no start is reserved before the last finishStart and Release of
\* its ID.
THEOREM ReservationInvariant ==
    ASSUME ~OverlappingResume, ~SlowStarts
    PROVE  Spec => [](TypeOK /\ ReservationInv)
<1>1. Init => ReservationInv
  <2> SUFFICES ASSUME Init PROVE ReservationInv
    OBVIOUS
  <2>1. StartingHoldsReservation /\ OneStarterPerSandbox /\ NoStaleResult
    BY DEF Init, StartingHoldsReservation, OneStarterPerSandbox, NoStaleResult, At,
           Starter, Starting
  <2>2. index \cup pending = {}
    BY DEF Init, index
  <2>3. ConcurrencyLimit
    BY <2>2, FS_EmptySet, ConstantsAssumption DEF ConcurrencyLimit
  <2> QED  BY <2>1, <2>3 DEF ReservationInv
<1>2. TypeOK /\ ReservationInv /\ [Next]_vars => ReservationInv'
  BY StartPreserves, OtherStepsPreserve DEF Next
<1> QED  BY <1>1, <1>2, TypeCorrect, PTL DEF Spec

\* Reserve enforces the team's concurrency limit: the sandboxes stored and the
\* starts in progress never exceed it.
THEOREM LimitEnforced ==
    ASSUME ~OverlappingResume, ~SlowStarts
    PROVE  Spec => []ConcurrencyLimit
<1>1. ReservationInv => ConcurrencyLimit
  BY DEF ReservationInv
<1> QED  BY <1>1, ReservationInvariant, PTL

\* A sandbox ID is never being started by two requests at once.
THEOREM NoDoubleStart ==
    ASSUME ~OverlappingResume, ~SlowStarts
    PROVE  Spec => []SingleStarter
<1>1. ReservationInv => SingleStarter
  BY DEF ReservationInv, OneStarterPerSandbox, SingleStarter, At, Starter, Starting
<1> QED  BY <1>1, ReservationInvariant, PTL

\* A joiner never reads a result that an earlier start of its ID left behind.
THEOREM NoResultLeftOver ==
    ASSUME ~OverlappingResume, ~SlowStarts
    PROVE  Spec => []NoStaleResult
<1>1. ReservationInv => NoStaleResult
  BY DEF ReservationInv
<1> QED  BY <1>1, ReservationInvariant, PTL

-----------------------------------------------------------------------------
\* What a result key or a record names: an execution of its own ID, and a
\* result only one whose start has been completed.
ResultsNameStarted ==
    /\ \A s \in Sandboxes : result[s] \in Executions =>
          target[result[s]] = s /\ pc[result[s]] = "started"
    /\ \A s \in Sandboxes : store[s] \in Executions => target[store[s]] = s

\* A request that has returned stays where it is, and none changes its ID.
LEMMA StartedStays ==
    ASSUME TypeOK, [Next]_vars
    PROVE  /\ target' = target
           /\ \A r \in Requests : pc[r] = "started" => pc'[r] = "started"
<1> USE DEF TypeOK, At, Goto, Return, redisVars
<1>1. ASSUME NEW r \in Requests, Reserve(r) PROVE target' = target /\ pc[r] = "idle" /\ \E l : pc' = [pc EXCEPT ![r] = l]
  BY <1>1 DEF Reserve, ReserveInStorage, ReservePending, ReserveExceeded, ReserveGranted
<1>2. ASSUME NEW r \in Requests, StartStep(r) \/ JoinStep(r) \/ CancelWait(r)
      PROVE  target' = target /\ pc[r] \in Starting \cup Joining /\ \E l : pc' = [pc EXCEPT ![r] = l]
  BY <1>2 DEF StartStep, JoinStep, CancelWait, StartFails, AddSandbox, AddSandboxFails, FinishStart,
     FinishStartFails, JoinStored, ReadResult, ReadPending, RereadResult, Wake, Starting, Joining
<1>3. ASSUME NEW r \in Requests, Crash(r) PROVE UNCHANGED <<target, pc>>
  BY <1>3 DEF Crash
<1>4. ASSUME NEW s \in Sandboxes, RemoveStep(s) \/ PendingAges(s) \/ ResultExpires(s)
      PROVE  UNCHANGED <<target, pc>>
  BY <1>4 DEF RemoveStep, StorageRemove, StorageRemoveFails, Release, ReleaseFails, PendingAges,
     ResultExpires
<1>5. CASE UNCHANGED vars
  BY <1>5 DEF vars
<1>6. ASSUME NEW r \in Requests, pc[r] \in {"idle"} \cup Starting \cup Joining, \E l : pc' = [pc EXCEPT ![r] = l]
      PROVE  \A q \in Requests : pc[q] = "started" => pc'[q] = "started"
  BY <1>6 DEF Starting, Joining
<1> QED  BY <1>1, <1>2, <1>3, <1>4, <1>5, <1>6 DEF Next

\* Every step keeps what results and records name.
LEMMA ResultsStep == TypeOK /\ ResultsNameStarted /\ [Next]_vars => ResultsNameStarted'
<1> SUFFICES ASSUME TypeOK, ResultsNameStarted, [Next]_vars PROVE ResultsNameStarted'
  OBVIOUS
<1>u. target' = target /\ \A r \in Requests : pc[r] = "started" => pc'[r] = "started"
  BY StartedStays
<1> USE ConstantsAssumption DEF TypeOK, ResultsNameStarted, Executions, Goto, Return
<1>1. ASSUME \A s \in Sandboxes : result'[s] = result[s] \/ result'[s] \in {None, Failed},
             \A s \in Sandboxes : store'[s] = store[s] \/ store'[s] = None
      PROVE  ResultsNameStarted'
  BY <1>u, <1>1
<1>2. ASSUME NEW r \in Requests, Reserve(r) PROVE ResultsNameStarted'
  BY <1>1, <1>2 DEF Reserve, ReserveInStorage, ReservePending, ReserveExceeded, ReserveGranted, DeletedResult
<1>3. ASSUME NEW r \in Requests, AddSandbox(r) \/ AddSandboxFails(r) PROVE ResultsNameStarted'
  <2>1. /\ result' = result
        /\ store' = [store EXCEPT ![target[r]] = r] \/ store' = store
    BY <1>3 DEF AddSandbox, AddSandboxFails
  <2> QED  BY <1>u, <2>1
<1>4. ASSUME NEW r \in Requests, FinishStart(r) PROVE ResultsNameStarted'
  <2>1. /\ store' = store
        /\ result' = [result EXCEPT ![target[r]] = StartOutcome(r)]
        /\ StartOutcome(r) = r => pc'[r] = "started"
        /\ StartOutcome(r) \in {r, Failed}
    BY <1>4 DEF FinishStart, StartOutcome
  <2> QED  BY <1>u, <2>1
<1>5. ASSUME NEW r \in Requests, StartFails(r) \/ FinishStartFails(r) \/ JoinStep(r) \/ CancelWait(r) \/ Crash(r)
      PROVE  ResultsNameStarted'
  <2>1. UNCHANGED <<store, result>>
    BY <1>5 DEF StartFails, FinishStartFails, JoinStep, JoinStored, ReadResult, ReadPending, RereadResult,
       Wake, CancelWait, Crash, redisVars
  <2> QED  BY <1>1, <2>1
<1>6. ASSUME NEW s \in Sandboxes, RemoveStep(s) \/ PendingAges(s) \/ ResultExpires(s) PROVE ResultsNameStarted'
  BY <1>1, <1>6 DEF RemoveStep, StorageRemove, StorageRemoveFails, Release, ReleaseFails, PendingAges,
     ResultExpires, DeletedResult
<1>7. CASE UNCHANGED vars
  BY <1>1, <1>7 DEF vars
<1> QED  BY <1>2, <1>3, <1>4, <1>5, <1>6, <1>7 DEF Next, StartStep

\* A request that joins a start is only given an execution of its own ID that
\* was stored, in every environment: whatever overlaps, outlives its TTL or dies.
THEOREM JoinersGetStored == Spec => JoinedExecutionWasStored
<1>1. Init => ResultsNameStarted
  BY ConstantsAssumption DEF Init, ResultsNameStarted, Executions
<1>2. TypeOK /\ ResultsNameStarted /\ [Next]_vars
      => \A r \in Requests :
           LET e == answer'[r] IN
           answer[r] = None /\ e \in Executions \ {r} =>
               /\ target[e] = target[r]
               /\ pc[e] \in {"added", "started"} \/ store[target[e]] = e
  <2> SUFFICES ASSUME TypeOK, ResultsNameStarted, [Next]_vars, NEW r \in Requests,
                      answer[r] = None, answer'[r] \in Executions \ {r}
               PROVE  /\ target[answer'[r]] = target[r]
                      /\ \/ pc[answer'[r]] \in {"added", "started"}
                         \/ store[target[answer'[r]]] = answer'[r]
    OBVIOUS
  <2> USE ConstantsAssumption DEF TypeOK, Executions, Goto, Return
  <2>0. answer' # answer
    OBVIOUS
  <2>1. ASSUME NEW q \in Requests, Reserve(q) \/ StartStep(q) \/ CancelWait(q) \/ Crash(q) PROVE FALSE
    <3>1. \/ answer' = answer
          \/ \E v \in {q, Failed} : answer' = [answer EXCEPT ![q] = v]
      BY <2>1 DEF Reserve, ReserveInStorage, ReservePending, ReserveExceeded, ReserveGranted, StartStep,
         StartFails, AddSandbox, AddSandboxFails, FinishStart, FinishStartFails, StartOutcome, CancelWait, Crash
    <3> QED  BY <3>1
  <2>2. ASSUME NEW q \in Requests, JoinStep(q)
        PROVE  q = r /\ answer'[r] \in {store[target[r]], result[target[r]]}
    BY <2>2, <2>0 DEF JoinStep, JoinStored, ReadResult, ReadPending, RereadResult, Wake
  <2>3. ASSUME NEW s \in Sandboxes, RemoveStep(s) \/ PendingAges(s) \/ ResultExpires(s) PROVE FALSE
    BY <2>3, <2>0 DEF RemoveStep, StorageRemove, StorageRemoveFails, Release, ReleaseFails, PendingAges,
       ResultExpires
  <2>4. ASSUME UNCHANGED vars PROVE FALSE
    BY <2>4, <2>0 DEF vars
  <2>5. answer'[r] \in {store[target[r]], result[target[r]]}
    <3>1. CASE \E q \in Requests : Reserve(q) \/ StartStep(q) \/ JoinStep(q) \/ CancelWait(q) \/ Crash(q)
      BY <3>1, <2>1, <2>2, Zenon
    <3>2. CASE \E s \in Sandboxes : RemoveStep(s) \/ PendingAges(s) \/ ResultExpires(s)
      BY <3>2, <2>3, Zenon
    <3> QED  BY <3>1, <3>2, <2>4, Zenon DEF Next
  <2> QED  BY <2>5 DEF ResultsNameStarted
<1> QED  BY <1>1, <1>2, ResultsStep, TypeCorrect, PTL DEF Spec, JoinedExecutionWasStored

-----------------------------------------------------------------------------
\* The reservation protocol implements the limiter.

\* Requests that neither begin nor leave their start leave Starts alone; one
\* that leaves it takes its own pair away, one that begins it adds its own.
LEMMA StartsChange ==
    ASSUME TypeOK, target' = target
    PROVE  /\ (\A q \in Requests : At(q, "starting")' <=> At(q, "starting")) => Starts' = Starts
           /\ \A r \in Requests :
                /\ ~At(r, "starting")'
                /\ \A q \in Requests \ {r} : At(q, "starting")' <=> At(q, "starting")
                => Starts' = Starts \ {<<target[r], r>>}
           /\ \A r \in Requests :
                /\ At(r, "starting")'
                /\ \A q \in Requests \ {r} : At(q, "starting")' <=> At(q, "starting")
                => Starts' = Starts \cup {<<target[r], r>>}
<1>1. \A x : x \in Starts <=> \E r \in Requests : At(r, "starting") /\ x = <<target[r], r>>
  BY DEF Starts
<1>2. \A x : x \in Starts' <=> \E r \in Requests : At(r, "starting")' /\ x = <<target[r], r>>
  BY DEF Starts
<1>3. ASSUME \A q \in Requests : At(q, "starting")' <=> At(q, "starting") PROVE Starts' = Starts
  <2>1. \A x : x \in Starts' <=> x \in Starts
    BY <1>1, <1>2, <1>3
  <2> QED  BY <2>1 DEF Starts
<1>4. ASSUME NEW r \in Requests, ~At(r, "starting")',
             \A q \in Requests \ {r} : At(q, "starting")' <=> At(q, "starting")
      PROVE  Starts' = Starts \ {<<target[r], r>>}
  <2>1. \A x : x \in Starts' <=> x \in Starts /\ x # <<target[r], r>>
    BY <1>1, <1>2, <1>4
  <2> QED  BY <2>1 DEF Starts
<1>5. ASSUME NEW r \in Requests, At(r, "starting")',
             \A q \in Requests \ {r} : At(q, "starting")' <=> At(q, "starting")
      PROVE  Starts' = Starts \cup {<<target[r], r>>}
  <2>1. \A x : x \in Starts' <=> x \in Starts \/ x = <<target[r], r>>
    BY <1>1, <1>2, <1>5
  <2> QED  BY <2>1 DEF Starts
<1> QED  BY <1>3, <1>4, <1>5

\* An ID without a record that nobody is starting is vacant.
LEMMA VacantIs ==
    ASSUME NEW s \in Sandboxes, store[s] = None,
           \A r \in Requests : At(r, "starting") => target[r] # s
    PROVE  Limiter!Vacant(s)
<1>1. \A e \in Executions : <<s, e>> \notin Starts
  BY DEF Starts
<1> QED  BY <1>1 DEF Limiter!Vacant

\* A step that only takes IDs out of the pending zset that nobody is starting
\* is the limiter forgetting the ones that have no record, or no step at all.
LEMMA ForgetStep ==
    ASSUME TypeOK, NEW gone \in SUBSET Sandboxes,
           \A r \in Requests : At(r, "starting") => target[r] \notin gone,
           pending' = pending \ gone, store' = store, Starts' = Starts
    PROVE  Limiter!Next
<1> DEFINE left == {s \in gone : store[s] = None}
<1>1. \A s \in left : Limiter!Vacant(s)
  BY VacantIs
<1>2. Counted' = Counted \ left
  BY DEF Counted, index, TypeOK
<1>3. Limiter!Forget(left)
  BY <1>1, <1>2 DEF Limiter!Forget
<1> QED  BY <1>3 DEF Limiter!Next

\* Every step of the protocol is a step of the limiter or leaves it alone: the
\* reservation lets a start in, Store.Add (whatever it returns) makes it run, a
\* failure before it or a crash aborts it, storage.Remove stops the run, and the
\* sweep, finishStart and Release forget IDs that are out of use.
LEMMA LimiterStep ==
    ASSUME TypeOK, ReservationInv, ReservationInv', ~OverlappingResume, ~SlowStarts, [Next]_vars
    PROVE  Limiter!Next \/ UNCHANGED <<Counted, Starts, store>>
<1> DEFINE Goal == Limiter!Next \/ UNCHANGED <<Counted, Starts, store>>
<1>t. /\ pc \in [Requests -> {"idle"} \cup Starting \cup Joining \cup Finished]
      /\ target \in [Requests -> Sandboxes] /\ store \in [Sandboxes -> Executions \cup {None}]
      /\ pending \subseteq Sandboxes /\ stale \subseteq pending
  BY DEF TypeOK
<1>h. \A q \in Requests : At(q, "starting") =>
          /\ target[q] \in pending \ stale /\ target[q] \notin releasing /\ store[target[q]] = None
  BY DEF ReservationInv, StartingHoldsReservation
<1>s. ASSUME NEW r \in Requests, NEW l, pc[r] # "starting", l # "starting",
             pc' = [pc EXCEPT ![r] = l], UNCHANGED <<target, crashed>>
      PROVE  Starts' = Starts
  <2>1. \A q \in Requests : At(q, "starting")' <=> At(q, "starting")
    BY <1>t, <1>s DEF At
  <2> QED  BY <1>s, <2>1, StartsChange
<1>1. ASSUME NEW r \in Requests, Reserve(r) PROVE Goal
  <2>1. pc[r] = "idle" /\ r \notin crashed /\ target[r] \in Sandboxes
    BY <1>1, <1>t DEF Reserve, At
  <2>2. ASSUME NEW l, l # "starting", Goto(r, l), pending' = SweptPending, store' = store PROVE Goal
    <3>1. Starts' = Starts
      BY <1>s, <2>1, <2>2 DEF Goto
    <3>2. pending' = pending \ stale /\ stale \in SUBSET Sandboxes
      BY <1>t, <2>2 DEF SweptPending
    <3> QED  BY <1>h, <2>2, <3>1, <3>2, ForgetStep
  <2>3. CASE ReserveInStorage(r, target[r])
    BY <2>2, <2>3 DEF ReserveInStorage
  <2>4. CASE ReservePending(r, target[r])
    BY <2>2, <2>4 DEF ReservePending
  <2>5. CASE ReserveExceeded(r, target[r])
    BY <2>2, <2>5 DEF ReserveExceeded, Return
  <2>6. CASE ReserveGranted(r, target[r])
    <3> DEFINE left == {s \in stale : store[s] = None}
    <3>1. /\ target[r] \notin index /\ target[r] \notin pending \ stale
          /\ pending' = (pending \ stale) \cup {target[r]} /\ store' = store /\ Goto(r, "starting")
      BY <2>6 DEF ReserveGranted, SweptPending
    <3>2. Limiter!Vacant(target[r])
      BY <1>h, <2>1, <3>1, VacantIs DEF index
    <3>3. \A s \in left : Limiter!Vacant(s)
      BY <1>t, <1>h, VacantIs
    <3>4. Counted' = (Counted \ left) \cup {target[r]}
      BY <1>t, <2>1, <3>1 DEF Counted, index
    <3>5. Limiter!Within(Counted')
      <4>1. ConcurrencyLimit'
        BY DEF ReservationInv
      <4>2. Counted' = (index \cup pending)'
        BY DEF Counted
      <4> QED  BY <4>1, <4>2, Zenon
           DEF ConcurrencyLimit, Limiter!Within, Cardinality, Limiter!Cardinality
    <3>6. Starts' = Starts \cup {<<target[r], r>>}
      <4>1. At(r, "starting")' /\ \A q \in Requests \ {r} : At(q, "starting")' <=> At(q, "starting")
        BY <1>t, <2>1, <3>1 DEF At, Goto
      <4> QED  BY <3>1, <4>1, StartsChange DEF Goto
    <3>7. left \in SUBSET Sandboxes /\ r \in Executions
      BY <1>t DEF Executions
    <3> HIDE DEF left
    <3>8. Limiter!Admit(target[r], r, left)
      BY <3>1, <3>2, <3>3, <3>4, <3>5, <3>6 DEF Limiter!Admit
    <3> QED  BY <2>1, <3>7, <3>8 DEF Limiter!Next
  <2> QED  BY <1>1, <2>3, <2>4, <2>5, <2>6 DEF Reserve
<1>2. ASSUME NEW r \in Requests, At(r, "starting"), ~At(r, "starting")', target' = target,
             \A q \in Requests \ {r} : At(q, "starting")' <=> At(q, "starting"),
             pending' = pending, store' = store \/ store' = [store EXCEPT ![target[r]] = r]
      PROVE  Goal
  <2>1. Starts' = Starts \ {<<target[r], r>>} /\ <<target[r], r>> \in Starts
    <3>1. <<target[r], r>> \in Starts
      BY <1>2 DEF Starts
    <3> QED  BY <1>2, <3>1, StartsChange
  <2>2. target[r] \in Sandboxes /\ r \in Executions /\ target[r] \in pending /\ target[r] \in Counted
    BY <1>t, <1>h, <1>2 DEF Executions, Counted
  <2>3. CASE store' = store
    <3>1. Counted' = Counted
      BY <1>2, <2>3 DEF Counted, index
    <3>2. Limiter!Abort(target[r], r)
      BY <2>1, <2>3, <3>1 DEF Limiter!Abort
    <3> QED  BY <2>2, <3>2 DEF Limiter!Next
  <2>4. CASE store' = [store EXCEPT ![target[r]] = r]
    <3>1. Counted' = Counted
      BY <1>2, <1>t, <2>2, <2>4, ConstantsAssumption DEF Counted, index
    <3>2. Limiter!Run(target[r], r)
      BY <2>1, <2>2, <2>4, <3>1 DEF Limiter!Run
    <3> QED  BY <2>2, <3>2 DEF Limiter!Next
  <2> QED  BY <1>2, <2>3, <2>4
<1>3. ASSUME NEW r \in Requests, StartFails(r) \/ AddSandbox(r) \/ AddSandboxFails(r) PROVE Goal
  <2>1. /\ At(r, "starting") /\ (Goto(r, "failed") \/ Goto(r, "added")) /\ pending' = pending
        /\ store' = store \/ store' = [store EXCEPT ![target[r]] = r]
    BY <1>3 DEF StartFails, AddSandbox, AddSandboxFails
  <2>2. /\ ~At(r, "starting")' /\ target' = target
        /\ \A q \in Requests \ {r} : At(q, "starting")' <=> At(q, "starting")
    BY <1>t, <2>1 DEF At, Goto
  <2> QED  BY <1>2, <2>1, <2>2
<1>4. ASSUME NEW r \in Requests, FinishStart(r) \/ FinishStartFails(r) PROVE Goal
  <2>1. /\ r \notin crashed /\ pc[r] \in {"added", "failed"} /\ store' = store
        /\ Goto(r, "started") \/ Goto(r, "startFailed")
        /\ pending' = pending \/ pending' = pending \ {target[r]}
    BY <1>4 DEF FinishStart, FinishStartFails, Return
  <2>2. Starts' = Starts
    BY <1>s, <2>1 DEF Goto
  <2>3. \A q \in Requests : At(q, "starting") => target[q] # target[r]
    BY <2>1 DEF ReservationInv, OneStarterPerSandbox, Starter, Starting, At
  <2>4. CASE pending' = pending
    BY <2>1, <2>2, <2>4 DEF Counted, index
  <2>5. CASE pending' = pending \ {target[r]}
    <3>1. {target[r]} \in SUBSET Sandboxes
      BY <1>t
    <3> QED  BY <2>1, <2>2, <2>3, <2>5, <3>1, ForgetStep
  <2> QED  BY <2>1, <2>4, <2>5
<1>5. ASSUME NEW r \in Requests, JoinStep(r) \/ CancelWait(r) PROVE Goal
  <2>1. /\ UNCHANGED <<pending, store>> /\ pc[r] \in Joining
        /\ \E l \in {"joined", "score", "asleep", "reget", "probe"} : Goto(r, l)
    BY <1>5 DEF JoinStep, JoinStored, ReadResult, ReadPending, RereadResult, Wake, CancelWait, Return,
       redisVars, At, Joining
  <2>2. Starts' = Starts
    BY <1>s, <2>1 DEF Goto, Joining
  <2> QED  BY <2>1, <2>2 DEF Counted, index
<1>6. ASSUME NEW r \in Requests, Crash(r) PROVE Goal
  <2>1. /\ crashed' = crashed \cup {r} /\ r \notin crashed
        /\ UNCHANGED <<pending, store, pc, target>>
    BY <1>6 DEF Crash, redisVars
  <2>2. /\ ~At(r, "starting")'
        /\ \A q \in Requests \ {r} : At(q, "starting")' <=> At(q, "starting")
    BY <2>1 DEF At
  <2>3. CASE At(r, "starting")
    BY <1>2, <2>1, <2>2, <2>3
  <2>4. CASE ~At(r, "starting")
    <3>1. Starts' = Starts
      BY <2>1, <2>2, <2>4, StartsChange
    <3> QED  BY <2>1, <3>1 DEF Counted, index
  <2> QED  BY <2>3, <2>4
<1>7. ASSUME UNCHANGED <<pc, target, crashed>> PROVE Starts' = Starts
  <2>1. \A q \in Requests : At(q, "starting")' <=> At(q, "starting")
    BY <1>7 DEF At
  <2> QED  BY <1>7, <2>1, StartsChange
<1>8. ASSUME NEW s \in Sandboxes, StorageRemove(s) PROVE Goal
  <2>1. /\ store[s] # None /\ store' = [store EXCEPT ![s] = None] /\ pending' = pending
        /\ UNCHANGED <<pc, target, crashed>>
    BY <1>8 DEF StorageRemove, index
  <2>2. Counted' \in {Counted, Counted \ {s}}
    <3>1. index' = index \ {s}
      BY <1>t, <2>1 DEF index
    <3>2. CASE s \in pending
      BY <2>1, <3>1, <3>2 DEF Counted
    <3>3. CASE s \notin pending
      BY <2>1, <3>1, <3>3 DEF Counted
    <3> QED  BY <3>2, <3>3
  <2>3. Limiter!Stop(s)
    BY <1>7, <2>1, <2>2 DEF Limiter!Stop
  <2> QED  BY <2>3 DEF Limiter!Next
<1>9. ASSUME NEW s \in Sandboxes, Release(s) PROVE Goal
  <2>1. s \in releasing /\ pending' = pending \ {s} /\ store' = store /\ Starts' = Starts
    BY <1>7, <1>9 DEF Release
  <2>2. \A q \in Requests : At(q, "starting") => target[q] \notin {s}
    BY <1>h, <2>1
  <2> QED  BY <2>1, <2>2, ForgetStep
<1>10. ASSUME \/ \E s \in Sandboxes : StorageRemoveFails(s) \/ ReleaseFails(s) \/ PendingAges(s) \/ ResultExpires(s)
              \/ UNCHANGED vars
       PROVE  Goal
  <2>1. UNCHANGED <<store, pending, pc, target, crashed>>
    BY <1>10 DEF StorageRemoveFails, ReleaseFails, PendingAges, ResultExpires, vars
  <2> QED  BY <1>7, <2>1 DEF Counted, index
<1> HIDE DEF Goal
<1>11. Goal
  BY <1>1, <1>3, <1>4, <1>5, <1>6, <1>8, <1>9, <1>10 DEF Next, StartStep, RemoveStep
<1> QED  BY <1>11 DEF Goal

\* The reservations of a team implement the limiter, for every limit and every
\* number of requests and IDs: every record comes from a start that was let in
\* within the limit for a free ID, and none stops counting while it is in use.
THEOREM LimiterImplemented ==
    ASSUME ~OverlappingResume, ~SlowStarts
    PROVE  Spec => ImplementsLimiter
<1>1. Init => Limiter!Init
  BY DEF Init, Limiter!Init, Counted, Starts, index, At
<1>2. /\ TypeOK /\ ReservationInv /\ ReservationInv' /\ [Next]_vars
      => [Limiter!Next]_<<Counted, Starts, store>>
  BY LimiterStep
<1> QED  BY <1>1, <1>2, ReservationInvariant, PTL DEF Spec, ImplementsLimiter, Limiter!Spec, Limiter!limiterVars
=============================================================================
