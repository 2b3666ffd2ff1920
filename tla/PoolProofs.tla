----------------------------- MODULE PoolProofs -----------------------------
(***************************************************************************)
(* Theorems about the network slot pool and about the node that uses it,   *)
(* for any number of slots, sandboxes and faults and any channel sizes.    *)
(***************************************************************************)
EXTENDS SandboxNode, TLAPS

\* Every step of the pool keeps its types.
LEMMA PoolTypeStep == PoolTypeOK /\ [PoolNext]_poolVars => PoolTypeOK'
<1> SUFFICES ASSUME PoolTypeOK, [PoolNext]_poolVars PROVE PoolTypeOK'
  OBVIOUS
<1> USE PoolAssumption DEF PoolTypeOK, slotVars, Getting, Returning, Fault, UseGoes, Release
<1>1. CASE MakerLooks
  <2>1. newOpen' \in BOOLEAN
    BY <1>1, Zenon DEF MakerLooks
  <2> QED  BY <1>1, <2>1 DEF MakerLooks
<1>2. CASE MakerCreates \/ MakerCreateFails \/ MakerPushes \/ MakerCleansUp
  <2>1. CASE MakerCreates
    BY <2>1 DEF MakerCreates
  <2>2. CASE MakerCreateFails \/ MakerPushes
    BY <2>2 DEF MakerCreateFails, MakerPushes
  <2>3. CASE MakerCleansUp
    <3>1. newOpen' \in BOOLEAN /\ done' \in BOOLEAN /\ closed' \in BOOLEAN
      BY <2>3, Zenon DEF MakerCleansUp
    <3>2. free' \subseteq Slots /\ lost' \subseteq Slots /\ faults' \in 0..MaxFaults
      BY <2>3 DEF MakerCleansUp
    <3> QED  BY <2>3, <3>1, <3>2, Zenon DEF MakerCleansUp
  <2> QED  BY <1>2, <2>1, <2>2, <2>3
<1>3. CASE Close
  <2>1. CASE CloseDone
    BY <2>1 DEF CloseDone
  <2>2. CASE CloseMarks
    BY <2>2 DEF CloseMarks
  <2>3. CASE CloseWaits \/ CloseDrainedNew \/ CloseEnds
    BY <2>3 DEF CloseWaits, CloseDrainedNew, CloseEnds
  <2>4. CASE CloseDrainsNew
    BY <2>4 DEF CloseDrainsNew
  <2>5. CASE CloseDrainsReused
    BY <2>5 DEF CloseDrainsReused
  <2> QED  BY <1>3, <2>1, <2>2, <2>3, <2>4, <2>5 DEF Close
<1>4. CASE OtherFault
  BY <1>4 DEF OtherFault
<1>5. ASSUME NEW l \in Lifecycles, Get(l) \/ GetNil(l) \/ GetStep(l) PROVE PoolTypeOK'
  BY <1>5 DEF Get, GetNil, GetStep, GetRefused, GetReused, GetWaits, GetNew, Configured, Tracked
<1>6. ASSUME NEW l \in Lifecycles, ReturnAsync(l) \/ DelayPasses(l) \/ Notify(l) PROVE PoolTypeOK'
  BY <1>6 DEF ReturnAsync, DelayPasses, Notify, Tracked, Announced
<1>7. ASSUME NEW l \in Lifecycles, ReturnStep(l) PROVE PoolTypeOK'
  BY <1>7 DEF ReturnStep, DelayCut, ResetFails, Reuse, ReuseRefused, Cleanup, ReturnEnds, LeftOver
<1>8. CASE UNCHANGED poolVars
  BY <1>8 DEF poolVars
<1> QED
  BY <1>1, <1>2, <1>3, <1>4, <1>5, <1>6, <1>7, <1>8 DEF PoolNext, Populate

\* No step of the pool puts a slot into a second place.
LEMMA ExclusiveStep ==
    PoolTypeOK /\ SlotsExclusive /\ [PoolNext]_poolVars => SlotsExclusive'
<1> SUFFICES ASSUME PoolTypeOK, SlotsExclusive, [PoolNext]_poolVars PROVE SlotsExclusive'
  OBVIOUS
<1>h. holds \in [Lifecycles -> SUBSET Slots]
  BY DEF PoolTypeOK
<1> USE DEF SlotsExclusive, slotVars, Release
<1>1. CASE Populate
  BY <1>1 DEF Populate, MakerLooks, MakerCreates, MakerCreateFails, MakerPushes, MakerCleansUp
<1>2. CASE Close
  BY <1>2 DEF Close, CloseDone, CloseMarks, CloseWaits, CloseDrainsNew, CloseDrainedNew,
              CloseDrainsReused, CloseEnds
<1>3. CASE OtherFault
  BY <1>3 DEF OtherFault
<1>4. ASSUME NEW l \in Lifecycles, Get(l) \/ GetNil(l) \/ GetStep(l) PROVE SlotsExclusive'
  BY <1>4, <1>h DEF Get, GetNil, GetStep, GetRefused, GetReused, GetWaits, GetNew
<1>5. ASSUME NEW l \in Lifecycles, ReturnAsync(l) \/ DelayPasses(l) \/ Notify(l) PROVE SlotsExclusive'
  BY <1>5 DEF ReturnAsync, DelayPasses, Notify
<1>6. ASSUME NEW l \in Lifecycles, ReturnStep(l) PROVE SlotsExclusive'
  BY <1>6, <1>h DEF ReturnStep, DelayCut, ResetFails, Reuse, ReuseRefused, Cleanup, LeftOver
<1>7. CASE UNCHANGED poolVars
  BY <1>7 DEF poolVars
<1> QED
  BY <1>1, <1>2, <1>3, <1>4, <1>5, <1>6, <1>7 DEF PoolNext

\* What Close and Populate rely on: done comes first, closed bars every later
\* tryReuse before Close waits, and Populate leaves nothing behind when it
\* closes newSlots.
CloseInv ==
    /\ closer # "open" => done
    /\ closer \notin {"open", "mark"} => closed
    /\ newOpen <=> maker # "end"
    /\ maker # "push" => made = {}
    /\ closer \in {"drainReused", "end"} => newSlots = {} /\ ~newOpen
    /\ closer = "end" => reused = {}

\* Every step of the pool keeps them.
LEMMA CloseStep == PoolTypeOK /\ CloseInv /\ [PoolNext]_poolVars => CloseInv'
<1> SUFFICES ASSUME PoolTypeOK, CloseInv, [PoolNext]_poolVars PROVE CloseInv'
  OBVIOUS
<1> USE DEF CloseInv, PoolTypeOK, slotVars
<1>1. CASE MakerLooks
  BY <1>1 DEF MakerLooks
<1>2. CASE MakerCreates \/ MakerCreateFails \/ MakerPushes \/ MakerCleansUp
  BY <1>2 DEF MakerCreates, MakerCreateFails, MakerPushes, MakerCleansUp
<1>3. CASE Close
  BY <1>3 DEF Close, CloseDone, CloseMarks, CloseWaits, CloseDrainsNew, CloseDrainedNew,
              CloseDrainsReused, CloseEnds
<1>4. CASE OtherFault
  BY <1>4 DEF OtherFault
<1>5. ASSUME NEW l \in Lifecycles, Get(l) \/ GetNil(l) \/ GetStep(l) PROVE CloseInv'
  BY <1>5 DEF Get, GetNil, GetStep, GetRefused, GetReused, GetWaits, GetNew
<1>6. ASSUME NEW l \in Lifecycles, ReturnAsync(l) \/ DelayPasses(l) \/ Notify(l) PROVE CloseInv'
  BY <1>6 DEF ReturnAsync, DelayPasses, Notify
<1>7. ASSUME NEW l \in Lifecycles, ReturnStep(l) PROVE CloseInv'
  BY <1>7 DEF ReturnStep, DelayCut, ResetFails, Reuse, ReuseRefused, Cleanup, MayReuse
<1>8. CASE UNCHANGED poolVars
  BY <1>8 DEF poolVars
<1> QED
  BY <1>1, <1>2, <1>3, <1>4, <1>5, <1>6, <1>7, <1>8 DEF PoolNext, Populate

-----------------------------------------------------------------------------
\* The inductive invariant of the pool.
PoolInv == PoolTypeOK /\ SlotsExclusive /\ CloseInv

\* It holds at the start and in every step.
THEOREM PoolInvariant == PoolSpec => []PoolInv
<1>1. PoolInit => PoolInv
  <2> SUFFICES ASSUME PoolInit PROVE PoolInv
    OBVIOUS
  <2>1. PoolTypeOK
    <3>1. newOpen \in BOOLEAN /\ done \in BOOLEAN /\ closed \in BOOLEAN
      BY Zenon DEF PoolInit
    <3> QED  BY <3>1, PoolAssumption DEF PoolInit, PoolTypeOK, Getting, Returning
  <2>2. SlotsExclusive
    BY DEF PoolInit, SlotsExclusive
  <2>3. CloseInv
    BY DEF PoolInit, CloseInv
  <2> QED  BY <2>1, <2>2, <2>3 DEF PoolInv
<1>2. PoolInv /\ [PoolNext]_poolVars => PoolInv'
  BY PoolTypeStep, ExclusiveStep, CloseStep DEF PoolInv
<1> QED  BY <1>1, <1>2, PTL DEF PoolSpec

-----------------------------------------------------------------------------
\* The node uses the pool as the pool allows: each of its steps is a step of
\* the pool or leaves it alone.
THEOREM NodeImplementsPool == Spec => PoolSpec
<1>1. Init => PoolInit
  BY DEF Init
<1>2. [Next]_vars => [PoolNext]_poolVars
  <2> SUFFICES ASSUME [Next]_vars PROVE [PoolNext]_poolVars
    OBVIOUS
  <2>1. ASSUME NEW l \in Lifecycles, StartStep(l) PROVE [PoolNext]_poolVars
    BY <2>1 DEF StartStep, AddChecks, AddAppends, AddRuns, AssignNetwork, BootFails,
                MarkRunning, TrackLifecycle, PoolNext
  <2>2. ASSUME NEW l \in Lifecycles, EndStep(l) PROVE [PoolNext]_poolVars
    BY <2>2 DEF EndStep, AsyncStop, CloseSandbox, CloseReturns, MarkStopped, PoolNext
  <2>3. ASSUME NEW l \in Lifecycles, PoolGets(l) \/ PoolReturns(l) \/ PoolAnnounces(l)
        PROVE  [PoolNext]_poolVars
    BY <2>3 DEF PoolGets, PoolReturns, PoolAnnounces, PoolNext
  <2>4. ASSUME NEW l \in Lifecycles, Create(l) \/ StartFails(l) \/ ProcessPanics(l) \/ VMExits(l)
        PROVE  [PoolNext]_poolVars
    BY <2>4 DEF Create, Begin, StartFails, ProcessPanics, VMExits, PoolNext
  <2>5. ASSUME NEW r \in Requests, LookUp(r) \/ RequestStep(r) PROVE [PoolNext]_poolVars
    BY <2>5 DEF LookUp, RequestStep, Mark, DeleteStops, PauseEnds, CheckpointResumes, Begin,
                CheckpointFails, CheckpointResumed, CheckpointEnds, PoolNext
  <2>6. ASSUME NEW r \in Requests, NEW l \in Lifecycles, Harvest(r, l) PROVE [PoolNext]_poolVars
    BY <2>6 DEF Harvest, Begin, PoolNext
  <2>7. CASE PoolPopulates \/ Shutdown \/ DrainStarts \/ ForceStop
    BY <2>7 DEF PoolPopulates, Shutdown, DrainStarts, ForceStop, DrainCounts, WaitLifecycles,
                GracefulStop, PoolCloses, PhaseGoes, PoolNext
  <2>8. CASE UNCHANGED vars
    BY <2>8 DEF vars
  <2> QED
    BY <2>1, <2>2, <2>3, <2>4, <2>5, <2>6, <2>7, <2>8 DEF Next, NodeStep
<1> QED  BY <1>1, <1>2, PTL DEF Spec, PoolSpec

\* No two sandboxes of a node ever share a network slot, and no slot is handed
\* out while it waits, is being torn down or is free.
THEOREM SlotsNeverShared == Spec => []SlotsExclusive
<1>1. PoolInv => SlotsExclusive
  BY DEF PoolInv
<1> QED  BY <1>1, PoolInvariant, NodeImplementsPool, PTL

\* Once the pool's Close has returned no return strands a slot in a channel.
THEOREM ClosedPoolStaysEmpty == Spec => []ClosedPoolIsEmpty
<1>1. PoolInv => ClosedPoolIsEmpty
  BY DEF PoolInv, CloseInv, ClosedPoolIsEmpty
<1> QED  BY <1>1, PoolInvariant, NodeImplementsPool, PTL
=============================================================================
