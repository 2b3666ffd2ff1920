----------------------------- MODULE NodeProofs -----------------------------
(***************************************************************************)
(* Theorems about one sandbox ID on an orchestrator, for any number of     *)
(* lifecycles, requests and slots, with and without duplicate starts.      *)
(* That every step of the node is a step of the pool comes from PoolProofs. *)
(***************************************************************************)
EXTENDS PoolProofs, FiniteSetTheorems

\* At most one member.
Pairwise(ss) == \A k, l \in ss : k = l

\* The node's own types, with the live index as a set of at most one.
NodeTypes ==
    /\ at \in [Lifecycles -> {"unused", "up", "hidden", "warm", "closing", "closed"} \cup Starting \cup Ended]
    /\ vm \in [Lifecycles -> {"none", "on", "off"}]
    /\ added \in [Lifecycles -> {"no", "checked", "yes", "late"}]
    /\ ip \in [Lifecycles -> SUBSET Slots]
    /\ live \subseteq Lifecycles /\ Pairwise(live)
    /\ lifecycles \subseteq Lifecycles
    /\ network \in [Slots -> SUBSET Lifecycles]
    /\ throwaway \subseteq Lifecycles
    /\ req \in [Requests -> {"idle", "kill", "stop", "pause", "checkpoint", "paused", "done"}
                             \cup Replacing \cup {"pausing", "upload"}]
    /\ old \in [Requests -> SUBSET Lifecycles]
    /\ new \in [Requests -> SUBSET Lifecycles]
    /\ stops \subseteq Lifecycles
    /\ phase \in {"serving", "draining", "waiting", "stopping", "closing"}

\* Every step keeps them.
LEMMA NodeTypeStep == PoolTypeOK /\ NodeTypes /\ [Next]_vars => NodeTypes'
<1> SUFFICES ASSUME PoolTypeOK, NodeTypes, [Next]_vars PROVE NodeTypes'
  OBVIOUS
<1>h. holds \in [Lifecycles -> SUBSET Slots]
  BY DEF PoolTypeOK
<1> USE DEF NodeTypes, Pairwise, Starting, Ended, Replacing, Goes, Answers, mapVars, reqVars, Stopped,
            MarkStopping
<1>1. ASSUME NEW l \in Lifecycles, AddChecks(l) \/ AddAppends(l) \/ AddRuns(l) \/ StartFails(l)
      PROVE  NodeTypes'
  BY <1>1, <1>h DEF AddChecks, AddAppends, AddRuns, StartFails
<1>2. ASSUME NEW l \in Lifecycles, AssignNetwork(l) PROVE NodeTypes'
  BY <1>2 DEF AssignNetwork
<1>3. ASSUME NEW l \in Lifecycles, BootFails(l) \/ TrackLifecycle(l) PROVE NodeTypes'
  BY <1>3 DEF BootFails, TrackLifecycle
<1>4. ASSUME NEW l \in Lifecycles, MarkRunning(l) PROVE NodeTypes'
  BY <1>4 DEF MarkRunning, InsertIfAbsent
<1>5. ASSUME NEW l \in Lifecycles, VMExits(l) \/ AsyncStop(l) \/ CloseSandbox(l) PROVE NodeTypes'
  BY <1>5 DEF VMExits, AsyncStop, CloseSandbox
<1>6. ASSUME NEW l \in Lifecycles, CloseReturns(l) \/ MarkStopped(l) PROVE NodeTypes'
  BY <1>6, <1>h DEF CloseReturns, MarkStopped
<1>7. ASSUME NEW l \in Lifecycles, PoolAnnounces(l) PROVE NodeTypes'
  BY <1>7 DEF PoolAnnounces, NetworkReleased
<1>8. ASSUME NEW l \in Lifecycles, Create(l) PROVE NodeTypes'
  BY <1>8 DEF Create, Begin
<1>9. ASSUME NEW r \in Requests, LookUp(r) \/ Mark(r) PROVE NodeTypes'
  BY <1>9 DEF LookUp, Mark, AfterMark
<1>10. ASSUME NEW r \in Requests, DeleteStops(r) \/ PauseEnds(r) PROVE NodeTypes'
  BY <1>10 DEF DeleteStops, PauseEnds
<1>11. ASSUME NEW r \in Requests, NEW l \in Lifecycles, Harvest(r, l) \/ CheckpointResumes(r, l)
       PROVE  NodeTypes'
  BY <1>11 DEF Harvest, CheckpointResumes, Begin, StoppedFirst
<1>12. ASSUME NEW r \in Requests, CheckpointFails(r) \/ CheckpointResumed(r) \/ CheckpointEnds(r)
       PROVE  NodeTypes'
  BY <1>12 DEF CheckpointFails, CheckpointResumed, CheckpointEnds
<1>13. CASE DrainStarts \/ ForceStop \/ DrainCounts \/ WaitLifecycles \/ GracefulStop
  BY <1>13 DEF DrainStarts, ForceStop, DrainCounts, WaitLifecycles, GracefulStop, PhaseGoes
<1>14. CASE UNCHANGED nodeVars
  BY <1>14 DEF nodeVars
<1> QED
  BY <1>1, <1>2, <1>3, <1>4, <1>5, <1>6, <1>7, <1>8, <1>9, <1>10, <1>11, <1>12, <1>13, <1>14
  DEF Next, NodeStep, StartStep, EndStep, RequestStep, PoolGets, ProcessPanics, PoolReturns,
      PoolPopulates, Shutdown, PoolCloses, vars

\* The types hold always, those of the pool among them.
LEMMA NodeTypesAlways == Spec => [](PoolInv /\ NodeTypes)
<1>1. Init => NodeTypes
  BY DEF Init, NodeTypes, Pairwise, Starting, Ended, Replacing
<1>2. PoolInv /\ NodeTypes /\ [Next]_vars => NodeTypes'
  BY NodeTypeStep DEF PoolInv
<1> QED  BY <1>1, <1>2, NodeImplementsPool, PoolInvariant, PTL DEF Spec

\* Every variable of the node keeps its type, and the live index has one
\* lifecycle of the ID at most.
THEOREM NodeTypeCorrect == Spec => []TypeOK
<1>1. PoolInv /\ NodeTypes => TypeOK
  <2> SUFFICES ASSUME PoolInv, NodeTypes PROVE TypeOK
    OBVIOUS
  <2>1. Cardinality(live) <= 1
    <3>1. CASE live = {}
      BY <3>1, FS_EmptySet
    <3>2. CASE live # {}
      <4>1. PICK l \in live : TRUE
        BY <3>2
      <4>2. live = {l}
        BY <4>1 DEF NodeTypes, Pairwise
      <4>3. Cardinality({l}) = 1
        BY FS_Singleton
      <4> QED  BY <4>2, <4>3
    <3> QED  BY <3>1, <3>2
  <2> QED  BY <2>1 DEF TypeOK, PoolInv, NodeTypes
<1> QED  BY <1>1, NodeTypesAlways, PTL

-----------------------------------------------------------------------------
\* The map and the requests.

Left       == {"closed", "gone"}
Registered == {"track", "up", "hidden", "closing"} \cup Left

\* A request that has taken its lifecycle off the live index.
Taking == {"stop", "pausing", "upload"} \cup Replacing

\* The live index names a registered lifecycle that is no harvest's and that
\* nobody has taken off it; what is looked up or stopped has been registered.
MapInv ==
    /\ live \cap throwaway = {}
    /\ stops \cap live = {}
    /\ \A l \in live : at[l] \in {"track", "up"}
    /\ \A l \in stops : at[l] \in Registered
    /\ \A l \in Lifecycles : at[l] = "up" => l \in lifecycles
    /\ \A r \in Requests :
        /\ Pairwise(old[r]) /\ Pairwise(new[r])
        /\ \A l \in old[r] : at[l] \in Registered
        /\ req[r] = "upload" => \A l \in new[r] : at[l] \in Registered
        /\ req[r] # "idle" => old[r] # {}
        /\ req[r] \in Taking => old[r] \cap live = {}

\* What was registered stays so.
LEMMA RegisteredStays ==
    ASSUME PoolTypeOK, NodeTypes, [Next]_vars, NEW l \in Lifecycles, at[l] \in Registered
    PROVE  at'[l] \in Registered
<1>t. at \in [Lifecycles -> {"unused", "up", "hidden", "warm", "closing", "closed"} \cup Starting \cup Ended]
  BY DEF NodeTypes
<1> USE <1>t DEF Registered, Left, Goes
<1>1. ASSUME NEW k \in Lifecycles, StartStep(k) \/ StartFails(k) PROVE at'[l] \in Registered
  BY <1>1 DEF StartStep, AddChecks, AddAppends, AddRuns, AssignNetwork, BootFails, MarkRunning,
     TrackLifecycle, StartFails
<1>2. ASSUME NEW k \in Lifecycles, EndStep(k) \/ VMExits(k) PROVE at'[l] \in Registered
  BY <1>2 DEF EndStep, AsyncStop, CloseSandbox, CloseReturns, MarkStopped, VMExits
<1>3. ASSUME NEW k \in Lifecycles, PoolGets(k) \/ ProcessPanics(k) \/ PoolReturns(k) \/ PoolAnnounces(k)
      PROVE  at'[l] \in Registered
  BY <1>3 DEF PoolGets, ProcessPanics, PoolReturns, PoolAnnounces, nodeVars
<1>4. ASSUME NEW k \in Lifecycles, Begin(k) PROVE at'[l] \in Registered
  BY <1>4 DEF Begin
<1>5. ASSUME NEW r \in Requests, LookUp(r) \/ Mark(r) \/ DeleteStops(r) \/ PauseEnds(r) \/ CheckpointFails(r)
             \/ CheckpointResumed(r) \/ CheckpointEnds(r)
      PROVE  at'[l] \in Registered
  BY <1>5 DEF LookUp, Mark, DeleteStops, PauseEnds, CheckpointFails, CheckpointResumed, CheckpointEnds
<1>6. CASE DrainStarts \/ ForceStop \/ Shutdown \/ PoolPopulates
  BY <1>6 DEF DrainStarts, ForceStop, Shutdown, DrainCounts, WaitLifecycles, GracefulStop, PhaseGoes,
     PoolCloses, PoolPopulates, nodeVars
<1>7. CASE UNCHANGED vars
  BY <1>7 DEF vars, nodeVars
<1> QED
  BY <1>1, <1>2, <1>3, <1>4, <1>5, <1>6, <1>7
  DEF Next, NodeStep, RequestStep, Create, Harvest, CheckpointResumes

\* Every step keeps the map in order.
LEMMA MapStep == PoolTypeOK /\ NodeTypes /\ MapInv /\ [Next]_vars => MapInv'
<1> SUFFICES ASSUME PoolTypeOK, NodeTypes, MapInv, [Next]_vars PROVE MapInv'
  OBVIOUS
<1>r. \A l \in Lifecycles : at[l] \in Registered => at'[l] \in Registered
  BY RegisteredStays
<1>t. NodeTypes
  OBVIOUS
<1> USE <1>t DEF NodeTypes, MapInv, Pairwise, Taking, Replacing, Goes, Answers, mapVars, reqVars, MarkStopping
<1>1. ASSUME NEW l \in Lifecycles, AddChecks(l) \/ AddAppends(l) \/ AddRuns(l) PROVE MapInv'
  BY <1>1 DEF AddChecks, AddAppends, AddRuns
<1>2. ASSUME NEW l \in Lifecycles, StartFails(l) \/ AssignNetwork(l) \/ BootFails(l) \/ TrackLifecycle(l)
      PROVE  MapInv'
  BY <1>2 DEF StartFails, AssignNetwork, BootFails, TrackLifecycle, Registered, Left
<1>3. ASSUME NEW l \in Lifecycles, MarkRunning(l) PROVE MapInv'
  BY <1>3 DEF MarkRunning, InsertIfAbsent, Registered, Left
<1>4. ASSUME NEW l \in Lifecycles, VMExits(l) \/ AsyncStop(l) PROVE MapInv'
  BY <1>4 DEF VMExits, AsyncStop
<1>5. ASSUME NEW l \in Lifecycles, CloseSandbox(l) \/ CloseReturns(l) \/ MarkStopped(l) PROVE MapInv'
  BY <1>5 DEF CloseSandbox, CloseReturns, MarkStopped, Registered, Left
<1>6. ASSUME NEW l \in Lifecycles, PoolGets(l) \/ ProcessPanics(l) \/ PoolReturns(l) PROVE MapInv'
  BY <1>6 DEF PoolGets, ProcessPanics, PoolReturns, nodeVars
<1>7. ASSUME NEW l \in Lifecycles, PoolAnnounces(l) PROVE MapInv'
  BY <1>7 DEF PoolAnnounces
<1>8. ASSUME NEW l \in Lifecycles, Create(l) PROVE MapInv'
  BY <1>8 DEF Create, Begin, Registered, Left
<1>9. ASSUME NEW r \in Requests, NEW l \in Lifecycles, Harvest(r, l) PROVE MapInv'
  BY <1>9 DEF Harvest, Begin, Registered, Left
<1>10. ASSUME NEW r \in Requests, NEW l \in Lifecycles, CheckpointResumes(r, l) PROVE MapInv'
  BY <1>10 DEF CheckpointResumes, Begin, StoppedFirst, Registered, Left
<1>11. ASSUME NEW r \in Requests, LookUp(r) PROVE MapInv'
  BY <1>11 DEF LookUp, Registered, Left
<1>12. ASSUME NEW r \in Requests, Mark(r) PROVE MapInv'
  BY <1>12 DEF Mark, AfterMark
<1>13. ASSUME NEW r \in Requests, DeleteStops(r) PROVE MapInv'
  BY <1>13 DEF DeleteStops
<1>14. ASSUME NEW r \in Requests, PauseEnds(r) \/ CheckpointFails(r) \/ CheckpointEnds(r) PROVE MapInv'
  BY <1>14 DEF PauseEnds, CheckpointFails, CheckpointEnds
<1>15. ASSUME NEW r \in Requests, CheckpointResumed(r) PROVE MapInv'
  BY <1>15 DEF CheckpointResumed, Registered, Left
<1>16. CASE DrainStarts \/ ForceStop \/ Shutdown \/ PoolPopulates
  BY <1>16 DEF DrainStarts, ForceStop, Shutdown, DrainCounts, WaitLifecycles, GracefulStop, PhaseGoes,
     PoolCloses, PoolPopulates, nodeVars
<1>17. CASE UNCHANGED vars
  BY <1>17 DEF vars, nodeVars
<1> QED
  BY <1>1, <1>2, <1>3, <1>4, <1>5, <1>6, <1>7, <1>8, <1>9, <1>10, <1>11, <1>12, <1>13, <1>14, <1>15,
     <1>16, <1>17
  DEF Next, NodeStep, StartStep, EndStep, RequestStep

-----------------------------------------------------------------------------
\* Where a lifecycle is and who has its slot.

Booted    == {"boot", "track", "up", "hidden", "warm"}
GivenBack == Returning \cup {"returned"}

\* The Cleanup has the slot's return as soon as the VM may boot, and it is
\* the Cleanup that gives the slot back, once, after the VM is off.
LifecycleInv ==
    \A l \in Lifecycles :
        /\ at[l] = "unused" => use[l] = "idle" /\ added[l] = "no" /\ vm[l] = "none"
        /\ at[l] = "slot" =>
             vm[l] = "none" /\ added[l] # "late" /\ (added[l] # "no" => use[l] = "held")
        /\ at[l] \in Booted => use[l] = "held" /\ added[l] = "yes" /\ vm[l] # "none"
        /\ at[l] = "closing" => use[l] = "held" /\ added[l] = "yes" /\ vm[l] = "off"
        /\ at[l] \in Left => use[l] \in GivenBack /\ added[l] = "yes" /\ vm[l] = "off"
        /\ at[l] = "failed" =>
             /\ vm[l] = "none"
             /\ added[l] \in {"checked", "late"} => use[l] = "held"
             /\ added[l] = "yes" => use[l] \in GivenBack

\* Every step keeps this.
LEMMA LifecycleStep ==
    PoolInv /\ NodeTypes /\ MapInv /\ LifecycleInv /\ [Next]_vars => LifecycleInv'
<1> SUFFICES ASSUME PoolInv, NodeTypes, MapInv, LifecycleInv, [Next]_vars PROVE LifecycleInv'
  OBVIOUS
<1>u. use \in [Lifecycles -> {"idle", "held", "refused", "panic", "returned"} \cup Getting \cup Returning]
  BY DEF PoolInv, PoolTypeOK
<1>t. /\ at \in [Lifecycles -> {"unused", "up", "hidden", "warm", "closing", "closed"} \cup Starting \cup Ended]
      /\ vm \in [Lifecycles -> {"none", "on", "off"}]
      /\ added \in [Lifecycles -> {"no", "checked", "yes", "late"}]
  BY DEF NodeTypes
<1> USE <1>u, <1>t DEF LifecycleInv, Booted, Left, GivenBack, Getting, Returning, Starting, Ended, Goes,
            UseGoes, Stopped
<1>1. ASSUME NEW l \in Lifecycles, AddChecks(l) \/ AddAppends(l) \/ AddRuns(l) \/ StartFails(l)
      PROVE  LifecycleInv'
  BY <1>1 DEF AddChecks, AddAppends, AddRuns, StartFails, ReturnAsync, poolVars
<1>2. ASSUME NEW l \in Lifecycles, AssignNetwork(l) \/ BootFails(l) PROVE LifecycleInv'
  BY <1>2 DEF AssignNetwork, BootFails, poolVars
<1>3. ASSUME NEW l \in Lifecycles, MarkRunning(l) \/ TrackLifecycle(l) PROVE LifecycleInv'
  BY <1>3 DEF MarkRunning, TrackLifecycle, poolVars
<1>4. ASSUME NEW l \in Lifecycles, VMExits(l) PROVE LifecycleInv'
  BY <1>4 DEF VMExits, OtherFault
<1>5. ASSUME NEW l \in Lifecycles, AsyncStop(l) PROVE LifecycleInv'
  <2>1. at[l] \in Registered
    BY <1>5 DEF AsyncStop, MapInv
  <2> QED  BY <1>5, <2>1 DEF AsyncStop, Registered, poolVars
<1>6. ASSUME NEW l \in Lifecycles, CloseSandbox(l) \/ CloseReturns(l) \/ MarkStopped(l) PROVE LifecycleInv'
  BY <1>6 DEF CloseSandbox, ToClose, CloseReturns, MarkStopped, ReturnAsync, poolVars
<1>7. ASSUME NEW l \in Lifecycles, PoolGets(l) \/ ProcessPanics(l) PROVE LifecycleInv'
  BY <1>7 DEF PoolGets, ProcessPanics, GetNil, GetStep, GetRefused, GetReused, GetWaits, GetNew,
     Configured, nodeVars
<1>8. ASSUME NEW l \in Lifecycles, PoolReturns(l) \/ PoolAnnounces(l) PROVE LifecycleInv'
  BY <1>8 DEF PoolReturns, PoolAnnounces, ReturnStep, DelayCut, ResetFails, Reuse, ReuseRefused, Cleanup,
     ReturnEnds, DelayPasses, Notify, nodeVars
<1>9. ASSUME NEW l \in Lifecycles, Begin(l), UNCHANGED <<vm, added>> PROVE LifecycleInv'
  BY <1>9 DEF Begin, Get
<1>10. ASSUME NEW r \in Requests, LookUp(r) \/ Mark(r) \/ PauseEnds(r) \/ CheckpointFails(r)
              \/ CheckpointResumed(r) \/ CheckpointEnds(r)
       PROVE  LifecycleInv'
  BY <1>10 DEF LookUp, Mark, PauseEnds, CheckpointFails, CheckpointResumed, CheckpointEnds, poolVars
<1>11. ASSUME NEW r \in Requests, DeleteStops(r) PROVE LifecycleInv'
  <2>1. \A l \in old[r] : at[l] \in Registered
    BY DEF MapInv
  <2> QED  BY <1>11, <2>1 DEF DeleteStops, Registered, poolVars
<1>12. CASE DrainStarts \/ ForceStop \/ Shutdown \/ PoolPopulates
  BY <1>12 DEF DrainStarts, ForceStop, Shutdown, DrainCounts, WaitLifecycles, GracefulStop, PhaseGoes,
     PoolCloses, Close, CloseDone, CloseMarks, CloseWaits, CloseDrainsNew, CloseDrainedNew,
     CloseDrainsReused, CloseEnds, PoolPopulates, Populate, MakerLooks, MakerCreates, MakerCreateFails,
     MakerPushes, MakerCleansUp, poolVars, nodeVars
<1>13. CASE UNCHANGED vars
  BY <1>13 DEF vars, poolVars, nodeVars
<1> QED
  BY <1>1, <1>2, <1>3, <1>4, <1>5, <1>6, <1>7, <1>8, <1>9, <1>10, <1>11, <1>12, <1>13
  DEF Next, NodeStep, StartStep, EndStep, RequestStep, Create, Harvest, CheckpointResumes

\* What the node relies on, of the map and of every lifecycle.
NodeInv == PoolInv /\ NodeTypes /\ MapInv /\ LifecycleInv

\* It holds always.
LEMMA NodeInvAlways == Spec => []NodeInv
<1>1. Init => MapInv /\ LifecycleInv
  <2> SUFFICES ASSUME Init PROVE MapInv /\ LifecycleInv
    OBVIOUS
  <2>1. MapInv
    BY DEF Init, MapInv, Pairwise, Taking, Replacing
  <2>2. LifecycleInv
    BY DEF Init, PoolInit, LifecycleInv, Booted, Left
  <2> QED  BY <2>1, <2>2
<1>2. PoolInv /\ NodeTypes /\ MapInv /\ LifecycleInv /\ [Next]_vars => MapInv' /\ LifecycleInv'
  BY MapStep, LifecycleStep DEF PoolInv
<1> QED  BY <1>1, <1>2, NodeTypesAlways, PTL DEF Spec, NodeInv

-----------------------------------------------------------------------------
\* The addresses.

\* A return announces no address but the one its lifecycle still has, and
\* until the pool shuts down it does so before the slot is handed on.
AnnounceInv ==
    \A l \in Lifecycles :
        /\ use[l] \notin GivenBack => ip[l] = {}
        /\ use[l] = "delay" => ip[l] \subseteq holds[l]
        /\ ~done => (use[l] \in {"recycle", "cleanup"} => l \in told) /\ use[l] # "notify"

\* Every step keeps this.
LEMMA AnnounceStep == NodeInv /\ AnnounceInv /\ [Next]_vars => AnnounceInv'
<1> SUFFICES ASSUME NodeInv, AnnounceInv, [Next]_vars PROVE AnnounceInv'
  OBVIOUS
<1>u. /\ use \in [Lifecycles -> {"idle", "held", "refused", "panic", "returned"} \cup Getting \cup Returning]
      /\ holds \in [Lifecycles -> SUBSET Slots]
  BY DEF NodeInv, PoolInv, PoolTypeOK
<1>t. ip \in [Lifecycles -> SUBSET Slots]
  BY DEF NodeInv, NodeTypes
<1> USE <1>u, <1>t DEF AnnounceInv, GivenBack, Getting, Returning, UseGoes, slotVars
<1>1. ASSUME NEW l \in Lifecycles, AddRuns(l) \/ CloseReturns(l) PROVE AnnounceInv'
  BY <1>1 DEF AddRuns, CloseReturns, ReturnAsync
<1>2. ASSUME UNCHANGED <<poolVars, ip>> PROVE AnnounceInv'
  BY <1>2 DEF poolVars
<1>3. ASSUME NEW l \in Lifecycles, VMExits(l) PROVE AnnounceInv'
  BY <1>3 DEF VMExits, OtherFault
<1>4. ASSUME NEW l \in Lifecycles, PoolGets(l) \/ ProcessPanics(l) PROVE AnnounceInv'
  BY <1>4 DEF PoolGets, ProcessPanics, GetNil, GetStep, GetRefused, GetReused, GetWaits, GetNew,
     Configured, nodeVars
<1>5. ASSUME NEW l \in Lifecycles, PoolReturns(l) PROVE AnnounceInv'
  BY <1>5 DEF PoolReturns, ReturnStep, DelayCut, ResetFails, Reuse, ReuseRefused, Cleanup, ReturnEnds,
     LeftOver, nodeVars
<1>6. ASSUME NEW l \in Lifecycles, PoolAnnounces(l) PROVE AnnounceInv'
  BY <1>6 DEF PoolAnnounces, DelayPasses, Notify, Announced
<1>7. ASSUME NEW l \in Lifecycles, Begin(l), UNCHANGED ip PROVE AnnounceInv'
  BY <1>7 DEF Begin, Get
<1>8. CASE PoolCloses \/ PoolPopulates
  BY <1>8 DEF PoolCloses, Close, CloseDone, CloseMarks, CloseWaits, CloseDrainsNew, CloseDrainedNew,
     CloseDrainsReused, CloseEnds, PoolPopulates, Populate, MakerLooks, MakerCreates, MakerCreateFails,
     MakerPushes, MakerCleansUp, nodeVars
<1>9. ASSUME NEW l \in Lifecycles,
             \/ AddChecks(l) \/ AddAppends(l) \/ StartFails(l) \/ AssignNetwork(l) \/ BootFails(l)
             \/ MarkRunning(l) \/ TrackLifecycle(l) \/ AsyncStop(l) \/ CloseSandbox(l) \/ MarkStopped(l)
      PROVE  UNCHANGED <<poolVars, ip>>
  BY <1>9 DEF AddChecks, AddAppends, StartFails, AssignNetwork, BootFails, MarkRunning, TrackLifecycle,
     AsyncStop, CloseSandbox, MarkStopped
<1>10. ASSUME NEW r \in Requests, LookUp(r) \/ Mark(r) \/ DeleteStops(r) \/ PauseEnds(r) \/ CheckpointFails(r)
              \/ CheckpointResumed(r) \/ CheckpointEnds(r)
       PROVE  UNCHANGED <<poolVars, ip>>
  BY <1>10 DEF LookUp, Mark, DeleteStops, PauseEnds, CheckpointFails, CheckpointResumed, CheckpointEnds
<1>11. ASSUME DrainStarts \/ ForceStop \/ DrainCounts \/ WaitLifecycles \/ GracefulStop
       PROVE  UNCHANGED <<poolVars, ip>>
  BY <1>11 DEF DrainStarts, ForceStop, DrainCounts, WaitLifecycles, GracefulStop, PhaseGoes
<1>12. CASE UNCHANGED vars
  BY <1>12 DEF vars, poolVars, nodeVars
<1> QED
  BY <1>1, <1>2, <1>3, <1>4, <1>5, <1>6, <1>7, <1>8, <1>9, <1>10, <1>11, <1>12
  DEF Next, NodeStep, StartStep, EndStep, RequestStep, Create, Harvest, CheckpointResumes, Shutdown

\* A VM that is on holds its slot, by LifecycleInv, so that no step of the pool
\* for it is possible, and no other VM has an address of that slot to announce.
LEMMA OwnerStep == NodeInv /\ AnnounceInv /\ NetworkOwner /\ [Next]_vars => NetworkOwner'
<1> SUFFICES ASSUME NodeInv, AnnounceInv, NetworkOwner, [Next]_vars PROVE NetworkOwner'
  OBVIOUS
<1>u. /\ use \in [Lifecycles -> {"idle", "held", "refused", "panic", "returned"} \cup Getting \cup Returning]
      /\ holds \in [Lifecycles -> SUBSET Slots]
      /\ \A k, l \in Lifecycles : k # l => holds[k] \cap holds[l] = {}
  BY DEF NodeInv, PoolInv, PoolTypeOK, SlotsExclusive
<1>t. /\ vm \in [Lifecycles -> {"none", "on", "off"}]
      /\ network \in [Slots -> SUBSET Lifecycles]
  BY DEF NodeInv, NodeTypes
<1>v. \A l \in Lifecycles : vm[l] = "on" => use[l] = "held"
  BY DEF NodeInv, LifecycleInv, NodeTypes, Booted, Left, Starting, Ended
<1> USE <1>u, <1>t, <1>v DEF NetworkOwner, slotVars, UseGoes, mapVars
<1>1. ASSUME NEW l \in Lifecycles, AssignNetwork(l) PROVE NetworkOwner'
  BY <1>1 DEF AssignNetwork, poolVars
<1>2. ASSUME UNCHANGED <<holds, done, network>>, \A l \in Lifecycles : vm'[l] = "on" => vm[l] = "on"
      PROVE  NetworkOwner'
  BY <1>2
<1>3. ASSUME NEW l \in Lifecycles, PoolGets(l) \/ ProcessPanics(l) PROVE NetworkOwner'
  BY <1>3 DEF PoolGets, ProcessPanics, GetNil, GetStep, GetRefused, GetReused, GetWaits, GetNew, nodeVars
<1>4. ASSUME NEW l \in Lifecycles, PoolReturns(l) PROVE NetworkOwner'
  BY <1>4 DEF PoolReturns, ReturnStep, DelayCut, ResetFails, Reuse, ReuseRefused, Cleanup, LeftOver, nodeVars
<1>5. ASSUME NEW l \in Lifecycles, PoolAnnounces(l) PROVE NetworkOwner'
  <2>1. CASE DelayPasses(l)
    <3>1. use[l] = "delay" /\ ip[l] \subseteq holds[l]
      BY <2>1 DEF DelayPasses, AnnounceInv
    <3> QED  BY <1>5, <2>1, <3>1 DEF PoolAnnounces, DelayPasses, NetworkReleased
  <2>2. CASE Notify(l)
    BY <1>5, <2>2 DEF PoolAnnounces, Notify, AnnounceInv
  <2> QED  BY <1>5, <2>1, <2>2 DEF PoolAnnounces
<1>6. CASE PoolCloses \/ PoolPopulates
  BY <1>6 DEF PoolCloses, Close, CloseDone, CloseMarks, CloseWaits, CloseDrainsNew, CloseDrainedNew,
     CloseDrainsReused, CloseEnds, PoolPopulates, Populate, MakerLooks, MakerCreates, MakerCreateFails,
     MakerPushes, MakerCleansUp, nodeVars
<1>7. ASSUME NEW l \in Lifecycles,
             \/ AddChecks(l) \/ AddAppends(l) \/ AddRuns(l) \/ StartFails(l) \/ BootFails(l)
             \/ MarkRunning(l) \/ TrackLifecycle(l) \/ EndStep(l) \/ VMExits(l)
      PROVE  UNCHANGED <<holds, done, network>> /\ \A k \in Lifecycles : vm'[k] = "on" => vm[k] = "on"
  BY <1>7 DEF AddChecks, AddAppends, AddRuns, StartFails, BootFails, MarkRunning, TrackLifecycle, EndStep,
     AsyncStop, CloseSandbox, CloseReturns, MarkStopped, VMExits, OtherFault, ReturnAsync, Stopped, poolVars
<1>8. ASSUME NEW l \in Lifecycles, Begin(l), UNCHANGED <<vm, network>>
      PROVE  UNCHANGED <<holds, done>>
  BY <1>8 DEF Begin, Get
<1>9. ASSUME NEW r \in Requests, LookUp(r) \/ Mark(r) \/ DeleteStops(r) \/ PauseEnds(r) \/ CheckpointFails(r)
              \/ CheckpointResumed(r) \/ CheckpointEnds(r)
       PROVE  UNCHANGED <<holds, done, network>> /\ \A k \in Lifecycles : vm'[k] = "on" => vm[k] = "on"
  BY <1>9 DEF LookUp, Mark, DeleteStops, PauseEnds, CheckpointFails, CheckpointResumed, CheckpointEnds,
     Stopped, poolVars
<1>10. CASE DrainStarts \/ ForceStop \/ DrainCounts \/ WaitLifecycles \/ GracefulStop
  BY <1>10 DEF DrainStarts, ForceStop, DrainCounts, WaitLifecycles, GracefulStop, PhaseGoes, poolVars
<1>11. CASE UNCHANGED vars
  BY <1>11 DEF vars, poolVars, nodeVars
<1> QED
  BY <1>1, <1>2, <1>3, <1>4, <1>5, <1>6, <1>7, <1>8, <1>9, <1>10, <1>11
  DEF Next, NodeStep, StartStep, RequestStep, Create, Harvest, CheckpointResumes, Shutdown

\* Until the pool shuts down, traffic from the address of a VM that is on is
\* attributed to that VM, however the slot is handed from one to the next.
THEOREM TrafficIsAttributed == Spec => []NetworkOwner
<1>1. Init => AnnounceInv /\ NetworkOwner
  BY DEF Init, PoolInit, AnnounceInv, NetworkOwner, GivenBack, Returning
<1> QED  BY <1>1, NodeInvAlways, AnnounceStep, OwnerStep, PTL DEF Spec

-----------------------------------------------------------------------------
\* The live index.

\* What RunningIsAddressable says, from the moment of registration on.
AddressInv ==
    \A l \in Lifecycles : at[l] \in {"track", "up"} /\ ~BeingStopped(l) => live = {l}

\* Every step keeps this: whoever takes a lifecycle off the live index stops
\* it, or hands it to one that does, before it forgets it.
LEMMA AddressStep == NodeInv /\ AddressInv /\ [Next]_vars => AddressInv'
<1> SUFFICES ASSUME NodeInv, AddressInv, [Next]_vars PROVE AddressInv'
  OBVIOUS
<1>t. NodeTypes /\ MapInv
  BY DEF NodeInv
<1> USE <1>t DEF NodeTypes, AddressInv, BeingStopped, Goes, Answers, mapVars, reqVars, Stopped, MarkStopping
<1>1. ASSUME NEW l \in Lifecycles,
             \/ AddChecks(l) \/ AddAppends(l) \/ AddRuns(l) \/ StartFails(l) \/ AssignNetwork(l)
      PROVE  AddressInv'
  BY <1>1 DEF AddChecks, AddAppends, AddRuns, StartFails, AssignNetwork
<1>2. ASSUME NEW l \in Lifecycles, BootFails(l) PROVE AddressInv'
  BY <1>2 DEF BootFails, MapInv
<1>3. ASSUME NEW l \in Lifecycles, MarkRunning(l) PROVE AddressInv'
  BY <1>3 DEF MarkRunning, InsertIfAbsent
<1>4. ASSUME NEW l \in Lifecycles, TrackLifecycle(l) PROVE AddressInv'
  BY <1>4 DEF TrackLifecycle
<1>5. ASSUME NEW l \in Lifecycles, VMExits(l) \/ AsyncStop(l) PROVE AddressInv'
  BY <1>5 DEF VMExits, AsyncStop
<1>6. ASSUME NEW l \in Lifecycles, CloseSandbox(l) \/ CloseReturns(l) \/ MarkStopped(l) PROVE AddressInv'
  BY <1>6 DEF CloseSandbox, CloseReturns, MarkStopped
<1>7. ASSUME NEW l \in Lifecycles, PoolGets(l) \/ ProcessPanics(l) \/ PoolReturns(l) PROVE AddressInv'
  BY <1>7 DEF PoolGets, ProcessPanics, PoolReturns, nodeVars
<1>8. ASSUME NEW l \in Lifecycles, PoolAnnounces(l) PROVE AddressInv'
  BY <1>8 DEF PoolAnnounces
<1>9. ASSUME NEW l \in Lifecycles, Create(l) PROVE AddressInv'
  BY <1>9 DEF Create, Begin
<1>10. ASSUME NEW r \in Requests, NEW l \in Lifecycles, Harvest(r, l) PROVE AddressInv'
  BY <1>10 DEF Harvest, Begin, Replacing
<1>11. ASSUME NEW r \in Requests, NEW l \in Lifecycles, CheckpointResumes(r, l) PROVE AddressInv'
  BY <1>11 DEF CheckpointResumes, Begin, StoppedFirst, Replacing
<1>12. ASSUME NEW r \in Requests, LookUp(r) PROVE AddressInv'
  BY <1>12 DEF LookUp, Replacing
<1>13. ASSUME NEW r \in Requests, Mark(r) PROVE AddressInv'
  BY <1>13 DEF Mark, AfterMark, Replacing
<1>14. ASSUME NEW r \in Requests, DeleteStops(r) PROVE AddressInv'
  BY <1>14 DEF DeleteStops, Replacing
<1>15. ASSUME NEW r \in Requests, PauseEnds(r) \/ CheckpointFails(r) PROVE AddressInv'
  BY <1>15 DEF PauseEnds, CheckpointFails, Replacing
<1>16. ASSUME NEW r \in Requests, CheckpointResumed(r) \/ CheckpointEnds(r) PROVE AddressInv'
  BY <1>16 DEF CheckpointResumed, CheckpointEnds, Replacing
<1>17. CASE DrainStarts \/ ForceStop \/ Shutdown \/ PoolPopulates
  BY <1>17 DEF DrainStarts, ForceStop, Shutdown, DrainCounts, WaitLifecycles, GracefulStop, PhaseGoes,
     PoolCloses, PoolPopulates, nodeVars
<1>18. CASE UNCHANGED vars
  BY <1>18 DEF vars, nodeVars
<1> QED
  BY <1>1, <1>2, <1>3, <1>4, <1>5, <1>6, <1>7, <1>8, <1>9, <1>10, <1>11, <1>12, <1>13, <1>14, <1>15,
     <1>16, <1>17, <1>18
  DEF Next, NodeStep, StartStep, EndStep, RequestStep

\* A registered VM that nobody is stopping is on the live index: no clean-up of
\* another lifecycle of the ID, late as it may be, takes it off.
THEOREM RegisteredIsAddressable == Spec => []RunningIsAddressable
<1>1. Init => AddressInv
  BY DEF Init, AddressInv
<1>2. AddressInv => RunningIsAddressable
  BY DEF AddressInv, RunningIsAddressable
<1> QED  BY <1>1, <1>2, NodeInvAlways, AddressStep, PTL DEF Spec

-----------------------------------------------------------------------------
\* The drain.

\* Requests of which the API has one at a time.
Lone == {"pause", "checkpoint", "pausing", "upload"} \cup Replacing

\* A lifecycle is taken off the live index by one request only, and a
\* checkpoint takes one that has been tracked.
TakeInv ==
    /\ \A q, r \in Requests : req[q] \in Lone /\ req[r] \in Lone => q = r
    /\ \A q, r \in Requests :
         req[q] \in Taking /\ req[r] \in Taking /\ old[q] \cap old[r] # {} => q = r
    /\ \A r \in Requests : req[r] = "checkpoint" => \A l \in old[r] : at[l] # "track"

\* Every step keeps this.
LEMMA TakeStep == NodeInv /\ TakeInv /\ [Next]_vars => TakeInv'
<1> SUFFICES ASSUME NodeInv, TakeInv, [Next]_vars PROVE TakeInv'
  OBVIOUS
<1>t. NodeTypes /\ MapInv
  BY DEF NodeInv
<1> USE <1>t DEF NodeTypes, TakeInv, Taking, Lone, Replacing, Goes, Answers, mapVars, reqVars
<1>1. ASSUME NEW l \in Lifecycles, StartStep(l) \/ StartFails(l) PROVE TakeInv'
  BY <1>1 DEF StartStep, AddChecks, AddAppends, AddRuns, StartFails, AssignNetwork, BootFails, MarkRunning,
     TrackLifecycle, MapInv, Registered, Left
<1>2. ASSUME NEW l \in Lifecycles, EndStep(l) \/ VMExits(l) PROVE TakeInv'
  BY <1>2 DEF EndStep, AsyncStop, CloseSandbox, CloseReturns, MarkStopped, VMExits
<1>3. ASSUME NEW l \in Lifecycles, PoolGets(l) \/ ProcessPanics(l) \/ PoolReturns(l) \/ PoolAnnounces(l)
      PROVE  TakeInv'
  BY <1>3 DEF PoolGets, ProcessPanics, PoolReturns, PoolAnnounces, nodeVars
<1>4. ASSUME NEW l \in Lifecycles, Create(l) PROVE TakeInv'
  BY <1>4 DEF Create, Begin
<1>5. ASSUME NEW r \in Requests, NEW l \in Lifecycles, Harvest(r, l) PROVE TakeInv'
  BY <1>5 DEF Harvest, Begin
<1>6. ASSUME NEW r \in Requests, NEW l \in Lifecycles, CheckpointResumes(r, l) PROVE TakeInv'
  BY <1>6 DEF CheckpointResumes, Begin
<1>7. ASSUME NEW r \in Requests, LookUp(r) PROVE TakeInv'
  <2>1. Alone => \A l \in live : at[l] # "track"
    BY DEF Alone, Resuming, Starting, MapInv
  <2> QED  BY <1>7, <2>1 DEF LookUp, Alone
<1>8. ASSUME NEW r \in Requests, Mark(r) PROVE TakeInv'
  BY <1>8 DEF Mark, AfterMark, MarkStopping, MapInv, Pairwise
<1>9. ASSUME NEW r \in Requests,
             \/ DeleteStops(r) \/ PauseEnds(r) \/ CheckpointFails(r) \/ CheckpointResumed(r)
             \/ CheckpointEnds(r)
      PROVE  TakeInv'
  BY <1>9 DEF DeleteStops, PauseEnds, CheckpointFails, CheckpointResumed, CheckpointEnds
<1>10. CASE DrainStarts \/ ForceStop \/ Shutdown \/ PoolPopulates
  BY <1>10 DEF DrainStarts, ForceStop, Shutdown, DrainCounts, WaitLifecycles, GracefulStop, PhaseGoes,
     PoolCloses, PoolPopulates, nodeVars
<1>11. CASE UNCHANGED vars
  BY <1>11 DEF vars, nodeVars
<1> QED
  BY <1>1, <1>2, <1>3, <1>4, <1>5, <1>6, <1>7, <1>8, <1>9, <1>10, <1>11 DEF Next, NodeStep, RequestStep

\* As long as no VM has died by itself, what is live runs, and so does the old
\* VM of a checkpoint until that ends.
KeptInv ==
    faults = 0 =>
        /\ \A l \in live : vm[l] = "on"
        /\ \A r \in Requests : req[r] \in Replacing =>
             \A l \in old[r] : at[l] = "up" /\ vm[l] = "on" /\ l \notin stops

\* Faults are only ever counted up.
LEMMA FaultsStay == PoolTypeOK /\ [PoolNext]_poolVars => (faults' = 0 => faults = 0)
<1> SUFFICES ASSUME PoolTypeOK, [PoolNext]_poolVars, faults' = 0 PROVE faults = 0
  OBVIOUS
<1> USE PoolAssumption DEF PoolTypeOK, Fault, Release
<1>1. CASE Populate
  BY <1>1 DEF Populate, MakerLooks, MakerCreates, MakerCreateFails, MakerPushes, MakerCleansUp
<1>2. CASE Close
  BY <1>2 DEF Close, CloseDone, CloseMarks, CloseWaits, CloseDrainsNew, CloseDrainedNew,
              CloseDrainsReused, CloseEnds
<1>3. CASE OtherFault
  BY <1>3 DEF OtherFault
<1>4. ASSUME NEW l \in Lifecycles, Get(l) \/ GetNil(l) \/ GetStep(l) PROVE faults = 0
  BY <1>4 DEF Get, GetNil, GetStep, GetRefused, GetReused, GetWaits, GetNew, Configured
<1>5. ASSUME NEW l \in Lifecycles, ReturnAsync(l) \/ DelayPasses(l) \/ Notify(l) \/ ReturnStep(l)
      PROVE  faults = 0
  BY <1>5 DEF ReturnAsync, DelayPasses, Notify, ReturnStep, DelayCut, ResetFails, Reuse, ReuseRefused, Cleanup
<1>6. CASE UNCHANGED poolVars
  BY <1>6 DEF poolVars
<1> QED  BY <1>1, <1>2, <1>3, <1>4, <1>5, <1>6 DEF PoolNext

\* Every step keeps it so.
LEMMA KeptStep ==
    NodeInv /\ TakeInv /\ KeptInv /\ [Next]_vars /\ [PoolNext]_poolVars => KeptInv'
<1> SUFFICES ASSUME NodeInv, TakeInv, KeptInv, [Next]_vars, [PoolNext]_poolVars, faults' = 0
             PROVE  /\ \A l \in live' : vm'[l] = "on"
                    /\ \A r \in Requests : req'[r] \in Replacing =>
                         \A l \in old'[r] : at'[l] = "up" /\ vm'[l] = "on" /\ l \notin stops'
  BY DEF KeptInv
<1>t. NodeTypes /\ MapInv
  BY DEF NodeInv
<1>0. /\ \A l \in live : vm[l] = "on"
      /\ \A r \in Requests : req[r] \in Replacing =>
           \A l \in old[r] : at[l] = "up" /\ vm[l] = "on" /\ l \notin stops
  BY FaultsStay DEF NodeInv, PoolInv, KeptInv
<1> DEFINE Goal == /\ \A l \in live' : vm'[l] = "on"
                   /\ \A r \in Requests : req'[r] \in Replacing =>
                        \A l \in old'[r] : at'[l] = "up" /\ vm'[l] = "on" /\ l \notin stops'
<1> USE <1>t, <1>0 DEF NodeTypes, Taking, Replacing, Goes, Answers, mapVars, reqVars, Stopped,
        MarkStopping
<1>1. ASSUME NEW l \in Lifecycles,
             \/ AddChecks(l) \/ AddAppends(l) \/ AddRuns(l) \/ StartFails(l) \/ AssignNetwork(l)
             \/ BootFails(l) \/ TrackLifecycle(l)
      PROVE  Goal
  BY <1>1 DEF AddChecks, AddAppends, AddRuns, StartFails, AssignNetwork, BootFails, TrackLifecycle, MapInv,
     Registered, Left
<1>2. ASSUME NEW l \in Lifecycles, MarkRunning(l) PROVE Goal
  BY <1>2 DEF MarkRunning, InsertIfAbsent
<1>3. ASSUME NEW l \in Lifecycles, VMExits(l) PROVE FALSE
  BY <1>3 DEF VMExits, OtherFault, Fault, NodeInv, PoolInv, PoolTypeOK
<1>4. ASSUME NEW l \in Lifecycles, AsyncStop(l) PROVE Goal
  BY <1>4 DEF AsyncStop, MapInv
<1>5. ASSUME NEW l \in Lifecycles, CloseSandbox(l) \/ CloseReturns(l) \/ MarkStopped(l) PROVE Goal
  BY <1>5 DEF CloseSandbox, ToClose, CloseReturns, MarkStopped
<1>6. ASSUME NEW l \in Lifecycles, PoolGets(l) \/ ProcessPanics(l) \/ PoolReturns(l) \/ PoolAnnounces(l)
      PROVE  Goal
  BY <1>6 DEF PoolGets, ProcessPanics, PoolReturns, PoolAnnounces, nodeVars
<1>7. ASSUME NEW l \in Lifecycles, Create(l) PROVE Goal
  BY <1>7 DEF Create, Begin
<1>8. ASSUME NEW r \in Requests, NEW l \in Lifecycles, Harvest(r, l) PROVE Goal
  BY <1>8 DEF Harvest, Begin
<1>9. ASSUME NEW r \in Requests, NEW l \in Lifecycles, CheckpointResumes(r, l) PROVE Goal
  BY <1>9 DEF CheckpointResumes, Begin, StoppedFirst
<1>10. ASSUME NEW r \in Requests, LookUp(r) PROVE Goal
  BY <1>10 DEF LookUp
<1>11. ASSUME NEW r \in Requests, Mark(r) PROVE Goal
  BY <1>11 DEF Mark, AfterMark, TakeInv, MapInv, Pairwise
<1>12. ASSUME NEW r \in Requests, DeleteStops(r) PROVE Goal
  BY <1>12 DEF DeleteStops, TakeInv, MapInv
<1>13. ASSUME NEW r \in Requests, PauseEnds(r) \/ CheckpointFails(r) PROVE Goal
  BY <1>13 DEF PauseEnds, CheckpointFails, TakeInv, Lone
<1>14. ASSUME NEW r \in Requests, CheckpointResumed(r) \/ CheckpointEnds(r) PROVE Goal
  BY <1>14 DEF CheckpointResumed, CheckpointEnds, TakeInv, Lone
<1>15. CASE DrainStarts \/ ForceStop \/ Shutdown \/ PoolPopulates
  BY <1>15 DEF DrainStarts, ForceStop, Shutdown, DrainCounts, WaitLifecycles, GracefulStop, PhaseGoes,
     PoolCloses, PoolPopulates, nodeVars
<1>16. CASE UNCHANGED vars
  BY <1>16 DEF vars, nodeVars
<1> QED
  BY <1>1, <1>2, <1>3, <1>4, <1>5, <1>6, <1>7, <1>8, <1>9, <1>10, <1>11, <1>12, <1>13, <1>14, <1>15, <1>16
  DEF Next, NodeStep, StartStep, EndStep, RequestStep

\* A drain that meets no fault never completes while a checkpoint is between
\* the old VM and the new one, however requests and goroutines interleave.
THEOREM DrainIsComplete == Spec => DrainWaitsForCheckpoint
<1>1. Init => TakeInv /\ KeptInv
  BY DEF Init, TakeInv, KeptInv, Lone, Taking, Replacing
<1>2. NodeInv /\ KeptInv
      => (WaitLifecycles /\ faults = 0 => \A r \in Requests : req[r] \notin Replacing)
  <2> SUFFICES ASSUME NodeInv, KeptInv, WaitLifecycles, faults = 0,
                      NEW r \in Requests, req[r] \in Replacing
               PROVE  FALSE
    OBVIOUS
  <2>1. PICK l \in old[r] : TRUE
    BY DEF NodeInv, MapInv, Replacing
  <2>2. l \in Lifecycles /\ at[l] = "up"
    BY <2>1 DEF NodeInv, NodeTypes, KeptInv
  <2>3. l \in lifecycles
    BY <2>2 DEF NodeInv, MapInv
  <2> QED  BY <2>3 DEF WaitLifecycles
<1> QED
  BY <1>1, <1>2, NodeInvAlways, TakeStep, KeptStep, NodeImplementsPool, PTL
  DEF Spec, PoolSpec, DrainWaitsForCheckpoint

-----------------------------------------------------------------------------
\* The slots.

\* Every slot is somewhere, and a lifecycle that has one is using it or is
\* giving it back.
PlaceInv ==
    /\ \A s \in Slots :
         \/ s \in free \cup newSlots \cup reused \cup made \cup lost
         \/ \E l \in Lifecycles : s \in holds[l]
    /\ \A l \in Lifecycles : holds[l] # {} => use[l] \in {"held", "delay", "recycle", "cleanup"}

\* No step of the pool forgets a slot.
LEMMA PlaceStep == PoolInv /\ PlaceInv /\ [PoolNext]_poolVars => PlaceInv'
<1> SUFFICES ASSUME PoolInv, PlaceInv, [PoolNext]_poolVars PROVE PlaceInv'
  OBVIOUS
<1>t. /\ use \in [Lifecycles -> {"idle", "held", "refused", "panic", "returned"} \cup Getting \cup Returning]
      /\ holds \in [Lifecycles -> SUBSET Slots]
      /\ maker # "push" => made = {}
  BY DEF PoolInv, PoolTypeOK, CloseInv
<1> USE <1>t DEF PlaceInv, slotVars, Release, UseGoes
<1>1. CASE Populate
  BY <1>1 DEF Populate, MakerLooks, MakerCreates, MakerCreateFails, MakerPushes, MakerCleansUp
<1>2. CASE Close
  BY <1>2 DEF Close, CloseDone, CloseMarks, CloseWaits, CloseDrainsNew, CloseDrainedNew,
              CloseDrainsReused, CloseEnds
<1>3. CASE OtherFault
  BY <1>3 DEF OtherFault
<1>4. ASSUME NEW l \in Lifecycles, Get(l) \/ GetNil(l) \/ GetRefused(l) \/ GetWaits(l) PROVE PlaceInv'
  BY <1>4 DEF Get, GetNil, GetRefused, GetWaits
<1>5. ASSUME NEW l \in Lifecycles, GetReused(l) \/ GetNew(l) PROVE PlaceInv'
  <2>1. holds[l] = {}
    BY <1>5 DEF GetReused, GetNew
  <2>2. PICK s \in reused \cup newSlots :
          /\ holds' = [holds EXCEPT ![l] = {s}]
          /\ reused \cup newSlots \subseteq reused' \cup newSlots' \cup {s}
    BY <1>5 DEF GetReused, GetNew
  <2>3. UNCHANGED <<free, made, lost>> /\ use' \in {[use EXCEPT ![l] = "held"], [use EXCEPT ![l] = "delay"]}
    BY <1>5 DEF GetReused, GetNew, Configured
  <2> QED  BY <2>1, <2>2, <2>3
<1>6. ASSUME NEW l \in Lifecycles, ReturnAsync(l) \/ DelayPasses(l) \/ Notify(l) PROVE PlaceInv'
  BY <1>6 DEF ReturnAsync, DelayPasses, Notify
<1>7. ASSUME NEW l \in Lifecycles, DelayCut(l) \/ ResetFails(l) \/ ReuseRefused(l) PROVE PlaceInv'
  BY <1>7 DEF DelayCut, ResetFails, ReuseRefused
<1>8. ASSUME NEW l \in Lifecycles, Reuse(l) \/ Cleanup(l) PROVE PlaceInv'
  BY <1>8 DEF Reuse, Cleanup, ReturnEnds, LeftOver
<1>9. CASE UNCHANGED poolVars
  BY <1>9 DEF poolVars
<1> QED
  BY <1>1, <1>2, <1>3, <1>4, <1>5, <1>6, <1>7, <1>8, <1>9 DEF PoolNext, GetStep, ReturnStep

\* Once the pool is closed every slot is back, or its Release has failed, or a
\* lifecycle has it that will return it, but for the return that was added to a
\* Cleanup while that was being run.
THEOREM NoSlotLeaks == Spec => []NothingLeaks
<1>1. PoolInit => PlaceInv
  BY DEF PoolInit, PlaceInv
<1>2. NodeInv /\ PlaceInv => NothingLeaks
  <2> SUFFICES ASSUME NodeInv, PlaceInv, closer = "end", NEW s \in Slots \ (free \cup lost)
               PROVE  \E l \in Lifecycles :
                        /\ s \in holds[l]
                        /\ \/ use[l] \in Getting \cup Returning
                           \/ at[l] \notin Ended
                           \/ added[l] # "yes"
    BY DEF NothingLeaks
  <2>1. newSlots = {} /\ reused = {} /\ made = {}
    BY DEF NodeInv, PoolInv, CloseInv
  <2>2. PICK l \in Lifecycles : s \in holds[l]
    BY <2>1 DEF PlaceInv
  <2>3. use[l] \in {"held", "delay", "recycle", "cleanup"}
    BY <2>2 DEF PlaceInv
  <2>4. at[l] \in Ended /\ added[l] = "yes" => use[l] \in Returning \cup {"returned"}
    BY DEF NodeInv, LifecycleInv, Ended, Left, GivenBack
  <2> QED  BY <2>2, <2>3, <2>4 DEF Getting, Returning
<1> QED
  BY <1>1, <1>2, NodeInvAlways, PlaceStep, NodeImplementsPool, PoolInvariant, PTL DEF PoolSpec

-----------------------------------------------------------------------------
\* The way back of a slot whose VM has stopped.  NoStrandedSlot says with
\* ENABLED that some goroutine of the lifecycle can go on; here the guards are
\* named instead, one line for each of them.

\* The guard of a step of the lifecycle: BootFails, TrackLifecycle,
\* CloseSandbox, CloseReturns, or one of the pool's return, which is never
\* without a choice: what Reuse does not take ReuseRefused does.
CanGoOn(l) ==
    \/ at[l] = "boot"
    \/ at[l] = "track"
    \/ l \in ToClose
    \/ at[l] = "closing" /\ use[l] = "held"
    \/ use[l] \in Returning

\* However a VM was stopped and wherever its start was, a goroutine of its
\* lifecycle stands at a step it can take, until the slot is back.
THEOREM StoppedCanGoOn ==
    Spec => [](\A l \in Lifecycles : vm[l] = "off" /\ use[l] # "returned" => CanGoOn(l))
<1>1. NodeInv => \A l \in Lifecycles : vm[l] = "off" /\ use[l] # "returned" => CanGoOn(l)
  <2> SUFFICES ASSUME NodeInv, NEW l \in Lifecycles, vm[l] = "off", use[l] # "returned" PROVE CanGoOn(l)
    OBVIOUS
  <2>1. at[l] \in {"unused", "up", "hidden", "warm", "closing", "closed"} \cup Starting \cup Ended
    BY DEF NodeInv, NodeTypes
  <2>2. at[l] \notin {"unused", "slot", "failed"}
    BY DEF NodeInv, LifecycleInv
  <2>3. CASE at[l] \in {"boot", "track"}
    BY <2>3 DEF CanGoOn
  <2>4. CASE at[l] \in {"up", "hidden", "warm"}
    BY <2>4 DEF CanGoOn, ToClose
  <2>5. CASE at[l] = "closing"
    BY <2>5 DEF CanGoOn, NodeInv, LifecycleInv
  <2>6. CASE at[l] \in Left
    BY <2>6 DEF CanGoOn, NodeInv, LifecycleInv, GivenBack, Returning
  <2> QED  BY <2>1, <2>2, <2>3, <2>4, <2>5, <2>6 DEF Starting, Ended, Left
<1> QED  BY <1>1, NodeInvAlways, PTL

\* How far a lifecycle is on that way.
Way(a, u) ==
    CASE a = "boot" -> 0
      [] a = "track" -> 1
      [] a \in {"up", "hidden", "warm"} -> 2
      [] a = "closing" -> 3
      [] u = "delay" -> 4
      [] u = "recycle" -> 5
      [] u = "cleanup" -> 6
      [] u = "notify" -> 7
      [] OTHER -> 8

\* A step of the way back is never undone: a VM that is off stays off, and no
\* step of any goroutine, request or of the shutdown sends its slot back to
\* where it was.
NeverBack ==
    [][\A l \in Lifecycles : vm[l] = "off" => vm'[l] = "off" /\ Way(at[l], use[l]) <= Way(at'[l], use'[l])]_vars

\* A slot on its way back only goes forward.
THEOREM StoppedNeverGoesBack == Spec => NeverBack
<1>1. NodeInv /\ [Next]_vars =>
        \A l \in Lifecycles : vm[l] = "off" => vm'[l] = "off" /\ Way(at[l], use[l]) <= Way(at'[l], use'[l])
  <2> SUFFICES ASSUME NodeInv, [Next]_vars, NEW k \in Lifecycles, vm[k] = "off"
               PROVE  vm'[k] = "off" /\ Way(at[k], use[k]) <= Way(at'[k], use'[k])
    OBVIOUS
  <2>t. /\ use \in [Lifecycles -> {"idle", "held", "refused", "panic", "returned"} \cup Getting \cup Returning]
        /\ at \in [Lifecycles -> {"unused", "up", "hidden", "warm", "closing", "closed"} \cup Starting \cup Ended]
        /\ vm \in [Lifecycles -> {"none", "on", "off"}]
    BY DEF NodeInv, NodeTypes, PoolInv, PoolTypeOK
  <2>k. /\ at[k] \in Booted \cup {"closing"} => use[k] = "held"
        /\ at[k] \in Left => use[k] \in GivenBack
        /\ at[k] \in Booted \cup {"closing"} \cup Left
    <3>1. at[k] \notin {"unused", "slot", "failed"}
      BY DEF NodeInv, LifecycleInv
    <3> QED  BY <3>1, <2>t DEF NodeInv, LifecycleInv, Booted, Left, Starting, Ended
  <2> USE <2>t, <2>k DEF Booted, Left, GivenBack, Getting, Returning, Goes, UseGoes, Stopped, Way
  <2>1. ASSUME NEW l \in Lifecycles, AddChecks(l) \/ AddAppends(l) \/ AddRuns(l) \/ StartFails(l)
        PROVE  vm'[k] = "off" /\ Way(at[k], use[k]) <= Way(at'[k], use'[k])
    BY <2>1 DEF AddChecks, AddAppends, AddRuns, StartFails, ReturnAsync, poolVars
  <2>2. ASSUME NEW l \in Lifecycles, AssignNetwork(l) \/ BootFails(l) \/ MarkRunning(l) \/ TrackLifecycle(l)
        PROVE  vm'[k] = "off" /\ Way(at[k], use[k]) <= Way(at'[k], use'[k])
    BY <2>2 DEF AssignNetwork, BootFails, MarkRunning, TrackLifecycle, poolVars
  <2>3. ASSUME NEW l \in Lifecycles, VMExits(l) \/ AsyncStop(l) \/ CloseSandbox(l)
        PROVE  vm'[k] = "off" /\ Way(at[k], use[k]) <= Way(at'[k], use'[k])
    BY <2>3 DEF VMExits, AsyncStop, CloseSandbox, ToClose, OtherFault, poolVars
  <2>4. ASSUME NEW l \in Lifecycles, CloseReturns(l) \/ MarkStopped(l)
        PROVE  vm'[k] = "off" /\ Way(at[k], use[k]) <= Way(at'[k], use'[k])
    BY <2>4 DEF CloseReturns, MarkStopped, ReturnAsync, poolVars
  <2>5. ASSUME NEW l \in Lifecycles, PoolGets(l) \/ ProcessPanics(l)
        PROVE  vm'[k] = "off" /\ Way(at[k], use[k]) <= Way(at'[k], use'[k])
    BY <2>5 DEF PoolGets, ProcessPanics, GetNil, GetStep, GetRefused, GetReused, GetWaits, GetNew,
       Configured, nodeVars
  <2>6. ASSUME NEW l \in Lifecycles, PoolReturns(l) \/ PoolAnnounces(l)
        PROVE  vm'[k] = "off" /\ Way(at[k], use[k]) <= Way(at'[k], use'[k])
    BY <2>6 DEF PoolReturns, PoolAnnounces, ReturnStep, DelayCut, ResetFails, Reuse, ReuseRefused, Cleanup,
       ReturnEnds, DelayPasses, Notify, nodeVars
  <2>7. ASSUME NEW l \in Lifecycles, Begin(l), UNCHANGED <<vm, added>>
        PROVE  vm'[k] = "off" /\ Way(at[k], use[k]) <= Way(at'[k], use'[k])
    BY <2>7 DEF Begin, Get
  <2>8. ASSUME NEW r \in Requests, LookUp(r) \/ Mark(r) \/ PauseEnds(r) \/ CheckpointFails(r)
               \/ CheckpointResumed(r) \/ CheckpointEnds(r) \/ DeleteStops(r)
        PROVE  vm'[k] = "off" /\ Way(at[k], use[k]) <= Way(at'[k], use'[k])
    BY <2>8 DEF LookUp, Mark, PauseEnds, CheckpointFails, CheckpointResumed, CheckpointEnds, DeleteStops,
       poolVars
  <2>9. CASE DrainStarts \/ ForceStop \/ Shutdown \/ PoolPopulates
    BY <2>9 DEF DrainStarts, ForceStop, Shutdown, DrainCounts, WaitLifecycles, GracefulStop, PhaseGoes,
       PoolCloses, Close, CloseDone, CloseMarks, CloseWaits, CloseDrainsNew, CloseDrainedNew,
       CloseDrainsReused, CloseEnds, PoolPopulates, Populate, MakerLooks, MakerCreates, MakerCreateFails,
       MakerPushes, MakerCleansUp, poolVars, nodeVars
  <2>10. CASE UNCHANGED vars
    BY <2>10 DEF vars, poolVars, nodeVars
  <2> QED
    BY <2>1, <2>2, <2>3, <2>4, <2>5, <2>6, <2>7, <2>8, <2>9, <2>10
    DEF Next, NodeStep, StartStep, EndStep, RequestStep, Create, Harvest, CheckpointResumes
<1> QED  BY <1>1, NodeInvAlways, PTL DEF Spec, NeverBack
=============================================================================
