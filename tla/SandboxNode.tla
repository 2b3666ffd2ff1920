----------------------------- MODULE SandboxNode -----------------------------
(***************************************************************************)
(* One sandbox ID on an orchestrator: the service                          *)
(* (packages/orchestrator/pkg/server/sandboxes.go), the sandbox map        *)
(* (pkg/sandbox/map.go), start and clean-up of a sandbox (sandbox.go,      *)
(* cleanup.go), the graceful shutdown (factories/run.go), and the pool that *)
(* gives each sandbox its network slot.                                    *)
(*                                                                         *)
(* A lifecycle is one VM.  A create or a checkpoint starts a new one under *)
(* the same ID, while the one before may still be cleaned up; a pause may  *)
(* start a throwaway one, under an ID of its own and not registered, to    *)
(* record a prefetch trace.  Each call that takes a lock or sends on a     *)
(* channel is a step; handlers and background goroutines interleave.       *)
(***************************************************************************)
EXTENDS NetworkPool

CONSTANTS
    Requests,           \* Create, Delete, Pause and Checkpoint calls
    DuplicateStarts     \* may the API create the ID while it is on the node?

ASSUME NodeAssumption == DuplicateStarts \in BOOLEAN

VARIABLES
    at,         \* where the start, or the end, of each lifecycle is
    vm,         \* its VM
    added,      \* has its slot been handed to its Cleanup?
    ip,         \* the address its return announces
    live,       \* the map's live index: the lifecycle of the ID, if any
    lifecycles, \* the map's lifecycles index
    network,    \* the map's network index: IP to lifecycle
    throwaway,  \* lifecycles of prefetch harvests
    req,        \* where each request is
    old,        \* the lifecycle it looked up
    new,        \* the lifecycle it starts
    stops,      \* lifecycles that a stopSandboxAsync is to stop
    phase       \* of the shutdown

nodeVars == <<at, vm, added, ip, live, lifecycles, network, throwaway, req, old, new, stops, phase>>
vars == <<poolVars, nodeVars>>
mapVars == <<live, lifecycles, network>>
reqVars == <<req, old, new, stops>>

Starting == {"slot", "boot", "track"}
Ended    == {"failed", "gone"}

\* A request that has taken the sandbox off the live index to replace it.
Replacing == {"snapshot", "resume"}

TypeOK ==
    /\ PoolTypeOK
    /\ at \in [Lifecycles -> {"unused", "up", "hidden", "warm", "closing", "closed"} \cup Starting \cup Ended]
    /\ vm \in [Lifecycles -> {"none", "on", "off"}]
    /\ added \in [Lifecycles -> {"no", "checked", "yes", "late"}]
    /\ ip \in [Lifecycles -> SUBSET Slots]
    /\ live \subseteq Lifecycles /\ Cardinality(live) <= 1
    /\ lifecycles \subseteq Lifecycles
    /\ network \in [Slots -> SUBSET Lifecycles]
    /\ throwaway \subseteq Lifecycles
    /\ req \in [Requests -> {"idle", "kill", "stop", "pause", "checkpoint", "paused", "done"}
                             \cup Replacing \cup {"pausing", "upload"}]
    /\ old \in [Requests -> SUBSET Lifecycles]
    /\ new \in [Requests -> SUBSET Lifecycles]
    /\ stops \subseteq Lifecycles
    /\ phase \in {"serving", "draining", "waiting", "stopping", "closing"}

Init ==
    /\ PoolInit
    /\ at = [l \in Lifecycles |-> "unused"]
    /\ vm = [l \in Lifecycles |-> "none"]
    /\ added = [l \in Lifecycles |-> "no"]
    /\ ip = [l \in Lifecycles |-> {}]
    /\ live = {}
    /\ lifecycles = {}
    /\ network = [s \in Slots |-> {}]
    /\ throwaway = {}
    /\ req = [r \in Requests |-> "idle"]
    /\ old = [r \in Requests |-> {}]
    /\ new = [r \in Requests |-> {}]
    /\ stops = {}
    /\ phase = "serving"

-----------------------------------------------------------------------------
Goes(l, p) == at' = [at EXCEPT ![l] = p]
Answers(r, p) == req' = [req EXCEPT ![r] = p]

\* Mutant: whatever lifecycle of the ID is live is removed.
MarkStoppingByID(l) == {}

\* Map.MarkStopping: the ID is no longer live, if it is this lifecycle.
MarkStopping(l) == live \ {l}

\* Map.NetworkReleased: the entry of an IP is dropped, whosever it is.
NetworkReleased(ss) == [s \in Slots |-> IF s \in ss THEN {} ELSE network[s]]

\* The start of a lifecycle: ResumeSandbox asks for a slot in a promise.
Begin(l) ==
    /\ at[l] = "unused"
    /\ Goes(l, "slot")
    /\ Get(l)

-----------------------------------------------------------------------------
\* ResumeSandbox, up to MarkRunning.

\* The promise has its slot and adds the return to the Cleanup.  Add looks at
\* hasRun before it takes the lock.
AddChecks(l) ==
    /\ use[l] = "held"
    /\ added[l] = "no"
    /\ at[l] = "slot"
    /\ added' = [added EXCEPT ![l] = "checked"]
    /\ UNCHANGED <<poolVars, at, vm, ip, mapVars, throwaway, reqVars, phase>>

\* If the Cleanup has run in between, what is added is never run.
AddAppends(l) ==
    /\ added[l] = "checked"
    /\ added' = [added EXCEPT ![l] = IF at[l] = "failed" THEN "late" ELSE "yes"]
    /\ UNCHANGED <<poolVars, at, vm, ip, mapVars, throwaway, reqVars, phase>>

\* The Cleanup has run already: the slot is returned at once.
AddRuns(l) ==
    /\ use[l] = "held"
    /\ added[l] = "no"
    /\ at[l] = "failed"
    /\ ReturnAsync(l)
    /\ ip' = [ip EXCEPT ![l] = holds[l]]
    /\ added' = [added EXCEPT ![l] = "yes"]
    /\ UNCHANGED <<at, vm, mapVars, throwaway, reqVars, phase>>

\* Get failed, or the request's context ends while the promise goes on: the
\* Cleanup is run.
StartFails(l) ==
    /\ at[l] = "slot"
    /\ added[l] # "yes"
    /\ Goes(l, "failed")
    /\ UNCHANGED <<poolVars, vm, added, ip, mapVars, throwaway, reqVars, phase>>

\* AssignNetwork, and MarkStopping is added to the Cleanup; then the VM boots.
AssignNetwork(l) ==
    /\ at[l] = "slot"
    /\ added[l] = "yes"
    /\ network' = [s \in Slots |-> IF s \in holds[l] THEN {l} ELSE network[s]]
    /\ vm' = [vm EXCEPT ![l] = "on"]
    /\ Goes(l, "boot")
    /\ UNCHANGED <<poolVars, added, ip, live, lifecycles, throwaway, reqVars, phase>>

\* Another resource, the VM or envd fails: the Cleanup is run, Stop first.
BootFails(l) ==
    /\ at[l] = "boot" \/ (at[l] = "slot" /\ added[l] = "yes")
    /\ vm' = [vm EXCEPT ![l] = "off"]
    /\ live' = MarkStopping(l)
    /\ Goes(l, "closing")
    /\ UNCHANGED <<poolVars, added, ip, lifecycles, network, throwaway, reqVars, phase>>

\* smap.InsertIfAbsent
InsertIfAbsent(l) == IF live = {} THEN {l} ELSE live

\* envd answers: MarkRunning.  A lifecycle that finds another one live runs on,
\* hidden; a throwaway one is not registered.
MarkRunning(l) ==
    /\ at[l] = "boot"
    /\ vm[l] = "on"
    /\ IF l \in throwaway
       THEN UNCHANGED live /\ Goes(l, "warm")
       ELSE live' = InsertIfAbsent(l) /\ Goes(l, IF live = {} THEN "track" ELSE "hidden")
    /\ UNCHANGED <<poolVars, vm, added, ip, lifecycles, network, throwaway, reqVars, phase>>

TrackLifecycle(l) ==
    /\ at[l] = "track"
    /\ lifecycles' = lifecycles \cup {l}
    /\ Goes(l, "up")
    /\ UNCHANGED <<poolVars, vm, added, ip, live, network, throwaway, reqVars, phase>>

StartStep(l) ==
    \/ AddChecks(l) \/ AddAppends(l) \/ AddRuns(l) \/ AssignNetwork(l)
    \/ BootFails(l) \/ MarkRunning(l) \/ TrackLifecycle(l)

-----------------------------------------------------------------------------
\* The end of a lifecycle.

\* Sandbox.Stop, and the exit that the lifecycle's goroutine waits for.  Every
\* caller modelled here passes a context that cannot end, so doStop, whatever
\* else fails in it, returns only after Process.Exit: a process that survives
\* SIGKILL and the cgroup's kill is a Stop never taken, which no fairness forbids.
Stopped(ls) == [l \in Lifecycles |-> IF l \in ls THEN "off" ELSE vm[l]]

VMExits(l) ==
    /\ vm[l] = "on"
    /\ OtherFault
    /\ vm' = Stopped({l})
    /\ UNCHANGED <<at, added, ip, mapVars, throwaway, reqVars, phase>>

\* stopSandboxAsync
AsyncStop(l) ==
    /\ l \in stops
    /\ stops' = stops \ {l}
    /\ vm' = Stopped({l})
    /\ UNCHANGED <<poolVars, at, added, ip, mapVars, throwaway, req, old, new, phase>>

\* Mutant: only what the API can address is cleaned up.
ToCloseIfLive == {l \in live : at[l] = "up" /\ vm[l] = "off"}

\* Lifecycles that setupSandboxLifecycle, or the harvest, is to close.
ToClose == {l \in Lifecycles : at[l] = "warm" \/ (at[l] \in {"up", "hidden"} /\ vm[l] = "off")}

\* Close runs the Cleanup: Stop, MarkStopping and, last, the slot's return.
CloseSandbox(l) ==
    /\ l \in ToClose
    /\ vm' = Stopped({l})
    /\ live' = MarkStopping(l)
    /\ Goes(l, "closing")
    /\ UNCHANGED <<poolVars, added, ip, lifecycles, network, throwaway, reqVars, phase>>

CloseReturns(l) ==
    /\ at[l] = "closing"
    /\ ReturnAsync(l)
    /\ ip' = [ip EXCEPT ![l] = holds[l]]
    /\ Goes(l, "closed")
    /\ UNCHANGED <<vm, added, mapVars, throwaway, reqVars, phase>>

\* MarkStopped, once ReturnAsync is back: at once, unless the pool is closed.
MarkStopped(l) ==
    /\ at[l] = "closed"
    /\ l \in tracked \/ use[l] = "returned"
    /\ lifecycles' = lifecycles \ {l}
    /\ Goes(l, "gone")
    /\ UNCHANGED <<poolVars, vm, added, ip, live, network, throwaway, reqVars, phase>>

EndStep(l) == AsyncStop(l) \/ CloseSandbox(l) \/ CloseReturns(l) \/ MarkStopped(l)

-----------------------------------------------------------------------------
\* The steps of the pool, with the map's subscription to releases.

PoolGets(l) == GetStep(l) /\ UNCHANGED nodeVars

ProcessPanics(l) == GetNil(l) /\ UNCHANGED nodeVars

PoolReturns(l) == ReturnStep(l) /\ UNCHANGED nodeVars

PoolAnnounces(l) ==
    /\ DelayPasses(l) \/ Notify(l)
    /\ network' = IF told' = told THEN network ELSE NetworkReleased(ip[l])
    /\ UNCHANGED <<at, vm, added, ip, live, lifecycles, throwaway, reqVars, phase>>

PoolPopulates == Populate /\ UNCHANGED nodeVars

-----------------------------------------------------------------------------
\* The service.

Serving == phase \in {"serving", "draining", "waiting"}

\* Is some Create or Checkpoint in the middle of ResumeSandbox?
Resuming == \E l \in Lifecycles \ throwaway : at[l] \in Starting

\* The API starts, pauses and checkpoints an ID one at a time.
Alone == ~Resuming /\ \A r \in Requests : req[r] \in {"idle", "done", "paused", "kill", "stop"}

\* Create: the handler is in ResumeSandbox as long as the lifecycle is starting,
\* and then sets up the goroutine that closes it.
Create(l) ==
    /\ Serving
    /\ DuplicateStarts \/ (Alone /\ live = {})
    /\ Begin(l)
    /\ UNCHANGED <<vm, added, ip, mapVars, throwaway, reqVars, phase>>

\* Delete, Pause and Checkpoint look the sandbox up; NotFound changes nothing.
LookUp(r) ==
    /\ Serving
    /\ req[r] = "idle"
    /\ live # {}
    /\ \/ Answers(r, "kill")
       \/ Alone /\ (Answers(r, "pause") \/ Answers(r, "checkpoint"))
    /\ old' = [old EXCEPT ![r] = live]
    /\ UNCHANGED <<poolVars, at, vm, added, ip, mapVars, throwaway, new, stops, phase>>

AfterMark(r) ==
    CASE req[r] = "kill" -> "stop" [] req[r] = "pause" -> "pausing" [] req[r] = "checkpoint" -> "snapshot"

\* MarkStopping, or an Internal error if the lifecycle is no longer live.
Mark(r) ==
    /\ req[r] \in {"kill", "pause", "checkpoint"}
    /\ \E l \in old[r] :
        /\ live' = MarkStopping(l)
        /\ Answers(r, IF live' = live THEN "done" ELSE AfterMark(r))
    /\ UNCHANGED <<poolVars, at, vm, added, ip, lifecycles, network, throwaway, old, new, stops, phase>>

\* Delete stops the VM; whether the receipt can be stored decides the answer.
DeleteStops(r) ==
    /\ req[r] = "stop"
    /\ vm' = Stopped(old[r])
    /\ Answers(r, "done")
    /\ UNCHANGED <<poolVars, at, added, ip, mapVars, throwaway, old, new, stops, phase>>

\* The snapshot of a pause succeeds or fails; the VM is stopped either way.
PauseEnds(r) ==
    /\ req[r] = "pausing"
    /\ stops' = stops \cup old[r]
    /\ Answers(r, "paused") \/ Answers(r, "done")
    /\ UNCHANGED <<poolVars, at, vm, added, ip, mapVars, throwaway, old, new, phase>>

\* harvestResumePrefetchAsync, after a pause, waited for by nobody.
Harvest(r, l) ==
    /\ req[r] = "paused"
    /\ Begin(l)
    /\ throwaway' = throwaway \cup {l}
    /\ Answers(r, "done")
    /\ UNCHANGED <<vm, added, ip, mapVars, old, new, stops, phase>>

\* Mutant: the old VM is stopped as soon as its snapshot is there.
StoppedAfterSnapshot(r) == old[r]

\* What a checkpoint stops before it resumes from its snapshot.
StoppedFirst(r) == {}

CheckpointResumes(r, l) ==
    /\ req[r] = "snapshot"
    /\ Begin(l)
    /\ new' = [new EXCEPT ![r] = {l}]
    /\ stops' = stops \cup StoppedFirst(r)
    /\ Answers(r, "resume")
    /\ UNCHANGED <<vm, added, ip, mapVars, throwaway, old, phase>>

\* The snapshot, its template or the resume fails.
CheckpointFails(r) ==
    /\ \/ req[r] = "snapshot"
       \/ req[r] = "resume" /\ \E l \in new[r] : at[l] \in {"failed", "closing", "closed", "gone"}
    /\ stops' = stops \cup old[r]
    /\ Answers(r, "done")
    /\ UNCHANGED <<poolVars, at, vm, added, ip, mapVars, throwaway, old, new, phase>>

CheckpointResumed(r) ==
    /\ req[r] = "resume"
    /\ \E l \in new[r] : at[l] \in {"up", "hidden"}
    /\ Answers(r, "upload")
    /\ UNCHANGED <<poolVars, at, vm, added, ip, mapVars, throwaway, old, new, stops, phase>>

\* The upload, waited for or not; if it fails the new VM is stopped as well.
CheckpointEnds(r) ==
    /\ req[r] = "upload"
    /\ \/ stops' = stops \cup old[r] /\ UNCHANGED live
       \/ \E l \in new[r] : stops' = stops \cup old[r] \cup {l} /\ live' = MarkStopping(l)
    /\ Answers(r, "done")
    /\ UNCHANGED <<poolVars, at, vm, added, ip, lifecycles, network, throwaway, old, new, phase>>

RequestStep(r) ==
    \/ Mark(r) \/ DeleteStops(r) \/ PauseEnds(r)
    \/ (\E l \in Lifecycles : CheckpointResumes(r, l))
    \/ CheckpointFails(r) \/ CheckpointResumed(r) \/ CheckpointEnds(r)

-----------------------------------------------------------------------------
\* The shutdown: DrainSandboxes, which still admits requests, unless it is
\* forced; then GracefulStop of the gRPC server, then the pool's Close.

PhaseGoes(p) == phase' = p /\ UNCHANGED <<poolVars, at, vm, added, ip, mapVars, throwaway, reqVars>>

DrainStarts == phase = "serving" /\ PhaseGoes("draining")
ForceStop == phase = "serving" /\ PhaseGoes("stopping")
DrainCounts == phase = "draining" /\ live = {} /\ PhaseGoes("waiting")
WaitLifecycles == phase = "waiting" /\ lifecycles = {} /\ PhaseGoes("stopping")
GracefulStop ==
    /\ phase = "stopping"
    /\ ~Resuming
    /\ \A r \in Requests : req[r] \in {"idle", "paused", "done"}
    /\ PhaseGoes("closing")
PoolCloses == phase = "closing" /\ Close /\ UNCHANGED nodeVars

Shutdown == DrainCounts \/ WaitLifecycles \/ GracefulStop \/ PoolCloses

-----------------------------------------------------------------------------
\* Steps that goroutines take without waiting for a client.
NodeStep(l) ==
    \/ StartStep(l) \/ EndStep(l) \/ PoolGets(l) \/ PoolReturns(l) \/ PoolAnnounces(l)

Panicked == \E l \in Lifecycles : use[l] = "panic"

Next ==
    /\ ~Panicked
    /\ \/ \E l \in Lifecycles : Create(l) \/ NodeStep(l) \/ StartFails(l) \/ ProcessPanics(l) \/ VMExits(l)
       \/ \E r \in Requests : LookUp(r) \/ RequestStep(r)
       \/ \E r \in Requests, l \in Lifecycles : Harvest(r, l)
       \/ PoolPopulates \/ Shutdown \/ DrainStarts \/ ForceStop

Spec == Init /\ [][Next]_vars

-----------------------------------------------------------------------------
\* Traffic of a VM is attributed to that VM: while it is on, GetByHostPort of
\* its IP finds its lifecycle, never none and never an earlier or later user of
\* the slot.  (While the pool shuts down an announcement may come late.)
NetworkOwner ==
    \A l \in Lifecycles :
        vm[l] = "on" /\ ~done => \A s \in holds[l] : network[s] = {l}

\* A lifecycle that a request has taken off the live index to stop it.
BeingStopped(l) ==
    \/ vm[l] = "off"
    \/ l \in stops
    \/ \E r \in Requests : l \in old[r] /\ req[r] \in Replacing \cup {"stop", "pausing", "upload"}

\* A registered VM that nobody is stopping can be addressed: the clean-up of
\* an earlier lifecycle of the ID never takes it off the live index, which is
\* why a checkpoint keeps the ID but not the lifecycle.
RunningIsAddressable ==
    \A l \in Lifecycles : at[l] = "up" /\ ~BeingStopped(l) => live = {l}

\* DrainSandboxes never completes in the middle of a checkpoint, although the
\* ID is not live then: the lifecycle of the old VM stays until the new one is
\* registered.  (Unless the old VM dies by itself.)
DrainWaitsForCheckpoint ==
    [][WaitLifecycles /\ faults = 0 => \A r \in Requests : req[r] \notin Replacing]_vars

\* Once the pool is closed, a slot that is not back in the storage is one whose
\* Release failed, one a lifecycle still has and will return, or one whose
\* return was added to a Cleanup while that was being run.
NothingLeaks ==
    closer = "end" =>
        \A s \in Slots \ (free \cup lost) :
            \E l \in Lifecycles :
                /\ s \in holds[l]
                /\ \/ use[l] \in Getting \cup Returning
                   \/ at[l] \notin Ended
                   \/ added[l] # "yes"

\* The slot of a VM that has stopped, however it was stopped and wherever its
\* start was, is back or on its way: some goroutine of it can go on.
NoStrandedSlot ==
    \A l \in Lifecycles :
        vm[l] = "off" /\ use[l] # "returned" => ENABLED NodeStep(l)
=============================================================================
