-------------------------- MODULE SandboxLifecycle --------------------------
(***************************************************************************)
(* One sandbox ID across the cluster: the start of an execution by an API  *)
(* instance (packages/api/internal/orchestrator/create_instance.go,        *)
(* placement/placement.go), its record in the store, its route in the      *)
(* routing catalog (shared/pkg/sandbox-catalog/catalog_redis.go), its      *)
(* removal (delete_instance.go) and the reconciliation of what the nodes   *)
(* run with what is stored (nodemanager/sync.go, sandbox/store.go).        *)
(*                                                                         *)
(* Every Redis call and every call to a node is a step of its own.  What   *)
(* SandboxReservation and SandboxTransition show is taken for granted: one *)
(* start of the ID at a time, none while it is stored, one removal of a    *)
(* record.  Nodes know a sandbox by its ID only, and answer as SandboxNode *)
(* has it: a VM that finds another one of its ID live runs on, hidden.     *)
(***************************************************************************)
EXTENDS Integers, FiniteSets

CONSTANTS
    Nodes,
    Executions,     \* starts of the ID; each has its own execution ID
    AutoPause,      \* those that are paused, rather than killed, on timeout
    SlowStarts,     \* may a start take longer than orphanGracePeriod?
    EarlyRemovals,  \* may a removal overtake its start's write of the route?
    MaxFaults       \* bound: lost replies, failed calls, crashes

ASSUME LifecycleAssumption ==
    /\ AutoPause \subseteq Executions
    /\ SlowStarts \in BOOLEAN
    /\ EarlyRemovals \in BOOLEAN
    /\ MaxFaults \in Nat

VARIABLES
    start,      \* where the start of each execution is
    tried,      \* nodes that its placement excludes
    home,       \* the node its record names
    record,     \* the stored execution, if any
    state,      \* the state in the stored record
    route,      \* the execution the catalog names, if any
    vms,        \* the VMs of the ID on each node
    live,       \* the one each node lists and finds by the ID, if any
    young,      \* executions younger than orphanGracePeriod
    work,       \* where the removal, or the undoing, of each execution is
    sync,       \* where the Sync of each node is
    list,       \* what it was told by the node
    faults      \* faults so far

vars == <<start, tried, home, record, state, route, vms, live, young, work, sync, list, faults>>
storeVars == <<record, state, route>>
nodeVars  == <<vms, live>>
syncVars  == <<sync, list>>
startVars == <<start, tried, home, young>>

\* removeSandboxFromNode is called by RemoveSandbox and by a start whose
\* record could not be stored.
Tasks == {"remove", "undo"} \X Executions

Starting == {"place", "add"}

TypeOK ==
    /\ start \in [Executions -> Starting \cup {"idle", "route", "done", "unrouted", "failed"}]
    /\ tried \in [Executions -> SUBSET Nodes]
    /\ home \in [Executions -> SUBSET Nodes]
    /\ record \subseteq Executions /\ Cardinality(record) <= 1
    /\ state \in {"none", "running", "pausing", "killing"}
    /\ route \subseteq Executions /\ Cardinality(route) <= 1
    /\ vms \in [Nodes -> SUBSET Executions]
    /\ live \in [Nodes -> SUBSET Executions]
    /\ \A n \in Nodes : live[n] \subseteq vms[n] /\ Cardinality(live[n]) <= 1
    /\ young \subseteq Executions
    /\ work \in [Tasks -> {"none", "look", "found", "call", "drop", "done"}]
    /\ sync \in [Nodes -> {"idle", "listed", "kill"}]
    /\ list \in [Nodes -> SUBSET Executions]
    /\ faults \in 0..MaxFaults

Init ==
    /\ start = [e \in Executions |-> "idle"]
    /\ tried = [e \in Executions |-> {}]
    /\ home = [e \in Executions |-> {}]
    /\ record = {}
    /\ state = "none"
    /\ route = {}
    /\ vms = [n \in Nodes |-> {}]
    /\ live = [n \in Nodes |-> {}]
    /\ young = Executions
    /\ work = [t \in Tasks |-> "none"]
    /\ sync = [n \in Nodes |-> "idle"]
    /\ list = [n \in Nodes |-> {}]
    /\ faults = 0

-----------------------------------------------------------------------------
Fault == faults < MaxFaults /\ faults' = faults + 1

Starts(e, p) == start' = [start EXCEPT ![e] = p]
Works(t, p) == work' = [work EXCEPT ![t] = p]
Syncs(n, p) == sync' = [sync EXCEPT ![n] = p]

\* The node's Create is through: Map.MarkRunning.
Booted(n, e) ==
    /\ vms' = [vms EXCEPT ![n] = @ \cup {e}]
    /\ live' = [live EXCEPT ![n] = IF @ = {} THEN {e} ELSE @]

\* The node's Delete and Pause stop the VM that is live under the ID.
StoppedOn(n) ==
    /\ vms' = [vms EXCEPT ![n] = @ \ live[n]]
    /\ live' = [live EXCEPT ![n] = {}]

-----------------------------------------------------------------------------
\* CreateSandbox.

\* Reserve lets one start of the ID through, and none while it is stored;
\* Store.Remove releases the reservation of a start that is still going on.
Begin(e) ==
    /\ start[e] = "idle"
    /\ record = {}
    /\ \A f \in Executions :
        start[f] \in Starting \cup {"route"} => work[<<"remove", f>>] = "done"
    /\ Starts(e, "place")
    /\ UNCHANGED <<tried, home, young, storeVars, nodeVars, work, syncVars, faults>>

\* PlaceSandbox: the next attempt, on a node that has not failed yet.
Placed(e, n) ==
    /\ start[e] = "place"
    /\ n \notin tried[e]
    /\ Booted(n, e)
    /\ home' = [home EXCEPT ![e] = {n}]
    /\ Starts(e, "add")
    /\ UNCHANGED <<tried, young, storeVars, work, syncVars, faults>>

PlaceFails(e, n) ==
    /\ start[e] = "place"
    /\ n \notin tried[e]
    /\ tried' = [tried EXCEPT ![e] = @ \cup {n}]
    /\ UNCHANGED <<start, home, young, storeVars, nodeVars, work, syncVars, faults>>

\* The VM runs, but the attempt counts as failed: the next one starts the same
\* execution on another node.
ReplyLost(e, n) ==
    /\ start[e] = "place"
    /\ n \notin tried[e]
    /\ Fault
    /\ Booted(n, e)
    /\ tried' = [tried EXCEPT ![e] = @ \cup {n}]
    /\ UNCHANGED <<start, home, young, storeVars, work, syncVars>>

\* No node is left, or the request times out.
GivesUp(e) ==
    /\ start[e] = "place"
    /\ Starts(e, "failed")
    /\ UNCHANGED <<tried, home, young, storeVars, nodeVars, work, syncVars, faults>>

\* Store.Add: first the storage, then the routing table.
AddRecord(e) ==
    /\ start[e] = "add"
    /\ record' = {e}
    /\ state' = "running"
    /\ Starts(e, "route")
    /\ UNCHANGED <<tried, home, young, route, nodeVars, work, syncVars, faults>>

\* The storage fails, before or after the record is there: the request fails
\* and the VM is killed in the background.
AddFails(e) ==
    /\ start[e] = "add"
    /\ Fault
    /\ \/ record' = {e} /\ state' = "running"
       \/ UNCHANGED <<record, state>>
    /\ Starts(e, "failed")
    /\ Works(<<"undo", e>>, "look")
    /\ UNCHANGED <<tried, home, young, route, nodeVars, syncVars>>

\* StoreSandbox, whose error is logged.
AddRoute(e) ==
    /\ start[e] = "route"
    /\ \/ route' = {e} /\ Starts(e, "done") /\ UNCHANGED faults
       \/ Fault /\ Starts(e, "unrouted") /\ UNCHANGED route
    /\ UNCHANGED <<tried, home, young, record, state, nodeVars, work, syncVars>>

StartStep(e) == GivesUp(e) \/ AddRecord(e) \/ AddRoute(e)

\* The API instance dies: the reservation runs into its TTL.
StartDies(e) ==
    /\ start[e] \in Starting \cup {"route"}
    /\ Fault
    /\ Starts(e, IF start[e] = "route" THEN "unrouted" ELSE "failed")
    /\ UNCHANGED <<tried, home, young, storeVars, nodeVars, work, syncVars>>

-----------------------------------------------------------------------------
\* RemoveSandbox and removeSandboxFromNode.

\* AllowedTransitions between the states of a removal.
AllowedTransitions ==
    {<<"running", "pausing">>, <<"running", "killing">>, <<"pausing", "killing">>}

\* What the evictor asks for once the sandbox has expired; a client may ask for
\* either state.
EvictorTarget(e) == IF e \in AutoPause THEN "pausing" ELSE "killing"

\* StartRemoving.  A removal in progress is waited for; a pause that died can be
\* followed by a kill, a kill by no pause.
Remove(e, target) ==
    /\ e \in record
    /\ work[<<"remove", e>>] \in {"none", "done"}
    /\ <<state, target>> \in AllowedTransitions
    /\ start[e] = "route" => EarlyRemovals
    /\ state' = target
    /\ Works(<<"remove", e>>, "look")
    /\ UNCHANGED <<startVars, record, route, nodeVars, syncVars, faults>>

\* The node is not known any more: nothing is done but to drop the record.
AfterCall(t) == IF t[1] = "undo" THEN "done" ELSE "drop"

NodeMissing(t) ==
    /\ work[t] = "look"
    /\ Fault
    /\ Works(t, AfterCall(t))
    /\ UNCHANGED <<startVars, storeVars, nodeVars, syncVars>>

\* Mutant: a route of the ID is taken for the execution's own.
AnyRoute(e) == route # {}

\* DeleteSandbox reads the route and compares the execution ...
OwnRoute(e) == route = {e}

GetRoute(t) ==
    /\ work[t] = "look"
    /\ \/ Works(t, IF OwnRoute(t[2]) THEN "found" ELSE "call") /\ UNCHANGED faults
       \/ Fault /\ Works(t, "call")
    /\ UNCHANGED <<startVars, storeVars, nodeVars, syncVars>>

\* ... and deletes whatever is there by then.
DeleteRoute(t) ==
    /\ work[t] = "found"
    /\ \/ route' = {} /\ UNCHANGED faults
       \/ Fault /\ UNCHANGED route
    /\ Works(t, "call")
    /\ UNCHANGED <<startVars, record, state, nodeVars, syncVars>>

\* killSandboxOnNode or pauseSandbox.
CallNode(t) ==
    /\ work[t] = "call"
    /\ \A n \in home[t[2]] : StoppedOn(n)
    /\ Works(t, AfterCall(t))
    /\ UNCHANGED <<startVars, storeVars, syncVars, faults>>

\* The call fails without effect; RemoveSandbox goes on all the same.
CallFails(t) ==
    /\ work[t] = "call"
    /\ Fault
    /\ Works(t, AfterCall(t))
    /\ UNCHANGED <<startVars, storeVars, nodeVars, syncVars>>

\* The deferred Store.Remove, by ID.
DropRecord(t) ==
    /\ work[t] = "drop"
    /\ \/ record' = {} /\ state' = "none" /\ UNCHANGED faults
       \/ Fault /\ UNCHANGED <<record, state>>
    /\ Works(t, "done")
    /\ UNCHANGED <<startVars, route, nodeVars, syncVars>>

WorkStep(t) == GetRoute(t) \/ DeleteRoute(t) \/ CallNode(t) \/ DropRecord(t)

WorkDies(t) ==
    /\ work[t] \notin {"none", "done"}
    /\ Fault
    /\ Works(t, "done")
    /\ UNCHANGED <<startVars, storeVars, nodeVars, syncVars>>

\* A later removal that asks for the state which the record was left in, long
\* after the first one died, drops the record.  The node is not called.
DropStale(e, target) ==
    /\ e \in record
    /\ state = target
    /\ work[<<"remove", e>>] = "done"
    /\ record' = {}
    /\ state' = "none"
    /\ UNCHANGED <<startVars, route, nodeVars, work, syncVars, faults>>

-----------------------------------------------------------------------------
\* Node.Sync and Store.Reconcile.

\* The node lists what is live; GetSandboxes fails: nothing changes.
GetSandboxes(n) ==
    /\ sync[n] = "idle"
    /\ live[n] # {}
    /\ list' = [list EXCEPT ![n] = live[n]]
    /\ Syncs(n, "listed")
    /\ UNCHANGED <<startVars, storeVars, nodeVars, work, faults>>

\* Mutant: sandboxes of any age are candidates.
CandidatesOfAnyAge(n) == list[n]

Candidates(n) == list[n] \ young

\* Mutant: a sandbox is looked up on the node it was placed on only.
OrphansAtHome(n) == {e \in Candidates(n) : record = {} /\ n \in home[e]}

\* Storage.Reconcile: any record of the ID makes its VM no orphan.
Orphans(n) == IF record = {} THEN Candidates(n) ELSE {}

Reconcile(n) ==
    /\ sync[n] = "listed"
    /\ \/ Syncs(n, IF Orphans(n) = {} THEN "idle" ELSE "kill") /\ UNCHANGED faults
       \/ Fault /\ Syncs(n, "idle")
    /\ UNCHANGED <<startVars, storeVars, nodeVars, work, list>>

\* killOrphanSandbox: Delete by ID.
KillOrphan(n) ==
    /\ sync[n] = "kill"
    /\ StoppedOn(n)
    /\ Syncs(n, "idle")
    /\ UNCHANGED <<startVars, storeVars, work, list, faults>>

KillOrphanFails(n) ==
    /\ sync[n] = "kill"
    /\ Fault
    /\ Syncs(n, "idle")
    /\ UNCHANGED <<startVars, storeVars, nodeVars, work, list>>

SyncStep(n) == GetSandboxes(n) \/ Reconcile(n) \/ KillOrphan(n)

-----------------------------------------------------------------------------
\* orphanGracePeriod has passed since the VM's start.
GraceEnds(e) ==
    /\ e \in young
    /\ start[e] # "idle"
    /\ start[e] \in Starting => SlowStarts
    /\ young' = young \ {e}
    /\ UNCHANGED <<start, tried, home, storeVars, nodeVars, work, syncVars, faults>>

VMExits(n, e) ==
    /\ e \in vms[n]
    /\ Fault
    /\ vms' = [vms EXCEPT ![n] = @ \ {e}]
    /\ live' = [live EXCEPT ![n] = @ \ {e}]
    /\ UNCHANGED <<startVars, storeVars, work, syncVars>>

Next ==
    \/ \E e \in Executions :
        Begin(e) \/ StartStep(e) \/ AddFails(e) \/ StartDies(e) \/ GraceEnds(e)
    \/ \E e \in Executions, target \in {"pausing", "killing"} : Remove(e, target) \/ DropStale(e, target)
    \/ \E e \in Executions, n \in Nodes :
        Placed(e, n) \/ PlaceFails(e, n) \/ ReplyLost(e, n) \/ VMExits(n, e)
    \/ \E t \in Tasks : WorkStep(t) \/ NodeMissing(t) \/ CallFails(t) \/ WorkDies(t)
    \/ \E n \in Nodes : SyncStep(n) \/ KillOrphanFails(n)

Spec == Init /\ [][Next]_vars

\* Handlers end (their contexts have deadlines), nodes are synced every
\* cacheSyncTime, and a sandbox lives no longer than its MaxInstanceLength,
\* after which the evictor asks for its own target, and for no other: nothing makes
\* a client come back to a record that the evictor cannot move.
FairSpec ==
    /\ Spec
    /\ \A e \in Executions :
        /\ WF_vars(StartStep(e)) /\ WF_vars(GraceEnds(e))
        /\ WF_vars(Remove(e, EvictorTarget(e))) /\ WF_vars(DropStale(e, EvictorTarget(e)))
    /\ \A t \in Tasks : WF_vars(WorkStep(t))
    /\ \A n \in Nodes : WF_vars(SyncStep(n))

-----------------------------------------------------------------------------
\* Reconcile never kills a VM it was told of while that VM's execution is
\* stored or about to be: the grace period covers the time between the VM's
\* start and its record.  (A VM started under the ID after the node was listed
\* can be hit: the kill names the ID only.)
ReconcileSparesListed ==
    [][\A n \in Nodes : KillOrphan(n) =>
            \A e \in live[n] \cap list[n] : e \notin record /\ start[e] \notin Starting]_vars

\* The route of a running sandbox stays: no removal or undoing of an earlier
\* execution of the ID, whose catalog delete is a read and a later delete,
\* takes the route of the current one.
RouteKept ==
    \A e \in record : state = "running" /\ start[e] = "done" => route = {e}

\* A record that the evictor cannot move: an auto-pause sandbox whose kill died.
\* Its pause is refused, so the record stays until a client kills the sandbox
\* again (SandboxTransition has this as a finding).
Stranded ==
    \E e \in record :
        e \in AutoPause /\ state = "killing" /\ work[<<"remove", e>>] = "done"

\* Every VM a node lists is stopped in the end, whatever replies, kills and API
\* instances were lost, be its removal a kill or a pause: nothing runs for ever
\* unaccounted.  The one exception is an ID with a stranded record, which makes
\* Reconcile take the VM for a stored one.
ListedVMsStop ==
    \A n \in Nodes, e \in Executions : e \in live[n] ~> (e \notin live[n] \/ Stranded)
=============================================================================
