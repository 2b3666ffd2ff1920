-------------------------- MODULE LifecycleProofs --------------------------
(***************************************************************************)
(* The routing catalog names the running execution of a sandbox ID, and    *)
(* reconciliation spares it, for any number of executions, nodes and       *)
(* faults.                                                                 *)
(***************************************************************************)
EXTENDS SandboxLifecycle, FiniteSetTheorems, TLAPS

\* The part of the type invariant that the proof needs.
PhaseTypes ==
    /\ start \in [Executions -> Starting \cup {"idle", "route", "done", "unrouted", "failed"}]
    /\ work \in [Tasks -> {"none", "look", "found", "call", "drop", "done"}]
    /\ record \subseteq Executions /\ \A e, f \in record : e = f

Active == {"look", "found", "call", "drop"}

\* One start at a time: what the reservation grants.
StartsAlone ==
    \A e, f \in Executions :
        start[e] \in Starting \cup {"route"} /\ start[f] \in Starting \cup {"route"} => e = f

\* The ID is stored by the start at work only, and not twice.
StoredOnce ==
    \A e \in Executions :
        /\ start[e] \in Starting => record = {}
        /\ start[e] = "route" => record = {e} /\ state = "running"
        /\ start[e] = "idle" => e \notin record

\* Nothing is removed or undone before its start is over.
NothingToUndo ==
    \A e \in Executions :
        start[e] \in Starting \cup {"idle", "route"} =>
            work[<<"remove", e>>] = "none" /\ work[<<"undo", e>>] = "none"

\* A removal at work holds the record; what is undone was never routed, so only
\* a removal ever deletes a route.
RemovalOwnsRecord ==
    \A e \in Executions :
        /\ work[<<"remove", e>>] \in Active => record = {e} /\ state # "running"
        /\ work[<<"undo", e>>] # "none" => start[e] = "failed"
        /\ work[<<"undo", e>>] \notin {"found", "drop"}
        /\ e \in route => start[e] = "done"

RouteInv == PhaseTypes /\ StartsAlone /\ StoredOnce /\ NothingToUndo /\ RemovalOwnsRecord /\ RouteKept

\* The steps of a start keep the invariant.
LEMMA StartKeepsRoute ==
    ASSUME RouteInv, ~EarlyRemovals, NEW e \in Executions,
           \/ Begin(e) \/ StartStep(e) \/ AddFails(e) \/ StartDies(e)
           \/ \E n \in Nodes :
                Placed(e, n) \/ PlaceFails(e, n) \/ ReplyLost(e, n) \/ VMExits(n, e)
    PROVE  RouteInv'
<1>t. \A f \in Executions : <<"remove", f>> \in Tasks /\ <<"undo", f>> \in Tasks
  BY DEF Tasks
<1> USE DEF RouteInv, Starting, Active, Starts, storeVars, startVars
<1>1. CASE Begin(e)
  <2>1. /\ UNCHANGED <<record, state, route, work>>
        /\ record = {}
        /\ start[e] = "idle"
        /\ start' = [start EXCEPT ![e] = "place"]
    BY <1>1 DEF Begin
  <2>2. \A f \in Executions : start[f] \notin Starting \cup {"route"}
    BY <1>1 DEF Begin, StartsAlone, StoredOnce, NothingToUndo
  <2>3. PhaseTypes' /\ RouteKept'
    BY <2>1 DEF PhaseTypes, RouteKept
  <2>4. StartsAlone' /\ StoredOnce' /\ NothingToUndo'
    BY <2>1, <2>2 DEF PhaseTypes, StartsAlone, StoredOnce, NothingToUndo
  <2>5. RemovalOwnsRecord'
    BY <2>1 DEF PhaseTypes, StartsAlone, StoredOnce, NothingToUndo, RemovalOwnsRecord
  <2> QED  BY <2>3, <2>4, <2>5
<1>2. ASSUME NEW n \in Nodes,
             Placed(e, n) \/ PlaceFails(e, n) \/ ReplyLost(e, n) \/ VMExits(n, e)
      PROVE  RouteInv'
  <2>1. UNCHANGED <<record, state, route, work>>
    BY <1>2 DEF Placed, PlaceFails, ReplyLost, VMExits
  <2>2. \/ UNCHANGED start
        \/ start[e] = "place" /\ start' = [start EXCEPT ![e] = "add"]
    BY <1>2 DEF Placed, PlaceFails, ReplyLost, VMExits
  <2>3. CASE UNCHANGED start
    BY <2>1, <2>3 DEF PhaseTypes, StartsAlone, StoredOnce, NothingToUndo, RemovalOwnsRecord, RouteKept
  <2>4. CASE start[e] = "place" /\ start' = [start EXCEPT ![e] = "add"]
    <3>1. PhaseTypes' /\ RouteKept'
      BY <2>1, <2>4 DEF PhaseTypes, RouteKept, StartsAlone, StoredOnce, NothingToUndo
    <3>2. StartsAlone' /\ StoredOnce' /\ NothingToUndo'
      BY <2>1, <2>4 DEF PhaseTypes, StartsAlone, StoredOnce, NothingToUndo
    <3>3. RemovalOwnsRecord'
      BY <2>1, <2>4 DEF PhaseTypes, StartsAlone, StoredOnce, NothingToUndo, RemovalOwnsRecord
    <3> QED  BY <3>1, <3>2, <3>3
  <2> QED  BY <2>2, <2>3, <2>4
<1>3. CASE GivesUp(e) \/ StartDies(e)
  <2>1. /\ UNCHANGED <<record, state, route, work>>
        /\ start[e] \in Starting \cup {"route"}
        /\ \E p \in {"failed", "unrouted"} : start' = [start EXCEPT ![e] = p]
    BY <1>3 DEF GivesUp, StartDies
  <2>2. PhaseTypes' /\ RouteKept'
    BY <2>1 DEF PhaseTypes, RouteKept
  <2>3. StartsAlone' /\ StoredOnce' /\ NothingToUndo'
    BY <2>1 DEF PhaseTypes, StartsAlone, StoredOnce, NothingToUndo
  <2>4. RemovalOwnsRecord'
    BY <2>1 DEF PhaseTypes, StartsAlone, StoredOnce, NothingToUndo, RemovalOwnsRecord
  <2> QED  BY <2>2, <2>3, <2>4
<1>4. CASE AddRecord(e)
  <2>1. PhaseTypes' /\ RouteKept'
    BY <1>4 DEF AddRecord, PhaseTypes, RouteKept
  <2>2. \A f \in Executions : start[f] \in Starting \cup {"route"} => f = e
    BY <1>4 DEF AddRecord, StartsAlone, StoredOnce, NothingToUndo
  <2>3. StartsAlone' /\ StoredOnce' /\ NothingToUndo'
    BY <1>4, <2>2 DEF AddRecord, PhaseTypes, StartsAlone, StoredOnce, NothingToUndo
  <2>4. RemovalOwnsRecord'
    BY <1>4 DEF AddRecord, PhaseTypes, StartsAlone, StoredOnce, NothingToUndo, RemovalOwnsRecord
  <2> QED  BY <2>1, <2>3, <2>4
<1>5. CASE AddFails(e)
  <2>1. /\ UNCHANGED route
        /\ record = {}
        /\ record' = {e} \/ record' = {}
        /\ start[e] = "add"
        /\ start' = [start EXCEPT ![e] = "failed"]
        /\ work' = [work EXCEPT ![<<"undo", e>>] = "look"]
    BY <1>5 DEF AddFails, Works, StartsAlone, StoredOnce, NothingToUndo
  <2>2. \A f \in Executions : start'[f] \notin Starting \cup {"route"}
    BY <1>5, <2>1 DEF StartsAlone, StoredOnce, NothingToUndo, PhaseTypes
  <2>3. \A f \in Executions : work[<<"remove", f>>] \notin Active
    BY <2>1 DEF RemovalOwnsRecord
  <2>4. PhaseTypes'
    BY <2>1, <1>t DEF PhaseTypes
  <2>5. RouteKept'
    BY <2>1 DEF PhaseTypes, RouteKept
  <2>6. StartsAlone' /\ StoredOnce' /\ NothingToUndo'
    BY <2>1, <2>2, <1>t DEF PhaseTypes, StartsAlone, StoredOnce, NothingToUndo
  <2>7. RemovalOwnsRecord'
    BY <2>1, <2>3, <1>t DEF PhaseTypes, RemovalOwnsRecord
  <2> QED  BY <2>4, <2>5, <2>6, <2>7
<1>6. CASE AddRoute(e)
  <2>1. /\ UNCHANGED <<record, state, work>>
        /\ record = {e}
        /\ start[e] = "route"
        /\ \/ route' = {e} /\ start' = [start EXCEPT ![e] = "done"]
           \/ UNCHANGED route /\ start' = [start EXCEPT ![e] = "unrouted"]
    BY <1>6 DEF AddRoute, StartsAlone, StoredOnce, NothingToUndo
  <2>2. PhaseTypes'
    BY <2>1 DEF PhaseTypes
  <2>3. RouteKept'
    BY <2>1 DEF PhaseTypes, RouteKept
  <2>4. \A f \in Executions : start'[f] \notin Starting \cup {"route"}
    <3>1. \A f \in Executions : start[f] \notin Starting
      BY <2>1 DEF StartsAlone, StoredOnce, NothingToUndo
    <3>2. \A f \in Executions : start[f] = "route" => f = e
      BY <2>1 DEF StartsAlone, StoredOnce, NothingToUndo
    <3> QED  BY <2>1, <3>1, <3>2 DEF PhaseTypes
  <2>5. StartsAlone' /\ StoredOnce' /\ NothingToUndo'
    BY <2>1, <2>4 DEF PhaseTypes, StartsAlone, StoredOnce, NothingToUndo
  <2>6. ASSUME NEW f \in Executions, f \in route' PROVE start'[f] = "done"
    <3>1. CASE f = e
      <4>1. e \notin route
        BY <2>1 DEF RemovalOwnsRecord
      <4> QED  BY <2>1, <2>6, <3>1, <4>1 DEF PhaseTypes
    <3>2. CASE f # e
      <4>1. f \in route /\ start'[f] = start[f]
        BY <2>1, <2>6, <3>2 DEF PhaseTypes
      <4> QED  BY <4>1 DEF RemovalOwnsRecord
    <3> QED  BY <3>1, <3>2
  <2>7. \A f \in Executions : f # e => start'[f] = start[f]
    BY <2>1 DEF PhaseTypes
  <2>8. work[<<"remove", e>>] = "none" /\ work[<<"undo", e>>] = "none"
    BY <2>1 DEF NothingToUndo
  <2>9. RemovalOwnsRecord'
    BY <2>1, <2>6, <2>7, <2>8 DEF RemovalOwnsRecord
  <2> QED  BY <2>2, <2>3, <2>5, <2>9
<1> QED  BY <1>1, <1>2, <1>3, <1>4, <1>5, <1>6 DEF StartStep

\* So do the steps of a removal, or of the undoing of a start.
LEMMA RemovalKeepsRoute ==
    ASSUME RouteInv, ~EarlyRemovals, NEW t \in Tasks,
           WorkStep(t) \/ NodeMissing(t) \/ CallFails(t) \/ WorkDies(t)
    PROVE  RouteInv'
<1>t. PICK k \in {"remove", "undo"}, e \in Executions : t = <<k, e>>
  BY DEF Tasks
<1>u. \A f \in Executions : <<"remove", f>> \in Tasks /\ <<"undo", f>> \in Tasks
  BY DEF Tasks
<1> USE <1>t, <1>u DEF RouteInv, PhaseTypes, StartsAlone, StoredOnce, NothingToUndo, RemovalOwnsRecord, RouteKept, Starting, Active,
            Works, AfterCall, OwnRoute, storeVars, startVars
<1>1. CASE GetRoute(t)
  BY <1>1 DEF GetRoute
<1>2. CASE DeleteRoute(t)
  <2>1. /\ UNCHANGED <<start, record, state>>
        /\ route' \subseteq route
        /\ work[t] = "found"
        /\ work' = [work EXCEPT ![t] = "call"]
    BY <1>2 DEF DeleteRoute
  <2>2. k = "remove" /\ record = {e} /\ state # "running"
    BY <2>1 DEF RemovalOwnsRecord
  <2>3. PhaseTypes' /\ RouteKept'
    BY <2>1, <2>2 DEF PhaseTypes, RouteKept
  <2>4. StartsAlone' /\ StoredOnce' /\ NothingToUndo'
    BY <2>1, <2>2 DEF PhaseTypes, StartsAlone, StoredOnce, NothingToUndo
  <2>5. RemovalOwnsRecord'
    BY <2>1, <2>2 DEF PhaseTypes, RemovalOwnsRecord
  <2> QED  BY <2>3, <2>4, <2>5
<1>3. CASE CallNode(t)
  BY <1>3 DEF CallNode
<1>4. CASE NodeMissing(t) \/ CallFails(t) \/ WorkDies(t)
  BY <1>4 DEF NodeMissing, CallFails, WorkDies
<1>5. CASE DropRecord(t)
  <2>1. /\ UNCHANGED <<start, route>>
        /\ record' = {} \/ UNCHANGED <<record, state>>
        /\ work[t] = "drop"
        /\ work' = [work EXCEPT ![t] = "done"]
    BY <1>5 DEF DropRecord
  <2>2. k = "remove" /\ record = {e} /\ state # "running"
    BY <2>1 DEF RemovalOwnsRecord
  <2>3. \A f \in Executions : start[f] \notin Starting \cup {"route"}
    BY <2>2 DEF StartsAlone, StoredOnce, NothingToUndo
  <2>4. \A f \in Executions : work'[<<"remove", f>>] \notin Active
    BY <2>1, <2>2 DEF PhaseTypes, RemovalOwnsRecord
  <2>5. PhaseTypes' /\ RouteKept'
    BY <2>1 DEF PhaseTypes, RouteKept
  <2>6. StartsAlone' /\ StoredOnce' /\ NothingToUndo'
    BY <2>1, <2>2, <2>3 DEF PhaseTypes, StartsAlone, StoredOnce, NothingToUndo
  <2>7. RemovalOwnsRecord'
    BY <2>1, <2>2, <2>4 DEF PhaseTypes, RemovalOwnsRecord
  <2> QED  BY <2>5, <2>6, <2>7
<1> QED  BY <1>1, <1>2, <1>3, <1>4, <1>5 DEF WorkStep

\* The route of a running sandbox is its own and stays, when no removal
\* overtakes the write of its start's route.
THEOREM RoutesStay == ASSUME ~EarlyRemovals PROVE Spec => []RouteKept
<1>1. Init => RouteInv
  BY DEF Init, RouteInv, PhaseTypes, StartsAlone, StoredOnce, NothingToUndo, RemovalOwnsRecord, RouteKept, Starting, Active, Tasks
<1>2. RouteInv /\ [Next]_vars => RouteInv'
  <2> SUFFICES ASSUME RouteInv, [Next]_vars PROVE RouteInv'
    OBVIOUS
  <2>1. ASSUME NEW e \in Executions,
               Begin(e) \/ StartStep(e) \/ AddFails(e) \/ StartDies(e)
        PROVE  RouteInv'
    BY <2>1, StartKeepsRoute
  <2>2. ASSUME NEW e \in Executions, NEW n \in Nodes,
               Placed(e, n) \/ PlaceFails(e, n) \/ ReplyLost(e, n) \/ VMExits(n, e)
        PROVE  RouteInv'
    BY <2>2, StartKeepsRoute
  <2>3. ASSUME NEW t \in Tasks, WorkStep(t) \/ NodeMissing(t) \/ CallFails(t) \/ WorkDies(t)
        PROVE  RouteInv'
    BY <2>3, RemovalKeepsRoute
  <2>4. ASSUME NEW e \in Executions, NEW target \in {"pausing", "killing"},
               Remove(e, target) \/ DropStale(e, target)
        PROVE  RouteInv'
    <3>1. \A f \in Executions : <<"remove", f>> \in Tasks /\ <<"undo", f>> \in Tasks
      BY DEF Tasks
    <3> USE <3>1 DEF RouteInv, PhaseTypes, StartsAlone, StoredOnce, NothingToUndo, RemovalOwnsRecord, RouteKept, Starting, Active,
                Works, startVars
    <3>2. CASE Remove(e, target)
      <4>1. /\ UNCHANGED <<start, record, route>>
            /\ start[e] # "route"
            /\ state' # "running"
            /\ work' = [work EXCEPT ![<<"remove", e>>] = "look"]
        BY <3>2 DEF Remove, AllowedTransitions
      <4>2. record = {e}
        BY <3>2 DEF Remove
      <4>3. \A f \in Executions : start[f] \notin Starting \cup {"route"}
        BY <4>1, <4>2
      <4>4. start[e] # "idle"
        BY <3>2 DEF Remove
      <4>5. PhaseTypes' /\ RouteKept'
        BY <4>1
      <4>6. StartsAlone' /\ StoredOnce' /\ NothingToUndo'
        BY <4>1, <4>3, <4>4
      <4>7. RemovalOwnsRecord'
        BY <4>1, <4>2
      <4> QED  BY <4>5, <4>6, <4>7
    <3>3. CASE DropStale(e, target)
      BY <3>3 DEF DropStale
    <3> QED  BY <2>4, <3>2, <3>3
  <2>5. CASE (\E e \in Executions : GraceEnds(e)) \/ (\E n \in Nodes : SyncStep(n) \/ KillOrphanFails(n))
          \/ UNCHANGED vars
    BY <2>5 DEF GraceEnds, SyncStep, GetSandboxes, Reconcile, KillOrphan, KillOrphanFails, vars, startVars, storeVars,
                RouteInv, PhaseTypes, StartsAlone, StoredOnce, NothingToUndo, RemovalOwnsRecord, RouteKept
  <2> QED  BY <2>1, <2>2, <2>3, <2>4, <2>5 DEF Next
<1>3. RouteInv => RouteKept
  BY DEF RouteInv
<1> QED  BY <1>1, <1>2, <1>3, PTL DEF Spec

-----------------------------------------------------------------------------
\* Reconciliation.

\* A node lists at most one VM of the ID.
OneListed ==
    /\ start \in [Executions -> Starting \cup {"idle", "route", "done", "unrouted", "failed"}]
    /\ sync \in [Nodes -> {"idle", "listed", "kill"}]
    /\ list \in [Nodes -> SUBSET Executions]
    /\ live \in [Nodes -> SUBSET Executions]
    /\ \A n \in Nodes : \A e, f \in live[n] : e = f
    /\ \A n \in Nodes : \A e, f \in list[n] : e = f

\* The grace period covers the time until the record is stored.
YoungUntilStored ==
    \A e \in Executions : start[e] \in Starting \cup {"idle"} => e \in young

\* What Reconcile has found to be an orphan stays one: its start is over, so
\* nothing stores it any more.
OrphansStayOrphans ==
    \A n \in Nodes : sync[n] = "kill" => list[n] \cap (young \cup record) = {}

GraceInv == OneListed /\ YoungUntilStored /\ OrphansStayOrphans

\* A step that neither syncs nor ends a grace period.
LEMMA StartKeepsGrace ==
    ASSUME GraceInv, NEW e \in Executions, UNCHANGED <<sync, list, young>>,
           \/ UNCHANGED start
           \/ \E p \in {"add", "route", "done", "unrouted", "failed"} :
                start[e] # "idle" /\ (p = "add" => start[e] = "place") /\ start' = [start EXCEPT ![e] = p]
           \/ start[e] = "idle" /\ start' = [start EXCEPT ![e] = "place"],
           record' \subseteq record \/ (record' = {e} /\ start[e] = "add"),
           \/ UNCHANGED live
           \/ \E n \in Nodes : \/ live' = [live EXCEPT ![n] = IF @ = {} THEN {e} ELSE @]
                               \/ live' = [live EXCEPT ![n] = {}]
                               \/ live' = [live EXCEPT ![n] = @ \ {e}]
    PROVE  GraceInv'
<1> USE DEF GraceInv, Starting
<1>1. OneListed'
  BY DEF OneListed
<1>2. YoungUntilStored'
  BY DEF OneListed, YoungUntilStored
<1>3. OrphansStayOrphans'
  BY DEF OneListed, YoungUntilStored, OrphansStayOrphans
<1> QED  BY <1>1, <1>2, <1>3

\* The node of an execution is known before its record or its removal is.
HomeKnown ==
    /\ home \in [Executions -> SUBSET Nodes]
    /\ start \in [Executions -> Starting \cup {"idle", "route", "done", "unrouted", "failed"}]
    /\ work \in [Tasks -> {"none", "look", "found", "call", "drop", "done"}]
    /\ record \subseteq Executions
    /\ \A e \in Executions :
        \/ start[e] = "add"
        \/ e \in record
        \/ work[<<"remove", e>>] # "none"
        \/ work[<<"undo", e>>] # "none"
        => \E n \in Nodes : home[e] = {n}

\* Every step keeps the node of an execution known.
LEMMA HomeStaysKnown == HomeKnown /\ [Next]_vars => HomeKnown'
<1> SUFFICES ASSUME HomeKnown, [Next]_vars PROVE HomeKnown'
  OBVIOUS
<1>t. /\ \A f \in Executions : <<"remove", f>> \in Tasks /\ <<"undo", f>> \in Tasks
      /\ \A t \in Tasks : t[2] \in Executions /\ (t = <<"remove", t[2]>> \/ t = <<"undo", t[2]>>)
  BY DEF Tasks
<1> USE DEF HomeKnown, Starting, Starts, Works, storeVars, startVars
<1>1. ASSUME NEW e \in Executions,
             Begin(e) \/ GivesUp(e) \/ AddRoute(e) \/ StartDies(e) \/ GraceEnds(e)
      PROVE  HomeKnown'
  <2>1. UNCHANGED <<home, record, work>>
    BY <1>1 DEF Begin, GivesUp, AddRoute, StartDies, GraceEnds
  <2>2. \/ UNCHANGED start
        \/ \E p \in {"place", "failed", "done", "unrouted"} : start' = [start EXCEPT ![e] = p]
    BY <1>1 DEF Begin, GivesUp, AddRoute, StartDies, GraceEnds
  <2> QED  BY <2>1, <2>2
<1>2. ASSUME NEW e \in Executions, AddRecord(e) \/ AddFails(e) PROVE HomeKnown'
  <2>1. CASE AddRecord(e)
    BY <2>1 DEF AddRecord
  <2>2. CASE AddFails(e)
    <3>1. /\ UNCHANGED home
          /\ start[e] = "add"
          /\ start' = [start EXCEPT ![e] = "failed"]
          /\ work' = [work EXCEPT ![<<"undo", e>>] = "look"]
          /\ record' = {e} \/ record' = record
      BY <2>2 DEF AddFails
    <3> QED  BY <1>t, <3>1
  <2> QED  BY <1>2, <2>1, <2>2
<1>3. ASSUME NEW e \in Executions, NEW target \in {"pausing", "killing"},
             Remove(e, target) \/ DropStale(e, target)
      PROVE  HomeKnown'
  BY <1>3, <1>t DEF Remove, DropStale
<1>4. ASSUME NEW e \in Executions, NEW n \in Nodes,
             Placed(e, n) \/ PlaceFails(e, n) \/ ReplyLost(e, n) \/ VMExits(n, e)
      PROVE  HomeKnown'
  BY <1>4 DEF Placed, PlaceFails, ReplyLost, VMExits
<1>5. ASSUME NEW t \in Tasks, WorkStep(t) \/ NodeMissing(t) \/ CallFails(t) \/ WorkDies(t)
      PROVE  HomeKnown'
  <2>1. UNCHANGED <<home, start>> /\ record' \subseteq record
    BY <1>5 DEF WorkStep, GetRoute, DeleteRoute, CallNode, DropRecord, NodeMissing, CallFails, WorkDies
  <2>2. work[t] # "none" /\ \E p \in {"found", "call", "drop", "done"} : work' = [work EXCEPT ![t] = p]
    BY <1>5 DEF WorkStep, GetRoute, DeleteRoute, CallNode, DropRecord, NodeMissing, CallFails, WorkDies, AfterCall
  <2> QED  BY <1>t, <2>1, <2>2
<1>6. CASE (\E n \in Nodes : SyncStep(n) \/ KillOrphanFails(n)) \/ UNCHANGED vars
  BY <1>6 DEF SyncStep, GetSandboxes, Reconcile, KillOrphan, KillOrphanFails, vars
<1> QED  BY <1>1, <1>2, <1>3, <1>4, <1>5, <1>6 DEF Next, StartStep

\* Reconcile never stops a VM it was told of whose execution is stored or being
\* started, when no start outlives the grace period.
THEOREM ListedAreSpared == ASSUME ~SlowStarts PROVE Spec => ReconcileSparesListed
<1>1. Init => GraceInv /\ HomeKnown
  BY DEF Init, GraceInv, OneListed, YoungUntilStored, OrphansStayOrphans, HomeKnown, Starting, Tasks
<1>2. GraceInv /\ HomeKnown /\ [Next]_vars => GraceInv' /\ HomeKnown'
  <2> SUFFICES ASSUME GraceInv, HomeKnown, [Next]_vars PROVE GraceInv'
    BY HomeStaysKnown
  <2> USE DEF Starts, Works, Syncs, storeVars, startVars, syncVars, nodeVars
  <2>1. ASSUME NEW e \in Executions,
               \/ Begin(e) \/ GivesUp(e) \/ AddRecord(e) \/ AddRoute(e) \/ AddFails(e) \/ StartDies(e)
               \/ \E target \in {"pausing", "killing"} : Remove(e, target) \/ DropStale(e, target)
        PROVE  GraceInv'
    <3>1. UNCHANGED <<sync, list, young, live>>
      BY <2>1 DEF Begin, GivesUp, AddRecord, AddRoute, AddFails, StartDies, Remove, DropStale
    <3>2. \/ UNCHANGED start
          \/ \E p \in {"route", "done", "unrouted", "failed"} :
                start[e] # "idle" /\ start' = [start EXCEPT ![e] = p]
          \/ start[e] = "idle" /\ start' = [start EXCEPT ![e] = "place"]
      BY <2>1 DEF Begin, GivesUp, AddRecord, AddRoute, AddFails, StartDies, Remove, DropStale, Starting
    <3>3. record' \subseteq record \/ (record' = {e} /\ start[e] = "add")
      BY <2>1 DEF Begin, GivesUp, AddRecord, AddRoute, AddFails, StartDies, Remove, DropStale
    <3> QED  BY <3>1, <3>2, <3>3, StartKeepsGrace
  <2>2. ASSUME NEW e \in Executions, NEW n \in Nodes,
               Placed(e, n) \/ PlaceFails(e, n) \/ ReplyLost(e, n) \/ VMExits(n, e)
        PROVE  GraceInv'
    <3>1. UNCHANGED <<sync, list, young, record>>
      BY <2>2 DEF Placed, PlaceFails, ReplyLost, VMExits
    <3>2. \/ UNCHANGED start
          \/ start[e] = "place" /\ start' = [start EXCEPT ![e] = "add"]
      BY <2>2 DEF Placed, PlaceFails, ReplyLost, VMExits
    <3>3. \/ UNCHANGED live
          \/ live' = [live EXCEPT ![n] = IF @ = {} THEN {e} ELSE @]
          \/ live' = [live EXCEPT ![n] = @ \ {e}]
      BY <2>2 DEF Placed, PlaceFails, ReplyLost, VMExits, Booted
    <3> QED  BY <3>1, <3>2, <3>3, StartKeepsGrace
  <2>3. ASSUME NEW t \in Tasks, WorkStep(t) \/ NodeMissing(t) \/ CallFails(t) \/ WorkDies(t)
        PROVE  GraceInv'
    <3>1. UNCHANGED <<sync, list, young, start>> /\ record' \subseteq record
      BY <2>3 DEF WorkStep, GetRoute, DeleteRoute, CallNode, DropRecord, NodeMissing, CallFails, WorkDies
    <3>2. t[2] \in Executions /\ (t = <<"remove", t[2]>> \/ t = <<"undo", t[2]>>)
      BY DEF Tasks
    <3>3. UNCHANGED live \/ \E n \in Nodes : live' = [live EXCEPT ![n] = {}]
      <4>1. CASE CallNode(t)
        <5>1. PICK n \in Nodes : home[t[2]] = {n}
          BY <4>1, <3>2 DEF CallNode, HomeKnown
        <5> QED  BY <4>1, <5>1 DEF CallNode, StoppedOn
      <4> QED  BY <2>3, <4>1 DEF WorkStep, GetRoute, DeleteRoute, DropRecord, NodeMissing, CallFails, WorkDies
    <3> QED  BY <3>1, <3>2, <3>3, StartKeepsGrace
  <2>4. ASSUME NEW e \in Executions, GraceEnds(e) PROVE GraceInv'
    BY <2>4 DEF GraceEnds, GraceInv, OneListed, YoungUntilStored, OrphansStayOrphans
  <2>5. ASSUME NEW n \in Nodes, SyncStep(n) \/ KillOrphanFails(n) PROVE GraceInv'
    <3>1. UNCHANGED <<start, record, young>>
      BY <2>5 DEF SyncStep, GetSandboxes, Reconcile, KillOrphan, KillOrphanFails
    <3>2. OneListed'
      BY <2>5, <3>1 DEF SyncStep, GetSandboxes, Reconcile, KillOrphan, KillOrphanFails, StoppedOn, GraceInv, OneListed
    <3>3. YoungUntilStored'
      BY <3>1 DEF GraceInv, YoungUntilStored
    <3>4. OrphansStayOrphans'
      <4>1. CASE Reconcile(n)
        <5>1. UNCHANGED list /\ \E p \in {"idle", "kill"} : sync' = [sync EXCEPT ![n] = p] /\ (p = "kill" => Orphans(n) # {})
          BY <4>1 DEF Reconcile
        <5>2. Orphans(n) # {} => list[n] \cap (young \cup record) = {}
          BY DEF Orphans, Candidates, GraceInv, OneListed
        <5> QED  BY <3>1, <5>1, <5>2 DEF GraceInv, OneListed, OrphansStayOrphans
      <4>2. CASE GetSandboxes(n) \/ KillOrphan(n) \/ KillOrphanFails(n)
        BY <4>2, <3>1 DEF GetSandboxes, KillOrphan, KillOrphanFails, GraceInv, OneListed, OrphansStayOrphans
      <4> QED  BY <2>5, <4>1, <4>2 DEF SyncStep
    <3> QED  BY <3>2, <3>3, <3>4 DEF GraceInv
  <2>6. CASE UNCHANGED vars
    BY <2>6 DEF vars, GraceInv, OneListed, YoungUntilStored, OrphansStayOrphans
  <2> QED  BY <2>1, <2>2, <2>3, <2>4, <2>5, <2>6 DEF Next, StartStep
<1>3. GraceInv => \A n \in Nodes : KillOrphan(n) =>
                    \A e \in live[n] \cap list[n] : e \notin record /\ start[e] \notin Starting
  BY DEF GraceInv, OneListed, YoungUntilStored, OrphansStayOrphans, KillOrphan
<1> QED  BY <1>1, <1>2, <1>3, PTL DEF Spec, ReconcileSparesListed

-----------------------------------------------------------------------------
\* The types.

\* The type invariant, with "at most one" said without counting.
Types ==
    /\ start \in [Executions -> Starting \cup {"idle", "route", "done", "unrouted", "failed"}]
    /\ tried \in [Executions -> SUBSET Nodes]
    /\ home \in [Executions -> SUBSET Nodes]
    /\ record \subseteq Executions /\ \A e, f \in record : e = f
    /\ route \subseteq Executions /\ \A e, f \in route : e = f
    /\ vms \in [Nodes -> SUBSET Executions]
    /\ live \in [Nodes -> SUBSET Executions]
    /\ \A n \in Nodes : live[n] \subseteq vms[n] /\ \A e, f \in live[n] : e = f
    /\ young \subseteq Executions
    /\ work \in [Tasks -> {"none", "look", "found", "call", "drop", "done"}]
    /\ sync \in [Nodes -> {"idle", "listed", "kill"}]
    /\ list \in [Nodes -> SUBSET Executions]
    /\ faults \in 0..MaxFaults

\* Every step keeps them.  A call to a node names one node, by HomeKnown, or
\* the state of the nodes would be left open.
LEMMA TypesStep == Types /\ HomeKnown /\ [Next]_vars => Types'
<1> SUFFICES ASSUME Types, HomeKnown, [Next]_vars PROVE Types'
  OBVIOUS
<1>t. /\ \A f \in Executions : <<"remove", f>> \in Tasks /\ <<"undo", f>> \in Tasks
      /\ \A t \in Tasks : t[2] \in Executions /\ (t = <<"remove", t[2]>> \/ t = <<"undo", t[2]>>)
  BY DEF Tasks
<1> USE LifecycleAssumption DEF Types, Starting, Starts, Works, Syncs, Fault, storeVars, startVars, syncVars,
        nodeVars
<1>1. ASSUME NEW e \in Executions, Begin(e) \/ GivesUp(e) \/ AddRoute(e) \/ StartDies(e) \/ GraceEnds(e)
      PROVE  Types'
  BY <1>1 DEF Begin, GivesUp, AddRoute, StartDies, GraceEnds
<1>2. ASSUME NEW e \in Executions, AddRecord(e) \/ AddFails(e) PROVE Types'
  <2>1. UNCHANGED <<tried, home, young, route, vms, live, sync, list>> /\ faults' \in 0..MaxFaults
    BY <1>2 DEF AddRecord, AddFails
  <2>2. record' \in {{e}, record}
    BY <1>2 DEF AddRecord, AddFails
  <2>3. \E p \in {"route", "failed"} : start' = [start EXCEPT ![e] = p]
    BY <1>2 DEF AddRecord, AddFails
  <2>4. work' = work \/ work' = [work EXCEPT ![<<"undo", e>>] = "look"]
    BY <1>2 DEF AddRecord, AddFails
  <2>5. start' \in [Executions -> Starting \cup {"idle", "route", "done", "unrouted", "failed"}]
    BY <2>3
  <2>6. work' \in [Tasks -> {"none", "look", "found", "call", "drop", "done"}]
    BY <1>t, <2>4
  <2>7. record' \subseteq Executions /\ \A f, g \in record' : f = g
    BY <2>2
  <2> QED  BY <2>1, <2>5, <2>6, <2>7
<1>3. ASSUME NEW e \in Executions, NEW target \in {"pausing", "killing"},
             Remove(e, target) \/ DropStale(e, target)
      PROVE  Types'
  <2>1. UNCHANGED <<start, tried, home, young, route, vms, live, sync, list, faults>>
    BY <1>3 DEF Remove, DropStale
  <2>2. record' \in {{}, record}
    BY <1>3 DEF Remove, DropStale
  <2>3. work' = work \/ work' = [work EXCEPT ![<<"remove", e>>] = "look"]
    BY <1>3 DEF Remove, DropStale
  <2> QED  BY <1>t, <2>1, <2>2, <2>3
<1>4. ASSUME NEW e \in Executions, NEW n \in Nodes, Placed(e, n) \/ PlaceFails(e, n) \/ ReplyLost(e, n)
      PROVE  Types'
  BY <1>4 DEF Placed, PlaceFails, ReplyLost, Booted
<1>5. ASSUME NEW e \in Executions, NEW n \in Nodes, VMExits(n, e) PROVE Types'
  BY <1>5 DEF VMExits
<1>6. ASSUME NEW t \in Tasks, GetRoute(t) \/ DeleteRoute(t) \/ DropRecord(t) \/ NodeMissing(t) \/ CallFails(t)
             \/ WorkDies(t)
      PROVE  Types'
  BY <1>6, <1>t DEF GetRoute, DeleteRoute, DropRecord, NodeMissing, CallFails, WorkDies, AfterCall
<1>7. ASSUME NEW t \in Tasks, CallNode(t) PROVE Types'
  <2>1. PICK n \in Nodes : home[t[2]] = {n}
    BY <1>7, <1>t DEF CallNode, HomeKnown
  <2>2. /\ UNCHANGED <<start, tried, home, young, record, route, sync, list, faults>>
        /\ work' = [work EXCEPT ![t] = "done"] \/ work' = [work EXCEPT ![t] = "drop"]
        /\ vms' = [vms EXCEPT ![n] = @ \ live[n]]
        /\ live' = [live EXCEPT ![n] = {}]
    BY <1>7, <2>1 DEF CallNode, StoppedOn, AfterCall
  <2>3. vms' \in [Nodes -> SUBSET Executions] /\ live' \in [Nodes -> SUBSET Executions]
    BY <2>2
  <2>4. \A m \in Nodes : live'[m] \subseteq vms'[m] /\ \A e, f \in live'[m] : e = f
    BY <2>2
  <2>5. work' \in [Tasks -> {"none", "look", "found", "call", "drop", "done"}]
    BY <2>2
  <2> QED  BY <2>2, <2>3, <2>4, <2>5
<1>8. ASSUME NEW n \in Nodes, SyncStep(n) \/ KillOrphanFails(n) PROVE Types'
  BY <1>8 DEF SyncStep, GetSandboxes, Reconcile, KillOrphan, KillOrphanFails, StoppedOn
<1>9. CASE UNCHANGED vars
  BY <1>9 DEF vars
<1> QED  BY <1>1, <1>2, <1>3, <1>4, <1>5, <1>6, <1>7, <1>8, <1>9 DEF Next, StartStep, WorkStep

StateType == state \in {"none", "running", "pausing", "killing"}

\* The state of the record stays one of these.
LEMMA StateStep == StateType /\ [Next]_vars => StateType'
<1> SUFFICES ASSUME StateType, [Next]_vars PROVE StateType'
  OBVIOUS
<1>1. \/ state' = state \/ state' = "none" \/ state' = "running"
      \/ \E target \in {"pausing", "killing"} : state' = target
  BY Zenon DEF Next, StartStep, WorkStep, SyncStep, Begin, GivesUp, AddRecord, AddRoute, AddFails, StartDies, Remove,
     DropStale, GraceEnds, Placed, PlaceFails, ReplyLost, VMExits, GetRoute, DeleteRoute, CallNode,
     DropRecord, NodeMissing, CallFails, WorkDies, GetSandboxes, Reconcile, KillOrphan, KillOrphanFails,
     storeVars, vars
<1> QED  BY <1>1 DEF StateType

\* A set of at most one member counts at most one.
LEMMA AtMostOne == ASSUME NEW S, \A e, f \in S : e = f PROVE Cardinality(S) <= 1
<1>1. CASE S = {}
  BY <1>1, FS_EmptySet
<1>2. CASE S # {}
  <2>1. PICK e \in S : TRUE
    BY <1>2
  <2>2. S = {e}
    BY <2>1
  <2>3. Cardinality({e}) = 1
    BY FS_Singleton
  <2> QED  BY <2>2, <2>3
<1> QED  BY <1>1, <1>2

\* Every variable keeps its type in every environment: above all, one record,
\* one route and, on each node, one listed VM of the ID at most.
THEOREM LifecycleTypeCorrect == Spec => []TypeOK
<1>1. Init => Types /\ HomeKnown
  BY LifecycleAssumption DEF Init, Types, HomeKnown, Starting, Tasks
<1>2. Init => StateType
  BY Zenon DEF Init, StateType
<1>3. Types /\ StateType => TypeOK
  <2> SUFFICES ASSUME Types, StateType PROVE TypeOK
    OBVIOUS
  <2>1. Cardinality(record) <= 1 /\ Cardinality(route) <= 1
    BY AtMostOne DEF Types
  <2>2. \A n \in Nodes : live[n] \subseteq vms[n] /\ Cardinality(live[n]) <= 1
    BY AtMostOne DEF Types
  <2> QED  BY <2>1, <2>2, Zenon DEF Types, StateType, TypeOK
<1> QED  BY <1>1, <1>2, <1>3, TypesStep, StateStep, HomeStaysKnown, PTL DEF Spec
=============================================================================
