------------------------------- MODULE Evictor -------------------------------
(***************************************************************************)
(* The evictor of an API instance                                          *)
(* (packages/api/internal/orchestrator/evictor/evict.go): a loop that looks *)
(* for expired sandboxes every 50 ms and starts a goroutine to remove each *)
(* of them, at most one for a sandbox and at most as many as the semaphore *)
(* lets through.  What a removal does, and how those of several instances  *)
(* meet, is SandboxTransition's; here it only takes its time and may fail. *)
(*                                                                         *)
(* Callers of the semaphore are the names of goroutines: a name is free    *)
(* again once its goroutine has ended.                                     *)
(***************************************************************************)
EXTENDS AdjustableSemaphore

CONSTANT Sandboxes

VARIABLES
    expired,    \* sandboxes that ExpiredItems finds
    todo,       \* what the tick has not looked at yet
    item,       \* the sandbox the loop has an entry for and no goroutine yet
    active,     \* the keys of activeEvictions
    stage,      \* where each goroutine is
    target,     \* the sandbox it evicts, if any
    phase       \* of Start

loopVars == <<todo, item, phase>>
evictVars == <<expired, loopVars, active, stage, target>>
vars == <<semVars, evictVars>>

TypeOK ==
    /\ SemTypeOK
    /\ expired \subseteq Sandboxes
    /\ todo \subseteq Sandboxes
    /\ item \subseteq Sandboxes
    /\ active \subseteq Sandboxes
    /\ stage \in [Callers -> {"none", "evicting", "removed", "deleted", "released"}]
    /\ target \in [Callers -> SUBSET Sandboxes]
    /\ phase \in {"running", "stopping", "stopped"}

Init ==
    /\ SemInit
    /\ expired = {}
    /\ todo = {}
    /\ item = {}
    /\ active = {}
    /\ stage = [g \in Callers |-> "none"]
    /\ target = [g \in Callers |-> {}]
    /\ phase = "running"

-----------------------------------------------------------------------------
\* The loop of Start.

\* The loop is in its select.
AtSelect == phase = "running" /\ todo = {} /\ item = {}

Tick ==
    /\ AtSelect
    /\ todo' = expired
    /\ UNCHANGED <<semVars, expired, item, phase, active, stage, target>>

\* LoadOrStore finds an eviction in flight.
Skips(s) ==
    /\ s \in todo
    /\ item = {}
    /\ s \in active
    /\ todo' = todo \ {s}
    /\ UNCHANGED <<semVars, expired, item, phase, active, stage, target>>

LoadOrStore(s) ==
    /\ s \in todo
    /\ item = {}
    /\ s \notin active
    /\ todo' = todo \ {s}
    /\ item' = {s}
    /\ active' = active \cup {s}
    /\ UNCHANGED <<semVars, expired, phase, stage, target>>

\* Mutant: the entry stays although nothing was started.
AtCapacityKeeps ==
    /\ item # {}
    /\ MutexFree
    /\ Full
    /\ item' = {}
    /\ UNCHANGED <<semVars, expired, todo, phase, active, stage, target>>

\* TryAcquire fails: the entry is deleted, the next tick tries again.
AtCapacity ==
    /\ item # {}
    /\ MutexFree
    /\ Full
    /\ active' = active \ item
    /\ item' = {}
    /\ UNCHANGED <<semVars, expired, todo, phase, stage, target>>

\* Mutant: the entry is deleted as soon as the goroutine is there.
StartsUntracked(g) ==
    /\ item # {}
    /\ stage[g] = "none"
    /\ TryAcquire(g)
    /\ stage' = [stage EXCEPT ![g] = "evicting"]
    /\ target' = [target EXCEPT ![g] = item]
    /\ active' = active \ item
    /\ item' = {}
    /\ UNCHANGED <<expired, todo, phase>>

\* TryAcquire succeeds: the goroutine is counted in wg and started.
Starts(g) ==
    /\ item # {}
    /\ stage[g] = "none"
    /\ TryAcquire(g)
    /\ stage' = [stage EXCEPT ![g] = "evicting"]
    /\ target' = [target EXCEPT ![g] = item]
    /\ item' = {}
    /\ UNCHANGED <<expired, todo, phase, active>>

\* refreshConcurrencyLimit; a flag that is not positive is ignored.
Refresh(n) == AtSelect /\ SetLimit(n) /\ UNCHANGED evictVars

ContextDone ==
    /\ AtSelect
    /\ phase' = "stopping"
    /\ UNCHANGED <<semVars, expired, todo, item, active, stage, target>>

\* wg.Wait, then Start returns.
Stops ==
    /\ phase = "stopping"
    /\ \A g \in Callers : stage[g] = "none"
    /\ phase' = "stopped"
    /\ UNCHANGED <<semVars, expired, todo, item, active, stage, target>>

LoopStep ==
    \/ AtCapacity \/ Stops
    \/ \E s \in Sandboxes : Skips(s) \/ LoadOrStore(s)
    \/ \E g \in Callers : Starts(g)

-----------------------------------------------------------------------------
\* A goroutine: evictSandbox, then the deferred calls, the last one first.

GoesOn(g, p) == stage' = [stage EXCEPT ![g] = p]

\* removeSandbox returns, with an error or without.
Removed(g) ==
    /\ stage[g] = "evicting"
    /\ GoesOn(g, "removed")
    /\ expired' \in {expired, expired \ target[g]}
    /\ UNCHANGED <<semVars, loopVars, active, target>>

Deletes(g) ==
    /\ stage[g] = "removed"
    /\ GoesOn(g, "deleted")
    /\ active' = active \ target[g]
    /\ UNCHANGED <<semVars, expired, loopVars, target>>

Releases(g) ==
    /\ stage[g] = "deleted"
    /\ GoesOn(g, "released")
    /\ Release(g)
    /\ UNCHANGED <<expired, loopVars, active, target>>

\* wg.Done
Ends(g) ==
    /\ stage[g] = "released"
    /\ GoesOn(g, "none")
    /\ target' = [target EXCEPT ![g] = {}]
    /\ UNCHANGED <<semVars, expired, loopVars, active>>

GoroutineStep(g) == Removed(g) \/ Deletes(g) \/ Releases(g) \/ Ends(g)

-----------------------------------------------------------------------------
\* A sandbox's end time passes; it may have been resumed after an eviction.
Expires(s) ==
    /\ s \notin expired
    /\ expired' = expired \cup {s}
    /\ UNCHANGED <<semVars, loopVars, active, stage, target>>

Next ==
    \/ Tick \/ LoopStep \/ ContextDone
    \/ \E g \in Callers : GoroutineStep(g)
    \/ \E s \in Sandboxes : Expires(s)
    \/ \E n \in Limits : Refresh(n)

Spec == Init /\ [][Next]_vars

\* The loop and the goroutines run.  A removal need not return: its context
\* has no deadline, and the node may not answer.
Fairness ==
    /\ WF_vars(LoopStep)
    /\ \A g \in Callers : WF_vars(Deletes(g) \/ Releases(g) \/ Ends(g))

-----------------------------------------------------------------------------
\* "overlapping ticks don't kick off multiple removeSandbox calls": an instance
\* never removes a sandbox twice at the same time.  (A goroutine that has
\* deleted its entry and still has its unit may overlap with the next one.)
OneEvictionPerSandbox ==
    \A g, h \in Callers :
        g # h /\ stage[g] = "evicting" /\ stage[h] = "evicting" => target[g] # target[h]

\* An entry of activeEvictions belongs to the loop or to a goroutine that will
\* delete it.  An entry without an owner would keep its sandbox from ever being
\* evicted again.
EntryHasOwner ==
    \A s \in active :
        \/ s \in item
        \/ \E g \in Callers : s \in target[g] /\ stage[g] \in {"evicting", "removed"}

\* Once Start has returned, no removal is going on, and entries and units are
\* all given back.
StoppedIsQuiet == phase = "stopped" => active = {} /\ used = 0

\* Goroutines that have been started and have not given their unit back.
InFlight == {g \in Callers : stage[g] \in {"evicting", "removed", "deleted"}}

\* A goroutine is started within the limit of that moment only, also after the
\* flag was lowered while evictions were going on.
StartsWithinLimit ==
    [][\A g \in Callers : stage[g] = "none" /\ stage'[g] = "evicting" => Cardinality(InFlight') <= limit]_vars

\* An entry does not stay in activeEvictions for want of a unit or after its
\* removal has returned, with an error or not: the sandbox is tried again.
EntryLeaves ==
    \A s \in Sandboxes :
        s \in active ~> (s \notin active \/ \E g \in Callers : s \in target[g] /\ stage[g] = "evicting")
=============================================================================
