-------------------------- MODULE ConnectionLimiter --------------------------
(***************************************************************************)
(* The limiter of connections (packages/shared/pkg/connlimit/limiter.go),  *)
(* as the egress firewall (orchestrator/pkg/tcpfirewall/proxy.go) and the  *)
(* ingress proxy (shared/pkg/proxy/handler.go, orchestrator/pkg/proxy) use *)
(* it: each key is a sandbox lifecycle, each connection takes a unit and   *)
(* releases it when it ends, and the key is removed when the network slot  *)
(* of the lifecycle is released, which does not wait for connections.      *)
(*                                                                         *)
(* This is one key; the others are other entries of the map.  Map          *)
(* operations, loads and compare-and-swaps are steps.  A counter is an     *)
(* object of its own: getCounter always makes one, and it is named after   *)
(* the connection that made it.                                            *)
(***************************************************************************)
EXTENDS Integers, FiniteSets

CONSTANTS
    Conns,      \* connections of the lifecycle
    MaxLimits   \* values of the flag for their number; negative: no limit

ASSUME ConnAssumption ==
    /\ IsFiniteSet(Conns)
    /\ MaxLimits \subseteq Int

VARIABLES
    entry,      \* the counter that the map has for the key, if any
    count,      \* the value of each counter
    step,       \* where each connection is
    counter,    \* the counter it works on
    current,    \* the value it has loaded
    maxLimit,   \* the limit it was given
    removed     \* has the key been removed?

connVars == <<entry, count, step, counter, current, maxLimit, removed>>

ConnTypeOK ==
    /\ entry \subseteq Conns
    /\ count \in [Conns -> Nat]
    /\ step \in [Conns -> {"new", "load", "swap", "open", "unload", "unswap", "over"}]
    /\ counter \in [Conns -> Conns]
    /\ current \in [Conns -> Nat]
    /\ maxLimit \in [Conns -> MaxLimits]
    /\ removed \in BOOLEAN

ConnInit ==
    /\ entry = {}
    /\ count = [c \in Conns |-> 0]
    /\ step = [c \in Conns |-> "new"]
    /\ counter = [c \in Conns |-> c]
    /\ current = [c \in Conns |-> 0]
    /\ maxLimit \in [Conns -> MaxLimits]
    /\ removed = FALSE

-----------------------------------------------------------------------------
Moves(c, p) == step' = [step EXCEPT ![c] = p]

\* counter.Load(), by which a connection ends, or goes on to the swap.
Loads(c, stops, p) ==
    /\ current' = [current EXCEPT ![c] = count[counter[c]]]
    /\ Moves(c, IF stops THEN "over" ELSE p)
    /\ UNCHANGED <<entry, count, counter, maxLimit, removed>>

\* Mutant: Add instead of CompareAndSwap.
SwapsBlindly(c, change, p, q) ==
    /\ count' = [count EXCEPT ![counter[c]] = @ + change]
    /\ Moves(c, p)
    /\ UNCHANGED <<entry, counter, current, maxLimit, removed>>

\* CompareAndSwap: if the counter is not what it was, it is loaded again.
Swaps(c, change, p, q) ==
    /\ IF count[counter[c]] = current[c]
       THEN count' = [count EXCEPT ![counter[c]] = current[c] + change] /\ Moves(c, p)
       ELSE UNCHANGED count /\ Moves(c, q)
    /\ UNCHANGED <<entry, counter, current, maxLimit, removed>>

-----------------------------------------------------------------------------
\* Mutant: each connection brings its own counter into the map.
FoundIgnored(c) == {c}

\* What getCounter's Upsert leaves in the map.
Found(c) == IF entry = {} THEN {c} ELSE entry

\* TryAcquire: getCounter.
GetCounter(c) ==
    /\ step[c] = "new"
    /\ entry' = Found(c)
    /\ \E k \in entry' : counter' = [counter EXCEPT ![c] = k]
    /\ Moves(c, "load")
    /\ UNCHANGED <<count, current, maxLimit, removed>>

Exceeds(c, n) == maxLimit[c] >= 0 /\ n >= maxLimit[c]

AcquireLoads(c) == step[c] = "load" /\ Loads(c, Exceeds(c, count[counter[c]]), "swap")

AcquireSwaps(c) == step[c] = "swap" /\ Swaps(c, 1, "open", "load")

\* The connection ends, or its destination is not found: Release, which takes
\* the counter the map has by now.
ReleaseGets(c) ==
    /\ step[c] = "open"
    /\ \/ entry = {} /\ Moves(c, "over") /\ UNCHANGED counter
       \/ \E k \in entry : counter' = [counter EXCEPT ![c] = k] /\ Moves(c, "unload")
    /\ UNCHANGED <<entry, count, current, maxLimit, removed>>

ReleaseLoads(c) == step[c] = "unload" /\ Loads(c, count[counter[c]] <= 0, "unswap")

ReleaseSwaps(c) == step[c] = "unswap" /\ Swaps(c, -1, "over", "unload")

\* Remove, called by OnNetworkRelease: once, since the release of a lifecycle is
\* announced once.
Remove ==
    /\ ~removed
    /\ removed' = TRUE
    /\ entry' = {}
    /\ UNCHANGED <<count, step, counter, current, maxLimit>>

ConnNext ==
    \/ Remove
    \/ \E c \in Conns :
        \/ GetCounter(c) \/ AcquireLoads(c) \/ AcquireSwaps(c)
        \/ ReleaseGets(c) \/ ReleaseLoads(c) \/ ReleaseSwaps(c)

ConnSpec == ConnInit /\ [][ConnNext]_connVars

-----------------------------------------------------------------------------
\* Connections that have been counted and have not given their unit back.
Counted == {c \in Conns : step[c] \in {"open", "unload", "unswap"}}

\* As long as the key is there its counter is exact: no connection is counted
\* twice or forgotten, however the loops of several of them interleave.
CountIsExact == ~removed => \A k \in entry : count[k] = Cardinality(Counted)

\* A connection is let through within the limit it was given, at the count of
\* the moment, as long as the key is there.
AdmittedWithinLimit ==
    [][\A c \in Conns :
        ~removed /\ step[c] = "swap" /\ step'[c] = "open" /\ maxLimit[c] >= 0
            => Cardinality(Counted') <= maxLimit[c]]_connVars

\* A connection that is late, and finds the key removed, makes a new entry,
\* which nobody removes.  It never counts more than the connections that are
\* open, even though connections counted before are released from it: what it
\* counts at the end is nothing.
LateEntryDrains == \A k \in entry : count[k] <= Cardinality(Counted)
=============================================================================
