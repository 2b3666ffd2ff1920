----------------------------- MODULE NetworkPool -----------------------------
(***************************************************************************)
(* The pool of network slots of an orchestrator                            *)
(* (packages/orchestrator/pkg/sandbox/network/pool.go and its storages).   *)
(*                                                                         *)
(* A slot (namespace, veth, IP) is acquired from the storage by Populate,  *)
(* waits in newSlots, is handed out by Get and comes back by ReturnAsync,  *)
(* which recycles it into reusedSlots or tears it down and releases it.    *)
(* Close shuts the pool down while Populate, Gets and returns are going on. *)
(*                                                                         *)
(* The two channels are kept as sets: which of the waiting slots a receive *)
(* yields makes no difference to what is stated here.  A select with       *)
(* several ready cases takes any of them, one with a default takes it only *)
(* when no case is ready.                                                  *)
(***************************************************************************)
EXTENDS Integers, FiniteSets

CONSTANTS
    Slots,          \* slots of the storage
    Lifecycles,     \* the sandboxes that ask for a slot, once each
    NewSize,        \* capacity of newSlots (newSlotsPoolSize - 1)
    ReusedSize,     \* capacity of reusedSlots
    MaxFaults       \* bound: failed system and storage calls, VM crashes

ASSUME PoolAssumption ==
    /\ NewSize \in Nat
    /\ ReusedSize \in Nat
    /\ MaxFaults \in Nat

VARIABLES
    free,       \* slots the storage may hand out
    newSlots,   \* the channel newSlots
    newOpen,    \* FALSE once Populate has closed it
    reused,     \* the channel reusedSlots
    maker,      \* where Populate is
    made,       \* the slot it has created, if any
    use,        \* where the Get or the return of each lifecycle is
    holds,      \* the slot each lifecycle has, if any
    told,       \* lifecycles whose release has been announced
    tracked,    \* returns counted in returnsWG
    done,       \* is the channel done closed?
    closed,     \* the flag under closeMu
    closer,     \* where Close is
    lost,       \* slots whose Release failed
    faults      \* faults so far

slotVars == <<free, newSlots, reused, made, holds, lost>>
poolVars == <<slotVars, newOpen, maker, use, told, tracked, done, closed, closer, faults>>

Getting   == {"get", "wait"}
Returning == {"delay", "recycle", "cleanup", "notify"}

PoolTypeOK ==
    /\ free \subseteq Slots
    /\ newSlots \subseteq Slots
    /\ newOpen \in BOOLEAN
    /\ reused \subseteq Slots
    /\ maker \in {"check", "create", "push", "end"}
    /\ made \subseteq Slots
    /\ use \in [Lifecycles -> {"idle", "held", "refused", "panic", "returned"} \cup Getting \cup Returning]
    /\ holds \in [Lifecycles -> SUBSET Slots]
    /\ told \subseteq Lifecycles
    /\ tracked \subseteq Lifecycles
    /\ done \in BOOLEAN
    /\ closed \in BOOLEAN
    /\ closer \in {"open", "mark", "wait", "drainNew", "drainReused", "end"}
    /\ lost \subseteq Slots
    /\ faults \in 0..MaxFaults

PoolInit ==
    /\ free = Slots
    /\ newSlots = {}
    /\ newOpen = TRUE
    /\ reused = {}
    /\ maker = "check"
    /\ made = {}
    /\ use = [l \in Lifecycles |-> "idle"]
    /\ holds = [l \in Lifecycles |-> {}]
    /\ told = {}
    /\ tracked = {}
    /\ done = FALSE
    /\ closed = FALSE
    /\ closer = "open"
    /\ lost = {}
    /\ faults = 0

-----------------------------------------------------------------------------
Fault == faults < MaxFaults /\ faults' = faults + 1

UseGoes(l, p) == use' = [use EXCEPT ![l] = p]

\* Release of a set of slots, which the storage may refuse.
Release(ss) ==
    \/ free' = free \cup ss /\ UNCHANGED <<lost, faults>>
    \/ ss # {} /\ Fault /\ lost' = lost \cup ss /\ UNCHANGED free

-----------------------------------------------------------------------------
\* Populate.

MakerLooks ==
    /\ maker = "check"
    /\ maker' = IF done THEN "end" ELSE "create"
    /\ newOpen' = ~done
    /\ UNCHANGED <<slotVars, use, tracked, told, done, closed, closer, faults>>

MakerCreates ==
    /\ maker = "create"
    /\ \E s \in free : free' = free \ {s} /\ made' = {s}
    /\ maker' = "push"
    /\ UNCHANGED <<newSlots, reused, holds, lost, newOpen, use, tracked, told, done, closed, closer, faults>>

\* No slot is left, or CreateNetwork fails and the slot is released again,
\* which may fail as well.
MakerCreateFails ==
    /\ maker = "create"
    /\ \/ UNCHANGED <<free, lost, faults>>
       \/ \E s \in free : Fault /\ free' = free \ {s} /\ lost' = lost \cup {s}
    /\ maker' = "check"
    /\ UNCHANGED <<newSlots, reused, made, holds, newOpen, use, tracked, told, done, closed, closer>>

MakerPushes ==
    /\ maker = "push"
    /\ Cardinality(newSlots) < NewSize
    /\ newSlots' = newSlots \cup made
    /\ made' = {}
    /\ maker' = "check"
    /\ UNCHANGED <<free, reused, holds, lost, newOpen, use, tracked, told, done, closed, closer, faults>>

\* Mutant: the slot that was being offered is forgotten.
MakerForgets ==
    /\ maker = "push"
    /\ done
    /\ made' = {}
    /\ maker' = "end"
    /\ newOpen' = FALSE
    /\ UNCHANGED <<free, newSlots, reused, holds, lost, use, tracked, told, done, closed, closer, faults>>

MakerCleansUp ==
    /\ maker = "push"
    /\ done
    /\ Release(made)
    /\ made' = {}
    /\ maker' = "end"
    /\ newOpen' = FALSE
    /\ UNCHANGED <<newSlots, reused, holds, use, tracked, told, done, closed, closer>>

Populate == MakerLooks \/ MakerCreates \/ MakerCreateFails \/ MakerPushes \/ MakerCleansUp

-----------------------------------------------------------------------------
\* Get.

\* tryTrackReturn: a return is counted, unless the pool is closed.
Tracked(l) == IF closed THEN tracked ELSE tracked \cup {l}

\* ConfigureInternet of the slot that was received.  If it fails, Get returns
\* the slot itself, with nobody to tell.
Configured(l) ==
    \/ UseGoes(l, "held") /\ UNCHANGED <<tracked, faults>>
    \/ UseGoes(l, "delay") /\ tracked' = Tracked(l) /\ Fault

Get(l) ==
    /\ use[l] = "idle"
    /\ UseGoes(l, "get")
    /\ UNCHANGED <<slotVars, newOpen, maker, tracked, told, done, closed, closer, faults>>

\* ErrClosed, or the context ends while Get waits for a new slot.
GetRefused(l) ==
    /\ \/ use[l] = "get" /\ done
       \/ use[l] = "wait"
    /\ UseGoes(l, "refused")
    /\ UNCHANGED <<slotVars, newOpen, maker, tracked, told, done, closed, closer, faults>>

GetReused(l) ==
    /\ use[l] = "get"
    /\ \E s \in reused : reused' = reused \ {s} /\ holds' = [holds EXCEPT ![l] = {s}]
    /\ Configured(l)
    /\ UNCHANGED <<free, newSlots, made, lost, newOpen, maker, told, done, closed, closer>>

GetWaits(l) ==
    /\ use[l] = "get"
    /\ reused = {}
    /\ ~done
    /\ UseGoes(l, "wait")
    /\ UNCHANGED <<slotVars, newOpen, maker, tracked, told, done, closed, closer, faults>>

GetNew(l) ==
    /\ use[l] = "wait"
    /\ \E s \in newSlots : newSlots' = newSlots \ {s} /\ holds' = [holds EXCEPT ![l] = {s}]
    /\ Configured(l)
    /\ UNCHANGED <<free, reused, made, lost, newOpen, maker, told, done, closed, closer>>

\* A receive from newSlots, closed and drained, yields a nil slot; its
\* ConfigureInternet panics, which ends the process.
GetNil(l) ==
    /\ use[l] = "wait"
    /\ newSlots = {}
    /\ ~newOpen
    /\ UseGoes(l, "panic")
    /\ UNCHANGED <<slotVars, newOpen, maker, tracked, told, done, closed, closer, faults>>

-----------------------------------------------------------------------------
\* ReturnAsync: tryTrackReturn, then returnSlot, in a goroutine that Close
\* waits for, or in the caller once the pool is closed.

ReturnAsync(l) ==
    /\ use[l] = "held"
    /\ UseGoes(l, "delay")
    /\ tracked' = Tracked(l)
    /\ UNCHANGED <<slotVars, newOpen, maker, told, done, closed, closer, faults>>

\* Mutant: the announcement is left to the deferred call.
AnnouncedAtEnd(l) == told

Announced(l) == told \cup {l}

\* returnDelay passes: the release is announced, then the slot recycled.
DelayPasses(l) ==
    /\ use[l] = "delay"
    /\ UseGoes(l, "recycle")
    /\ told' = Announced(l)
    /\ UNCHANGED <<slotVars, newOpen, maker, tracked, done, closed, closer, faults>>

\* The pool closes during the delay: the slot is torn down, then announced.
DelayCut(l) ==
    /\ use[l] = "delay"
    /\ done
    /\ UseGoes(l, "cleanup")
    /\ UNCHANGED <<slotVars, newOpen, maker, tracked, told, done, closed, closer, faults>>

\* recycle: ResetInternet fails.
ResetFails(l) ==
    /\ use[l] = "recycle"
    /\ Fault
    /\ UseGoes(l, "cleanup")
    /\ UNCHANGED <<slotVars, newOpen, maker, tracked, told, done, closed, closer>>

\* returnSlot returns, or still owes the deferred announcement.
ReturnEnds(l) ==
    /\ UseGoes(l, IF l \in told THEN "returned" ELSE "notify")
    /\ tracked' = IF l \in told THEN tracked \ {l} ELSE tracked

\* Mutant: the flag is not looked at, only the channels.
MayReuseUnlocked == Cardinality(reused) < ReusedSize

MayReuse == ~closed /\ Cardinality(reused) < ReusedSize

\* Mutant: the slot stays with the caller, who returns it again.
LeftOverKept(l) == holds

LeftOver(l) == [holds EXCEPT ![l] = {}]

\* ResetInternet, then tryReuse under the read lock that Close's write
\* lock excludes.
Reuse(l) ==
    /\ use[l] = "recycle"
    /\ MayReuse
    /\ reused' = reused \cup holds[l]
    /\ holds' = LeftOver(l)
    /\ ReturnEnds(l)
    /\ UNCHANGED <<free, newSlots, made, lost, newOpen, maker, told, done, closed, closer, faults>>

ReuseRefused(l) ==
    /\ use[l] = "recycle"
    /\ ~MayReuse \/ done
    /\ UseGoes(l, "cleanup")
    /\ UNCHANGED <<slotVars, newOpen, maker, tracked, told, done, closed, closer, faults>>

\* cleanup: RemoveNetwork and Release, whatever the former answers.
Cleanup(l) ==
    /\ use[l] = "cleanup"
    /\ Release(holds[l])
    /\ holds' = [holds EXCEPT ![l] = {}]
    /\ ReturnEnds(l)
    /\ UNCHANGED <<newSlots, reused, made, newOpen, maker, told, done, closed, closer>>

\* The deferred announcement.
Notify(l) ==
    /\ use[l] = "notify"
    /\ UseGoes(l, "returned")
    /\ told' = told \cup {l}
    /\ tracked' = tracked \ {l}
    /\ UNCHANGED <<slotVars, newOpen, maker, done, closed, closer, faults>>

-----------------------------------------------------------------------------
\* Close.

CloseDone ==
    /\ closer = "open"
    /\ done' = TRUE
    /\ closer' = "mark"
    /\ UNCHANGED <<slotVars, newOpen, maker, use, told, tracked, closed, faults>>

CloseMarks ==
    /\ closer = "mark"
    /\ closed' = TRUE
    /\ closer' = "wait"
    /\ UNCHANGED <<slotVars, newOpen, maker, use, tracked, told, done, faults>>

CloseWaits ==
    /\ closer = "wait"
    /\ tracked = {}
    /\ closer' = "drainNew"
    /\ UNCHANGED <<slotVars, newOpen, maker, use, tracked, told, done, closed, faults>>

CloseDrainsNew ==
    /\ closer = "drainNew"
    /\ \E s \in newSlots : newSlots' = newSlots \ {s} /\ Release({s})
    /\ UNCHANGED <<reused, made, holds, newOpen, maker, use, tracked, told, done, closed, closer>>

\* The channel is closed by Populate and empty: the range over it ends.
CloseDrainedNew ==
    /\ closer = "drainNew"
    /\ newSlots = {}
    /\ ~newOpen
    /\ closer' = "drainReused"
    /\ UNCHANGED <<slotVars, newOpen, maker, use, tracked, told, done, closed, faults>>

CloseDrainsReused ==
    /\ closer = "drainReused"
    /\ \E s \in reused : reused' = reused \ {s} /\ Release({s})
    /\ UNCHANGED <<newSlots, made, holds, newOpen, maker, use, tracked, told, done, closed, closer>>

CloseEnds ==
    /\ closer = "drainReused"
    /\ reused = {}
    /\ closer' = "end"
    /\ UNCHANGED <<slotVars, newOpen, maker, use, tracked, told, done, closed, faults>>

Close ==
    \/ CloseDone \/ CloseMarks \/ CloseWaits \/ CloseDrainsNew
    \/ CloseDrainedNew \/ CloseDrainsReused \/ CloseEnds

-----------------------------------------------------------------------------
\* What goes on in the pool once a lifecycle has called Get or ReturnAsync.
GetStep(l) ==
    GetRefused(l) \/ GetReused(l) \/ GetWaits(l) \/ GetNew(l)

ReturnStep(l) ==
    DelayCut(l) \/ ResetFails(l) \/ Reuse(l) \/ ReuseRefused(l) \/ Cleanup(l)

\* A VM crash, which the pool does not see.
OtherFault == Fault /\ UNCHANGED <<slotVars, newOpen, maker, use, tracked, told, done, closed, closer>>

PoolNext ==
    \/ Populate \/ Close \/ OtherFault
    \/ \E l \in Lifecycles :
        \/ Get(l) \/ GetNil(l) \/ GetStep(l)
        \/ ReturnAsync(l) \/ DelayPasses(l) \/ Notify(l) \/ ReturnStep(l)

PoolSpec == PoolInit /\ [][PoolNext]_poolVars

-----------------------------------------------------------------------------
\* No slot is ever in two places: two sandboxes never share a namespace or an
\* IP, and no slot is handed out while it is being torn down.
SlotsExclusive ==
    /\ \A k, l \in Lifecycles : k # l => holds[k] \cap holds[l] = {}
    /\ \A l \in Lifecycles : holds[l] \cap (free \cup newSlots \cup reused \cup made \cup lost) = {}
    /\ free \cap (newSlots \cup reused \cup made \cup lost) = {}
    /\ newSlots \cap (reused \cup made \cup lost) = {}
    /\ reused \cap (made \cup lost) = {}
    /\ made \cap lost = {}

\* Once Close has drained a channel no slot is put into it any more: a return
\* that is still going on, or that starts later, cannot strand its slot there.
ClosedPoolIsEmpty ==
    /\ closer = "end" => newSlots = {} /\ reused = {} /\ made = {}
    /\ closer = "drainReused" => newSlots = {} /\ made = {}
=============================================================================
