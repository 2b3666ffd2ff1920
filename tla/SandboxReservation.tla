------------------------- MODULE SandboxReservation -------------------------
(***************************************************************************)
(* Start reservations of one team (packages/api/internal/sandbox,          *)
(* reservations/redis and store.go; CreateSandbox of the orchestrator).    *)
(*                                                                         *)
(* Every create or resume request runs on some API instance.  The state    *)
(* they share is in Redis: the team's storage index, the pending zset and  *)
(* one result key per sandbox ID.  Every Lua script is one atomic step;    *)
(* everything between two Redis calls can interleave.                      *)
(*                                                                         *)
(* The request that starts an execution names it: an execution ID is a     *)
(* fresh UUID, so the request and its execution are one to one.            *)
(***************************************************************************)
EXTENDS Integers, FiniteSets

CONSTANTS
    Sandboxes,          \* the sandbox IDs the team uses
    Requests,           \* create and resume requests, on any API instance
    None,               \* no execution
    Failed,             \* a result or an answer that is an error
    Limit,              \* team.Limits.SandboxConcurrency; negative: no limit
    OverlappingResume,  \* may a start be reserved while an earlier start of
                        \* the ID, over but for its finishStart, or a removal
                        \* of the ID, over but for its Release, still runs?
    SlowStarts          \* may a start outlive staleTTL (90 s)?

ASSUME ConstantsAssumption ==
    /\ IsFiniteSet(Sandboxes)
    /\ Limit \in Int
    /\ None \notin Requests
    /\ Failed \notin Requests
    /\ None # Failed
    /\ OverlappingResume \in BOOLEAN
    /\ SlowStarts \in BOOLEAN

VARIABLES
    store,      \* storage record and index entry of an ID: its execution
    pending,    \* members of the pending zset
    stale,      \* the pending members whose score is older than staleTTL
    result,     \* result key of an ID: None, Failed or the started execution
    releasing,  \* IDs inside Store.Remove, between storage.Remove and Release
    pc,         \* where each request is
    target,     \* the sandbox ID each request asks for
    answer,     \* what each request returned: None while it runs
    crashed     \* requests whose API instance died

vars == <<store, pending, stale, result, releasing, pc, target, answer, crashed>>
redisVars == <<store, pending, stale, result, releasing>>

Executions == Requests
Starting == {"starting", "added", "failed"}             \* owes a finishStart
Joining  == {"get", "probe", "score", "reget", "asleep"} \* in waitForStart
Finished == {"started", "startFailed", "joined", "rejected"}

TypeOK ==
    /\ store \in [Sandboxes -> Executions \cup {None}]
    /\ pending \subseteq Sandboxes
    /\ stale \subseteq pending
    /\ result \in [Sandboxes -> Executions \cup {None, Failed}]
    /\ releasing \subseteq Sandboxes
    /\ pc \in [Requests -> {"idle"} \cup Starting \cup Joining \cup Finished]
    /\ target \in [Requests -> Sandboxes]
    /\ answer \in [Requests -> Executions \cup {None, Failed}]
    /\ crashed \subseteq Requests

Init ==
    /\ store = [s \in Sandboxes |-> None]
    /\ pending = {}
    /\ stale = {}
    /\ result = [s \in Sandboxes |-> None]
    /\ releasing = {}
    /\ pc = [r \in Requests |-> "idle"]
    /\ target \in [Requests -> Sandboxes]
    /\ answer = [r \in Requests |-> None]
    /\ crashed = {}

-----------------------------------------------------------------------------
\* The storage index: the IDs that have a record.
index == {s \in Sandboxes : store[s] # None}

\* A request that reserved its ID and has not yet run finishStart.
Starter(r) == r \notin crashed /\ pc[r] \in Starting

At(r, l) == r \notin crashed /\ pc[r] = l

\* No start of s has yet to run its finishStart and no removal its Release.
Settled(s) ==
    /\ s \notin releasing
    /\ \A r \in Requests : target[r] = s => ~At(r, "added") /\ ~At(r, "failed")

Goto(r, l) ==
    /\ pc' = [pc EXCEPT ![r] = l]
    /\ UNCHANGED <<target, crashed>>

Return(r, l, v) == Goto(r, l) /\ answer' = [answer EXCEPT ![r] = v]

-----------------------------------------------------------------------------
\* Reserve: one run of reserveScript.  Stale pending members are swept first,
\* whatever the outcome; then the four result codes, in the script's order.

\* Mutant: the cutoff is in another unit than the scores and sweeps them all.
SweptAll == {}

SweptPending == pending \ stale

\* Mutant: the result key of an earlier start is left in place.
KeptResult(s) == result

\* DEL of the result key.
DeletedResult(s) == [result EXCEPT ![s] = None]

ReserveInStorage(r, s) ==
    /\ s \in index
    /\ Goto(r, "get")
    /\ pending' = SweptPending
    /\ UNCHANGED <<store, result, releasing, answer>>

ReservePending(r, s) ==
    /\ s \notin index
    /\ s \in SweptPending
    /\ Goto(r, "probe")
    /\ pending' = SweptPending
    /\ UNCHANGED <<store, result, releasing, answer>>

\* Mutant: the limit is compared with ">".
OverLimit ==
    /\ Limit >= 0
    /\ Cardinality(index) + Cardinality(SweptPending) > Limit

\* storageCount + pendingCount >= limit, for a limit that is not negative.
AtLimit ==
    /\ Limit >= 0
    /\ Cardinality(index) + Cardinality(SweptPending) >= Limit

ReserveExceeded(r, s) ==
    /\ s \notin index \cup SweptPending
    /\ AtLimit
    /\ Return(r, "rejected", Failed)
    /\ pending' = SweptPending
    /\ UNCHANGED <<store, result, releasing>>

ReserveGranted(r, s) ==
    /\ s \notin index \cup SweptPending
    /\ ~AtLimit
    /\ OverlappingResume \/ Settled(s)
    /\ result' = DeletedResult(s)
    /\ pending' = SweptPending \cup {s}
    /\ Goto(r, "starting")
    /\ UNCHANGED <<store, releasing, answer>>

Reserve(r) ==
    /\ At(r, "idle")
    /\ stale' = {}
    /\ \/ ReserveInStorage(r, target[r])
       \/ ReservePending(r, target[r])
       \/ ReserveExceeded(r, target[r])
       \/ ReserveGranted(r, target[r])

-----------------------------------------------------------------------------
\* CreateSandbox of the request that holds the reservation.

\* getSandboxData, the placement or any check before it fails.
StartFails(r) ==
    /\ At(r, "starting")
    /\ Goto(r, "failed")
    /\ UNCHANGED <<store, pending, stale, result, releasing, answer>>

\* The VM runs on a node: Store.Add writes the record and the index entry.
AddSandbox(r) ==
    /\ At(r, "starting")
    /\ store' = [store EXCEPT ![target[r]] = r]
    /\ Goto(r, "added")
    /\ UNCHANGED <<pending, stale, result, releasing, answer>>

\* Store.Add returns an error: the write was refused, or it was applied and
\* the reply was lost.
AddSandboxFails(r) ==
    /\ At(r, "starting")
    /\ \/ store' = [store EXCEPT ![target[r]] = r]
       \/ UNCHANGED store
    /\ Goto(r, "failed")
    /\ UNCHANGED <<pending, stale, result, releasing, answer>>

\* Mutant: the sandbox is published whatever the error.
PublishedAlways(r) == r

StartOutcome(r) == IF pc[r] = "added" THEN r ELSE Failed

\* The deferred finishStart: finishStartScript leaves the pending zset and
\* publishes the outcome under the result key.
FinishStart(r) ==
    /\ r \notin crashed
    /\ pc[r] \in {"added", "failed"}
    /\ pending' = pending \ {target[r]}
    /\ stale' = stale \ {target[r]}
    /\ result' = [result EXCEPT ![target[r]] = StartOutcome(r)]
    /\ Return(r, IF pc[r] = "added" THEN "started" ELSE "startFailed", StartOutcome(r))
    /\ UNCHANGED <<store, releasing>>

\* finishStart without a result: the encoding fails and only ZREM runs, or
\* the script fails and nothing is written.
FinishStartFails(r) ==
    /\ r \notin crashed
    /\ pc[r] \in {"added", "failed"}
    /\ \/ pending' = pending \ {target[r]} /\ stale' = stale \ {target[r]}
       \/ UNCHANGED <<pending, stale>>
    /\ Return(r, IF pc[r] = "added" THEN "started" ELSE "startFailed", StartOutcome(r))
    /\ UNCHANGED <<store, result, releasing>>

-----------------------------------------------------------------------------
\* waitForStart of a request that found the ID stored or pending.

\* Already stored: the waiter is a storage.Get.
JoinStored(r) ==
    /\ At(r, "get")
    /\ Return(r, "joined", IF store[target[r]] = None THEN Failed ELSE store[target[r]])
    /\ UNCHANGED redisVars

\* tryReadResult, first GET: a result ends the wait.
ReadResult(r) ==
    /\ At(r, "probe")
    /\ IF result[target[r]] # None
       THEN Return(r, "joined", result[target[r]])
       ELSE Goto(r, "score") /\ UNCHANGED answer
    /\ UNCHANGED redisVars

\* tryReadResult, ZSCORE: still pending means wait for the next wakeup.
ReadPending(r) ==
    /\ At(r, "score")
    /\ Goto(r, IF target[r] \in pending THEN "asleep" ELSE "reget")
    /\ UNCHANGED <<redisVars, answer>>

\* tryReadResult, second GET: no result now is "no longer pending".
RereadResult(r) ==
    /\ At(r, "reget")
    /\ Return(r, "joined", IF result[target[r]] = None THEN Failed ELSE result[target[r]])
    /\ UNCHANGED redisVars

\* Mutant: only the notification of a result wakes the waiter.
WakeOnNotification(r) ==
    /\ At(r, "asleep")
    /\ result[target[r]] # None
    /\ Goto(r, "probe")
    /\ UNCHANGED <<redisVars, answer>>

\* A notification or the fallback ticker starts the next probe.
Wake(r) ==
    /\ At(r, "asleep")
    /\ Goto(r, "probe")
    /\ UNCHANGED <<redisVars, answer>>

\* Mutant: a cancelled joiner gives up the reservation it waits for.
CancelReservation(r) ==
    /\ r \notin crashed
    /\ pc[r] \in Joining
    /\ pending' = pending \ {target[r]}
    /\ stale' = stale \ {target[r]}
    /\ Return(r, "joined", Failed)
    /\ UNCHANGED <<store, result, releasing>>

\* The request's context ends, or a Redis call of the wait fails.
CancelWait(r) ==
    /\ r \notin crashed
    /\ pc[r] \in Joining
    /\ Return(r, "joined", Failed)
    /\ UNCHANGED redisVars

-----------------------------------------------------------------------------
\* Store.Remove: storage.Remove, then reservations.Release.  The errors of
\* both are logged and the method goes on.

StorageRemove(s) ==
    /\ s \in index
    /\ store' = [store EXCEPT ![s] = None]
    /\ releasing' = releasing \cup {s}
    /\ UNCHANGED <<pending, stale, result, pc, target, answer, crashed>>

StorageRemoveFails(s) ==
    /\ s \in index
    /\ releasing' = releasing \cup {s}
    /\ UNCHANGED <<store, pending, stale, result, pc, target, answer, crashed>>

Release(s) ==
    /\ s \in releasing
    /\ releasing' = releasing \ {s}
    /\ pending' = pending \ {s}
    /\ stale' = stale \ {s}
    /\ result' = DeletedResult(s)
    /\ UNCHANGED <<store, pc, target, answer, crashed>>

ReleaseFails(s) ==
    /\ s \in releasing
    /\ releasing' = releasing \ {s}
    /\ UNCHANGED <<store, pending, stale, result, pc, target, answer, crashed>>

-----------------------------------------------------------------------------
\* Time and crashes.

\* The score of a pending member falls behind now - staleTTL.
PendingAges(s) ==
    /\ s \in pending \ stale
    /\ SlowStarts \/ \A r \in Requests : target[r] = s => ~Starter(r)
    /\ stale' = stale \cup {s}
    /\ UNCHANGED <<store, pending, result, releasing, pc, target, answer, crashed>>

\* resultTTL passes.
ResultExpires(s) ==
    /\ result[s] # None
    /\ result' = [result EXCEPT ![s] = None]
    /\ UNCHANGED <<store, pending, stale, releasing, pc, target, answer, crashed>>

\* The API instance that runs the request dies.
Crash(r) ==
    /\ r \notin crashed
    /\ pc[r] \in Starting \cup Joining
    /\ crashed' = crashed \cup {r}
    /\ UNCHANGED <<redisVars, pc, target, answer>>

-----------------------------------------------------------------------------
StartStep(r) ==
    \/ StartFails(r) \/ AddSandbox(r) \/ AddSandboxFails(r)
    \/ FinishStart(r) \/ FinishStartFails(r)

JoinStep(r) ==
    JoinStored(r) \/ ReadResult(r) \/ ReadPending(r) \/ RereadResult(r) \/ Wake(r)

RemoveStep(s) ==
    StorageRemove(s) \/ StorageRemoveFails(s) \/ Release(s) \/ ReleaseFails(s)

Next ==
    \/ \E r \in Requests : Reserve(r) \/ StartStep(r) \/ JoinStep(r) \/ CancelWait(r) \/ Crash(r)
    \/ \E s \in Sandboxes : RemoveStep(s) \/ PendingAges(s) \/ ResultExpires(s)

\* A handler that runs goes on to its next call; a client need not send one,
\* an API instance may die and a sandbox may live on.
Fairness ==
    \A r \in Requests : WF_vars(StartStep(r)) /\ WF_vars(JoinStep(r))

Spec == Init /\ [][Next]_vars
FairSpec == Spec /\ Fairness

-----------------------------------------------------------------------------
\* The team never has more sandboxes, stored or being started, than its limit
\* (reserveScript "atomically checks limits and reserves").
ConcurrencyLimit ==
    Limit >= 0 => Cardinality(index \cup pending) <= Limit

\* One start per sandbox ID at a time: a second request for an ID that is being
\* started joins the first one (ALREADY_PENDING) and never starts a second VM.
SingleStarter ==
    \A r1, r2 \in Requests :
        /\ At(r1, "starting")
        /\ At(r2, "starting")
        /\ target[r1] = target[r2]
        => r1 = r2

\* While a start is in progress no result of an earlier start of the ID is left
\* for its joiners to read: reserveScript deletes the key it may have left.
NoStaleResult ==
    \A r \in Requests : At(r, "starting") => result[target[r]] = None

\* A joined request is only given an execution of its own ID that Store.Add
\* stored: finishStart never publishes the execution of a start that failed.
JoinedExecutionWasStored ==
    [][\A r \in Requests :
          LET e == answer'[r] IN
          answer[r] = None /\ e \in Executions \ {r} =>
              /\ target[e] = target[r]
              /\ pc[e] \in {"added", "started"} \/ store[target[e]] = e]_vars

\* s is pending and no live request will take it out of the zset.
Abandoned(s) ==
    /\ s \in pending
    /\ \A r \in Requests : target[r] = s => ~Starter(r)

\* A waiter needs no notification: the fallback ticker alone brings it the
\* outcome, unless the start it waits for was abandoned by a crash.
JoinerReturns ==
    \A r \in Requests :
        (r \notin crashed /\ pc[r] \in Joining)
        ~> (pc[r] = "joined" \/ r \in crashed \/ Abandoned(target[r]))

\* The inductive strengthening of ConcurrencyLimit and SingleStarter: a request
\* that may still add its sandbox holds a fresh pending member for it, nothing
\* is left of an earlier start or removal of the ID, and no other request owes
\* a finishStart that would take the member away.
StartingHoldsReservation ==
    \A r \in Requests :
        At(r, "starting") =>
            /\ target[r] \in pending \ stale
            /\ target[r] \notin releasing
            /\ store[target[r]] = None

OneStarterPerSandbox ==
    \A r1, r2 \in Requests :
        Starter(r1) /\ Starter(r2) /\ target[r1] = target[r2] => r1 = r2

ReservationInv ==
    /\ StartingHoldsReservation
    /\ OneStarterPerSandbox
    /\ NoStaleResult
    /\ ConcurrencyLimit

-----------------------------------------------------------------------------
\* The mapping to the limiter: an ID counts while it is in the index or in the
\* pending zset, a start is let in until its Store.Add, a record is a run.
Counted == index \cup pending
Starts == {<<target[r], r>> : r \in {q \in Requests : At(q, "starting")}}

Limiter == INSTANCE AbstractLimiter WITH counted <- Counted, starts <- Starts, runs <- store

\* Reserve, finishStart and Release together are a limiter: whatever requests,
\* removals, crashes and expiring keys do to the pending zset and the index, a
\* start is let in only for a free ID and within the limit, every record comes
\* from a start that was let in and still counts, and no ID stops counting
\* while it is started or stored.
ImplementsLimiter == Limiter!Spec
=============================================================================
