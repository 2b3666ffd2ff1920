-------------------------- MODULE SandboxTransition --------------------------
(***************************************************************************)
(* State transitions of one sandbox ID                                     *)
(* (packages/api/internal/sandbox/storage/redis/state_change.go) and the   *)
(* handlers that drive them: RemoveSandbox, CheckpointSandbox, KeepAliveFor *)
(* and the evictor.                                                        *)
(*                                                                         *)
(* The sandbox record and the transition key are Redis keys shared by all  *)
(* API instances.  A section of code that holds the record's distributed   *)
(* lock is one step: every writer of the record takes the lock, except Add, *)
(* which the reservation admits only while there is no record.  The        *)
(* callback of a transition holds another lock, so it can interleave.      *)
(*                                                                         *)
(* Clock readings are kept as what the code compares: an EndTime is in the *)
(* future, past, or past by more than StaleCutoff (10 min).  The result key *)
(* of a transition is kept as whether it holds an error, because an empty, *)
(* an expired and a missing result are all read as success.                *)
(***************************************************************************)
EXTENDS Integers, FiniteSets

CONSTANTS
    Requests,           \* kill, pause and checkpoint requests of clients
    Evictor,            \* the eviction of this ID in flight (activeEvictions)
    AutoPause,          \* does the sandbox pause, rather than die, on timeout?
    SlowTransitions,    \* may a transition outlive transitionKeyTTL (70 s)?
    Outages,            \* may a record stay expired beyond StaleCutoff?
    MaxExec,            \* bound: executions (starts and resumes) of the ID
    MaxTrans,           \* bound: transitions started
    MaxFaults           \* bound: crashes and Redis errors

ASSUME ConstantsAssumption ==
    /\ Evictor \notin Requests
    /\ AutoPause \in BOOLEAN
    /\ SlowTransitions \in BOOLEAN
    /\ Outages \in BOOLEAN
    /\ MaxExec \in Nat \ {0}
    /\ MaxTrans \in Nat
    /\ MaxFaults \in Nat

VARIABLES
    stored,     \* execution of the stored record; 0: no record
    state,      \* State of the stored record
    end,        \* EndTime of each execution, compared with now
    vm,         \* the VM of each execution on its node
    tkey,       \* transition key: the transition in progress; 0: none
    failed,     \* transitions whose result key holds an error
    lastExec,   \* executions so far
    lastTrans,  \* transitions so far
    pc,         \* where each request is
    act,        \* the StateAction of each request
    seen,       \* the execution each request read under the lock
    trans,      \* the transition each request runs or waits for
    err,        \* the error its work, or the restore to Running, met
    faults      \* faults so far

redisVars == <<stored, state, end, vm, tkey, failed, lastExec, lastTrans>>
vars == <<redisVars, pc, act, seen, trans, err, faults>>

Actors     == Requests \cup {Evictor}
Execs      == 1..MaxExec
Transitions == 1..MaxTrans

States  == {"running", "pausing", "killing", "snapshotting"}
Actions == {"pause", "kill", "snapshot"}

TargetState == [pause |-> "pausing", kill |-> "killing", snapshot |-> "snapshotting"]

\* Effect = TransitionExpires; the other effect is TransitionTransient.
Expires(a) == a \in {"pause", "kill"}

AllowedTransitions ==
    [running      |-> {"pausing", "killing", "snapshotting"},
     pausing      |-> {"killing"},
     killing      |-> {},
     snapshotting |-> {"running", "killing", "pausing"}]

Working  == {"work", "remove", "restore", "result", "del"} \* owns a transition
Waiting  == {"join", "await"}                              \* waits for one
Terminal == {"ok", "failed", "refused", "notfound"}

TypeOK ==
    /\ stored \in 0..MaxExec
    /\ state \in States
    /\ end \in [Execs -> {"future", "past", "stale"}]
    /\ vm \in [Execs -> {"none", "running", "paused", "stopped"}]
    /\ tkey \in 0..MaxTrans
    /\ failed \subseteq Transitions
    /\ lastExec \in 0..MaxExec
    /\ lastTrans \in 0..MaxTrans
    /\ pc \in [Actors -> {"idle", "call", "already", "dead"} \cup Working \cup Waiting \cup Terminal]
    /\ act \in [Actors -> Actions]
    /\ seen \in [Actors -> 0..MaxExec]
    /\ trans \in [Actors -> 0..MaxTrans]
    /\ err \in [Actors -> {"no", "work", "restore"}]
    /\ faults \in 0..MaxFaults

Init ==
    /\ stored = 1
    /\ state = "running"
    /\ end = [e \in Execs |-> "future"]
    /\ vm = [e \in Execs |-> IF e = 1 THEN "running" ELSE "none"]
    /\ tkey = 0
    /\ failed = {}
    /\ lastExec = 1
    /\ lastTrans = 0
    /\ pc = [a \in Actors |-> "idle"]
    /\ act = [a \in Actors |-> "kill"]
    /\ seen = [a \in Actors |-> 0]
    /\ trans = [a \in Actors |-> 0]
    /\ err = [a \in Actors |-> "no"]
    /\ faults = 0

-----------------------------------------------------------------------------
IsExpired(e) == end[e] # "future"

Goto(a, l) == pc' = [pc EXCEPT ![a] = l]

Fault == faults < MaxFaults /\ faults' = faults + 1

-----------------------------------------------------------------------------
\* Who calls StartRemoving.

\* A client's kill, pause or checkpoint request.
Request(a) ==
    /\ a \in Requests
    /\ pc[a] = "idle"
    /\ Goto(a, "call")
    /\ \E x \in Actions : act' = [act EXCEPT ![a] = x]
    /\ UNCHANGED <<redisVars, seen, trans, err, faults>>

\* ExpiredItems returns the sandbox and evictSandbox picks the action.  A
\* sandbox that is not running is returned only once it is past StaleCutoff.
Evict ==
    /\ pc[Evictor] \in {"idle"} \cup Terminal
    /\ stored # 0
    /\ IsExpired(stored)
    /\ state = "running" \/ end[stored] = "stale"
    /\ Goto(Evictor, "call")
    /\ act' = [act EXCEPT ![Evictor] = IF AutoPause THEN "pause" ELSE "kill"]
    /\ UNCHANGED <<redisVars, seen, trans, err, faults>>

-----------------------------------------------------------------------------
\* StartRemoving: one step under the record's lock, one action per outcome.

Calls(a) == pc[a] = "call"
Target(a) == TargetState[act[a]]

StartNotFound(a) ==
    /\ Calls(a)
    /\ stored = 0
    /\ Goto(a, "notfound")
    /\ UNCHANGED <<redisVars, act, seen, trans, err, faults>>

\* ErrEvictionInProgress, ErrEvictionNotNeeded.
EvictionRefused ==
    /\ Calls(Evictor)
    /\ stored # 0
    /\ tkey # 0 \/ ~IsExpired(stored)
    /\ Goto(Evictor, "refused")
    /\ UNCHANGED <<redisVars, act, seen, trans, err, faults>>

\* handleExistingTransition: join a transition to the same state, wait for
\* another one and retry, or fail if it could never be allowed.
StartWaits(a) ==
    /\ Calls(a)
    /\ a # Evictor
    /\ stored # 0
    /\ tkey # 0
    /\ \/ state = Target(a) /\ Goto(a, "join")
       \/ state # Target(a) /\ Target(a) \in AllowedTransitions[state] /\ Goto(a, "await")
    /\ seen' = [seen EXCEPT ![a] = stored]
    /\ trans' = [trans EXCEPT ![a] = tkey]
    /\ UNCHANGED <<redisVars, act, err, faults>>

\* Mutant: the transition key is not looked at.
ProceedsPastKey(a) ==
    /\ Calls(a)
    /\ stored # 0
    /\ a = Evictor => IsExpired(stored)

\* A stored record the call gets past the transition key and eviction checks.
Proceeds(a) ==
    /\ Calls(a)
    /\ stored # 0
    /\ tkey = 0
    /\ a = Evictor => IsExpired(stored)

\* InvalidStateTransitionError.
StartInvalid(a) ==
    /\ \/ Proceeds(a)
       \/ Calls(a) /\ a # Evictor /\ stored # 0 /\ tkey # 0
    /\ state # Target(a)
    /\ Target(a) \notin AllowedTransitions[state]
    /\ Goto(a, "refused")
    /\ UNCHANGED <<redisVars, act, seen, trans, err, faults>>

\* Already in the target state and nobody works on it: alreadyDone.
StartAlreadyDone(a) ==
    /\ Proceeds(a)
    /\ state = Target(a)
    /\ Goto(a, "already")
    /\ seen' = [seen EXCEPT ![a] = stored]
    /\ UNCHANGED <<redisVars, act, trans, err, faults>>

\* startTransitionScript: the new state, the transition key and an empty
\* result.  The EndTime of an expiring transition is pulled back to now.
StartTransition(a) ==
    /\ Proceeds(a)
    /\ Target(a) \in AllowedTransitions[state]
    /\ lastTrans < MaxTrans
    /\ state' = Target(a)
    /\ end' = IF Expires(act[a]) /\ ~IsExpired(stored)
              THEN [end EXCEPT ![stored] = "past"] ELSE end
    /\ lastTrans' = lastTrans + 1
    /\ tkey' = lastTrans + 1
    /\ trans' = [trans EXCEPT ![a] = lastTrans + 1]
    /\ seen' = [seen EXCEPT ![a] = stored]
    /\ err' = [err EXCEPT ![a] = "no"]
    /\ Goto(a, "work")
    /\ UNCHANGED <<stored, vm, failed, lastExec, act, faults>>

\* The lock or a Redis call fails before anything is written.  Where the record
\* had been read and says Killing, RemoveSandbox takes the error for "already
\* killed" and a client's kill returns no error; evictions see every error.  A
\* script whose reply is lost is StartTransition followed by Crash.
StartFails(a) ==
    /\ Calls(a)
    /\ Fault
    /\ \/ /\ Goto(a, "failed")
          /\ UNCHANGED seen
       \/ /\ a # Evictor
          /\ act[a] = "kill"
          /\ stored # 0
          /\ state = "killing"
          /\ Goto(a, "ok")
          /\ seen' = [seen EXCEPT ![a] = stored]
    /\ UNCHANGED <<redisVars, act, trans, err>>

StartRemoving(a) ==
    \/ StartNotFound(a) \/ StartWaits(a) \/ StartInvalid(a)
    \/ StartAlreadyDone(a) \/ StartTransition(a) \/ StartFails(a)

-----------------------------------------------------------------------------
\* waitForTransition, by notification or by the fallback ticker: the key is
\* gone or names another transition, so the result key is read.

\* RemoveSandbox takes any error of a kill that joined a kill for "already
\* killed", because the record it read says Killing, and returns no error.
WaitError(a) == IF pc[a] = "join" /\ act[a] = "kill" THEN "ok" ELSE "failed"

\* checkTransitionResult: an error ends the wait with it, anything else lets a
\* joiner inherit the outcome and another waiter retry StartRemoving.
WaitOutcome(a) ==
    IF trans[a] \in failed THEN WaitError(a)
    ELSE IF pc[a] = "join" THEN "already" ELSE "call"

\* Mutant: whatever the ticker reads ends the wait.
WaitEndsAtOnce(a) ==
    /\ pc[a] \in Waiting
    /\ Goto(a, WaitOutcome(a))
    /\ UNCHANGED <<redisVars, act, seen, trans, err, faults>>

WaitEnds(a) ==
    /\ pc[a] \in Waiting
    /\ tkey # trans[a]
    /\ Goto(a, WaitOutcome(a))
    /\ UNCHANGED <<redisVars, act, seen, trans, err, faults>>

\* A GET of the transition key that fails yields the empty ID, which differs
\* from the transition waited for: the result is read as if it were over.
WaitMisreads(a) ==
    /\ pc[a] \in Waiting
    /\ Fault
    /\ Goto(a, WaitOutcome(a))
    /\ UNCHANGED <<redisVars, act, seen, trans, err>>

\* The client's context ends: it is gone, whatever the handler answers.
WaitCancelled(a) ==
    /\ pc[a] \in Waiting
    /\ Goto(a, "failed")
    /\ UNCHANGED <<redisVars, act, seen, trans, err, faults>>

-----------------------------------------------------------------------------
\* The handler that started the transition works on the node.

\* Where the VM of a running sandbox may be after a call on its node that
\* succeeds, or that fails before, in the middle of or after its effect.
NodeOutcomes(x) ==
    CASE x = "kill"     -> [no |-> {"stopped"}, work |-> {"running", "stopped"}]
      [] x = "pause"    -> [no |-> {"paused"},  work |-> {"running", "stopped", "paused"}]
      [] x = "snapshot" -> [no |-> {"running"}, work |-> {"running", "stopped"}]

\* removeSandboxFromNode, or the Checkpoint call.  A VM that is gone can be
\* killed again (NotFound is success) but not paused.  A checkpoint that is
\* rejected before the pause counts as no error: the handler calls finish(nil).
Work(a) ==
    /\ pc[a] = "work"
    /\ \E e \in {"no", "work"} :
        /\ err' = [err EXCEPT ![a] = e]
        /\ IF vm[seen[a]] = "running"
           THEN \E v \in NodeOutcomes(act[a])[e] : vm' = [vm EXCEPT ![seen[a]] = v]
           ELSE UNCHANGED vm /\ (e = "work" \/ act[a] # "pause")
        /\ Goto(a, CASE Expires(act[a])                    -> "remove"
                     [] ~Expires(act[a]) /\ e = "no"       -> "restore"
                     [] ~Expires(act[a]) /\ e = "work"     -> "result")
    /\ UNCHANGED <<stored, state, end, tkey, failed, lastExec, lastTrans, act, seen, trans, faults>>

\* The deferred Store.Remove: whatever the work's outcome, and whichever
\* execution the record now belongs to.
StoreRemove(a) ==
    /\ pc[a] = "remove"
    /\ stored' = 0
    /\ Goto(a, "result")
    /\ UNCHANGED <<state, end, vm, tkey, failed, lastExec, lastTrans, act, seen, trans, err, faults>>

\* Its error is only logged.
StoreRemoveFails(a) ==
    /\ pc[a] = "remove"
    /\ Fault
    /\ Goto(a, "result")
    /\ UNCHANGED <<redisVars, act, seen, trans, err>>

\* Mutants: the record is dropped however fresh, or never.
DropsAlways(a) == Expires(act[a])
DropsNever(a) == FALSE

DropsStale(a) == Expires(act[a]) /\ end[seen[a]] = "stale"

\* alreadyDone in RemoveSandbox: a record stuck past StaleCutoff is dropped.
\* In CheckpointSandbox it is reported as a conflict.
FinishAlreadyDone(a) ==
    /\ pc[a] = "already"
    /\ stored' = IF DropsStale(a) THEN 0 ELSE stored
    /\ Goto(a, IF Expires(act[a]) THEN "ok" ELSE "refused")
    /\ UNCHANGED <<state, end, vm, tkey, failed, lastExec, lastTrans, act, seen, trans, err, faults>>

-----------------------------------------------------------------------------
\* The callback of the transition.

\* Mutant: any state is restored.
RestoredAlways(a) == IF stored # 0 THEN "running" ELSE state

Restored(a) == IF stored # 0 /\ state = Target(a) THEN "running" ELSE state

\* restoreToRunning, for a transient transition that met no error: an Update
\* under the record's lock that leaves any other state alone.
RestoreToRunning(a) ==
    /\ pc[a] = "restore"
    /\ state' = Restored(a)
    /\ err' = [err EXCEPT ![a] = IF stored = 0 THEN "restore" ELSE "no"]
    /\ Goto(a, "result")
    /\ UNCHANGED <<stored, end, vm, tkey, failed, lastExec, lastTrans, act, seen, trans, faults>>

RestoreFails(a) ==
    /\ pc[a] = "restore"
    /\ Fault
    /\ err' = [err EXCEPT ![a] = "restore"]
    /\ Goto(a, "result")
    /\ UNCHANGED <<redisVars, act, seen, trans>>

\* Mutant: the error of the handler's work is not published.
ReportsRestoreOnly(a) == err[a] = "restore"

\* Waiters of a transient transition that failed may go on (a kill, say).
ReportsError(a) == err[a] = "restore" \/ (err[a] = "work" /\ Expires(act[a]))

SetResult(a) ==
    /\ pc[a] = "result"
    /\ failed' = IF ReportsError(a) THEN failed \cup {trans[a]} ELSE failed
    /\ Goto(a, "del")
    /\ UNCHANGED <<stored, state, end, vm, tkey, lastExec, lastTrans, act, seen, trans, err, faults>>

SetResultFails(a) ==
    /\ pc[a] = "result"
    /\ Fault
    /\ Goto(a, "del")
    /\ UNCHANGED <<redisVars, act, seen, trans, err>>

\* After a failed checkpoint the handler kills the sandbox: RemoveSandbox.
KillsNext(a) == act[a] = "snapshot" /\ err[a] = "work"

Completion(a) ==
    IF KillsNext(a) THEN "call" ELSE IF err[a] = "work" THEN "failed" ELSE "ok"

NextAction(a) == IF KillsNext(a) THEN [act EXCEPT ![a] = "kill"] ELSE act

\* DEL transitionKey, without comparing the transition ID, then the publish.
DeleteKey(a) ==
    /\ pc[a] = "del"
    /\ tkey' = 0
    /\ Goto(a, Completion(a))
    /\ act' = NextAction(a)
    /\ UNCHANGED <<stored, state, end, vm, failed, lastExec, lastTrans, seen, trans, err, faults>>

\* The DEL fails and the key is left to its TTL.  The publish follows all the
\* same, and lets go any waiter that it reaches.
DeleteKeyFails(a) ==
    /\ pc[a] = "del"
    /\ Fault
    /\ \E woken \in SUBSET {b \in Actors : pc[b] \in Waiting /\ trans[b] = trans[a]} :
        pc' = [b \in Actors |-> IF b = a THEN Completion(a)
                                ELSE IF b \in woken THEN WaitOutcome(b) ELSE pc[b]]
    /\ act' = NextAction(a)
    /\ UNCHANGED <<redisVars, seen, trans, err>>

\* The callback cannot obtain its lock: no result, and the key is left to TTL.
CallbackFails(a) ==
    /\ pc[a] = "result"
    /\ Fault
    /\ Goto(a, Completion(a))
    /\ act' = NextAction(a)
    /\ UNCHANGED <<redisVars, seen, trans, err>>

-----------------------------------------------------------------------------
\* The rest of the world.

\* A new execution is added: reserved, started on a node, then Store.Add.
AddExecution ==
    /\ stored = 0
    /\ lastExec < MaxExec
    /\ lastExec' = lastExec + 1
    /\ stored' = lastExec + 1
    /\ state' = "running"
    /\ vm' = [vm EXCEPT ![lastExec + 1] = "running"]
    /\ UNCHANGED <<end, tkey, failed, lastTrans, pc, act, seen, trans, err, faults>>

\* KeepAliveFor extends a running sandbox, expired or not.
KeepAliveFor ==
    /\ stored # 0
    /\ state = "running"
    /\ end' = [end EXCEPT ![stored] = "future"]
    /\ UNCHANGED <<stored, state, vm, tkey, failed, lastExec, lastTrans, pc, act, seen, trans, err, faults>>

\* A handler that works, waits or is about to compare the EndTime of e.
Handling(a, e) ==
    /\ seen[a] = e
    /\ \/ pc[a] = "already"
       \/ ~SlowTransitions /\ pc[a] \in Working \cup Waiting

\* The clock passes an EndTime, then EndTime + StaleCutoff.  The latter takes
\* minutes: handlers in flight have ended by then, unless they are slow.
TimePasses(e) ==
    /\ e <= lastExec
    /\ \/ end[e] = "future"
       \/ end[e] = "past" /\ Outages /\ \A a \in Actors : ~Handling(a, e)
    /\ end' = [end EXCEPT ![e] = IF @ = "future" THEN "past" ELSE "stale"]
    /\ UNCHANGED <<stored, state, vm, tkey, failed, lastExec, lastTrans, pc, act, seen, trans, err, faults>>

\* Mutant: the key is set without a TTL.
KeyWithoutTTL == FALSE

KeyPastTTL ==
    /\ tkey # 0
    /\ SlowTransitions \/ \A a \in Actors : pc[a] \in Working => trans[a] # tkey

\* transitionKeyTTL passes.
KeyExpires ==
    /\ KeyPastTTL
    /\ tkey' = 0
    /\ UNCHANGED <<stored, state, end, vm, failed, lastExec, lastTrans, pc, act, seen, trans, err, faults>>

\* The API instance dies.  Another instance's evictor takes over evictions.
Crash(a) ==
    /\ pc[a] \notin {"idle", "dead"} \cup Terminal
    /\ Fault
    /\ Goto(a, IF a = Evictor THEN "idle" ELSE "dead")
    /\ UNCHANGED <<redisVars, act, seen, trans, err>>

-----------------------------------------------------------------------------
\* The next step of a handler that is running.
HandlerStep(a) ==
    \/ StartRemoving(a) \/ (a = Evictor /\ EvictionRefused)
    \/ WaitEnds(a) \/ WaitMisreads(a)
    \/ Work(a) \/ StoreRemove(a) \/ StoreRemoveFails(a) \/ FinishAlreadyDone(a)
    \/ RestoreToRunning(a) \/ RestoreFails(a) \/ SetResult(a) \/ SetResultFails(a)
    \/ DeleteKey(a) \/ DeleteKeyFails(a) \/ CallbackFails(a)

Next ==
    \/ \E a \in Actors : Request(a) \/ HandlerStep(a) \/ WaitCancelled(a) \/ Crash(a)
    \/ Evict \/ AddExecution \/ KeepAliveFor \/ KeyExpires
    \/ \E e \in Execs : TimePasses(e)

\* A handler that runs goes on, the evictor ticks, keys expire; clients, time
\* outs and faults owe nothing.
Fairness ==
    /\ \A a \in Actors : WF_vars(HandlerStep(a))
    /\ WF_vars(Evict)
    /\ WF_vars(KeyExpires)

Spec == Init /\ [][Next]_vars
FairSpec == Spec /\ Fairness

-----------------------------------------------------------------------------
\* No two handlers ever work on the sandbox at once, from the start of their
\* transition to the end of its callback.
SoleWorker ==
    \A a, b \in Actors : pc[a] \in Working /\ pc[b] \in Working => a = b

\* The inductive strengthening: the transition key names the transition of the
\* handler at work, from StartTransition to the DEL of its callback.
WorkerHasTransition ==
    \A a \in Actors : pc[a] \in Working => trans[a] # 0

WorkerHoldsKey ==
    \A a \in Actors : pc[a] \in Working => tkey = trans[a]

\* A handler removes only the record of the execution it was called for: a
\* record added meanwhile for a resume is not deleted by a removal of its past.
RemovesOwnRecord ==
    [][stored # 0 /\ stored' = 0 =>
          \E a \in Actors : pc[a] \in {"remove", "already"} /\ pc'[a] # pc[a]
                            /\ seen[a] = stored]_vars

\* The state of an execution only follows AllowedTransitions, even when a
\* transition outlives its key: a late restore to Running never revives a
\* sandbox that is being paused or killed.
OnlyAllowedTransitions ==
    [][stored # 0 /\ stored' = stored /\ state' # state
          => state' \in AllowedTransitions[state]]_vars

\* A pause that is acknowledged, by the handler that did it or by one that
\* joined it, has left a snapshot to resume from, as long as no instance died
\* and no Redis call failed: a missing result is read as success.
PauseAckedMeansPaused ==
    faults = 0 =>
        \A a \in Requests :
            pc[a] = "ok" /\ act[a] = "pause" => vm[seen[a]] = "paused"

\* Whoever asks for the state a transition leads to waits for its completion:
\* when it goes on, nobody works on that transition any more, as long as no
\* Redis call failed (a failed GET in waitForTransition ends the wait at once).
JoinWaitsForCompletion ==
    [][\A a, b \in Actors :
          pc[a] = "join" /\ pc'[a] = "already" /\ trans[b] = trans[a] /\ faults' = 0
          => pc[b] \notin Working]_vars

\* A kill that is acknowledged, by the handler that did it or by one that
\* joined it, leaves no running VM behind: an error of the kill is propagated.
KillAckedMeansStopped ==
    \A a \in Requests :
        pc[a] = "ok" /\ act[a] = "kill" => vm[seen[a]] # "running"

\* A record that nobody keeps alive is removed in the end, whatever state a
\* crashed or failed handler left it in.
StaleRecordRemoved ==
    \A e \in Execs :
        (stored = e /\ end[e] = "stale") ~> (stored # e \/ end[e] = "future")

\* Whoever waits for another handler's transition is let go.
WaiterReturns ==
    \A a \in Actors : pc[a] \in Waiting ~> pc[a] \in Terminal \cup {"dead", "idle"}
=============================================================================
