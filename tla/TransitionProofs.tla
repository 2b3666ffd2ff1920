-------------------------- MODULE TransitionProofs --------------------------
(***************************************************************************)
(* Proofs about SandboxTransition, for any number of requests, executions, *)
(* transitions and faults.  The types hold in every environment; mutual    *)
(* exclusion of the handlers needs transitions to end before their key's   *)
(* TTL, because the DEL of the callback does not compare transition IDs.   *)
(***************************************************************************)
EXTENDS SandboxTransition, TLAPS

\* The calls of StartRemoving keep every variable in its range, and a handler
\* that starts to work has a transition of its own.
LEMMA StartKeepsTypes ==
    ASSUME TypeOK, WorkerHasTransition, NEW a \in Actors,
           StartRemoving(a) \/ (a = Evictor /\ EvictionRefused)
    PROVE  TypeOK' /\ WorkerHasTransition'
<1> USE ConstantsAssumption
    DEF TypeOK, WorkerHasTransition, Working, Waiting, Terminal, Goto, redisVars
<1>1. CASE StartNotFound(a)
  BY <1>1 DEF StartNotFound
<1>2. CASE StartWaits(a)
  BY <1>2 DEF StartWaits
<1>3. CASE StartInvalid(a)
  BY <1>3 DEF StartInvalid
<1>4. CASE StartAlreadyDone(a)
  BY <1>4 DEF StartAlreadyDone
<1>5. CASE StartTransition(a)
  <2>1. Target(a) \in States
    BY DEF Target, TargetState, States, Actions
  <2>2. stored \in Execs /\ lastTrans + 1 \in 1..MaxTrans
    BY <1>5 DEF StartTransition, Proceeds, Execs
  <2> QED  BY <1>5, <2>1, <2>2 DEF StartTransition, Execs
<1>6. CASE EvictionRefused
  BY <1>6 DEF EvictionRefused, Actors
<1>7. CASE StartFails(a)
  BY <1>7 DEF StartFails, Fault
<1> QED  BY <1>1, <1>2, <1>3, <1>4, <1>5, <1>6, <1>7 DEF StartRemoving

\* So do the waits, the work on the node and the removal of the record ...
LEMMA WorkKeepsTypes ==
    ASSUME TypeOK, WorkerHasTransition, NEW a \in Actors,
           \/ WaitEnds(a) \/ WaitMisreads(a) \/ WaitCancelled(a)
           \/ Work(a) \/ StoreRemove(a) \/ StoreRemoveFails(a) \/ FinishAlreadyDone(a)
    PROVE  TypeOK' /\ WorkerHasTransition'
<1> USE ConstantsAssumption
    DEF TypeOK, WorkerHasTransition, Working, Waiting, Terminal, Goto, redisVars
<1>1. CASE WaitEnds(a) \/ WaitMisreads(a) \/ WaitCancelled(a)
  BY <1>1 DEF WaitEnds, WaitMisreads, WaitCancelled, WaitOutcome, WaitError, Fault
<1>2. CASE Work(a)
  <2>1. PICK e \in {"no", "work"} :
          /\ err' = [err EXCEPT ![a] = e]
          /\ IF vm[seen[a]] = "running"
             THEN \E v \in NodeOutcomes(act[a])[e] : vm' = [vm EXCEPT ![seen[a]] = v]
             ELSE UNCHANGED vm
          /\ \E l \in {"remove", "restore", "result"} : pc' = [pc EXCEPT ![a] = l]
    BY <1>2 DEF Work
  <2>2. NodeOutcomes(act[a])[e] \subseteq {"none", "running", "paused", "stopped"}
    BY DEF NodeOutcomes, Actions
  <2>3. vm' \in [Execs -> {"none", "running", "paused", "stopped"}]
    BY <2>1, <2>2
  <2>4. pc[a] = "work" /\ UNCHANGED <<stored, state, end, tkey, failed, lastExec, lastTrans,
                                      act, seen, trans, faults>>
    BY <1>2 DEF Work
  <2> QED  BY <2>1, <2>3, <2>4
<1>3. CASE StoreRemove(a)
  BY <1>3 DEF StoreRemove
<1>4. CASE StoreRemoveFails(a)
  BY <1>4 DEF StoreRemoveFails, Fault
<1>5. CASE FinishAlreadyDone(a)
  BY <1>5 DEF FinishAlreadyDone
<1> QED  BY <1>1, <1>2, <1>3, <1>4, <1>5

\* ... and the callback of the transition.
LEMMA CallbackKeepsTypes ==
    ASSUME TypeOK, WorkerHasTransition, NEW a \in Actors,
           \/ RestoreToRunning(a) \/ RestoreFails(a) \/ SetResult(a) \/ SetResultFails(a)
           \/ DeleteKey(a) \/ DeleteKeyFails(a) \/ CallbackFails(a)
    PROVE  TypeOK' /\ WorkerHasTransition'
<1> USE ConstantsAssumption
    DEF TypeOK, WorkerHasTransition, Working, Waiting, Terminal, Goto, redisVars
<1>1. CASE RestoreToRunning(a)
  BY <1>1 DEF RestoreToRunning, Restored, States
<1>2. CASE RestoreFails(a)
  BY <1>2 DEF RestoreFails, Fault
<1>3. CASE SetResult(a)
  <2>1. trans[a] \in Transitions
    BY <1>3 DEF SetResult, Transitions
  <2> QED  BY <1>3, <2>1 DEF SetResult
<1>4. CASE SetResultFails(a)
  BY <1>4 DEF SetResultFails, Fault
<1>5. Completion(a) \in {"call"} \cup Terminal /\ NextAction(a) \in [Actors -> Actions]
  BY DEF Completion, NextAction, Actions
<1>6. CASE DeleteKey(a)
  BY <1>5, <1>6 DEF DeleteKey
<1>7. CASE DeleteKeyFails(a)
  BY <1>5, <1>7 DEF DeleteKeyFails, WaitOutcome, WaitError, Fault
<1>8. CASE CallbackFails(a)
  BY <1>5, <1>8 DEF CallbackFails, Fault
<1> QED  BY <1>1, <1>2, <1>3, <1>4, <1>6, <1>7, <1>8

\* Type correctness of the transition protocol, in every environment: the record,
\* the transition key and every handler stay in their ranges.
THEOREM TransitionTypeCorrect == Spec => [](TypeOK /\ WorkerHasTransition)
<1>1. Init => TypeOK /\ WorkerHasTransition
  BY ConstantsAssumption DEF Init, TypeOK, WorkerHasTransition, Working, Execs, Transitions,
     States, Actions
<1>2. TypeOK /\ WorkerHasTransition /\ [Next]_vars => (TypeOK /\ WorkerHasTransition)'
  <2> SUFFICES ASSUME TypeOK, WorkerHasTransition, [Next]_vars
               PROVE  (TypeOK /\ WorkerHasTransition)'
    OBVIOUS
  <2>1. ASSUME NEW a \in Actors, HandlerStep(a) \/ WaitCancelled(a)
        PROVE  (TypeOK /\ WorkerHasTransition)'
    BY <2>1, StartKeepsTypes, WorkKeepsTypes, CallbackKeepsTypes DEF HandlerStep
  <2>2. ASSUME NEW a \in Actors, Request(a) \/ Crash(a)
        PROVE  (TypeOK /\ WorkerHasTransition)'
    BY <2>2, ConstantsAssumption DEF Request, Crash, Fault, Goto, TypeOK, WorkerHasTransition,
       Working, Waiting, Terminal, Actions, redisVars
  <2>3. CASE Evict
    BY <2>3 DEF Evict, Goto, TypeOK, WorkerHasTransition, Working, Waiting, Terminal, Actions,
       Actors, redisVars
  <2>4. CASE AddExecution
    <3>1. lastExec + 1 \in Execs
      BY <2>4, ConstantsAssumption DEF AddExecution, TypeOK, Execs
    <3> QED  BY <2>4, <3>1 DEF AddExecution, TypeOK, WorkerHasTransition, Execs, States
  <2>5. CASE KeepAliveFor \/ \E e \in Execs : TimePasses(e)
    BY <2>5 DEF KeepAliveFor, TimePasses, TypeOK, WorkerHasTransition
  <2>6. CASE KeyExpires
    BY <2>6, ConstantsAssumption DEF KeyExpires, TypeOK, WorkerHasTransition
  <2>7. CASE UNCHANGED vars
    BY <2>7 DEF vars, redisVars, TypeOK, WorkerHasTransition
  <2> QED  BY <2>1, <2>2, <2>3, <2>4, <2>5, <2>6, <2>7 DEF Next
<1> QED  BY <1>1, <1>2, PTL DEF Spec

-----------------------------------------------------------------------------
\* The handler at work, if there is one, is alone and the key is its own.
ExclusiveInv == WorkerHoldsKey /\ SoleWorker

\* ExclusiveInv is preserved by every step of a handler.
LEMMA HandlerKeepsExclusive ==
    ASSUME TypeOK, WorkerHasTransition, ExclusiveInv, NEW a \in Actors,
           HandlerStep(a) \/ WaitCancelled(a) \/ Request(a) \/ Crash(a)
    PROVE  ExclusiveInv'
<1> USE DEF TypeOK, WorkerHasTransition, ExclusiveInv, WorkerHoldsKey, SoleWorker, Goto,
            Working, Waiting, Terminal, redisVars
<1>1. CASE StartTransition(a)
  <2>1. \A b \in Actors : pc[b] \notin Working
    BY <1>1 DEF StartTransition, Proceeds
  <2> QED  BY <1>1, <2>1 DEF StartTransition
<1>2. CASE StartNotFound(a) \/ StartWaits(a) \/ StartInvalid(a) \/ StartAlreadyDone(a)
           \/ StartFails(a) \/ (a = Evictor /\ EvictionRefused)
  BY <1>2 DEF StartNotFound, StartWaits, StartInvalid, StartAlreadyDone, StartFails,
     EvictionRefused, Calls, Proceeds
<1>3. CASE WaitEnds(a) \/ WaitMisreads(a) \/ WaitCancelled(a) \/ FinishAlreadyDone(a)
  BY <1>3 DEF WaitEnds, WaitMisreads, WaitCancelled, WaitOutcome, WaitError, FinishAlreadyDone
<1>4. CASE Work(a)
  <2>1. pc[a] = "work" /\ UNCHANGED <<tkey, trans>>
        /\ \E l \in {"remove", "restore", "result"} : pc' = [pc EXCEPT ![a] = l]
    BY <1>4 DEF Work
  <2> QED  BY <2>1
<1>5. CASE StoreRemove(a) \/ StoreRemoveFails(a) \/ RestoreToRunning(a) \/ RestoreFails(a)
           \/ SetResult(a) \/ SetResultFails(a)
  BY <1>5 DEF StoreRemove, StoreRemoveFails, RestoreToRunning, RestoreFails, SetResult,
     SetResultFails
<1>6. CASE DeleteKey(a) \/ DeleteKeyFails(a) \/ CallbackFails(a)
  <2>1. Completion(a) \notin Working /\ \A b \in Actors : WaitOutcome(b) \notin Working
    BY DEF Completion, WaitOutcome, WaitError
  <2> QED  BY <1>6, <2>1 DEF DeleteKey, DeleteKeyFails, CallbackFails
<1>7. CASE Request(a) \/ Crash(a)
  BY <1>7 DEF Request, Crash
<1> QED  BY <1>1, <1>2, <1>3, <1>4, <1>5, <1>6, <1>7 DEF HandlerStep, StartRemoving

\* ExclusiveInv always holds when no transition outlives its key.
LEMMA ExclusiveAlways == ASSUME ~SlowTransitions PROVE Spec => []ExclusiveInv
<1>1. Init => ExclusiveInv
  BY DEF Init, ExclusiveInv, WorkerHoldsKey, SoleWorker, Working
<1>2. TypeOK /\ WorkerHasTransition /\ ExclusiveInv /\ [Next]_vars => ExclusiveInv'
  <2> SUFFICES ASSUME TypeOK, WorkerHasTransition, ExclusiveInv, [Next]_vars
               PROVE  ExclusiveInv'
    OBVIOUS
  <2>1. ASSUME NEW a \in Actors, Request(a) \/ HandlerStep(a) \/ WaitCancelled(a) \/ Crash(a)
        PROVE  ExclusiveInv'
    BY <2>1, HandlerKeepsExclusive
  <2> USE DEF ExclusiveInv, WorkerHoldsKey, SoleWorker, Working
  <2>2. CASE Evict
    BY <2>2 DEF Evict, Goto, Terminal, TypeOK, Actors, redisVars
  <2>3. CASE KeyExpires
    BY <2>3 DEF KeyExpires, KeyPastTTL
  <2>4. CASE AddExecution \/ KeepAliveFor \/ \E e \in Execs : TimePasses(e)
    BY <2>4 DEF AddExecution, KeepAliveFor, TimePasses
  <2>5. CASE UNCHANGED vars
    BY <2>5 DEF vars, redisVars
  <2> QED  BY <2>1, <2>2, <2>3, <2>4, <2>5 DEF Next
<1> QED  BY <1>1, <1>2, TransitionTypeCorrect, PTL DEF Spec

\* When no transition outlives its key, no two handlers ever work on the sandbox
\* at once: not two requests, and not a request and the evictor.
THEOREM HandlersExclude ==
    ASSUME ~SlowTransitions
    PROVE  Spec => []SoleWorker
<1>1. ExclusiveInv => SoleWorker
  BY DEF ExclusiveInv
<1> QED  BY <1>1, ExclusiveAlways, PTL

-----------------------------------------------------------------------------
\* Which handlers restore the state and which remove the record: a handler at
\* the restore to Running runs a checkpoint, one at the removal does not.
RoutesByAction ==
    \A a \in Actors :
        /\ pc[a] = "restore" => act[a] = "snapshot"
        /\ pc[a] = "remove" => act[a] # "snapshot"

\* It holds at the start, and every step keeps it.
LEMMA RoutesKept ==
    /\ Init => RoutesByAction
    /\ TypeOK /\ RoutesByAction /\ [Next]_vars => RoutesByAction'
<1>1. Init => RoutesByAction
  BY DEF Init, RoutesByAction
<1>2. ASSUME TypeOK, RoutesByAction, [Next]_vars PROVE RoutesByAction'
  <2> USE <1>2 DEF TypeOK, RoutesByAction, Goto
  <2>1. ASSUME NEW a \in Actors, StartRemoving(a) \/ (a = Evictor /\ EvictionRefused)
        PROVE  RoutesByAction'
    BY <2>1 DEF StartRemoving, StartNotFound, StartWaits, StartInvalid, StartAlreadyDone,
       StartTransition, StartFails, EvictionRefused
  <2>2. ASSUME NEW a \in Actors, WaitEnds(a) \/ WaitMisreads(a) \/ WaitCancelled(a)
        PROVE  RoutesByAction'
    BY <2>2 DEF WaitEnds, WaitMisreads, WaitCancelled, WaitOutcome, WaitError
  <2>3. ASSUME NEW a \in Actors, Work(a) PROVE RoutesByAction'
    <3>1. PICK l \in {"remove", "restore", "result"} :
            /\ pc' = [pc EXCEPT ![a] = l]
            /\ l = "remove" <=> Expires(act[a])
            /\ UNCHANGED act
      BY <2>3 DEF Work
    <3> QED  BY <3>1 DEF Expires, Actions
  <2>4. ASSUME NEW a \in Actors,
               \/ StoreRemove(a) \/ StoreRemoveFails(a) \/ FinishAlreadyDone(a)
               \/ RestoreToRunning(a) \/ RestoreFails(a) \/ SetResult(a) \/ SetResultFails(a)
        PROVE  RoutesByAction'
    BY <2>4 DEF StoreRemove, StoreRemoveFails, FinishAlreadyDone, RestoreToRunning, RestoreFails,
       SetResult, SetResultFails
  <2>5. ASSUME NEW a \in Actors, DeleteKey(a) \/ DeleteKeyFails(a) \/ CallbackFails(a)
        PROVE  RoutesByAction'
    <3>1. /\ \A b \in Actors : b # a => act'[b] = act[b]
          /\ pc'[a] \in {"call", "failed", "ok"}
          /\ \A b \in Actors : b # a => pc'[b] = pc[b] \/ pc'[b] \in {"ok", "failed", "already", "call"}
      BY <2>5 DEF DeleteKey, DeleteKeyFails, CallbackFails, Completion, NextAction, WaitOutcome, WaitError
    <3> QED  BY <3>1
  <2>6. ASSUME NEW a \in Actors, Request(a) \/ Crash(a) PROVE RoutesByAction'
    BY <2>6 DEF Request, Crash
  <2>7. CASE Evict
    BY <2>7 DEF Evict, Terminal
  <2>8. CASE \/ AddExecution \/ KeepAliveFor \/ KeyExpires \/ UNCHANGED vars
             \/ \E e \in Execs : TimePasses(e)
    BY <2>8 DEF AddExecution, KeepAliveFor, KeyExpires, TimePasses, vars
  <2> QED  BY <2>1, <2>2, <2>3, <2>4, <2>5, <2>6, <2>7, <2>8 DEF Next, HandlerStep
<1> QED  BY <1>1, <1>2

\* The state of an execution only follows AllowedTransitions, in every
\* environment: a restore to Running that comes after its key has expired finds
\* the state of another transition and leaves it alone.
THEOREM TransitionsAreAllowed == Spec => OnlyAllowedTransitions
<1>1. TypeOK /\ RoutesByAction /\ [Next]_vars
      => (stored # 0 /\ stored' = stored /\ state' # state => state' \in AllowedTransitions[state])
  <2> SUFFICES ASSUME TypeOK, RoutesByAction, [Next]_vars,
                      stored # 0, stored' = stored, state' # state
               PROVE  state' \in AllowedTransitions[state]
    OBVIOUS
  <2>1. ASSUME NEW a \in Actors, HandlerStep(a) PROVE state' \in AllowedTransitions[state]
    <3>1. CASE StartTransition(a)
      BY <3>1 DEF StartTransition
    <3>2. CASE RestoreToRunning(a)
      <4>1. act[a] = "snapshot"
        BY <3>2 DEF RestoreToRunning, RoutesByAction
      <4>2. state = "snapshotting" /\ state' = "running"
        BY <3>2, <4>1 DEF RestoreToRunning, Restored, Target, TargetState
      <4> QED  BY <4>2 DEF AllowedTransitions
    <3>3. CASE ~StartTransition(a) /\ ~RestoreToRunning(a)
      BY <2>1, <3>3 DEF HandlerStep, StartRemoving, StartNotFound, StartWaits, StartInvalid,
         StartAlreadyDone, StartFails, EvictionRefused, WaitEnds, WaitMisreads, Work, StoreRemove,
         StoreRemoveFails, FinishAlreadyDone, RestoreFails, SetResult, SetResultFails, DeleteKey,
         DeleteKeyFails, CallbackFails, redisVars
    <3> QED  BY <3>1, <3>2, <3>3
  <2>2. ASSUME NEW a \in Actors, Request(a) \/ WaitCancelled(a) \/ Crash(a) PROVE FALSE
    BY <2>2 DEF Request, WaitCancelled, Crash, redisVars
  <2>3. CASE AddExecution
    BY <2>3 DEF AddExecution, TypeOK
  <2>4. CASE \/ Evict \/ KeepAliveFor \/ KeyExpires \/ UNCHANGED vars
             \/ \E e \in Execs : TimePasses(e)
    BY <2>4 DEF Evict, KeepAliveFor, KeyExpires, TimePasses, vars, redisVars
  <2> QED  BY <2>1, <2>2, <2>3, <2>4 DEF Next
<1>2. TypeOK /\ RoutesByAction /\ [Next]_vars => RoutesByAction'
  BY RoutesKept
<1>3. Init => RoutesByAction
  BY RoutesKept
<1> QED  BY <1>1, <1>2, <1>3, TransitionTypeCorrect, PTL DEF Spec, OnlyAllowedTransitions

-----------------------------------------------------------------------------
\* When no transition outlives its key, a request that joins a transition goes
\* on only after the transition's handler is through with its callback.
THEOREM JoinersWait == ASSUME ~SlowTransitions PROVE Spec => JoinWaitsForCompletion
<1>1. TypeOK /\ ExclusiveInv /\ [Next]_vars
      => \A a, b \in Actors :
           pc[a] = "join" /\ pc'[a] = "already" /\ trans[b] = trans[a] /\ faults' = 0
           => pc[b] \notin Working
  <2> SUFFICES ASSUME TypeOK, ExclusiveInv, [Next]_vars, NEW a \in Actors, NEW b \in Actors,
                      pc[a] = "join", pc'[a] = "already", trans[b] = trans[a], faults' = 0,
                      pc[b] \in Working
               PROVE  FALSE
    OBVIOUS
  <2>1. tkey = trans[a]
    BY DEF ExclusiveInv, WorkerHoldsKey
  <2>2. ~Fault
    BY DEF Fault, TypeOK
  <2>3. ASSUME NEW c \in Actors, HandlerStep(c) PROVE FALSE
    <3>1. CASE WaitEnds(c)
      BY <3>1, <2>1 DEF WaitEnds, Goto, TypeOK
    <3>2. CASE StartRemoving(c) \/ (c = Evictor /\ EvictionRefused)
      BY <3>2 DEF StartRemoving, StartNotFound, StartWaits, StartInvalid, StartAlreadyDone,
         StartTransition, StartFails, EvictionRefused, Calls, Proceeds, Goto, TypeOK
    <3>3. CASE Work(c)
      <4>1. pc[c] = "work" /\ \E l \in {"remove", "restore", "result"} : pc' = [pc EXCEPT ![c] = l]
        BY <3>3 DEF Work, Goto
      <4> QED  BY <4>1 DEF TypeOK
    <3>4. CASE \/ StoreRemove(c) \/ FinishAlreadyDone(c) \/ RestoreToRunning(c)
               \/ SetResult(c) \/ DeleteKey(c)
      BY <3>4 DEF StoreRemove, FinishAlreadyDone, RestoreToRunning, SetResult, DeleteKey, Goto, TypeOK
    <3>5. CASE \/ WaitMisreads(c) \/ StoreRemoveFails(c) \/ RestoreFails(c) \/ SetResultFails(c)
               \/ DeleteKeyFails(c) \/ CallbackFails(c)
      BY <3>5, <2>2 DEF WaitMisreads, StoreRemoveFails, RestoreFails, SetResultFails,
         DeleteKeyFails, CallbackFails
    <3> QED  BY <2>3, <3>1, <3>2, <3>3, <3>4, <3>5 DEF HandlerStep
  <2>4. ASSUME NEW c \in Actors, Request(c) \/ WaitCancelled(c) \/ Crash(c) PROVE FALSE
    BY <2>4, <2>2 DEF Request, WaitCancelled, Crash, Goto, TypeOK
  <2>5. CASE Evict
    BY <2>5 DEF Evict, Goto, TypeOK, Terminal, Actors
  <2>6. CASE \/ AddExecution \/ KeepAliveFor \/ KeyExpires \/ UNCHANGED vars
             \/ \E e \in Execs : TimePasses(e)
    BY <2>6 DEF AddExecution, KeepAliveFor, KeyExpires, TimePasses, vars
  <2> QED  BY <2>3, <2>4, <2>5, <2>6 DEF Next
<1> QED  BY <1>1, ExclusiveAlways, TransitionTypeCorrect, PTL DEF Spec, JoinWaitsForCompletion

-----------------------------------------------------------------------------
\* The handler at work removes the record it read: nobody else removes it, so
\* no new execution is stored before.  Nothing goes stale without outages.
OwnRecordInv ==
    /\ \A a \in Actors : pc[a] \in {"work", "remove"} => stored = seen[a]
    /\ \A a \in Actors : pc[a] \in {"work", "remove", "join", "already"} => seen[a] # 0
    /\ \A e \in Execs : end[e] # "stale"

\* Every step keeps it, when no transition outlives its key and no record stays
\* expired beyond StaleCutoff.
LEMMA OwnRecordStep ==
    ASSUME ~SlowTransitions, ~Outages, TypeOK, WorkerHasTransition, ExclusiveInv,
           OwnRecordInv, [Next]_vars
    PROVE  OwnRecordInv'
<1> USE DEF OwnRecordInv, TypeOK, Goto, Working
<1>1. ASSUME NEW a \in Actors, StartTransition(a) PROVE OwnRecordInv'
  <2>1. \A b \in Actors : pc[b] \notin Working
    BY <1>1 DEF StartTransition, Proceeds, ExclusiveInv, WorkerHoldsKey, WorkerHasTransition
  <2>2. end' \in [Execs -> {"future", "past"}]
    BY <1>1 DEF StartTransition
  <2>3. stored # 0 /\ UNCHANGED stored /\ pc' = [pc EXCEPT ![a] = "work"] /\ seen' = [seen EXCEPT ![a] = stored]
    BY <1>1 DEF StartTransition, Proceeds
  <2> QED  BY <2>1, <2>2, <2>3
<1>2. ASSUME NEW a \in Actors,
             \/ StartNotFound(a) \/ StartWaits(a) \/ StartInvalid(a) \/ StartAlreadyDone(a)
             \/ StartFails(a) \/ (a = Evictor /\ EvictionRefused)
      PROVE  OwnRecordInv'
  BY <1>2 DEF StartNotFound, StartWaits, StartInvalid, StartAlreadyDone, StartFails,
     EvictionRefused, Calls, Proceeds, redisVars
<1>3. ASSUME NEW a \in Actors, WaitEnds(a) \/ WaitMisreads(a) \/ WaitCancelled(a)
      PROVE  OwnRecordInv'
  BY <1>3 DEF WaitEnds, WaitMisreads, WaitCancelled, WaitOutcome, WaitError, redisVars
<1>4. ASSUME NEW a \in Actors, Work(a) PROVE OwnRecordInv'
  <2>1. /\ pc[a] = "work"
        /\ UNCHANGED <<stored, seen, end>>
        /\ \E l \in {"remove", "restore", "result"} : pc' = [pc EXCEPT ![a] = l]
    BY <1>4 DEF Work
  <2> QED  BY <2>1
<1>5. ASSUME NEW a \in Actors, StoreRemove(a) PROVE OwnRecordInv'
  <2>1. \A b \in Actors : pc[b] \in Working => b = a
    BY <1>5 DEF StoreRemove, ExclusiveInv, SoleWorker
  <2> QED  BY <1>5, <2>1 DEF StoreRemove
<1>6. ASSUME NEW a \in Actors, FinishAlreadyDone(a) PROVE OwnRecordInv'
  <2>1. seen[a] \in Execs
    BY <1>6 DEF FinishAlreadyDone, Execs
  <2>2. UNCHANGED stored
    BY <1>6, <2>1 DEF FinishAlreadyDone, DropsStale
  <2> QED  BY <1>6, <2>2 DEF FinishAlreadyDone
<1>7. ASSUME NEW a \in Actors,
             \/ StoreRemoveFails(a) \/ RestoreToRunning(a) \/ RestoreFails(a)
             \/ SetResult(a) \/ SetResultFails(a)
      PROVE  OwnRecordInv'
  BY <1>7 DEF StoreRemoveFails, RestoreToRunning, RestoreFails, SetResult, SetResultFails, redisVars
<1>8. ASSUME NEW a \in Actors, DeleteKey(a) \/ DeleteKeyFails(a) \/ CallbackFails(a)
      PROVE  OwnRecordInv'
  <2>1. Completion(a) \notin Working /\ \A b \in Actors : WaitOutcome(b) \notin Working
    BY DEF Completion, WaitOutcome, WaitError
  <2>2. Completion(a) # "already" /\ \A b \in Actors : WaitOutcome(b) = "already" => pc[b] = "join"
    BY DEF Completion, WaitOutcome, WaitError
  <2>3. \A b \in Actors : WaitOutcome(b) # "join" /\ Completion(a) # "join"
    BY DEF Completion, WaitOutcome, WaitError
  <2> QED  BY <1>8, <2>1, <2>2, <2>3 DEF DeleteKey, DeleteKeyFails, CallbackFails, redisVars
<1>9. ASSUME NEW a \in Actors, Request(a) \/ Crash(a) PROVE OwnRecordInv'
  BY <1>9 DEF Request, Crash, redisVars
<1>10. CASE Evict
  BY <1>10 DEF Evict, Actors, redisVars
<1>11. CASE AddExecution
  BY <1>11 DEF AddExecution
<1>12. CASE KeepAliveFor \/ KeyExpires \/ UNCHANGED vars \/ \E e \in Execs : TimePasses(e)
  BY <1>12 DEF KeepAliveFor, KeyExpires, TimePasses, vars, redisVars
<1> QED
  BY <1>1, <1>2, <1>3, <1>4, <1>5, <1>6, <1>7, <1>8, <1>9, <1>10, <1>11, <1>12
  DEF Next, HandlerStep, StartRemoving

\* When no transition outlives its key and no record stays expired beyond
\* StaleCutoff, a handler only ever removes the record of the execution it was
\* called for.  (After an outage two requests may both find a stale record and
\* the second of them drop the record of an execution started in between.)
THEOREM OwnRecordRemoved ==
    ASSUME ~SlowTransitions, ~Outages
    PROVE  Spec => RemovesOwnRecord
<1>1. Init => OwnRecordInv
  BY DEF Init, OwnRecordInv
<1>2. TypeOK /\ WorkerHasTransition /\ ExclusiveInv /\ OwnRecordInv /\ [Next]_vars => OwnRecordInv'
  BY OwnRecordStep
<1>3. TypeOK /\ OwnRecordInv /\ [Next]_vars
      => (stored # 0 /\ stored' = 0 =>
            \E a \in Actors : pc[a] \in {"remove", "already"} /\ pc'[a] # pc[a] /\ seen[a] = stored)
  <2> SUFFICES ASSUME TypeOK, OwnRecordInv, [Next]_vars, stored # 0, stored' = 0
               PROVE  \E a \in Actors : pc[a] \in {"remove", "already"} /\ pc'[a] # pc[a] /\ seen[a] = stored
    OBVIOUS
  <2>1. ASSUME NEW a \in Actors, StoreRemove(a)
        PROVE  pc[a] \in {"remove", "already"} /\ pc'[a] # pc[a] /\ seen[a] = stored
    BY <2>1 DEF StoreRemove, OwnRecordInv, Goto, TypeOK
  <2>2. ASSUME NEW a \in Actors, FinishAlreadyDone(a) PROVE FALSE
    <3>1. seen[a] \in Execs
      BY <2>2 DEF FinishAlreadyDone, OwnRecordInv, TypeOK, Execs
    <3> QED  BY <2>2, <3>1 DEF FinishAlreadyDone, DropsStale, OwnRecordInv
  <2>3. ASSUME NEW a \in Actors, HandlerStep(a), ~StoreRemove(a), ~FinishAlreadyDone(a) PROVE FALSE
    BY <2>3 DEF HandlerStep, StartRemoving, StartNotFound, StartWaits, StartInvalid, StartAlreadyDone,
       StartTransition, StartFails, EvictionRefused, WaitEnds, WaitMisreads, Work, StoreRemoveFails,
       RestoreToRunning, RestoreFails, SetResult, SetResultFails, DeleteKey, DeleteKeyFails,
       CallbackFails, redisVars
  <2>4. ASSUME NEW a \in Actors, Request(a) \/ WaitCancelled(a) \/ Crash(a) PROVE FALSE
    BY <2>4 DEF Request, WaitCancelled, Crash, redisVars
  <2>5. CASE \/ Evict \/ AddExecution \/ KeepAliveFor \/ KeyExpires \/ UNCHANGED vars
             \/ \E e \in Execs : TimePasses(e)
    BY <2>5 DEF Evict, AddExecution, KeepAliveFor, KeyExpires, TimePasses, vars, redisVars
  <2> QED  BY <2>1, <2>2, <2>3, <2>4, <2>5 DEF Next
<1> QED  BY <1>1, <1>2, <1>3, ExclusiveAlways, TransitionTypeCorrect, PTL DEF Spec, RemovesOwnRecord

-----------------------------------------------------------------------------
\* What a pause leaves behind.  The numbers of executions and transitions only
\* grow, so a record, a key or a handler never names one that is still to come.
Numbered ==
    /\ stored <= lastExec
    /\ tkey <= lastTrans
    /\ \A a \in Actors :
        /\ seen[a] <= lastExec /\ trans[a] <= lastTrans
        /\ pc[a] \in Working \cup {"join", "already", "ok"} => seen[a] # 0

\* As long as nothing fails, the transition key has a handler at work ...
KeyHasWorker ==
    tkey # 0 => \E b \in Actors : pc[b] \in Working /\ trans[b] = tkey

\* ... which is the one that put the record in its state, unless the record is
\* gone already or that of a new execution ...
StateIsWorkers ==
    \A b \in Actors : pc[b] \in Working =>
        \/ stored = 0
        \/ state = "running"
        \/ /\ state = Target(b)
           /\ stored = seen[b]
           /\ Expires(act[b]) => pc[b] \in {"work", "remove"}

\* ... and which leaves no record in a state of removal behind.
NothingLeftPausing ==
    stored # 0 /\ tkey = 0 => state \in {"running", "snapshotting"}

\* A pause whose work met no error has left a snapshot; an error is published
\* before the key is deleted.
PauseLeavesSnapshot ==
    \A b \in Actors : act[b] = "pause" =>
        /\ pc[b] \in Working => err[b] # "restore"
        /\ pc[b] \in {"remove", "result", "del"} /\ err[b] = "no" => vm[seen[b]] = "paused"
        /\ pc[b] = "del" /\ err[b] = "work" => trans[b] \in failed
        /\ pc[b] \in {"already", "ok"} => vm[seen[b]] = "paused"

\* A pause that joined a pause waits for its handler, or finds its error or its
\* snapshot.
JoinerFollows ==
    \A a \in Actors : act[a] = "pause" /\ pc[a] = "join" =>
        \/ \E b \in Actors : /\ pc[b] \in Working
                             /\ trans[b] = trans[a]
                             /\ act[b] = "pause"
                             /\ seen[b] = seen[a]
        \/ trans[a] \in failed
        \/ vm[seen[a]] = "paused"

PauseInv ==
    faults = 0 =>
        KeyHasWorker /\ StateIsWorkers /\ NothingLeftPausing /\ PauseLeavesSnapshot /\ JoinerFollows

\* The numbers only grow.
LEMMA NumbersGrow ==
    /\ Init => Numbered
    /\ TypeOK /\ Numbered /\ [Next]_vars => Numbered' /\ lastExec <= lastExec' /\ faults <= faults'
<1>1. Init => Numbered
  BY ConstantsAssumption DEF Init, Numbered, Working
<1>2. ASSUME TypeOK, Numbered, [Next]_vars
      PROVE  Numbered' /\ lastExec <= lastExec' /\ faults <= faults'
  <2> USE <1>2 DEF TypeOK, Numbered, Goto, Fault, Working, Waiting, Terminal
  <2>1. ASSUME NEW a \in Actors, StartRemoving(a) \/ (a = Evictor /\ EvictionRefused)
        PROVE  Numbered' /\ lastExec <= lastExec' /\ faults <= faults'
    BY <2>1 DEF StartRemoving, StartNotFound, StartWaits, StartInvalid, StartAlreadyDone,
       StartTransition, StartFails, EvictionRefused, Calls, Proceeds, redisVars
  <2>2. ASSUME NEW a \in Actors, HandlerStep(a), ~StartRemoving(a), ~(a = Evictor /\ EvictionRefused)
        PROVE  Numbered' /\ lastExec <= lastExec' /\ faults <= faults'
    <3>1. /\ stored' \in {0, stored} /\ tkey' \in {0, tkey}
          /\ UNCHANGED <<seen, trans, lastExec, lastTrans>>
          /\ faults' = faults \/ faults' = faults + 1
      BY <2>2 DEF HandlerStep, WaitEnds, WaitMisreads, Work, StoreRemove, StoreRemoveFails,
         FinishAlreadyDone, RestoreToRunning, RestoreFails, SetResult, SetResultFails, DeleteKey,
         DeleteKeyFails, CallbackFails, redisVars
    <3>2. \A b \in Actors : pc'[b] \in Working \cup {"join", "already", "ok"}
                           => pc[b] \in Working \cup {"join", "already", "ok"}
      <4>1. CASE Work(a)
        BY <4>1 DEF Work
      <4>2. CASE ~Work(a)
        BY <2>2, <4>2 DEF HandlerStep, WaitEnds, WaitMisreads, StoreRemove, StoreRemoveFails,
           FinishAlreadyDone, RestoreToRunning, RestoreFails, SetResult, SetResultFails, DeleteKey,
           DeleteKeyFails, CallbackFails, WaitOutcome, WaitError, Completion
      <4> QED  BY <4>1, <4>2
    <3> QED  BY <3>1, <3>2
  <2>3. ASSUME NEW a \in Actors, Request(a) \/ WaitCancelled(a) \/ Crash(a)
        PROVE  Numbered' /\ lastExec <= lastExec' /\ faults <= faults'
    BY <2>3 DEF Request, WaitCancelled, Crash, redisVars
  <2>4. CASE \/ Evict \/ AddExecution \/ KeepAliveFor \/ KeyExpires \/ UNCHANGED vars
             \/ \E e \in Execs : TimePasses(e)
    BY <2>4 DEF Evict, AddExecution, KeepAliveFor, KeyExpires, TimePasses, vars, redisVars
  <2> QED  BY <2>1, <2>2, <2>3, <2>4 DEF Next
<1> QED  BY <1>1, <1>2

\* The start of a transition, and every other answer of StartRemoving.
LEMMA StartKeepsPause ==
    ASSUME TypeOK, WorkerHasTransition, ExclusiveInv, RoutesByAction, Numbered, PauseInv,
           NEW a \in Actors, StartRemoving(a) \/ (a = Evictor /\ EvictionRefused),
           faults = 0, faults' = 0
    PROVE  PauseInv'
<1> USE DEF TypeOK, Goto, Working, Waiting, Terminal, redisVars
<1>i. KeyHasWorker /\ StateIsWorkers /\ NothingLeftPausing /\ PauseLeavesSnapshot /\ JoinerFollows
  BY DEF PauseInv
<1>1. CASE StartTransition(a)
  <2>1. \A b \in Actors : pc[b] \notin Working
    BY <1>1 DEF StartTransition, Proceeds, ExclusiveInv, WorkerHoldsKey, WorkerHasTransition
  <2>2. /\ pc[a] = "call" /\ pc' = [pc EXCEPT ![a] = "work"]
        /\ trans' = [trans EXCEPT ![a] = lastTrans + 1]
        /\ seen' = [seen EXCEPT ![a] = stored]
        /\ err' = [err EXCEPT ![a] = "no"]
        /\ tkey' = lastTrans + 1
        /\ state' = Target(a)
        /\ UNCHANGED <<stored, act, vm, failed>>
    BY <1>1 DEF StartTransition, Proceeds, Calls
  <2>3. tkey' # 0
    BY <2>2
  <2>4. KeyHasWorker' /\ NothingLeftPausing'
    BY <2>2, <2>3 DEF KeyHasWorker, NothingLeftPausing
  <2>5. StateIsWorkers'
    BY <2>1, <2>2 DEF StateIsWorkers, Target
  <2>6. PauseLeavesSnapshot'
    BY <1>i, <2>1, <2>2 DEF PauseLeavesSnapshot
  <2>7. JoinerFollows'
    BY <1>i, <2>1, <2>2 DEF JoinerFollows
  <2> QED  BY <2>4, <2>5, <2>6, <2>7 DEF PauseInv
<1>2. CASE StartWaits(a)
  <2>1. /\ pc[a] = "call" /\ \E l \in {"join", "await"} : pc' = [pc EXCEPT ![a] = l] /\ (l = "join" => state = Target(a))
        /\ trans' = [trans EXCEPT ![a] = tkey]
        /\ seen' = [seen EXCEPT ![a] = stored]
        /\ stored # 0 /\ tkey # 0
        /\ UNCHANGED <<stored, state, tkey, act, vm, failed, err>>
    BY <1>2 DEF StartWaits, Calls
  <2>2. PICK w \in Actors : pc[w] \in Working /\ trans[w] = tkey
    BY <1>i, <2>1 DEF KeyHasWorker
  <2>3. w # a
    BY <2>1, <2>2
  <2>4. act[a] = "pause" /\ state = Target(a) => act[w] = "pause" /\ seen[w] = stored
    BY <1>i, <2>1, <2>2 DEF StateIsWorkers, Target, TargetState, Actions
  <2>5. KeyHasWorker'
    BY <2>1, <2>2, <2>3 DEF KeyHasWorker
  <2>6. StateIsWorkers' /\ NothingLeftPausing'
    BY <1>i, <2>1 DEF StateIsWorkers, NothingLeftPausing, Target
  <2>7. PauseLeavesSnapshot'
    BY <1>i, <2>1 DEF PauseLeavesSnapshot
  <2>8. JoinerFollows'
    <3> SUFFICES ASSUME NEW j \in Actors, act[j] = "pause", pc'[j] = "join"
                 PROVE  \/ \E b \in Actors : /\ pc'[b] \in Working
                                             /\ trans'[b] = trans'[j]
                                             /\ act[b] = "pause"
                                             /\ seen'[b] = seen'[j]
                        \/ trans'[j] \in failed
                        \/ vm[seen'[j]] = "paused"
      BY <2>1 DEF JoinerFollows
    <3>1. CASE j = a
      BY <2>1, <2>2, <2>3, <2>4, <3>1
    <3>2. CASE j # a
      BY <1>i, <2>1, <3>2 DEF JoinerFollows
    <3> QED  BY <3>1, <3>2
  <2> QED  BY <2>5, <2>6, <2>7, <2>8 DEF PauseInv
<1>3. CASE StartAlreadyDone(a)
  <2>1. /\ pc[a] = "call" /\ pc' = [pc EXCEPT ![a] = "already"]
        /\ seen' = [seen EXCEPT ![a] = stored]
        /\ stored # 0 /\ tkey = 0 /\ state = Target(a)
        /\ UNCHANGED <<stored, state, tkey, act, vm, failed, err, trans>>
    BY <1>3 DEF StartAlreadyDone, Proceeds, Calls
  <2>2. act[a] # "pause"
    BY <1>i, <2>1 DEF NothingLeftPausing, Target, TargetState
  <2>3. KeyHasWorker' /\ StateIsWorkers' /\ NothingLeftPausing'
    BY <1>i, <2>1 DEF KeyHasWorker, StateIsWorkers, NothingLeftPausing, Target
  <2>4. PauseLeavesSnapshot' /\ JoinerFollows'
    BY <1>i, <2>1, <2>2 DEF PauseLeavesSnapshot, JoinerFollows
  <2> QED  BY <2>3, <2>4 DEF PauseInv
<1>4. CASE StartNotFound(a) \/ StartInvalid(a) \/ (a = Evictor /\ EvictionRefused)
  <2>1. /\ pc[a] = "call" /\ \E l \in {"notfound", "refused", "failed"} : pc' = [pc EXCEPT ![a] = l]
        /\ UNCHANGED <<redisVars, act, seen, trans, err>>
    BY <1>4 DEF StartNotFound, StartInvalid, EvictionRefused, Calls, Proceeds
  <2>2. KeyHasWorker' /\ StateIsWorkers' /\ NothingLeftPausing'
    BY <1>i, <2>1 DEF KeyHasWorker, StateIsWorkers, NothingLeftPausing, Target
  <2>3. PauseLeavesSnapshot' /\ JoinerFollows'
    BY <1>i, <2>1 DEF PauseLeavesSnapshot, JoinerFollows
  <2> QED  BY <2>2, <2>3 DEF PauseInv
<1>5. ~StartFails(a)
  BY DEF StartFails, Fault
<1> QED  BY <1>1, <1>2, <1>3, <1>4, <1>5 DEF StartRemoving

\* The waits, the work on the node and the removal of the record.
LEMMA WorkKeepsPause ==
    ASSUME TypeOK, WorkerHasTransition, ExclusiveInv, RoutesByAction, Numbered, PauseInv,
           NEW a \in Actors,
           \/ WaitEnds(a) \/ WaitMisreads(a) \/ WaitCancelled(a)
           \/ Work(a) \/ StoreRemove(a) \/ StoreRemoveFails(a) \/ FinishAlreadyDone(a),
           faults = 0, faults' = 0
    PROVE  PauseInv'
<1> USE DEF TypeOK, Goto, Working, Waiting, Terminal, redisVars
<1>i. KeyHasWorker /\ StateIsWorkers /\ NothingLeftPausing /\ PauseLeavesSnapshot /\ JoinerFollows
  BY DEF PauseInv
<1>f. ~Fault
  BY DEF Fault
<1>1. CASE WaitEnds(a) \/ WaitCancelled(a)
  <2>1. /\ pc[a] \in Waiting /\ \E l \in {"call", "already", "ok", "failed"} : pc' = [pc EXCEPT ![a] = l]
        /\ UNCHANGED <<redisVars, act, seen, trans, err>>
    BY <1>1 DEF WaitEnds, WaitCancelled, WaitOutcome, WaitError
  <2>2. KeyHasWorker' /\ StateIsWorkers' /\ NothingLeftPausing'
    BY <1>i, <2>1 DEF KeyHasWorker, StateIsWorkers, NothingLeftPausing, Target
  <2>3. act[a] = "pause" /\ pc'[a] \in {"already", "ok"} => vm[seen[a]] = "paused"
    <3> SUFFICES ASSUME act[a] = "pause", pc'[a] \in {"already", "ok"} PROVE vm[seen[a]] = "paused"
      OBVIOUS
    <3>1. WaitEnds(a) /\ pc[a] = "join" /\ trans[a] \notin failed /\ tkey # trans[a]
      BY <1>1 DEF WaitEnds, WaitCancelled, WaitOutcome, WaitError
    <3>2. \A b \in Actors : pc[b] \in Working => trans[b] # trans[a]
      BY <3>1 DEF ExclusiveInv, WorkerHoldsKey
    <3> QED  BY <1>i, <3>1, <3>2 DEF JoinerFollows
  <2>4. PauseLeavesSnapshot'
    BY <1>i, <2>1, <2>3 DEF PauseLeavesSnapshot
  <2>5. JoinerFollows'
    BY <1>i, <2>1 DEF JoinerFollows
  <2> QED  BY <2>2, <2>4, <2>5 DEF PauseInv
<1>2. CASE Work(a)
  <2>1. PICK e \in {"no", "work"} :
          /\ err' = [err EXCEPT ![a] = e]
          /\ IF vm[seen[a]] = "running"
             THEN \E v \in NodeOutcomes(act[a])[e] : vm' = [vm EXCEPT ![seen[a]] = v]
             ELSE UNCHANGED vm /\ (e = "work" \/ act[a] # "pause")
          /\ pc' = [pc EXCEPT ![a] = IF Expires(act[a]) THEN "remove" ELSE IF e = "no" THEN "restore" ELSE "result"]
    BY <1>2 DEF Work
  <2>2. pc[a] = "work" /\ UNCHANGED <<stored, state, tkey, failed, act, seen, trans>>
    BY <1>2 DEF Work
  <2>3. KeyHasWorker' /\ NothingLeftPausing'
    BY <1>i, <2>1, <2>2 DEF KeyHasWorker, NothingLeftPausing
  <2>4. StateIsWorkers'
    BY <1>i, <2>1, <2>2 DEF StateIsWorkers, Target
  <2>9. \A b \in Actors : pc[b] \in Working \cup {"join", "already", "ok"} => seen[b] \in Execs
    BY DEF Numbered, Execs
  <2>5. \A x \in Execs : vm[x] = "paused" => vm'[x] = "paused"
    BY <2>1
  <2>6. act[a] = "pause" /\ e = "no" => vm'[seen[a]] = "paused"
    <3> SUFFICES ASSUME act[a] = "pause", e = "no" PROVE vm'[seen[a]] = "paused"
      OBVIOUS
    <3>1. NodeOutcomes("pause")["no"] = {"paused"}
      BY DEF NodeOutcomes
    <3>2. vm[seen[a]] = "running" /\ vm' = [vm EXCEPT ![seen[a]] = "paused"]
      BY <2>1, <3>1
    <3> QED  BY <2>2, <2>9, <3>2
  <2>7. PauseLeavesSnapshot'
    BY <1>i, <2>1, <2>2, <2>5, <2>6, <2>9 DEF PauseLeavesSnapshot
  <2>8. JoinerFollows'
    BY <1>i, <2>1, <2>2, <2>5, <2>9 DEF JoinerFollows
  <2> QED  BY <2>3, <2>4, <2>7, <2>8 DEF PauseInv
<1>3. CASE StoreRemove(a)
  <2>1. /\ pc[a] = "remove" /\ pc' = [pc EXCEPT ![a] = "result"]
        /\ stored' = 0
        /\ UNCHANGED <<state, vm, tkey, failed, act, seen, trans, err>>
    BY <1>3 DEF StoreRemove
  <2>2. KeyHasWorker' /\ StateIsWorkers' /\ NothingLeftPausing'
    BY <1>i, <2>1 DEF KeyHasWorker, StateIsWorkers, NothingLeftPausing
  <2>3. PauseLeavesSnapshot'
    BY <1>i, <2>1 DEF PauseLeavesSnapshot
  <2>4. JoinerFollows'
    BY <1>i, <2>1 DEF JoinerFollows
  <2> QED  BY <2>2, <2>3, <2>4 DEF PauseInv
<1>4. CASE FinishAlreadyDone(a)
  <2>1. /\ pc[a] = "already" /\ \E l \in {"ok", "refused"} : pc' = [pc EXCEPT ![a] = l]
        /\ stored' \in {0, stored}
        /\ UNCHANGED <<state, vm, tkey, failed, act, seen, trans, err>>
    BY <1>4 DEF FinishAlreadyDone
  <2>2. KeyHasWorker' /\ NothingLeftPausing'
    BY <1>i, <2>1 DEF KeyHasWorker, NothingLeftPausing
  <2>3. StateIsWorkers'
    BY <1>i, <2>1 DEF StateIsWorkers, Target
  <2>4. PauseLeavesSnapshot'
    BY <1>i, <2>1 DEF PauseLeavesSnapshot
  <2>5. JoinerFollows'
    BY <1>i, <2>1 DEF JoinerFollows
  <2> QED  BY <2>2, <2>3, <2>4, <2>5 DEF PauseInv
<1>5. CASE WaitMisreads(a) \/ StoreRemoveFails(a)
  BY <1>5, <1>f DEF WaitMisreads, StoreRemoveFails
<1> QED  BY <1>1, <1>2, <1>3, <1>4, <1>5

\* The callback of the transition.
LEMMA CallbackKeepsPause ==
    ASSUME TypeOK, WorkerHasTransition, ExclusiveInv, RoutesByAction, Numbered, PauseInv,
           NEW a \in Actors,
           \/ RestoreToRunning(a) \/ RestoreFails(a) \/ SetResult(a) \/ SetResultFails(a)
           \/ DeleteKey(a) \/ DeleteKeyFails(a) \/ CallbackFails(a),
           faults = 0, faults' = 0
    PROVE  PauseInv'
<1> USE DEF TypeOK, Goto, Working, Waiting, Terminal, redisVars
<1>i. KeyHasWorker /\ StateIsWorkers /\ NothingLeftPausing /\ PauseLeavesSnapshot /\ JoinerFollows
  BY DEF PauseInv
<1>f. ~Fault
  BY DEF Fault
<1>s. \A b \in Actors : pc[b] \in Working => b = a \/ pc[a] \notin Working
  BY DEF ExclusiveInv, SoleWorker
<1>1. CASE RestoreToRunning(a)
  <2>1. /\ pc[a] = "restore" /\ pc' = [pc EXCEPT ![a] = "result"]
        /\ \E e \in {"no", "restore"} : err' = [err EXCEPT ![a] = e]
        /\ state' \in {"running", state}
        /\ UNCHANGED <<stored, vm, tkey, failed, act, seen, trans>>
    BY <1>1 DEF RestoreToRunning, Restored
  <2>2. act[a] = "snapshot"
    BY <2>1 DEF RoutesByAction
  <2>3. KeyHasWorker' /\ NothingLeftPausing'
    BY <1>i, <2>1 DEF KeyHasWorker, NothingLeftPausing
  <2>4. StateIsWorkers'
    BY <1>i, <1>s, <2>1, <2>2 DEF StateIsWorkers, Target, Expires
  <2>5. PauseLeavesSnapshot'
    BY <1>i, <2>1, <2>2 DEF PauseLeavesSnapshot
  <2>6. JoinerFollows'
    BY <1>i, <2>1, <2>2 DEF JoinerFollows
  <2> QED  BY <2>3, <2>4, <2>5, <2>6 DEF PauseInv
<1>2. CASE SetResult(a)
  <2>1. /\ pc[a] = "result" /\ pc' = [pc EXCEPT ![a] = "del"]
        /\ failed' = IF ReportsError(a) THEN failed \cup {trans[a]} ELSE failed
        /\ UNCHANGED <<stored, state, vm, tkey, act, seen, trans, err>>
    BY <1>2 DEF SetResult
  <2>2. KeyHasWorker' /\ NothingLeftPausing'
    BY <1>i, <2>1 DEF KeyHasWorker, NothingLeftPausing
  <2>3. StateIsWorkers'
    BY <1>i, <2>1 DEF StateIsWorkers, Target
  <2>4. PauseLeavesSnapshot'
    BY <1>i, <2>1 DEF PauseLeavesSnapshot, ReportsError, Expires
  <2>5. JoinerFollows'
    BY <1>i, <2>1 DEF JoinerFollows
  <2> QED  BY <2>2, <2>3, <2>4, <2>5 DEF PauseInv
<1>3. CASE DeleteKey(a)
  <2>1. /\ pc[a] = "del" /\ pc' = [pc EXCEPT ![a] = Completion(a)]
        /\ tkey' = 0
        /\ act' = NextAction(a)
        /\ UNCHANGED <<stored, state, vm, failed, seen, trans, err>>
    BY <1>3 DEF DeleteKey
  <2>2. /\ Completion(a) \in {"call", "failed", "ok"}
        /\ Completion(a) = "ok" => err[a] # "work"
        /\ act' \in [Actors -> Actions]
        /\ \A b \in Actors : act'[b] = "pause" => act[b] = "pause"
        /\ \A b \in Actors : act[b] = "pause" => act'[b] = "pause"
        /\ \A b \in Actors : b # a => act'[b] = act[b]
    BY <2>1 DEF Completion, NextAction, KillsNext, Actions
  <2>3. \A b \in Actors : pc'[b] \notin Working
    BY <1>s, <2>1, <2>2
  <2>4. KeyHasWorker' /\ StateIsWorkers'
    BY <2>1, <2>3 DEF KeyHasWorker, StateIsWorkers
  <2>5. NothingLeftPausing'
    BY <1>i, <2>1 DEF StateIsWorkers, NothingLeftPausing, Expires, Target, TargetState, Actions
  <2>6. PauseLeavesSnapshot'
    BY <1>i, <2>1, <2>2, <2>3 DEF PauseLeavesSnapshot
  <2>7. JoinerFollows'
    <3> SUFFICES ASSUME NEW j \in Actors, act[j] = "pause", pc[j] = "join"
                 PROVE  trans[j] \in failed \/ vm[seen[j]] = "paused"
      BY <2>1, <2>2 DEF JoinerFollows
    <3>1. CASE act[a] = "pause" /\ trans[a] = trans[j] /\ seen[a] = seen[j]
      BY <1>i, <2>1, <3>1 DEF PauseLeavesSnapshot
    <3> QED  BY <1>i, <1>s, <2>1, <3>1 DEF JoinerFollows
  <2> QED  BY <2>4, <2>5, <2>6, <2>7 DEF PauseInv
<1>4. CASE RestoreFails(a) \/ SetResultFails(a) \/ DeleteKeyFails(a) \/ CallbackFails(a)
  BY <1>4, <1>f DEF RestoreFails, SetResultFails, DeleteKeyFails, CallbackFails
<1> QED  BY <1>1, <1>2, <1>3, <1>4

\* Clients, the evictor, time, new executions.
LEMMA OthersKeepPause ==
    ASSUME ~SlowTransitions, TypeOK, WorkerHasTransition, ExclusiveInv, Numbered, PauseInv,
           \/ \E a \in Actors : Request(a) \/ Crash(a)
           \/ Evict \/ AddExecution \/ KeepAliveFor \/ KeyExpires \/ UNCHANGED vars
           \/ \E e \in Execs : TimePasses(e),
           faults = 0, faults' = 0
    PROVE  PauseInv'
<1> USE DEF TypeOK, Goto, Working, Waiting, Terminal, redisVars
<1>i. KeyHasWorker /\ StateIsWorkers /\ NothingLeftPausing /\ PauseLeavesSnapshot /\ JoinerFollows
  BY DEF PauseInv
<1>1. ASSUME NEW a \in Actors, Request(a) \/ (a = Evictor /\ Evict) PROVE PauseInv'
  <2>1. /\ pc[a] \in {"idle"} \cup Terminal /\ pc' = [pc EXCEPT ![a] = "call"]
        /\ \E x \in Actions : act' = [act EXCEPT ![a] = x]
        /\ UNCHANGED <<redisVars, seen, trans, err>>
    BY <1>1 DEF Request, Evict, Actions
  <2>2. KeyHasWorker' /\ NothingLeftPausing'
    BY <1>i, <2>1 DEF KeyHasWorker, NothingLeftPausing
  <2>3. StateIsWorkers'
    BY <1>i, <2>1 DEF StateIsWorkers, Target
  <2>4. PauseLeavesSnapshot'
    BY <1>i, <2>1 DEF PauseLeavesSnapshot
  <2>5. JoinerFollows'
    BY <1>i, <2>1 DEF JoinerFollows
  <2> QED  BY <2>2, <2>3, <2>4, <2>5 DEF PauseInv
<1>2. CASE AddExecution
  <2>1. /\ stored = 0 /\ stored' = lastExec + 1 /\ state' = "running"
        /\ vm' = [vm EXCEPT ![lastExec + 1] = "running"]
        /\ UNCHANGED <<tkey, failed, pc, act, seen, trans, err>>
    BY <1>2 DEF AddExecution
  <2>2. KeyHasWorker' /\ StateIsWorkers' /\ NothingLeftPausing'
    BY <1>i, <2>1 DEF KeyHasWorker, StateIsWorkers, NothingLeftPausing
  <2>3. \A b \in Actors : pc[b] \in Working \cup {"join", "already", "ok"} =>
            seen[b] \in Execs /\ seen[b] # lastExec + 1
    BY DEF Numbered, Execs
  <2>4. PauseLeavesSnapshot'
    BY <1>i, <2>1, <2>3 DEF PauseLeavesSnapshot
  <2>5. JoinerFollows'
    BY <1>i, <2>1, <2>3 DEF JoinerFollows
  <2> QED  BY <2>2, <2>4, <2>5 DEF PauseInv
<1>3. CASE KeyExpires
  <2>1. \A b \in Actors : pc[b] \in Working => trans[b] # tkey
    BY <1>3 DEF KeyExpires, KeyPastTTL
  <2> QED  BY <1>i, <1>3, <2>1 DEF KeyExpires, KeyPastTTL, KeyHasWorker
<1>4. CASE KeepAliveFor \/ UNCHANGED vars \/ \E e \in Execs : TimePasses(e)
  <2>1. UNCHANGED <<stored, state, vm, tkey, failed, pc, act, seen, trans, err>>
    BY <1>4 DEF KeepAliveFor, TimePasses, vars
  <2>2. KeyHasWorker' /\ NothingLeftPausing'
    BY <1>i, <2>1 DEF KeyHasWorker, NothingLeftPausing
  <2>3. StateIsWorkers'
    BY <1>i, <2>1 DEF StateIsWorkers, Target
  <2>4. PauseLeavesSnapshot'
    BY <1>i, <2>1 DEF PauseLeavesSnapshot
  <2>5. JoinerFollows'
    BY <1>i, <2>1 DEF JoinerFollows
  <2> QED  BY <2>2, <2>3, <2>4, <2>5 DEF PauseInv
<1>5. ASSUME NEW a \in Actors, Crash(a) PROVE PauseInv'
  BY <1>5 DEF Crash, Fault
<1> QED  BY <1>1, <1>2, <1>3, <1>4, <1>5 DEF Actors

\* A pause that is acknowledged, by the handler that did it or by one that
\* joined it, has left a snapshot, as long as nothing failed and no transition
\* outlives its key.
THEOREM AcknowledgedPauses ==
    ASSUME ~SlowTransitions
    PROVE  Spec => []PauseAckedMeansPaused
<1>1. Init => PauseInv
  BY DEF Init, PauseInv, KeyHasWorker, StateIsWorkers, NothingLeftPausing, PauseLeavesSnapshot,
         JoinerFollows, Working
<1>2. TypeOK /\ WorkerHasTransition /\ ExclusiveInv /\ RoutesByAction /\ Numbered /\ PauseInv
      /\ [Next]_vars => PauseInv'
  <2> SUFFICES ASSUME TypeOK, WorkerHasTransition, ExclusiveInv, RoutesByAction, Numbered,
                      PauseInv, [Next]_vars, faults' = 0
               PROVE  PauseInv'
    BY DEF PauseInv
  <2>1. faults = 0
    BY NumbersGrow DEF TypeOK
  <2> QED
    BY <2>1, StartKeepsPause, WorkKeepsPause, CallbackKeepsPause, OthersKeepPause DEF Next, HandlerStep
<1>3. TypeOK /\ WorkerHasTransition /\ RoutesByAction /\ Numbered /\ [Next]_vars
      => RoutesByAction' /\ Numbered'
  BY RoutesKept, NumbersGrow
<1>4. Init => RoutesByAction /\ Numbered
  BY RoutesKept, NumbersGrow
<1>5. PauseInv => PauseAckedMeansPaused
  BY DEF PauseInv, PauseLeavesSnapshot, PauseAckedMeansPaused, Actors
<1> QED
  BY <1>1, <1>2, <1>3, <1>4, <1>5, ExclusiveAlways, TransitionTypeCorrect, PTL DEF Spec
=============================================================================
