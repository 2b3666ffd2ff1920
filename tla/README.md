# Sandbox orchestration of E2B infrastructure: TLA+ models and proofs

The repository runs sandboxes (Firecracker VMs) for teams. Several instances of
the API serve clients; they share their state through Redis only. Orchestrators
on the nodes run the VMs, a proxy routes traffic to them. Mistakes are hardest to
see in two places. One is the API's distributed control of a sandbox's life:
start, join a start, resume, keep alive, pause, kill, checkpoint, evict, clean
up, reconcile with the nodes, each a handler of several Redis calls that any
other handler, on any instance, may interleave with, and that a crash may cut off
between two calls. The other is the orchestrator on a node, where goroutines of
several lifecycles of one sandbox share a map and a pool of network slots, and a
shutdown may start at any moment. This project models both, and the limiters that
both sides share, model-checks them and proves their central invariants.

Paths below are relative to `src/packages/api/internal` unless they start with
`packages/`.

## 1. Inventory

| Component | State it keeps | Operations | What is hard | What makes it correct |
| --- | --- | --- | --- | --- |
| Start reservations (`sandbox/reservations/redis`) | team's pending zset, a result key per sandbox ID | `Reserve`, `finishStart`, `Release`, `waitForStart` | scripts are atomic, sequences of them are not; lost wakeups; creators that die or are slow | team's limit; one start per ID; joiners get the real outcome and always get one |
| State transitions (`sandbox/storage/redis/state_change.go`) | sandbox record, transition key with TTL, result key | `StartRemoving`, its callback, `waitForTransition` | callback outside the record's lock; key TTL; crash between any two calls; joiners | one handler at work; allowed state changes only; acknowledged means done; nobody waits for ever |
| Storage and expiration index (`operations.go`, `items.go`, `heal.go`) | record, team set, global expiration zset, global teams set | `Add`, `Update`, `Remove`, `ExpiredItems`, heal passes | record and zset are in different shards and written in two calls; `Add` takes no lock | a stored sandbox is indexed; expired ones go away; live ones are not evicted |
| Evictor (`orchestrator/evictor`) | `activeEvictions`, concurrency limiter, `wg` | tick: `ExpiredItems`, then a goroutine for each removal; refresh of the limit; shutdown | acts on data that is out of date; ticks overlap with removals that fail or hang | one removal of a sandbox at a time, no entry that is never deleted, starts within the limit, nothing left at shutdown |
| Limiters (`packages/shared/pkg/utils/resizable_semaphore.go`, `packages/shared/pkg/connlimit`) | units in use and limit under a mutex with a condition variable; a counter per key | `Acquire`, `TryAcquire`, `Release`, `SetLimit`; `TryAcquire`, `Release`, `Remove` | wakeups, contexts that end, limits that move; load and compare-and-swap loops, keys removed under open connections | counts are exact, limits hold, nobody sleeps while a unit is free |
| Handlers (`orchestrator/create_instance.go`, `delete_instance.go`, `pause_instance.go`, `checkpoint_instance.go`, `keep_alive.go`) | none of their own | `CreateSandbox`, `RemoveSandbox`, `CheckpointSandbox`, `KeepAliveFor` | deferred steps, error mappings | what they return agrees with what happened |
| Record lock (`lock.go`), publisher, subscription manager | redislock keys, publish queue, subscriber map | `Obtain`, `Release`, `Publish`, `subscribe`, `Close` | TTL of a stalled holder, notifications that are lost, `Publish` racing `close` | mutual exclusion, no missed wakeup, waiters get through without any wakeup, `Close` drains and returns |
| Node reconciliation (`sandbox/store.go` `Reconcile`, `orchestrator/cache.go`, `nodemanager`) | nodes, their metrics | `Sync`: compare a node's list with the store, kill orphans | the list is old when it is used; a start is listed before it is stored | a listed VM is killed only when nothing stores or starts it; every listed VM stops in the end |
| Routing catalog (`packages/shared/pkg/sandbox-catalog`) | route per sandbox ID | store, read, delete if same execution | delete is three calls | a running execution keeps its route |
| Orchestrator's service and sandbox map (`packages/orchestrator/pkg/server/sandboxes.go`, `pkg/sandbox/map.go`, `cleanup.go`) | live, lifecycles and network index; Cleanup stacks | `Create`, `Delete`, `Pause`, `Checkpoint`, drain | two lifecycles of one ID, promises that outlive their request, shutdown | the live VM is addressable and owns its IP; a stopped VM gives its slot back; the drain does not end inside a checkpoint |
| Network pool (`pkg/sandbox/network/pool.go`) | channels of new and reused slots, returns in flight | `Populate`, `Get`, `ReturnAsync`, `Close` | returns racing `Close`, failing system calls | no slot is shared, none is stranded in a closed pool |
| Rest of the orchestrator (NBD pool, block cache, uploads, network usage) | devices, caches, journals | see `PROJECT.json` | restarts, uploads that depend on each other | snapshots are complete, usage is counted once |
| Placement, template manager, caches, client proxy, envd, dashboard, database, deployment | see `PROJECT.json` | | | |

Interaction: a handler calls the store (`sandbox/store.go`), which calls storage
and reservations; handlers wait for each other only through Redis keys, woken by
a pub/sub message or by a ticker of one second; the evictor and the healer run in
every API instance; node calls are gRPC with any outcome; nodes know a sandbox
by its ID, the store and the catalog by ID and execution.

## 2. Modules

| Module | Models | Run by |
| --- | --- | --- |
| `SandboxReservation` | reservations of one team, `CreateSandbox`, `Store.Remove` | `MCReservation` |
| `AbstractLimiter` | what a team relies on when a start is reserved | refined by `SandboxReservation` |
| `ReservationProofs` | theorems on the reservations, and that they implement the limiter | tlapm |
| `SandboxTransition` | transitions of one sandbox ID, `RemoveSandbox`, `CheckpointSandbox`, evictor, `KeepAliveFor` | `MCTransition` |
| `TransitionProofs` | its theorems | tlapm |
| `ExpirationIndex` | record and expiration zset, sweeps, healer | `MCExpiration` |
| `IndexProofs` | its theorems | tlapm |
| `SandboxLifecycle` | one ID across the cluster: placement, record, route, VMs on the nodes, removal, `Sync` and `Reconcile` | `MCLifecycle` |
| `LifecycleProofs` | its theorems | tlapm |
| `Notifier` | publisher and subscription manager | through `StorageLock` |
| `StorageLock` | the record's lock, composed with `Notifier` | `MCLock` |
| `AbstractLock` | what users of the lock rely on | refined by `StorageLock` |
| `LockProofs` | theorems on the lock and the publisher | tlapm |
| `NetworkPool` | the pool of network slots | through `SandboxNode` |
| `SandboxNode` | service, sandbox map, Cleanup and shutdown of an orchestrator, composed with `NetworkPool` | `MCNode` |
| `PoolProofs` | theorems on the pool, and that the node implements it | tlapm |
| `NodeProofs` | theorems on the node's map, lifecycles, slots and drain | tlapm |
| `AdjustableSemaphore` | the semaphore with a limit that can be changed | `MCLimits` |
| `Evictor` | the evictor of an API instance, composed with `AdjustableSemaphore` | `MCLimits` |
| `ConnectionLimiter` | the limiter of connections, for one key | `MCLimits` |
| `LimitProofs` | theorems on these three, and that the evictor implements the semaphore | tlapm |

How they fit: `StorageLock` justifies taking a section under the lock as one step
in `SandboxTransition` and `ExpirationIndex`; `SandboxReservation` (one start of an
ID) and `SandboxTransition` (one removal of a record) justify what `SandboxLifecycle`
assumes of them, and `SandboxNode` what it assumes of a node. `Evictor` is what starts
the evictions of `SandboxTransition` and the sweeps of `ExpirationIndex`. `SandboxNode`
shows that a slot's release is announced once, which is the single `Remove` of
`ConnectionLimiter`.

Granularity: a Lua script, a single Redis command, or a section of code under
the record's distributed lock is one step; everything else interleaves. Names
follow the code. Definitions whose comment starts with "Mutant" are the
plausible mistakes each property is tested against; no specification uses them.

### SandboxReservation

`store` is the record and the team index (one script writes both), `pending` and
`result` the reservation keys, `stale` the pending members whose score is older
than `staleTTL`, `releasing` the IDs between the two calls of `Store.Remove`,
`pc` the place of each request. An execution is named by the request that starts
it. `Reserve` is `reserveScript`: the sweep and its four answers in order.
`StartFails`, `AddSandbox`, `AddSandboxFails` are `CreateSandbox` up to its
deferred `finishStart`; `ReadResult`, `ReadPending`, `RereadResult` are the three
calls of `tryReadResult`. A script that is applied but whose reply is lost is the
step followed by `Crash`. Errors are all `Failed`; the error codes that
`result.go` carries across are not told apart.

Two constants state the environment. `SlowStarts`: may a start outlive
`staleTTL` (90 s, "well beyond any realistic sandbox creation time")?
`OverlappingResume`: may an ID be reserved again while the `finishStart` of its
last start or the `Release` of its last removal is still to come?

`AbstractLimiter` says what all this is for, without requests, zsets or keys: an ID
is let in when it is vacant and there is room, runs, and stops; it may be counted
for too long and never for too short. `Counted` (the index and the pending zset),
`Starts` (requests before their `Store.Add`) and `store` map the protocol to it.

### SandboxTransition

One sandbox ID over several executions. `stored` and `state` are the record,
`end` the EndTime of each execution as the code compares it (future, past, past
by more than `StaleCutoff`), `tkey` the transition key, `failed` the transitions
whose result key holds an error (an empty, an expired and a missing result are
all read as success), `vm` what is left of each execution on its node. A handler
goes `call`, then `join` or `await` (waits for a transition), or `work`, `remove`
or `restore`, `result`, `del`. `WaitError`, and the second outcome of `StartFails`,
are the error mapping of `RemoveSandbox`: a client's kill that has read `Killing` and
then meets an error is told success. `Work` has every outcome of the node's call. `faults` bounds
crashes and failed Redis calls; each handler can meet one at each of its calls.

Environment: `SlowTransitions` (may a transition outlive `transitionKeyTTL`, 70
s?), `Outages` (may a record stay expired beyond `StaleCutoff`, 10 min?) and
`AutoPause`. The record's lock is taken as mutual exclusion, which `StorageLock`
shows. Not modelled: the database rows of snapshots, the routing
catalog, and the choice between a full and a filesystem-only snapshot.

### ExpirationIndex

`rec` is the record, `idx[s][e]` the score of the member of execution `e` (0:
absent, as ZMSCORE reports it), `adding` an `Add` between its two writes,
`holder` the zset write that a holder of the lock still owes, `sweep` and `heal`
the progress of `ExpiredItems` and `healSandboxBatch`. Time is a counter.
`removing` is a kill or a pause whose handler lives, `stuck` one whose handler
died; this module is about sandboxes whose eviction can take up a stuck record
(see finding 2 for those where it cannot). `promised` is history, read by no action: until
when a client was last granted the sandbox, by `Add` or by `KeepAliveFor` (where a shorter
timeout may be refused, the later of the two); a client's kill or pause ends it. Not modelled: members that do not
parse, the teams index, and `MaxInstanceLength`. The evictor's concurrency limit, which
only postpones, is in `Evictor`.

### SandboxLifecycle

One sandbox ID and several starts of it. `start` is where `CreateSandbox` of an
execution is, with `tried` the nodes its placement has given up; `record`,
its `state` and `route` are the store and the routing catalog, `home` the node a
record names; `vms` are the VMs on each node and `live` the one that node lists
and finds by the ID; `work` is where a `removeSandboxFromNode` is, for a removal or
for the undoing of a start that could not be stored; `sync` and `list` are a node's
`Sync`; `young` is younger than `orphanGracePeriod`. A reply that is lost makes
placement try the next node although the VM runs (`ReplyLost`); `DeleteSandbox` of
the catalog is a read (`GetRoute`) and a later delete (`DeleteRoute`) of whatever is
there; a node's `Delete` stops what is live under the ID (`StoppedOn`). A removal is a
pause or a kill (`Remove` with its target state, along `AllowedTransitions`): a kill may
follow a pause that died, no pause a kill. `DropStale` is the later removal that finds the
record in the state it asks for and drops it without a call to the node. `AutoPause` are
the executions for which the evictor asks for a pause (`EvictorTarget`); clients ask for
either.

Environment: `SlowStarts` (may a start outlive `orphanGracePeriod`?) and
`EarlyRemovals` (may a removal overtake the write of its start's route?), both
FALSE in the run; section 5 says what happens otherwise. Not modelled: discovery of
nodes, node status and metrics, which node placement prefers, and the record's
timeout, whose expiry is simply `Remove`.

### Notifier and StorageLock

`Notifier` has one routing key: `queue` and `busy` count keys queued and being
published, `net` those on their way through Redis, `waiters` and `signal` are the
subscription manager's map and its buffered channels, `run` and `closer` the two
sides of the publisher's shutdown, `closing` the flag under its lock, `ended` the
end of the context of `Storage.Start`, `lost` whether a notification was ever
dropped. `StorageLock` adds the Redis key with its owner's token and the program of
`Obtain` and `Release`; `Dies`, `TryFails` and `ReleaseFails` are crashes and Redis
errors with either effect. `Inside` maps it to `AbstractLock`. redislock itself is a
library: its set-if-absent and compare-and-delete are modelled from their use.
Environment: `SlowHolders` (may a client be at work beyond `lockTimeout`?).

### NetworkPool and SandboxNode

`NetworkPool` keeps the storage's free slots, the two channels as sets, `maker` and
`made` (Populate), `use`, `holds`, `told` and `tracked` (a lifecycle's `Get` and
return, and whether the release was announced or is counted in `returnsWG`),
`done`, `closed` and `closer` (Close), and `lost` slots whose `Release` failed.
`SandboxNode` extends it with one sandbox ID: `at`, `vm`, `added` and `ip` are a
lifecycle from `ResumeSandbox` to the end of its Cleanup, `live`, `lifecycles` and
`network` the three indexes of `Map`, `req`, `old`, `new` and `stops` the service's
handlers, `phase` the shutdown. A promise that asks for a slot outlives its request
(`StartFails`), and `Cleanup.Add` looks at `hasRun` before it takes the lock
(`AddChecks`, `AddAppends`). `Harvest` is the throwaway VM that records a prefetch
trace after a pause. `DuplicateStarts` lets the API create an ID that is still on
the node. `Next` stops at a panic, which ends the process. Not modelled: uploads,
events, receipts, admission limits, and the devices other than the slot. `Sandbox.Stop`
ends the VM: the handlers and the Cleanup call it with a context that cannot end, so
`doStop` waits for the exit of the process whatever else fails in it. A process that
survives both SIGKILL and the kill of its cgroup is a `Stop` that is never taken; as
`GetOrInit` does not repeat it, nothing but the exit frees the slot then. The one caller
with a deadline, `superviseMeasurement` (`pkg/sandbox/sandbox.go:2115`), is not modelled.

### AdjustableSemaphore and Evictor

A caller of the semaphore is one call in flight. `used` and `limit` are the fields of
the struct, `pc` says where a call is, `cancelled` whose context has ended, `callback`
where the callback of `context.AfterFunc` is. What happens under the mutex is one step,
with one exception: between the look at `ctx.Err` and its place on the list of
`cond.Wait` a caller is `checked` and has the mutex, because a callback broadcasts
without the mutex and can come exactly then. Every call asks for one unit, as all calls
of the repository do, so errors for other numbers are left out.

`Evictor` extends it. `expired` is what `ExpiredItems` would return, `todo` and `item`
are the loop of a tick, `active` the keys of `activeEvictions`, `stage` and `target` the
goroutines with their three deferred calls as three steps, `phase` the shutdown. An
error of `ExpiredItems` is a tick that does nothing. A removal ends with the sandbox
gone or not, or never. Names of goroutines are used again once `wg.Done` was called.

### ConnectionLimiter

One key, which is one lifecycle of a sandbox. `entry` is the counter in the map, `count`
the values of the counters, `step`, `counter`, `current` and `maxLimit` the local
variables of `TryAcquire` and `Release` in each connection. Map operations, loads and
compare-and-swaps are steps. A counter is named after the connection whose `getCounter`
made it. Each connection has a limit of its own, as the flag is read for each of them.
A key is removed once: `OnNetworkRelease` is called for a lifecycle once.

## 3. Runs

| Run | Checks | Shows |
| --- | --- | --- |
| `reservation` | `ConcurrencyLimit`, `SingleStarter`, `NoStaleResult`, `JoinedExecutionWasStored`, `ImplementsLimiter`, `JoinerReturns` | the reservation protocol in the assumed environment: it implements the limiter, and joiners return with every wakeup lost |
| `transition_safety` | `SoleWorker`, `PauseAckedMeansPaused`, `RemovesOwnRecord`, `JoinWaitsForCompletion` | three actors, two executions, a fault anywhere |
| `transition_live` | `StaleRecordRemoved`, `WaiterReturns`, `OnlyAllowedTransitions` | recovery from two faults anywhere for sandboxes that die on timeout; handlers that overlap because keys expire cannot revive a sandbox |
| `expiration_safety` | `StoredIsIndexed`, `ExpiredRunningIsDue`, `FailedRemovalIsDue`, `PromisedTimeKept` | two sweepers, a healer, two executions: the index is complete and not late, and no eviction on old data takes time from a client |
| `expiration_live` | `ExpiredGoesAway` | lost members, dead removals, shortened timeouts, a full sweep window |
| `lifecycle` | `RouteKept`, `ReconcileSparesListed`, `ListedVMsStop` | lost replies, failed calls and dying API instances, two nodes: routes stay, `Reconcile` hits no listed VM that is wanted, listed VMs stop unless the record is stranded in `Killing` |
| `lock` | `NoMissedWakeup`, `CloseDrainsQueue`, `ImplementsLock`, `WaiterGetsThrough`, `CloseTerminates` | the Redis lock implements the abstract one; wakeups are not missed, and not needed; `Close` at any moment |
| `node` | `SlotsExclusive`, `ClosedPoolIsEmpty`, `NetworkOwner`, `RunningIsAddressable`, `NothingLeaks`, `NoStrandedSlot`, `DrainWaitsForCheckpoint` | creates, kills, pauses, checkpoints, VM crashes and a shutdown, all interleaved |
| `limits` | `ParkedMeansFull`, `OneEvictionPerSandbox`, `CountIsExact`, `StartsWithinLimit`, `AdmittedWithinLimit`, `RoomIsUsed`, `EntryLeaves` | a semaphore with contexts that end and a limit that moves; an evictor with overlapping ticks, failing and hanging removals and a shutdown; connections with different limits and a key that is removed at any moment |
| `reservation_overlap`, `transition_stuck`, `transition_kill_ack` | one property each, violated | the findings of section 5 |

Type invariants are proved for every instance (section 4) and not run. The three systems
of `limits` share no state, so a behaviour of that run is one of a single system.

Bounds. Reservations: two IDs and a limit of one let a start of one ID race the
limit of the other; three requests are a starter, its joiner or successor, and a
third that profits from a lost entry. Transitions: two clients and the evictor
give worker, joiner and bystander; two executions give a past and a present;
four or five transitions (`MaxTrans`) let each actor run once and retry; one
fault, since the recovery paths are meant for single failures. Index: a short
and a long timeout and a `StaleCutoff` of one tick distinguish every comparison; clients
and failures stop at `ClientsUntil`, so that liveness is judged over the rest up
to `MaxTime`, which is later than any score plus `StaleCutoff`. Lifecycle: two nodes
let a retry of placement leave a second VM of one execution, two executions are a
past that is still being undone and a present, and one of the two is auto-pause. Lock: a holder, a waiter and one that
comes in between; a queue of one and one worker make the queue full. Node: two
lifecycles are what a checkpoint needs (the old VM and the new one), two slots and
channels of one make the pool both full and empty, two requests race each other.
One fault in each of these three, as above. Limits: three callers, of whom one waits, and
limits of one and two let the limit fall below what is in use while another asks; two
sandboxes and three goroutines let one be started while another is refused and the
goroutine of an earlier eviction is at its deferred calls; a third connection makes the swaps of two
others fail, and its limit is none, zero or two. Requests, sweepers, slots and
lifecycles are symmetric. Runs with liveness use no symmetry sets; where names mean
nothing they are numbers that are taken in order (`InOrder`, `LeastName`), which is a
symmetry too and sound for liveness. Deadlock is not checked: clients may fall silent and
all bounds be used up.

Fairness. A handler that runs reaches its next call (`WF` on its steps), because
an instance that stops for good is modelled as `Crash`. The ticker makes `Wake`
part of those steps without any notification. Keys with a TTL expire (`WF` on
`KeyExpires`), the evictor ticks (`WF` on `Evict`, on the steps of a sweep). A
heal pass visits every stored ID again and again: strong fairness of `HealRead`
per ID, assuming the healer's feature flag is on. In `SandboxLifecycle` handlers end
(their contexts have deadlines), nodes are synced every `cacheSyncTime`, the grace
period passes, and the evictor asks in the end for the removal of a stored sandbox, after
`MaxInstanceLength` at the latest: fairness is on `Remove` and `DropStale` with the state
the evictor asks for (`EvictorTarget`) and on nothing a client does. So an auto-pause
sandbox whose kill died stays in `Killing` (`Stranded`, finding 2); its VM, if it still
runs, is stored for `Reconcile` and is never stopped, and `ListedVMsStop` excepts exactly
these behaviours. Without the exception TLC refutes it. In `StorageLock` goroutines go on, the
backoff timer fires and Redis drops a key past its TTL; nothing is assumed of
notifications, of a waiter's deadline or of the dispatch loop. In `AdjustableSemaphore`
a mutex that is unlocked again and again is in the end locked by each who waits for it
(strong fairness: the starvation mode of `sync.Mutex`), and goroutines run; holders may
keep their units, contexts need not end. In `Evictor` the loop and the deferred calls go
on; removals need not return, as their context has no deadline. Clients, crashes,
failed Redis calls and, in `SandboxTransition`, the clock have no fairness.

## 4. Proofs

All theorems hold for every finite set of sandbox IDs, every set of requests,
executions, nodes, clients, slots, lifecycles and sandboxes, every finite set of callers
and connections, every limit or capacity, and every bound.

### Reservations

* `TypeCorrect`: the types, in every environment.
* `ReservationInvariant`, from which `LimitEnforced` (`ConcurrencyLimit`),
  `NoDoubleStart` (`SingleStarter`) and `NoResultLeftOver` (`NoStaleResult`). The limit
  alone is not inductive: `AddSandbox` keeps `index \cup pending` only if the adder's ID
  is already pending, so `ReservationInv` says that a request that may still add its
  sandbox has a pending, fresh entry, that its ID is not being released or stored, and
  that no other request owes a `finishStart` for it (that would take the entry away).
  The step `ReserveGranted` then needs only that index and pending zset together are
  no larger than the sum of their sizes (`GrantKeepsLimit`), every other step that
  the union does not grow (`ShrinkKeepsLimit`). Assumed: `~SlowStarts`,
  `~OverlappingResume`. `reservation_overlap` shows that the second cannot be
  dropped.
* `LimiterImplemented` (`ImplementsLimiter`), from the same invariant and under the same
  assumptions, action by action (`LimiterStep`): a granted `Reserve` is an `Admit` that
  also forgets what the sweep drops, `Store.Add` is a `Run` whatever it returns, a
  failure before it or a crash is an `Abort`, `storage.Remove` is a `Stop`; the sweep,
  `finishStart` and `Release` only forget vacant IDs (`ForgetStep`), which is where the
  invariant is needed.
* `JoinersGetStored` (`JoinedExecutionWasStored`), with no assumption on the
  environment. The invariant `ResultsNameStarted`: a result names an execution of its
  own ID whose start has ended well, a record one of its own ID.

### Transitions

* `TransitionTypeCorrect`, in every environment. It needs `WorkerHasTransition`, as
  `SetResult` records a transition ID.
* `HandlersExclude` (`SoleWorker`), from `ExclusiveInv`: the key names the
  transition of the handler at work. The callback deletes the key without
  comparing it, and the key may expire, so the invariant needs both that the
  handler is alone and, for the expiry, `~SlowTransitions`.
* `TransitionsAreAllowed` (`OnlyAllowedTransitions`), in every environment. Handlers may
  overlap here, so exclusion is no help; what carries the proof is that only a checkpoint
  restores (`RoutesByAction`), and that the restore looks at the state again.
* `JoinersWait` (`JoinWaitsForCompletion`), assuming `~SlowTransitions`: while the handler
  of the joined transition works, the key still names it (`WorkerHoldsKey`), so a read
  without an error cannot end the wait.
* `OwnRecordRemoved` (`RemovesOwnRecord`), assuming `~SlowTransitions` and `~Outages`.
  `OwnRecordInv`: the record is that of the handler between its start and its remove,
  and no EndTime is stale. The second assumption is needed: after an outage two requests
  can both take a stale record for done, and the one that drops it later drops what was
  started in between.
* `AcknowledgedPauses` (`PauseAckedMeansPaused`), assuming `~SlowTransitions`. The longest
  of the proofs: as long as nothing has failed, `PauseInv` ties the key to a handler at
  work (`KeyHasWorker`), the record's state to that handler (`StateIsWorkers`), leaves
  no state of removal without a key (`NothingLeftPausing`), and follows a joiner to the
  handler it waits for, its published error or its snapshot (`JoinerFollows`).

### Expiration index

* `IndexTypeCorrect`, and `StoredStaysIndexed` (`StoredIsIndexed`) assuming `~SlowAdds`.
  Executions are numbered; `IndexInv` says that whatever a sweep, a healer or a holder
  of the lock has read and not yet acted on is about an execution whose `Add` is over
  (`Seen`), and that members about to be removed belong to a dead one (`Dead`). Both
  are stable (`DeadStaysDead`), however late the write comes. That a sweep never sees
  the member of an `Add` in progress is where `~SlowAdds` is needed: its score lies in
  the future.
* `ExpiredIsDue` (`ExpiredRunningIsDue`), assuming `~AllowShorter` as well: no score in
  the index, or read by a sweep or a healer that may still write it, is later than the
  EndTime of the running execution it is for (`ScoresNotLate`), since EndTime only grows
  while it runs.
* `FailedRemovalComesDue` (`FailedRemovalIsDue`), assuming `~SlowAdds` only: timeouts may
  be shortened. A removal brings EndTime forward, so scores may well be later than it;
  `ScoresSoon` bounds by how much: no score, in the index or planned by anyone
  (`PlansCome` says where plans come from), is further than one timeout from now, or from
  the EndTime of its execution. EndTime moves forward or to now (`EndsGoOn`), which is
  what keeps the second bound.
* `ClientsKeepTheirTime` (`PromisedTimeKept`), in every environment: slow adds, shortened
  timeouts and a score that is wrong either way. The promise is a history of what clients
  were told, so the proof has to follow it through every writer of the record. Along with
  the types it needs that an `Add` in progress is of a running sandbox (`AddsRun`) and that
  promises are times (`PromiseType`); a record that has not expired is changed by clients
  alone (`UnexpiredStays`), which is where the second look under the lock is needed: what
  the sweep had read says nothing about the EndTime by then.

### Lifecycle across nodes

* `LifecycleTypeCorrect`, in every environment: one record, one route and one listed VM
  per node at most. `HomeKnown` (an execution that is being added, removed or undone has
  a node) is needed, or a call would name no node.
* `RoutesStay` (`RouteKept`), assuming `~EarlyRemovals`. The delete of a route is a
  read and a later delete, so the invariant says who may be between the two: an
  undoing never finds a route of its own execution (its start never wrote one), and a
  removal that is not over owns the record, so no later start has been let through.
* `ListedAreSpared` (`ReconcileSparesListed`), assuming `~SlowStarts`. An execution is
  young until its start is over, and what `Reconcile` has found to be an orphan is
  neither young nor stored; as nothing stores it any more it stays so until the kill.
  A node lists one VM of an ID, so the candidate is what was listed.

### Lock and notifications

* `LockImplemented`: `StorageLock` implements `AbstractLock` when `~SlowHolders`. The
  invariant is that a client inside owns the key; the key of one inside is neither
  deleted by another (the token) nor expires. `LockTypeCorrect` holds without the
  assumption.
* `WakeupsReach` (`NoMissedWakeup`): a client that sleeps tried the lock after it had
  subscribed; the invariant relates sleepers, the key and what is queued, and follows
  a release from `publish` through queue, worker and Redis to the signal. It is stated while
  the dispatch loop listens: once that has ended, a key on its way reaches nobody, and the
  backoff timer (`WaiterGetsThrough`) is all a waiter has.
* `CloseLeavesNothing` (`CloseDrainsQueue`): `closing` is set under the lock that
  excludes `Publish`, so the drain that follows sees every accepted key.

### Node and pool

* `PoolInvariant`, for `NetworkPool` by itself, whoever uses it: no slot is in two
  places, and a closed pool stays empty. The second needs what the program of `Close`
  guarantees on the way: once `closed` is set nothing is sent to `reusedSlots`, and
  `newSlots` is drained only after Populate has closed it, with nothing left in its
  hands. `NodeImplementsPool` shows that `SandboxNode` implies `PoolSpec`, step by step,
  so `SlotsNeverShared` and `ClosedPoolStaysEmpty` hold on a node.
* `NodeTypeCorrect`, and the four theorems below, for both values of `DuplicateStarts`.
  All use `NodeInv`: the pool's invariant, `MapInv` (what is on the live index is
  registered, is no harvest's and has been taken off by nobody; what a request looked up
  stays registered) and `LifecycleInv` (where a lifecycle is determines what its slot,
  its VM and its Cleanup may be).
* `TrafficIsAttributed` (`NetworkOwner`): an address is announced as released while the
  slot is still in the lifecycle's hands (`AnnounceInv`), so the next holder's
  `AssignNetwork` comes after it; with `SlotsNeverShared` the last writer is the holder.
* `RegisteredIsAddressable` (`RunningIsAddressable`): whoever takes a lifecycle off the
  live index stops it or hands it to one that does, before it forgets it (`AddressInv`).
* `DrainIsComplete` (`DrainWaitsForCheckpoint`): while a checkpoint replaces a VM, the old
  one stays among the lifecycles, since no other request has taken it (`TakeInv`) and,
  without faults, it is still on (`KeptInv`).
* `NoSlotLeaks` (`NothingLeaks`): no step of the pool forgets a slot (`PlaceInv`), and by
  `LifecycleInv` a lifecycle that holds one has its return in the Cleanup, with the
  exception the property names.
* `StoppedCanGoOn` and `StoppedNeverGoesBack`, for both values of `DuplicateStarts`: a
  lifecycle whose VM is off and whose slot is not back has a step of its own, or of its
  return, whose guard holds (`CanGoOn` names it for each place it can be at), and no step
  of anybody undoes what it has reached: `at` and `use` only move along the way `Way`
  orders, and the VM stays off (`NeverBack`). The first is `NoStrandedSlot` with the
  guards in the place of `ENABLED`; together they are the two halves of the argument that
  the slot comes back, what is missing being fairness alone.

### Limiters and evictor

* `SemaphoreTypes`, `SemaphoreCountIsExact` (`UsedIsHeld`) and `NoLostWakeUp`
  (`ParkedMeansFull`), from `SemInv`. Exactness carries the types: `used` stays a natural
  number because whoever releases is one of those counted. That sleepers mean a full
  semaphore is not inductive: a caller between its check and `cond.Wait` is not asleep
  yet. `CheckedMeansFull` covers it; it holds because such a caller has the mutex, so
  nobody can release or move the limit before it is on the list.
* `UnitsWithinLimit` (`WithinLimit`).
* `EvictorImplementsSemaphore`: `Spec => SemSpec`, step by step, so the four theorems hold
  in the evictor too.
* `EvictorTypes`, `NoSecondEviction` (`OneEvictionPerSandbox`), `EntriesAreOwned`
  (`EntryHasOwner`), `ShutdownIsComplete` (`StoppedIsQuiet`) and `EvictionsWithinLimit`
  (`StartsWithinLimit`), from `EvictInv`. `OwnerInv`: an entry has exactly one owner, and a
  goroutine that has not deleted its entry has one target, which no other owner has.
  `LoopInv`: a goroutine has its unit exactly until it gives it back, and the loop is idle
  once it is stopping. `InFlight` is then the set of holders, and the semaphore's count
  gives the limit.
* `LimiterTypes`, `ConnectionsCounted` (`CountIsExact`), `LateEntriesDrain`
  (`LateEntryDrains`) and `ConnectionsWithinLimit` (`AdmittedWithinLimit`), from `ConnInv`.
  `LoadedInv`: what is about to be swapped for one less was positive when it was loaded, so
  a swap that succeeds does not go below zero. `FreshInv`: a counter
  is not used before the connection it is named after has made it. `CountInv` says for which
  counter which connections count: before the removal there is one counter and it is exact;
  after it the one in the map counts no more than
  the open connections that work on it (`CountedBy`).

### Only model-checked

All liveness (`JoinerReturns`, `StaleRecordRemoved`, `WaiterReturns`, `ExpiredGoesAway`,
`ListedVMsStop`, `WaiterGetsThrough`, `CloseTerminates`, `RoomIsUsed`, `EntryLeaves`), as
fairness is outside the prover, and `NoStrandedSlot`, which uses
`ENABLED`; `StoppedCanGoOn` is what it says of the guards. Every other property of a
passing run is a theorem.

## 5. Findings

1. `reservation_overlap`: `Release` and `finishStart` drop the pending entry of an
   ID whoever owns it. A resume between `storage.Remove` and `Release` is no longer
   counted, and the team gets more sandboxes than its limit.
2. `transition_stuck`: a record of an auto-pause sandbox left in `Killing` is never
   removed: the evictor asks for a pause on each tick, which `Killing` refuses. If the
   kill died before it reached the node, the VM stays as well, since `Reconcile` finds a
   record (the exception of `ListedVMsStop`).
3. `transition_kill_ack`: a kill that joins a kill is told success when that kill
   fails, because the error mapping looks at the state `Killing` it has read. A Redis
   error in `StartRemoving` after that read is told as success in the same way.

Seen while modelling, without a run of their own:

* Reservations: between `Store.Add` and `finishStart` a sandbox is in the index and
  pending and counts twice, so a team just below its limit can be refused for that
  moment.
* Transitions: the clean-up of a stale record by a joiner (`delete_instance.go:96`) is
  not scoped to the execution, which breaks `RemovesOwnRecord` when `Outages` is TRUE.
  `waitForTransition` compares the ID of a failed GET before it looks at the error, so
  a Redis error ends the wait with success (`state_change.go:257`); this is why
  `JoinWaitsForCompletion` speaks of reads without an error.
* Index: `StartRemoving` moves EndTime to now but not the score, so a removal that dies
  is not looked at before the original timeout; `FailedRemovalIsDue` is stated by the
  score.
* Lifecycle: a kill of an orphan names the ID only. A pause and a resume on the same
  node between a node's list and its kill let the kill stop the new VM, without any
  fault; `ReconcileSparesListed` speaks of VMs that were listed. When `Add` fails, the
  VM is undone in the background, and a retry that is placed on the same node is
  hidden behind it: neither listed nor addressable, until it exits. A VM on one node
  is no orphan while the ID is stored for another. A removal whose node is unknown
  leaves the route. With `EarlyRemovals` the late route of an old start overwrites
  that of the new; with `SlowStarts` a start that outlasts the grace period is killed
  as an orphan.
* Notifications: if the context of `Storage.Start` ends before `Close`, `Publish` still
  accepts keys that nobody takes; a worker whose context has ended may take a key and
  lose it; a `Release` after the TTL notifies nobody. Waiters get through by their
  timers.
* Node: `Cleanup.Add` looks at `hasRun` before it locks, so a return that is added
  while the Cleanup runs is never run and its slot leaks (excepted by name in
  `NothingLeaks`). A `Get` that waits when Populate closes `newSlots` gets a nil slot
  and panics. While the pool shuts down, a release is announced after the slot went
  back to the storage (`NetworkOwner` excepts it). A second `Create` of a live ID runs
  hidden. Between `InsertIfAbsent` and `trackLifecycle` a live sandbox is not among the
  lifecycles. The admission limit (`sandboxes.go:145`) is checked before the start and
  not held.
* Index: the healer finds sandboxes through the global set of teams, and `Add` only warns
  when the team cannot be added to it (`operations.go:52`).
* Semaphore: "Wake ->cond.Wait when ctx is canceled" (`resizable_semaphore.go:42`) does
  not always come true. The callback broadcasts without the mutex; when the context ends
  after the look at `ctx.Err` and before the caller is on the list of `cond.Wait`
  (`Cancel` and `CallbackRuns` between `Enters` and `Parks`), nobody is woken, and
  `Acquire` sleeps on, its context over, until the next `Release` or `SetLimit`.
* Evictor: the entry is deleted before the unit is released, so for a moment a sandbox
  whose removal failed can have two goroutines and two units, though never two removals.
  A removal that hangs keeps its entry, its unit and the shutdown.
* Connections: a connection that is let through after its key was removed makes an entry
  that nobody removes, and connections counted before are released from it, so it may
  count fewer than are open.

## 6. Plan

Done: the core modules of the API's control, the lifecycle across nodes, the record
lock with its notifications, the orchestrator's node with its network pool, the limiters
and the evictor; the proofs of section 4. Next, in this order:

1. The NBD device pool; the network usage journal across restarts; the merge of block
   mappings as an algorithm, and the order of uploads of dependent builds.
2. Proofs: the assumptions of the theorems above traced to the theorems of the other
   modules (a transition as a refinement of one removal of `SandboxLifecycle`, a
   reservation as a refinement of one start of it).

## 7. Not modelled

`PROJECT.json` lists every part with its status. The bulk of the repository has no
protocol of its own: generated code (OpenAPI servers, protobuf, database queries),
request validation and authorisation, telemetry, deployment definitions, integration
tests and tools. VM machinery (Firecracker's API, page faults, iptables, netlink) and
template builds are input and output whose outcomes appear in the models as success or
failure of a step. envd runs inside the VM and shares no state with the platform. The
client proxy reads the catalog and forwards. The dashboard API and the docker reverse
proxy are stateless. What remains and does have state of its own is the plan above.
