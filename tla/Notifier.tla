------------------------------ MODULE Notifier ------------------------------
(***************************************************************************)
(* The publisher and the subscription manager of the Redis storage         *)
(* (packages/api/internal/sandbox/storage/redis/publisher.go,              *)
(* subscription_manager.go, notifier.go), for one routing key.             *)
(*                                                                         *)
(* Publish queues a key, workers take keys from the queue and publish them *)
(* to Redis, Redis delivers them, and the dispatch loop signals whoever is *)
(* subscribed.  Storage.Close shuts both ends down while this goes on.     *)
(* The queue holds one key, so it is kept as a number.                     *)
(***************************************************************************)
EXTENDS Integers

CONSTANTS
    Clients,        \* who subscribes and publishes, once each
    QueueDepth,     \* publishQueueDepth
    Workers,        \* publishWorkerCount
    MaxFaults       \* bound: failed Redis calls and crashes

ASSUME NotifierAssumption ==
    /\ QueueDepth \in Nat
    /\ Workers \in Nat
    /\ MaxFaults \in Nat

VARIABLES
    queue,      \* keys in the queue
    busy,       \* workers that are publishing one
    net,        \* keys published and not dispatched yet
    waiters,    \* subscribed clients
    signal,     \* clients whose channel holds a signal
    listening,  \* is the dispatch loop running?
    closing,    \* the flag under the publisher's mutex
    ended,      \* has the context of Storage.Start ended?
    run,        \* run: not started, working, draining or done
    closer,     \* where Storage.Close is
    spent,      \* did the drain give up?
    lost,       \* was a notification dropped, lost or never sent?
    faults      \* faults so far

pubVars == <<queue, busy, net, run, closing, ended, closer, spent>>
subVars == <<waiters, signal, listening>>
notifyVars == <<pubVars, subVars, lost, faults>>

NotifierTypeOK ==
    /\ queue \in 0..QueueDepth
    /\ busy \in 0..Workers
    /\ net \in Nat
    /\ waiters \subseteq Clients
    /\ signal \subseteq Clients
    /\ listening \in BOOLEAN
    /\ closing \in BOOLEAN
    /\ ended \in BOOLEAN
    /\ run \in {"init", "work", "drain", "done"}
    /\ closer \in {"open", "mark", "swap", "wait", "end"}
    /\ spent \in BOOLEAN
    /\ lost \in BOOLEAN
    /\ faults \in 0..MaxFaults

NotifierInit ==
    /\ queue = 0
    /\ busy = 0
    /\ net = 0
    /\ waiters = {}
    /\ signal = {}
    /\ listening = TRUE
    /\ closing = FALSE
    /\ ended = FALSE
    /\ run = "init"
    /\ closer = "open"
    /\ spent = FALSE
    /\ lost = FALSE
    /\ faults = 0

Fault == faults < MaxFaults /\ faults' = faults + 1

-----------------------------------------------------------------------------
\* subscribe and its cleanup.
Subscribed(c) == waiters' = waiters \cup {c} /\ UNCHANGED <<signal, listening>>
Unsubscribed(c) ==
    /\ waiters' = waiters \ {c}
    /\ signal' = signal \ {c}
    /\ UNCHANGED listening

\* Mutant: the flag is looked at before the lock is taken.
AcceptsUnlocked == queue < QueueDepth

Accepts == ~closing /\ queue < QueueDepth

\* Publish, under the read lock that close's write lock excludes; never blocks.
Publish ==
    /\ IF Accepts
       THEN queue' = queue + 1 /\ UNCHANGED lost
       ELSE lost' = TRUE /\ UNCHANGED queue
    /\ UNCHANGED <<busy, net, run, closing, ended, closer, spent, subVars, faults>>

-----------------------------------------------------------------------------
\* run: the swap from stateInit, the workers, the drain.

RunStarts ==
    /\ run = "init"
    /\ run' = "work"
    /\ UNCHANGED <<queue, busy, net, closing, ended, closer, spent, subVars, lost, faults>>

Cancelled == closing \/ ended

\* A worker whose context has ended may still pick the queue.
WorkerTakes ==
    /\ run = "work"
    /\ queue > 0
    /\ busy < Workers
    /\ queue' = queue - 1
    /\ busy' = busy + 1
    /\ UNCHANGED <<net, run, closing, ended, closer, spent, subVars, lost, faults>>

PublishOne ==
    /\ busy > 0
    /\ busy' = busy - 1
    /\ \/ net' = net + 1 /\ UNCHANGED <<lost, faults>>
       \/ Fault /\ lost' = TRUE /\ UNCHANGED net
       \/ Cancelled /\ lost' = TRUE /\ UNCHANGED <<net, faults>>
    /\ UNCHANGED <<queue, run, closing, ended, closer, spent, subVars>>

WorkersEnd ==
    /\ run = "work"
    /\ Cancelled
    /\ busy = 0
    /\ run' = "drain"
    /\ UNCHANGED <<queue, busy, net, closing, ended, closer, spent, subVars, lost, faults>>

\* drainOnShutdown, in run or in close.
Drain ==
    /\ run = "drain"
    /\ queue > 0
    /\ queue' = queue - 1
    /\ \/ net' = net + 1 /\ UNCHANGED <<lost, faults>>
       \/ Fault /\ lost' = TRUE /\ UNCHANGED net
    /\ UNCHANGED <<busy, run, closing, ended, closer, spent, subVars>>

\* publishShutdownBudget is spent while a key is being published.
DrainGivesUp ==
    /\ run = "drain"
    /\ queue > 0
    /\ Fault
    /\ queue' = queue - 1
    /\ run' = "done"
    /\ spent' = TRUE
    /\ lost' = TRUE
    /\ UNCHANGED <<busy, net, closing, ended, closer, subVars>>

Drained ==
    /\ run = "drain"
    /\ queue = 0
    /\ run' = "done"
    /\ UNCHANGED <<queue, busy, net, closing, ended, closer, spent, subVars, lost, faults>>

-----------------------------------------------------------------------------
\* The subscription manager's loop, which ends when it is closed or its
\* context ends.

Dispatch ==
    /\ listening
    /\ net > 0
    /\ net' = net - 1
    /\ signal' = signal \cup waiters
    /\ UNCHANGED <<queue, busy, run, closing, ended, closer, spent, waiters, listening, lost, faults>>

\* Redis does not keep messages: a broken connection loses them.
MessageLost ==
    /\ net > 0
    /\ Fault
    /\ net' = net - 1
    /\ lost' = TRUE
    /\ UNCHANGED <<queue, busy, run, closing, ended, closer, spent, subVars>>

ListenerEnds ==
    /\ listening
    /\ ended \/ closer # "open"
    /\ listening' = FALSE
    /\ UNCHANGED <<pubVars, waiters, signal, lost, faults>>

-----------------------------------------------------------------------------
\* Storage.Close: the subscription manager, then the publisher.

CloseSubscriptions ==
    /\ closer = "open"
    /\ closer' = "mark"
    /\ UNCHANGED <<queue, busy, net, run, closing, ended, spent, subVars, lost, faults>>

CloseMarks ==
    /\ closer = "mark"
    /\ closing' = TRUE
    /\ closer' = "swap"
    /\ UNCHANGED <<queue, busy, net, run, ended, spent, subVars, lost, faults>>

\* Mutant: close leaves the draining to run, which may never be called.
RunAfterSwapNever == run

\* If run has not started, it never will, and close drains the queue itself.
RunAfterSwap == IF run = "init" THEN "drain" ELSE run

CloseSwaps ==
    /\ closer = "swap"
    /\ run' = RunAfterSwap
    /\ closer' = "wait"
    /\ UNCHANGED <<queue, busy, net, closing, ended, spent, subVars, lost, faults>>

CloseReturns ==
    /\ closer = "wait"
    /\ run = "done"
    /\ closer' = "end"
    /\ UNCHANGED <<queue, busy, net, run, closing, ended, spent, subVars, lost, faults>>

\* The context of Storage.Start ends by itself.
ContextEnds ==
    /\ ~ended
    /\ ended' = TRUE
    /\ UNCHANGED <<queue, busy, net, run, closing, closer, spent, subVars, lost, faults>>

PublisherStep == WorkerTakes \/ PublishOne \/ WorkersEnd \/ Drain \/ Drained
CloseStep == CloseMarks \/ CloseSwaps \/ CloseReturns

NotifierNext ==
    \/ RunStarts \/ PublisherStep \/ DrainGivesUp
    \/ Dispatch \/ MessageLost \/ ListenerEnds
    \/ CloseSubscriptions \/ CloseStep \/ ContextEnds

-----------------------------------------------------------------------------
\* What was accepted is published or counted as lost before Close returns: no
\* Publish that races Close leaves its key in the queue.  (Unless the drain ran
\* out of its budget, or run had ended with its context before Close was called:
\* then Publish still accepts keys that nobody takes.)
CloseDrainsQueue ==
    closer = "end" /\ ~spent /\ ~ended => queue = 0

\* Close returns, whether or not run was ever started.
CloseTerminates == closer # "open" ~> closer = "end"
=============================================================================
