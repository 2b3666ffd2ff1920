--------------------------- MODULE ExpirationIndex ---------------------------
(***************************************************************************)
(* The global expiration index                                             *)
(* (packages/api/internal/sandbox/storage/redis: operations.go, items.go,  *)
(* heal.go).  A zset holds one member per execution, scored by EndTime, so *)
(* that the evictor of any API instance finds expired sandboxes without a  *)
(* scan.  The record and the zset are different Redis keys, in different   *)
(* shards: every operation writes them in two steps, and the evictor and   *)
(* the healer read one and then write the other.                           *)
(*                                                                         *)
(* Operations that hold the record's lock (Update, Remove, StartRemoving)  *)
(* exclude each other: holder is the second step one of them still owes.   *)
(* Add takes no lock.  A score of 0 is an absent member, as in the healer. *)
(***************************************************************************)
EXTENDS Integers, FiniteSets

CONSTANTS
    Sandboxes,      \* sandbox IDs
    Sweepers,       \* evictors, one per API instance
    Healers,        \* healers, one per API instance
    Durations,      \* timeouts a client may ask for, in ticks
    StaleCutoff,    \* ticks a failed removal is given (10 min)
    Grace,          \* ticks the healer leaves a new sandbox alone (1 min)
    BatchSize,      \* members read per sweep (256)
    AllowShorter,   \* may KeepAliveFor bring an EndTime forward?
    SlowAdds,       \* may Add outlast the EndTime it writes?
    MaxExec,        \* bound: executions per sandbox ID
    MaxUpdates,     \* bound: KeepAliveFor calls
    ClientsUntil,   \* bound: the tick after which clients are silent and no
                    \* instance dies or loses Redis while it removes, sweeps or heals
    MaxTime         \* bound: the last tick

ASSUME ConstantsAssumption ==
    /\ Durations \subseteq Nat \ {0}
    /\ StaleCutoff \in Nat
    /\ Grace \in Nat
    /\ BatchSize \in Nat \ {0}
    /\ AllowShorter \in BOOLEAN
    /\ SlowAdds \in BOOLEAN
    /\ MaxExec \in Nat
    /\ MaxUpdates \in Nat
    /\ ClientsUntil \in Nat
    /\ MaxTime \in Nat \ {0}

VARIABLES
    now,        \* the clock
    rec,        \* the stored record of each ID
    idx,        \* idx[s][e]: score of the member of execution e; 0: absent
    adding,     \* the record an Add is about to store
    holder,     \* the zset write that the holder of the lock still owes
    last,       \* executions so far
    updates,    \* KeepAliveFor calls so far
    sweep,      \* ExpiredItems and the evictions of each sweeper
    heal,       \* healSandboxBatch of each healer
    promised    \* history: the time until which a client was last granted the
                \* sandbox; 0: it has passed, or a client asked for the removal

vars == <<now, rec, idx, adding, holder, last, updates, sweep, heal, promised>>
clientVars == <<adding, holder, last, updates, promised>>

Execs == 1..MaxExec
NoRec == [exec |-> 0, state |-> "none", start |-> 0, end |-> 0]
NoDebt == [op |-> "none", exec |-> 0, score |-> 0]
IdleSweep == [pc |-> "idle", t |-> 0, members |-> {}, stale |-> {}, drifted |-> {}, todo |-> {}]
IdleHeal == [pc |-> "idle", id |-> "none", exec |-> 0, score |-> 0]

Members == Sandboxes \X Execs

TypeOK ==
    /\ now \in 0..MaxTime
    /\ rec \in [Sandboxes -> [exec : 0..MaxExec, state : {"none", "running", "removing", "stuck"},
                              start : Nat, end : Nat]]
    /\ idx \in [Sandboxes -> [Execs -> Nat]]
    /\ adding \in [Sandboxes -> [exec : 0..MaxExec, state : {"none", "running"},
                                 start : Nat, end : Nat]]
    /\ holder \in [Sandboxes -> [op : {"none", "rescore", "unindex"}, exec : 0..MaxExec, score : Nat]]
    /\ last \in [Sandboxes -> 0..MaxExec]
    /\ updates \in 0..MaxUpdates
    /\ \A w \in Sweepers :
        /\ sweep[w].pc \in {"idle", "read", "clean", "rescore", "evict"}
        /\ sweep[w].members \cup sweep[w].stale \subseteq Members
        /\ \A d \in sweep[w].drifted : d.member \in Members /\ d.score \in Nat
        /\ sweep[w].todo \subseteq Sandboxes
    /\ \A h \in Healers : heal[h].pc \in {"idle", "score", "add"}
    /\ promised \in [Sandboxes -> Nat]

Init ==
    /\ now = 1
    /\ rec = [s \in Sandboxes |-> NoRec]
    /\ idx = [s \in Sandboxes |-> [e \in Execs |-> 0]]
    /\ adding = [s \in Sandboxes |-> NoRec]
    /\ holder = [s \in Sandboxes |-> NoDebt]
    /\ last = [s \in Sandboxes |-> 0]
    /\ updates = 0
    /\ sweep = [w \in Sweepers |-> IdleSweep]
    /\ heal = [h \in Healers |-> IdleHeal]
    /\ promised = [s \in Sandboxes |-> 0]

-----------------------------------------------------------------------------
Stored(s) == rec[s].exec # 0
Unlocked(s) == holder[s] = NoDebt
IsExpired(r, t) == t > r.end

\* ZADD and ZREM of one member.
Score(s, e, n) == idx' = [idx EXCEPT ![s][e] = n]

\* Mutant: members are removed by sandbox ID, whatever the execution.
UnindexSandbox(s, e) == idx' = [idx EXCEPT ![s] = [x \in Execs |-> 0]]

Unindex(s, e) == Score(s, e, 0)

-----------------------------------------------------------------------------
\* Storage.Add: the member first, then the record.

BeginAdd(s) ==
    /\ now <= ClientsUntil
    /\ ~Stored(s)
    /\ adding[s] = NoRec
    /\ last[s] < MaxExec
    /\ last' = [last EXCEPT ![s] = @ + 1]
    /\ \E d \in Durations :
        /\ adding' = [adding EXCEPT ![s] =
             [exec |-> last[s] + 1, state |-> "running", start |-> now, end |-> now + d]]
        /\ Score(s, last[s] + 1, now + d)
    /\ UNCHANGED <<now, rec, holder, updates, sweep, heal, promised>>

FinishAdd(s) ==
    /\ adding[s] # NoRec
    /\ rec' = [rec EXCEPT ![s] = adding[s]]
    /\ adding' = [adding EXCEPT ![s] = NoRec]
    /\ promised' = [promised EXCEPT ![s] = IF IsExpired(adding[s], now) THEN 0 ELSE adding[s].end]
    /\ UNCHANGED <<now, idx, holder, last, updates, sweep, heal>>

\* The script fails, or the instance dies before it: the member is left over.
AddFails(s) ==
    /\ adding[s] # NoRec
    /\ adding' = [adding EXCEPT ![s] = NoRec]
    /\ UNCHANGED <<now, rec, idx, holder, last, updates, sweep, heal, promised>>

-----------------------------------------------------------------------------
\* Storage.Update for KeepAliveFor: the record first, then the score.

\* Mutant: a shorter timeout is always accepted.
NewEndAlways(r, d) == now + d

NewEnd(r, d) == IF AllowShorter \/ now + d >= r.end THEN now + d ELSE r.end

UpdateRecord(s) ==
    /\ now <= ClientsUntil
    /\ updates < MaxUpdates
    /\ Unlocked(s)
    /\ Stored(s)
    /\ rec[s].state = "running"
    /\ \E d \in Durations :
        LET e == NewEnd(rec[s], d) IN
        /\ e # rec[s].end
        /\ rec' = [rec EXCEPT ![s].end = e]
        /\ holder' = [holder EXCEPT ![s] = [op |-> "rescore", exec |-> rec[s].exec, score |-> e]]
        /\ promised' = [promised EXCEPT ![s] = IF AllowShorter \/ now + d >= @ THEN now + d ELSE @]
    /\ updates' = updates + 1
    /\ UNCHANGED <<now, idx, adding, last, sweep, heal>>

UpdateScore(s) ==
    /\ holder[s].op = "rescore"
    /\ Score(s, holder[s].exec, holder[s].score)
    /\ holder' = [holder EXCEPT ![s] = NoDebt]
    /\ UNCHANGED <<now, rec, adding, last, updates, sweep, heal, promised>>

-----------------------------------------------------------------------------
\* StartRemoving for a kill or a pause: the state and an EndTime of now.  The
\* score in the index is not written.

Removing(r) == [r EXCEPT !.state = "removing", !.end = IF IsExpired(r, now) THEN @ ELSE now]

StartRemoving(s) ==
    /\ now <= ClientsUntil
    /\ Unlocked(s)
    /\ Stored(s)
    /\ rec[s].state = "running"
    /\ rec' = [rec EXCEPT ![s] = Removing(@)]
    /\ promised' = [promised EXCEPT ![s] = 0]
    /\ UNCHANGED <<now, idx, adding, holder, last, updates, sweep, heal>>

\* The instance that removes the sandbox dies.
RemovalDies(s) ==
    /\ now <= ClientsUntil
    /\ rec[s].state = "removing"
    /\ rec' = [rec EXCEPT ![s].state = "stuck"]
    /\ UNCHANGED <<now, idx, clientVars, sweep, heal>>

\* Storage.Remove: the record first, then the member of the same execution.
RemoveRecord(s) ==
    /\ Unlocked(s)
    /\ rec[s].state = "removing"
    /\ rec' = [rec EXCEPT ![s] = NoRec]
    /\ holder' = [holder EXCEPT ![s] = [op |-> "unindex", exec |-> rec[s].exec, score |-> 0]]
    /\ UNCHANGED <<now, idx, adding, last, updates, sweep, heal, promised>>

RemoveMember(s) ==
    /\ holder[s].op = "unindex"
    /\ Unindex(s, holder[s].exec)
    /\ holder' = [holder EXCEPT ![s] = NoDebt]
    /\ UNCHANGED <<now, rec, adding, last, updates, sweep, heal, promised>>

\* The zset write fails, or the instance dies before it.
IndexWriteFails(s) ==
    /\ holder[s] # NoDebt
    /\ holder' = [holder EXCEPT ![s] = NoDebt]
    /\ UNCHANGED <<now, rec, idx, adding, last, updates, sweep, heal, promised>>

-----------------------------------------------------------------------------
\* ExpiredItems, then one eviction per returned sandbox.

ScoreOf(m) == idx[m[1]][m[2]]
Due == {m \in Members : ScoreOf(m) # 0 /\ ScoreOf(m) <= now}

\* ZRANGEBYSCORE -inf now LIMIT BatchSize: the lowest scores first.
SweepRange(w) ==
    /\ sweep[w].pc = "idle"
    /\ Due # {}
    /\ \E ms \in SUBSET Due :
        /\ IF Cardinality(Due) <= BatchSize THEN ms = Due ELSE Cardinality(ms) = BatchSize
        /\ \A m \in ms, n \in Due \ ms : ScoreOf(m) <= ScoreOf(n)
        /\ sweep' = [sweep EXCEPT ![w] = [IdleSweep EXCEPT !.pc = "read", !.t = now, !.members = ms]]
    /\ UNCHANGED <<now, rec, idx, clientVars, heal>>

\* MGET of the records: members of no record or of a dead execution are stale,
\* members of a record that is not expired have drifted, the others are due.
SweepRead(w) ==
    /\ sweep[w].pc = "read"
    /\ LET ms   == sweep[w].members
           live == {m \in ms : rec[m[1]].exec = m[2]}
           drift == {m \in live : ~IsExpired(rec[m[1]], sweep[w].t)}
       IN sweep' = [sweep EXCEPT ![w].pc = "clean",
                                 ![w].stale = ms \ live,
                                 ![w].drifted = {[member |-> m, score |-> rec[m[1]].end] : m \in drift},
                                 ![w].todo = {m[1] : m \in {x \in live \ drift :
                                     \/ rec[x[1]].state = "running"
                                     \/ now - rec[x[1]].end > StaleCutoff}}]
    /\ UNCHANGED <<now, rec, idx, clientVars, heal>>

\* ZREM of the stale members.
SweepClean(w) ==
    /\ sweep[w].pc = "clean"
    /\ idx' = [s \in Sandboxes |-> [e \in Execs |->
                  IF <<s, e>> \in sweep[w].stale THEN 0 ELSE idx[s][e]]]
    /\ sweep' = [sweep EXCEPT ![w].pc = "rescore"]
    /\ UNCHANGED <<now, rec, clientVars, heal>>

\* ZADD XX of the drifted members, with the EndTime that was read.
SweepRescore(w) ==
    /\ sweep[w].pc = "rescore"
    /\ idx' = [s \in Sandboxes |-> [e \in Execs |->
                  IF idx[s][e] # 0 /\ \E d \in sweep[w].drifted : d.member = <<s, e>>
                  THEN (CHOOSE d \in sweep[w].drifted : d.member = <<s, e>>).score
                  ELSE idx[s][e]]]
    /\ sweep' = [sweep EXCEPT ![w].pc = "evict"]
    /\ UNCHANGED <<now, rec, clientVars, heal>>

\* Mutant: the expiry is not checked again.
CanEvictUnchecked(s) == Stored(s) /\ rec[s].state = "running"

\* StartRemoving with Eviction checks the expiry again under the lock; what
\* it finds may be another execution, or one that was kept alive meanwhile.  A
\* removal that is in progress is left alone, a failed one taken up when stale.
CanEvict(s) ==
    /\ Stored(s)
    /\ IsExpired(rec[s], now)
    /\ \/ rec[s].state = "running"
       \/ rec[s].state = "stuck" /\ now - rec[s].end > StaleCutoff

Evict(w, s) ==
    /\ sweep[w].pc = "evict"
    /\ s \in sweep[w].todo
    /\ Unlocked(s)
    /\ sweep' = [sweep EXCEPT ![w].todo = @ \ {s}]
    /\ rec' = IF CanEvict(s) THEN [rec EXCEPT ![s].state = "removing"] ELSE rec
    /\ UNCHANGED <<now, idx, clientVars, heal>>

\* MGET fails and the sweep ends, or the ZREM or the ZADD fails and it goes on.
SweepFails(w) ==
    /\ now <= ClientsUntil
    /\ \/ /\ sweep[w].pc = "read"
          /\ sweep' = [sweep EXCEPT ![w] = IdleSweep]
       \/ /\ sweep[w].pc = "clean"
          /\ sweep' = [sweep EXCEPT ![w].pc = "rescore"]
       \/ /\ sweep[w].pc = "rescore"
          /\ sweep' = [sweep EXCEPT ![w].pc = "evict"]
    /\ UNCHANGED <<now, rec, idx, clientVars, heal>>

SweepDone(w) ==
    /\ sweep[w].pc = "evict"
    /\ sweep[w].todo = {}
    /\ sweep' = [sweep EXCEPT ![w] = IdleSweep]
    /\ UNCHANGED <<now, rec, idx, clientVars, heal>>

-----------------------------------------------------------------------------
\* healSandboxBatch, for one sandbox: MGET, ZMSCORE, ZADD NX.

HealRead(h, s) ==
    /\ heal[h].pc = "idle"
    /\ Stored(s)
    /\ now - rec[s].start >= Grace
    /\ heal' = [heal EXCEPT ![h] = [pc |-> "score", id |-> s, exec |-> rec[s].exec, score |-> rec[s].end]]
    /\ UNCHANGED <<now, rec, idx, clientVars, sweep>>

HealScore(h) ==
    /\ heal[h].pc = "score"
    /\ heal' = [heal EXCEPT ![h] = IF idx[heal[h].id][heal[h].exec] # 0 THEN IdleHeal
                                   ELSE [@ EXCEPT !.pc = "add"]]
    /\ UNCHANGED <<now, rec, idx, clientVars, sweep>>

\* Mutant: ZADD XX, which only updates members that are there.
HealedXX(h) == LET n == idx[heal[h].id][heal[h].exec] IN IF n = 0 THEN n ELSE heal[h].score

\* ZADD NX, which leaves members that are there alone.
HealedNX(h) == LET n == idx[heal[h].id][heal[h].exec] IN IF n = 0 THEN heal[h].score ELSE n

\* ZMSCORE or ZADD fails: the sandbox waits for the next pass.
HealFails(h) ==
    /\ now <= ClientsUntil
    /\ heal[h].pc # "idle"
    /\ heal' = [heal EXCEPT ![h] = IdleHeal]
    /\ UNCHANGED <<now, rec, idx, clientVars, sweep>>

HealAdd(h) ==
    /\ heal[h].pc = "add"
    /\ Score(heal[h].id, heal[h].exec, HealedNX(h))
    /\ heal' = [heal EXCEPT ![h] = IdleHeal]
    /\ UNCHANGED <<now, rec, clientVars, sweep>>

-----------------------------------------------------------------------------
\* Without SlowAdds, the record is stored before the clock reaches its EndTime.
Tick ==
    /\ now < MaxTime
    /\ SlowAdds \/ \A s \in Sandboxes : adding[s] # NoRec => now + 1 < adding[s].end
    /\ now' = now + 1
    /\ promised' = [s \in Sandboxes |-> IF promised[s] > now THEN promised[s] ELSE 0]
    /\ UNCHANGED <<rec, idx, adding, holder, last, updates, sweep, heal>>

ClientStep(s) ==
    \/ BeginAdd(s) \/ AddFails(s) \/ UpdateRecord(s) \/ StartRemoving(s)
    \/ RemovalDies(s) \/ IndexWriteFails(s)

HandlerStep(s) == FinishAdd(s) \/ UpdateScore(s) \/ RemoveRecord(s) \/ RemoveMember(s)

SweepStep(w) ==
    \/ SweepRange(w) \/ SweepRead(w) \/ SweepClean(w) \/ SweepRescore(w)
    \/ (\E s \in Sandboxes : Evict(w, s)) \/ SweepFails(w) \/ SweepDone(w)

HealStep(h) == (\E s \in Sandboxes : HealRead(h, s)) \/ HealScore(h) \/ HealAdd(h) \/ HealFails(h)

Next ==
    \/ \E s \in Sandboxes : ClientStep(s) \/ HandlerStep(s)
    \/ \E w \in Sweepers : SweepStep(w)
    \/ \E h \in Healers : HealStep(h)
    \/ Tick

\* Handlers go on, the evictor and the healer tick, time passes.
Fairness ==
    /\ \A s \in Sandboxes : WF_vars(HandlerStep(s))
    /\ \A w \in Sweepers : WF_vars(SweepStep(w))
    /\ \A h \in Healers : WF_vars(HealScore(h) \/ HealAdd(h))
    /\ \A h \in Healers, s \in Sandboxes : SF_vars(HealRead(h, s))
    /\ WF_vars(Tick)

Spec == Init /\ [][Next]_vars
FairSpec == Spec /\ Fairness

-----------------------------------------------------------------------------
\* A stored sandbox is never missing from the index, at no interleaving of
\* adds, removals, updates, sweeps and heals: otherwise it "is never seen by
\* the evictor" until a heal pass.
StoredIsIndexed ==
    \A s \in Sandboxes : Stored(s) => idx[s][rec[s].exec] # 0

\* A client has its sandbox for as long as it was last granted (create, connect
\* and refresh: at least; set-timeout: exactly), unless a client asks for its
\* removal first: until then the record is there, running, with no earlier
\* EndTime.  This holds however many sweeps found the sandbox expired before it was
\* kept alive or, by its ID, an execution before it, and whatever Adds, removals and
\* updates of the ID failed on the way.
PromisedTimeKept ==
    \A s \in Sandboxes :
        now <= promised[s] => rec[s].state = "running" /\ promised[s] <= rec[s].end

\* An expired running sandbox is due for the next sweep, unless the update
\* that made it expire still owes its score: its score is never in the future.
\* For timeouts that are only extended (refresh, connect): a shorter one whose
\* score was not written is due at its old score.
ExpiredRunningIsDue ==
    \A s \in Sandboxes :
        rec[s].state = "running" /\ IsExpired(rec[s], now) /\ Unlocked(s)
        => <<s, rec[s].exec>> \in Due

\* A removal that failed is due for a sweep once StaleCutoff and the longest
\* timeout have passed since it began: StartRemoving moves EndTime to now but
\* leaves the score, so it may have to wait for its original timeout, never more.
FailedRemovalIsDue ==
    \A s \in Sandboxes :
        /\ rec[s].state = "stuck"
        /\ now - rec[s].end > StaleCutoff
        /\ \A d \in Durations : now - rec[s].end >= d
        => <<s, rec[s].exec>> \in Due

\* Every record goes away in the end once its EndTime has passed, unless it is
\* kept alive: even if its member was lost (the healer brings it back), if its
\* removal died halfway (it is taken up after StaleCutoff), or if the window of
\* BatchSize members that a sweep reads is full of others.
ExpiredGoesAway ==
    \A s \in Sandboxes, e \in Execs :
        (rec[s].exec = e /\ IsExpired(rec[s], now))
        ~> (rec[s].exec # e \/ ~IsExpired(rec[s], now))
=============================================================================
