---------------------------- MODULE IndexProofs ----------------------------
(***************************************************************************)
(* No stored sandbox is missing from the expiration index, and an expired  *)
(* one is due, for any number of sandboxes, executions, sweepers, healers  *)
(* and faults.                                                             *)
(***************************************************************************)
EXTENDS ExpirationIndex, TLAPS

Records == [exec : 0..MaxExec, state : {"none", "running", "removing", "stuck"}, start : Nat, end : Nat]

Debts == [op : {"none", "rescore", "unindex"}, exec : 0..MaxExec, score : Nat]
Drifts == [member : Members, score : Nat]
Sweeps == [pc : {"idle", "read", "clean", "rescore", "evict"}, t : Nat, members : SUBSET Members,
           stale : SUBSET Members, drifted : SUBSET Drifts, todo : SUBSET Sandboxes]
Heals == [pc : {"idle", "score", "add"}, id : Sandboxes \cup {"none"}, exec : 0..MaxExec, score : Nat]

\* The types, with the contents of sweeps and heals.
TypeInv ==
    /\ now \in 1..MaxTime
    /\ rec \in [Sandboxes -> Records]
    /\ idx \in [Sandboxes -> [Execs -> Nat]]
    /\ adding \in [Sandboxes -> [exec : 0..MaxExec, state : {"none", "running"}, start : Nat, end : Nat]]
    /\ holder \in [Sandboxes -> Debts]
    /\ last \in [Sandboxes -> 0..MaxExec]
    /\ updates \in 0..MaxUpdates
    /\ sweep \in [Sweepers -> Sweeps]
    /\ heal \in [Healers -> Heals]

\* Executions are numbered: the one being added is the last, and its Add ends
\* before its score comes due.
AddInv ==
    \A s \in Sandboxes :
        /\ adding[s] # NoRec =>
            /\ adding[s].exec = last[s] /\ last[s] \in Execs
            /\ adding[s].state = "running"
            /\ rec[s] = NoRec
            /\ now < adding[s].end
            /\ idx[s][last[s]] = adding[s].end
        /\ rec[s].exec <= last[s]
        /\ rec[s].exec = 0 => rec[s] = NoRec
        /\ rec[s].exec # 0 => rec[s].end # 0
        /\ \A e \in Execs : last[s] < e => idx[s][e] = 0

\* The Add of the execution is over; and the execution is.
Seen(s, e) == s \in Sandboxes /\ e \in Execs /\ e <= last[s] /\ adding[s].exec # e
Dead(s, e) == Seen(s, e) /\ rec[s].exec # e

\* The zset write that a holder owes is about the stored execution, or a dead one.
HolderInv ==
    \A s \in Sandboxes :
        /\ holder[s].op = "rescore" =>
            holder[s].exec \in Execs /\ holder[s].exec = rec[s].exec /\ holder[s].score = rec[s].end
        /\ holder[s].op = "unindex" => Dead(s, holder[s].exec)

\* A sweep cleans up dead executions only, and its scores are real ones.
SweepInv ==
    \A w \in Sweepers :
        /\ sweep[w].pc = "read" => \A m \in sweep[w].members : Seen(m[1], m[2])
        /\ sweep[w].pc = "clean" => \A m \in sweep[w].stale : Dead(m[1], m[2])
        /\ sweep[w].pc \in {"clean", "rescore"} =>
            \A d \in sweep[w].drifted : Seen(d.member[1], d.member[2]) /\ d.score # 0

HealInv ==
    \A h \in Healers :
        heal[h].pc # "idle" => Seen(heal[h].id, heal[h].exec) /\ heal[h].score # 0

IndexInv == TypeInv /\ AddInv /\ HolderInv /\ SweepInv /\ HealInv /\ StoredIsIndexed

\* A score of the execution that is not later than its EndTime, while it runs.
NotLate(s, e, n) == rec[s].state = "running" /\ rec[s].exec = e => n <= rec[s].end

\* No score that is written, or to be written, is late.
ScoresNotLate ==
    /\ \A s \in Sandboxes, e \in Execs : NotLate(s, e, idx[s][e])
    /\ \A w \in Sweepers : sweep[w].pc \in {"clean", "rescore"} =>
        \A d \in sweep[w].drifted : NotLate(d.member[1], d.member[2], d.score)
    /\ \A h \in Healers : heal[h].pc # "idle" => NotLate(heal[h].id, heal[h].exec, heal[h].score)

-----------------------------------------------------------------------------
\* One member's score is written.
LEMMA ScoreWritten ==
    ASSUME TypeInv, NEW s \in Sandboxes, NEW e, NEW n \in Nat, Score(s, e, n)
    PROVE  /\ idx' \in [Sandboxes -> [Execs -> Nat]]
           /\ \A t \in Sandboxes, x \in Execs : idx'[t][x] = IF t = s /\ x = e THEN n ELSE idx[t][x]
<1>1. idx \in [Sandboxes -> [Execs -> Nat]] /\ idx' = [idx EXCEPT ![s][e] = n]
  BY DEF TypeInv, Score
<1> QED  BY <1>1

\* What a sweep has read has its types.
LEMMA SweepTyped ==
    ASSUME NEW r \in Sweeps, NEW a \in SUBSET Members, NEW b \in SUBSET Drifts, NEW c \in SUBSET Sandboxes
    PROVE  [r EXCEPT !.pc = "clean", !.stale = a, !.drifted = b, !.todo = c] \in Sweeps
BY DEF Sweeps

\* A sweep writes the scores that it has read.
LEMMA RescoreWrites ==
    ASSUME NEW w, SweepRescore(w), NEW s \in Sandboxes, NEW e \in Execs
    PROVE  \/ idx'[s][e] = idx[s][e]
           \/ \E d \in sweep[w].drifted : d.member = <<s, e>> /\ idx'[s][e] = d.score
<1> DEFINE D == sweep[w].drifted
           c == CHOOSE d \in D : d.member = <<s, e>>
<1>1. idx' = [t \in Sandboxes |-> [x \in Execs |->
                IF idx[t][x] # 0 /\ \E d \in D : d.member = <<t, x>>
                THEN (CHOOSE d \in D : d.member = <<t, x>>).score
                ELSE idx[t][x]]]
  BY DEF SweepRescore
<1>2. idx'[s][e] = IF idx[s][e] # 0 /\ \E d \in D : d.member = <<s, e>> THEN c.score ELSE idx[s][e]
  BY <1>1, Zenon
<1>3. (\E d \in D : d.member = <<s, e>>) => c \in D /\ c.member = <<s, e>>
  BY Zenon
<1> HIDE DEF D, c
<1>4. idx'[s][e] = idx[s][e] \/ \E d \in D : d.member = <<s, e>> /\ idx'[s][e] = d.score
  BY <1>2, <1>3
<1> QED  BY <1>4 DEF D

\* Every step keeps the types.
LEMMA StepTypes == TypeInv /\ [Next]_vars => TypeInv'
<1> SUFFICES ASSUME TypeInv, [Next]_vars PROVE TypeInv'
  OBVIOUS
<1>r. rec \in [Sandboxes -> Records]
  BY DEF TypeInv
<1>d. NoDebt \in Debts
  BY ConstantsAssumption DEF NoDebt, Debts
<1>s. sweep \in [Sweepers -> Sweeps]
  BY DEF TypeInv
<1> USE ConstantsAssumption DEF TypeInv, clientVars
<1>1. ASSUME NEW s \in Sandboxes, ClientStep(s) PROVE TypeInv'
  <2>1. CASE BeginAdd(s)
    <3>1. PICK d \in Durations :
            /\ adding' = [adding EXCEPT ![s] =
                 [exec |-> last[s] + 1, state |-> "running", start |-> now, end |-> now + d]]
            /\ idx' = [idx EXCEPT ![s][last[s] + 1] = now + d]
      BY <2>1 DEF BeginAdd, Score
    <3>2. now + d \in Nat /\ last[s] + 1 \in 0..MaxExec /\ last[s] + 1 \in Execs /\ now \in Nat
      BY <2>1 DEF BeginAdd, Execs
    <3>3. idx' \in [Sandboxes -> [Execs -> Nat]]
      BY <3>1, <3>2, ScoreWritten DEF Score
    <3> QED  BY <2>1, <3>1, <3>2, <3>3 DEF BeginAdd
  <2>2. CASE AddFails(s)
    BY <2>2 DEF AddFails, NoRec
  <2>3. CASE UpdateRecord(s)
    <3>1. PICK d \in Durations :
            /\ rec' = [rec EXCEPT ![s].end = NewEnd(rec[s], d)]
            /\ holder' = [holder EXCEPT ![s] = [op |-> "rescore", exec |-> rec[s].exec, score |-> NewEnd(rec[s], d)]]
      BY <2>3 DEF UpdateRecord
    <3>2. NewEnd(rec[s], d) \in Nat
      BY <1>r DEF NewEnd, Records
    <3>3. rec' \in [Sandboxes -> Records]
      BY ONLY <1>r, <3>1, <3>2 DEF Records
    <3>4. rec[s].exec \in 0..MaxExec
      BY <1>r DEF Records
    <3> QED  BY <2>3, <3>1, <3>2, <3>3, <3>4 DEF UpdateRecord, Debts
  <2>4. CASE StartRemoving(s)
    <3>1. rec[s] \in Records /\ now \in Nat
      BY <1>r
    <3>2. Removing(rec[s]) \in Records
      BY ONLY <3>1 DEF Removing, Records, IsExpired
    <3> QED  BY <2>4, <3>2 DEF StartRemoving
  <2>5. CASE RemovalDies(s)
    <3>1. rec' \in [Sandboxes -> Records]
      BY ONLY <1>r, <2>5 DEF RemovalDies, Records
    <3> QED  BY <2>5, <3>1 DEF RemovalDies
  <2>6. CASE IndexWriteFails(s)
    BY <1>d, <2>6 DEF IndexWriteFails
  <2> QED  BY <1>1, <2>1, <2>2, <2>3, <2>4, <2>5, <2>6 DEF ClientStep
<1>2. ASSUME NEW s \in Sandboxes, HandlerStep(s) PROVE TypeInv'
  <2>1. CASE FinishAdd(s)
    <3>1. adding[s] \in Records
      BY DEF Records
    <3> QED  BY <2>1, <3>1 DEF FinishAdd, NoRec
  <2>2. CASE UpdateScore(s)
    <3>1. idx' \in [Sandboxes -> [Execs -> Nat]]
      <4>1. holder[s].score \in Nat
        BY DEF Debts
      <4> QED  BY <2>2, <4>1, ScoreWritten DEF UpdateScore
    <3> QED  BY <1>d, <2>2, <3>1 DEF UpdateScore
  <2>3. CASE RemoveRecord(s)
    BY <2>3, <1>r DEF RemoveRecord, NoRec, Records, Debts
  <2>4. CASE RemoveMember(s)
    <3>1. idx' \in [Sandboxes -> [Execs -> Nat]]
      BY <2>4, ScoreWritten DEF RemoveMember, Unindex
    <3> QED  BY <1>d, <2>4, <3>1 DEF RemoveMember
  <2> QED  BY <1>2, <2>1, <2>2, <2>3, <2>4 DEF HandlerStep
<1>3. ASSUME NEW w \in Sweepers, SweepStep(w) PROVE TypeInv'
  <2>1. CASE SweepRange(w)
    <3>1. PICK ms \in SUBSET Due :
            sweep' = [sweep EXCEPT ![w] = [IdleSweep EXCEPT !.pc = "read", !.t = now, !.members = ms]]
      BY <2>1 DEF SweepRange
    <3>2. ms \subseteq Members /\ now \in Nat
      BY DEF Due
    <3>3. [IdleSweep EXCEPT !.pc = "read", !.t = now, !.members = ms] \in Sweeps
      BY ONLY <3>2 DEF IdleSweep, Sweeps
    <3> QED  BY <2>1, <3>1, <3>3 DEF SweepRange
  <2>2. CASE SweepRead(w)
    <3> DEFINE ms == sweep[w].members
               alive == {m \in ms : rec[m[1]].exec = m[2]}
               drift == {m \in alive : ~IsExpired(rec[m[1]], sweep[w].t)}
               due == {x \in alive \ drift : \/ rec[x[1]].state = "running"
                                             \/ now - rec[x[1]].end > StaleCutoff}
    <3>1. sweep' = [sweep EXCEPT ![w].pc = "clean",
                                 ![w].stale = ms \ alive,
                                 ![w].drifted = {[member |-> m, score |-> rec[m[1]].end] : m \in drift},
                                 ![w].todo = {m[1] : m \in due}]
      BY <2>2 DEF SweepRead
    <3>2. ms \subseteq Members /\ \A m \in Members : m[1] \in Sandboxes /\ rec[m[1]].end \in Nat
      BY <1>r DEF Members, Sweeps, Records
    <3>3. /\ ms \ alive \in SUBSET Members
          /\ {m[1] : m \in due} \in SUBSET Sandboxes
          /\ {[member |-> m, score |-> rec[m[1]].end] : m \in drift} \in SUBSET Drifts
      BY <3>2 DEF Drifts
    <3> DEFINE a == ms \ alive
               b == {[member |-> m, score |-> rec[m[1]].end] : m \in drift}
               c == {m[1] : m \in due}
    <3>4. /\ sweep' = [sweep EXCEPT ![w].pc = "clean", ![w].stale = a, ![w].drifted = b, ![w].todo = c]
          /\ a \in SUBSET Members /\ b \in SUBSET Drifts /\ c \in SUBSET Sandboxes
      BY <3>1, <3>3
    <3> HIDE DEF a, b, c
    <3>5. sweep' = [sweep EXCEPT ![w] = [@ EXCEPT !.pc = "clean", !.stale = a, !.drifted = b, !.todo = c]]
      BY ONLY <3>4, <1>s
    <3>6. [sweep[w] EXCEPT !.pc = "clean", !.stale = a, !.drifted = b, !.todo = c] \in Sweeps
      BY ONLY <3>4, <1>s, SweepTyped
    <3>7. sweep' \in [Sweepers -> Sweeps]
      BY ONLY <1>s, <3>5, <3>6
    <3> QED  BY <2>2, <3>7 DEF SweepRead
  <2>3. CASE SweepClean(w)
    <3>1. sweep' \in [Sweepers -> Sweeps]
      BY ONLY <1>s, <2>3 DEF SweepClean, Sweeps
    <3>2. idx' \in [Sandboxes -> [Execs -> Nat]]
      BY <2>3 DEF SweepClean
    <3> QED  BY <2>3, <3>1, <3>2 DEF SweepClean
  <2>4. CASE SweepRescore(w)
    <3>i. idx \in [Sandboxes -> [Execs -> Nat]]
      OBVIOUS
    <3>1. \A s \in Sandboxes, e \in Execs : idx'[s][e] \in Nat
      <4>1. sweep[w].drifted \subseteq Drifts
        BY <1>s DEF Sweeps
      <4> QED  BY <2>4, <3>i, <4>1, RescoreWrites DEF Drifts
    <3>2. idx' \in [Sandboxes -> [Execs -> Nat]]
      BY <2>4, <3>1 DEF SweepRescore
    <3>3. sweep' \in [Sweepers -> Sweeps]
      BY ONLY <1>s, <2>4 DEF SweepRescore, Sweeps
    <3> QED  BY <2>4, <3>2, <3>3 DEF SweepRescore
  <2>5. ASSUME NEW s \in Sandboxes, Evict(w, s) PROVE TypeInv'
    <3>1. sweep' \in [Sweepers -> Sweeps]
      BY ONLY <1>s, <2>5 DEF Evict, Sweeps
    <3>2. rec' \in [Sandboxes -> Records]
      BY ONLY <1>r, <2>5 DEF Evict, Records
    <3> QED  BY <2>5, <3>1, <3>2 DEF Evict
  <2>6. CASE SweepFails(w)
    <3>1. IdleSweep \in Sweeps
      BY DEF IdleSweep, Sweeps
    <3>2. \A p \in {"rescore", "evict"} : [sweep EXCEPT ![w].pc = p] \in [Sweepers -> Sweeps]
      BY ONLY <1>s DEF Sweeps
    <3>3. sweep' \in [Sweepers -> Sweeps]
      BY ONLY <1>s, <2>6, <3>1, <3>2 DEF SweepFails
    <3> QED  BY <2>6, <3>3 DEF SweepFails
  <2>7. CASE SweepDone(w)
    <3>1. IdleSweep \in Sweeps
      BY DEF IdleSweep, Sweeps
    <3> QED  BY <2>7, <3>1 DEF SweepDone
  <2> QED  BY <1>3, <2>1, <2>2, <2>3, <2>4, <2>5, <2>6, <2>7 DEF SweepStep
<1>4. ASSUME NEW h \in Healers, HealStep(h) PROVE TypeInv'
  <2>1. ASSUME NEW s \in Sandboxes, HealRead(h, s) PROVE TypeInv'
    <3>1. rec[s].exec \in 0..MaxExec /\ rec[s].end \in Nat
      BY <1>r DEF Records
    <3> QED  BY <2>1, <3>1 DEF HealRead, Heals
  <2> USE DEF Heals, IdleHeal
  <2>h. heal \in [Healers -> Heals]
    OBVIOUS
  <2>2. CASE HealScore(h)
    <3>1. [heal[h] EXCEPT !.pc = "add"] \in Heals /\ IdleHeal \in Heals
      BY ONLY <2>h, ConstantsAssumption DEF Heals, IdleHeal, ConstantsAssumption
    <3>2. heal' = [heal EXCEPT ![h] = IdleHeal] \/ heal' = [heal EXCEPT ![h] = [heal[h] EXCEPT !.pc = "add"]]
      BY <2>2 DEF HealScore
    <3> HIDE DEF Heals, IdleHeal
    <3>3. heal' \in [Healers -> Heals]
      BY ONLY <2>h, <3>1, <3>2
    <3> QED  BY <2>2, <3>3 DEF HealScore
  <2>3. CASE HealAdd(h)
    <3>1. idx' \in [Sandboxes -> [Execs -> Nat]]
      <4>1. CASE heal[h].id \in Sandboxes /\ heal[h].exec \in Execs
        <5>1. HealedNX(h) \in Nat
          BY <4>1 DEF HealedNX
        <5> QED  BY <2>3, <4>1, <5>1, ScoreWritten DEF HealAdd
      <4>2. CASE ~(heal[h].id \in Sandboxes /\ heal[h].exec \in Execs)
        <5>1. idx \in [Sandboxes -> [Execs -> Nat]]
          OBVIOUS
        <5>2. CASE heal[h].id \notin Sandboxes
          BY ONLY <2>3, <5>1, <5>2 DEF HealAdd, Score
        <5>3. CASE heal[h].id \in Sandboxes /\ heal[h].exec \notin Execs
          <6>1. [idx[heal[h].id] EXCEPT ![heal[h].exec] = HealedNX(h)] = idx[heal[h].id]
            BY ONLY <5>1, <5>3
          <6> QED  BY ONLY <2>3, <5>1, <6>1 DEF HealAdd, Score
        <5> QED  BY <4>2, <5>2, <5>3
      <4> QED  BY <4>1, <4>2
    <3> QED  BY <2>3, <3>1 DEF HealAdd
  <2>4. CASE HealFails(h)
    BY <2>4 DEF HealFails
  <2> QED  BY <1>4, <2>1, <2>2, <2>3, <2>4 DEF HealStep
<1>5. CASE Tick
  BY <1>5 DEF Tick
<1>6. CASE UNCHANGED vars
  BY <1>6 DEF vars
<1> QED  BY <1>1, <1>2, <1>3, <1>4, <1>5, <1>6 DEF Next

PromiseType == promised \in [Sandboxes -> Nat]

\* What was promised changes with an Add, an update, a client's removal, or time.
LEMMA PromisesGoOn ==
    ASSUME TypeInv, PromiseType, [Next]_vars
    PROVE  \/ UNCHANGED promised
           \/ \E s \in Sandboxes : FinishAdd(s) \/ UpdateRecord(s) \/ StartRemoving(s)
           \/ Tick
<1> USE DEF clientVars
<1>1. ASSUME NEW s \in Sandboxes, ClientStep(s) \/ HandlerStep(s)
      PROVE  UNCHANGED promised \/ FinishAdd(s) \/ UpdateRecord(s) \/ StartRemoving(s)
  BY <1>1, Zenon DEF ClientStep, HandlerStep, BeginAdd, AddFails, RemovalDies, IndexWriteFails, UpdateScore,
     RemoveRecord, RemoveMember
<1>2. ASSUME NEW w \in Sweepers, SweepStep(w) PROVE UNCHANGED promised
  BY <1>2, Zenon DEF SweepStep, SweepRange, SweepRead, SweepClean, SweepRescore, Evict, SweepFails, SweepDone
<1>3. ASSUME NEW h \in Healers, HealStep(h) PROVE UNCHANGED promised
  BY <1>3, Zenon DEF HealStep, HealRead, HealScore, HealAdd, HealFails
<1> QED  BY <1>1, <1>2, <1>3 DEF Next, vars

\* Promises stay times.
LEMMA PromiseTypes == TypeInv /\ PromiseType /\ [Next]_vars => PromiseType'
<1> SUFFICES ASSUME TypeInv, PromiseType, [Next]_vars PROVE PromiseType'
  OBVIOUS
<1> USE DEF PromiseType
<1>r. /\ \A s \in Sandboxes : adding[s].end \in Nat
      /\ now \in Nat /\ Durations \subseteq Nat
  BY ConstantsAssumption DEF TypeInv
<1>1. ASSUME NEW s \in Sandboxes, FinishAdd(s) PROVE PromiseType'
  BY <1>1, <1>r DEF FinishAdd
<1>2. ASSUME NEW s \in Sandboxes, UpdateRecord(s) PROVE PromiseType'
  <2>1. PICK d \in Durations :
          promised' = [promised EXCEPT ![s] = IF AllowShorter \/ now + d >= @ THEN now + d ELSE @]
    BY <1>2 DEF UpdateRecord
  <2>2. now + d \in Nat
    BY <1>r
  <2> QED  BY <2>1, <2>2
<1>3. ASSUME NEW s \in Sandboxes, StartRemoving(s) PROVE PromiseType'
  BY <1>3 DEF StartRemoving
<1>4. CASE Tick
  BY <1>4 DEF Tick
<1> QED  BY <1>1, <1>2, <1>3, <1>4, PromisesGoOn

\* The index, its readers and its writers keep their types.
THEOREM IndexTypeCorrect == Spec => []TypeOK
<1>1. Init => TypeInv /\ PromiseType
  BY ConstantsAssumption DEF Init, TypeInv, PromiseType, Records, NoRec, NoDebt, IdleSweep, IdleHeal, Sweeps, Heals,
     Debts
<1>2. TypeInv /\ PromiseType => TypeOK
  BY DEF TypeInv, PromiseType, TypeOK, Records, Debts, Sweeps, Heals, Drifts
<1> QED  BY <1>1, <1>2, StepTypes, PromiseTypes, PTL DEF Spec

-----------------------------------------------------------------------------
\* How the executions of an ID go on.
LEMMA ExecutionsGoOn ==
    ASSUME TypeInv, [Next]_vars, NEW s \in Sandboxes
    PROVE  /\ last'[s] = last[s] \/ last'[s] = last[s] + 1
           /\ adding'[s].exec \in {0, adding[s].exec} \/ adding'[s].exec = last[s] + 1
           /\ rec'[s].exec \in {0, rec[s].exec, adding[s].exec}
<1>r. /\ rec \in [Sandboxes -> Records]
      /\ adding \in [Sandboxes -> [exec : 0..MaxExec, state : {"none", "running"}, start : Nat, end : Nat]]
      /\ last \in [Sandboxes -> 0..MaxExec]
  BY DEF TypeInv
<1> USE DEF clientVars, NoRec, Records
<1>1. ASSUME NEW t \in Sandboxes, ClientStep(t) \/ HandlerStep(t)
      PROVE  /\ last' = last \/ last' = [last EXCEPT ![t] = @ + 1]
             /\ \/ adding' = adding
                \/ adding' = [adding EXCEPT ![t] = NoRec]
                \/ \E d : adding' = [adding EXCEPT ![t] =
                        [exec |-> last[t] + 1, state |-> "running", start |-> now, end |-> d]]
             /\ \/ rec' = rec
                \/ rec' = [rec EXCEPT ![t] = adding[t]]
                \/ rec' = [rec EXCEPT ![t] = NoRec]
                \/ rec' = [rec EXCEPT ![t].state = "stuck"]
                \/ \E d : rec' = [rec EXCEPT ![t].end = d]
                \/ \E d : rec' = [rec EXCEPT ![t] = [@ EXCEPT !.state = "removing", !.end = d]]
  <2>1. CASE BeginAdd(t) \/ AddFails(t) \/ FinishAdd(t)
    BY <2>1 DEF BeginAdd, AddFails, FinishAdd
  <2>2. CASE UpdateRecord(t) \/ RemovalDies(t) \/ RemoveRecord(t)
    BY <2>2 DEF UpdateRecord, RemovalDies, RemoveRecord
  <2>3. CASE StartRemoving(t)
    BY <2>3 DEF StartRemoving, Removing
  <2>4. CASE IndexWriteFails(t) \/ UpdateScore(t) \/ RemoveMember(t)
    BY <2>4 DEF IndexWriteFails, UpdateScore, RemoveMember
  <2> QED  BY <1>1, <2>1, <2>2, <2>3, <2>4 DEF ClientStep, HandlerStep
<1>2. ASSUME NEW w \in Sweepers, SweepStep(w)
      PROVE  UNCHANGED <<last, adding>> /\ (rec' = rec \/ \E t \in Sandboxes : rec' = [rec EXCEPT ![t].state = "removing"])
  BY <1>2 DEF SweepStep, SweepRange, SweepRead, SweepClean, SweepRescore, Evict, SweepFails, SweepDone
<1>3. ASSUME NEW h \in Healers, HealStep(h) PROVE UNCHANGED <<last, adding, rec>>
  BY <1>3 DEF HealStep, HealRead, HealScore, HealAdd, HealFails
<1>4. CASE \E t \in Sandboxes : ClientStep(t) \/ HandlerStep(t)
  <2>1. PICK t \in Sandboxes : ClientStep(t) \/ HandlerStep(t)
    BY <1>4
  <2>2. last'[s] = last[s] \/ last'[s] = last[s] + 1
    BY ONLY <1>r, <1>1, <2>1
  <2>3. adding'[s].exec \in {0, adding[s].exec} \/ adding'[s].exec = last[s] + 1
    <3>1. \/ adding' = adding
          \/ adding' = [adding EXCEPT ![t] = NoRec]
          \/ \E d : adding' = [adding EXCEPT ![t] =
                        [exec |-> last[t] + 1, state |-> "running", start |-> now, end |-> d]]
      BY <1>1, <2>1
    <3> QED  BY ONLY <1>r, <3>1 DEF NoRec
  <2>4. rec'[s].exec \in {0, rec[s].exec, adding[s].exec}
    <3>1. \/ rec' = rec
          \/ rec' = [rec EXCEPT ![t] = adding[t]]
          \/ rec' = [rec EXCEPT ![t] = NoRec]
          \/ rec' = [rec EXCEPT ![t].state = "stuck"]
          \/ \E d : rec' = [rec EXCEPT ![t].end = d]
          \/ \E d : rec' = [rec EXCEPT ![t] = [@ EXCEPT !.state = "removing", !.end = d]]
      BY <1>1, <2>1
    <3>2. CASE rec' = rec \/ rec' = [rec EXCEPT ![t] = adding[t]] \/ rec' = [rec EXCEPT ![t] = NoRec]
      BY ONLY <1>r, <3>2 DEF NoRec
    <3>3. CASE rec' = [rec EXCEPT ![t].state = "stuck"]
      BY ONLY <1>r, <3>3 DEF Records
    <3>4. CASE \E d : rec' = [rec EXCEPT ![t].end = d]
      BY ONLY <1>r, <3>4 DEF Records
    <3>5. CASE \E d : rec' = [rec EXCEPT ![t] = [@ EXCEPT !.state = "removing", !.end = d]]
      BY ONLY <1>r, <3>5 DEF Records
    <3> QED  BY <3>1, <3>2, <3>3, <3>4, <3>5
  <2> QED  BY <2>2, <2>3, <2>4
<1>5. CASE \E w \in Sweepers : SweepStep(w)
  <2>1. /\ UNCHANGED <<last, adding>>
        /\ rec' = rec \/ \E t \in Sandboxes : rec' = [rec EXCEPT ![t].state = "removing"]
    BY <1>2, <1>5
  <2>2. rec'[s].exec = rec[s].exec
    BY ONLY <1>r, <2>1 DEF Records
  <2> QED  BY <2>1, <2>2
<1>6. CASE (\E h \in Healers : HealStep(h)) \/ Tick \/ UNCHANGED vars
  BY <1>3, <1>6 DEF Tick, vars
<1> QED  BY <1>4, <1>5, <1>6 DEF Next

\* An Add that is over stays over, a dead execution stays dead.
LEMMA DeadStaysDead ==
    ASSUME TypeInv, TypeInv', [Next]_vars, NEW s, NEW e
    PROVE  (Seen(s, e) => Seen(s, e)') /\ (Dead(s, e) => Dead(s, e)')
<1>1. SUFFICES ASSUME Seen(s, e) PROVE Seen(s, e)' /\ (Dead(s, e) => Dead(s, e)')
  BY DEF Dead
<1>2. s \in Sandboxes /\ e \in 1..MaxExec /\ e <= last[s] /\ adding[s].exec # e /\ last[s] \in 0..MaxExec
  BY <1>1 DEF Seen, Execs, TypeInv
<1>3. /\ last'[s] = last[s] \/ last'[s] = last[s] + 1
      /\ adding'[s].exec \in {0, adding[s].exec} \/ adding'[s].exec = last[s] + 1
      /\ rec'[s].exec \in {0, rec[s].exec, adding[s].exec}
  BY <1>2, ExecutionsGoOn
<1> QED  BY <1>2, <1>3, ConstantsAssumption DEF Seen, Dead, Execs, ConstantsAssumption

\* Writes of scores to the index: for live executions a real score, or for dead ones.
LEMMA WritesKeepIndex ==
    ASSUME IndexInv, UNCHANGED <<now, rec, adding, last>>,
           \A s \in Sandboxes, e \in Execs :
              idx'[s][e] = idx[s][e] \/ (Seen(s, e) /\ idx'[s][e] # 0) \/ Dead(s, e)
    PROVE  AddInv' /\ StoredIsIndexed'
<1>1. \A s \in Sandboxes : /\ last[s] \in 0..MaxExec /\ rec[s].exec \in 0..MaxExec
                           /\ adding[s].exec \in 0..MaxExec
  BY DEF IndexInv, TypeInv, Records
<1>2. AddInv'
  BY <1>1 DEF IndexInv, AddInv, Seen, Dead, Execs
<1>3. StoredIsIndexed'
  BY <1>1 DEF IndexInv, StoredIsIndexed, Stored, Dead, Seen, Execs
<1> QED  BY <1>2, <1>3

\* Writes of records that leave the index alone.
LEMMA RecordsKeepIndex ==
    ASSUME IndexInv, UNCHANGED <<now, idx, adding, last>>,
           \A s \in Sandboxes :
              \/ rec'[s] = rec[s]
              \/ rec'[s] = NoRec
              \/ rec[s].exec # 0 /\ rec'[s].exec = rec[s].exec /\ rec'[s].end # 0
    PROVE  AddInv' /\ StoredIsIndexed'
<1>1. \A s \in Sandboxes : last[s] \in 0..MaxExec /\ NoRec.exec = 0 /\ NoRec.end = 0
  BY DEF IndexInv, TypeInv, NoRec
<1>2. AddInv'
  BY <1>1 DEF IndexInv, AddInv
<1>3. StoredIsIndexed'
  BY <1>1 DEF IndexInv, StoredIsIndexed, Stored
<1> QED  BY <1>2, <1>3

\* The scores a holder, a sweep or a healer writes are real, or of the dead.
LEMMA IndexStep == ~SlowAdds /\ IndexInv /\ [Next]_vars => IndexInv'
<1> SUFFICES ASSUME ~SlowAdds, IndexInv, [Next]_vars PROVE IndexInv'
  OBVIOUS
<1>t. TypeInv /\ TypeInv'
  BY StepTypes DEF IndexInv
<1>r. /\ rec \in [Sandboxes -> Records] /\ rec' \in [Sandboxes -> Records]
      /\ idx \in [Sandboxes -> [Execs -> Nat]]
      /\ holder \in [Sandboxes -> Debts]
      /\ last \in [Sandboxes -> 0..MaxExec]
      /\ adding \in [Sandboxes -> [exec : 0..MaxExec, state : {"none", "running"}, start : Nat, end : Nat]]
      /\ sweep \in [Sweepers -> Sweeps]
      /\ heal \in [Healers -> Heals]
      /\ now \in Nat \ {0} /\ MaxExec \in Nat
  BY <1>t, ConstantsAssumption DEF TypeInv
<1>d. \A s, e : (Seen(s, e) => Seen(s, e)') /\ (Dead(s, e) => Dead(s, e)')
  BY <1>t, DeadStaysDead
\* Those that have read something, and have not gone on since, still know it.
<1>s. UNCHANGED sweep => SweepInv'
  BY <1>d DEF IndexInv, SweepInv
<1>h. UNCHANGED heal => HealInv'
  BY <1>d DEF IndexInv, HealInv
<1>l. UNCHANGED <<holder, rec>> => HolderInv'
  BY <1>d DEF IndexInv, HolderInv
<1>k. UNCHANGED <<now, rec, idx, adding, last>> => AddInv' /\ StoredIsIndexed'
  BY DEF IndexInv, AddInv, StoredIsIndexed, Stored
<1>1. ASSUME NEW s \in Sandboxes, ClientStep(s) PROVE IndexInv'
  <2>s. SweepInv' /\ HealInv'
    BY <1>1, <1>s, <1>h DEF ClientStep, BeginAdd, AddFails, UpdateRecord, StartRemoving, RemovalDies, IndexWriteFails, clientVars
  <2>1. CASE BeginAdd(s)
    <3>1. PICK d \in Durations :
            /\ adding' = [adding EXCEPT ![s] =
                 [exec |-> last[s] + 1, state |-> "running", start |-> now, end |-> now + d]]
            /\ Score(s, last[s] + 1, now + d)
      BY <2>1 DEF BeginAdd
    <3>2. /\ last' = [last EXCEPT ![s] = @ + 1] /\ last[s] + 1 \in Execs
          /\ rec[s] = NoRec
          /\ UNCHANGED <<now, rec, holder>>
          /\ d \in Nat \ {0}
      BY <2>1, <1>r, ConstantsAssumption DEF BeginAdd, Execs, Stored, IndexInv, AddInv
    <3>3. \A t \in Sandboxes, x \in Execs : idx'[t][x] = IF t = s /\ x = last[s] + 1 THEN now + d ELSE idx[t][x]
      BY <1>t, <1>r, <3>1, <3>2, ScoreWritten
    <3>4. AddInv'
      <4> SUFFICES ASSUME NEW t \in Sandboxes
                   PROVE  /\ adding'[t] # NoRec =>
                            /\ adding'[t].exec = last'[t] /\ last'[t] \in Execs
                            /\ adding'[t].state = "running"
                            /\ rec'[t] = NoRec
                            /\ now' < adding'[t].end
                            /\ idx'[t][last'[t]] = adding'[t].end
                          /\ rec'[t].exec <= last'[t]
                          /\ rec'[t].exec = 0 => rec'[t] = NoRec
                          /\ rec'[t].exec # 0 => rec'[t].end # 0
                          /\ \A e \in Execs : last'[t] < e => idx'[t][e] = 0
        BY DEF AddInv
      <4>1. CASE t # s
        <5>1. adding'[t] = adding[t] /\ last'[t] = last[t] /\ \A e \in Execs : idx'[t][e] = idx[t][e]
          BY <1>r, <3>1, <3>2, <3>3, <4>1
        <5> QED  BY <3>2, <5>1 DEF IndexInv, AddInv
      <4>2. CASE t = s
        <5>1. /\ adding'[s].exec = last[s] + 1 /\ adding'[s].state = "running" /\ adding'[s].end = now + d
              /\ last'[s] = last[s] + 1
              /\ \A e \in Execs : last[s] + 1 < e => idx'[s][e] = idx[s][e]
              /\ idx'[s][last[s] + 1] = now + d
          <6>1. /\ adding'[s] = [exec |-> last[s] + 1, state |-> "running", start |-> now, end |-> now + d]
                /\ last'[s] = last[s] + 1
            BY ONLY <1>r, <3>1, <3>2
          <6>2. last[s] \in Nat /\ \A e \in Execs : e \in Nat
            BY ONLY <1>r DEF Execs
          <6>3. \A e \in Execs : last[s] + 1 < e => idx'[s][e] = idx[s][e]
            BY ONLY <3>3, <6>2
          <6>4. idx'[s][last[s] + 1] = now + d
            BY ONLY <3>2, <3>3
          <6> QED  BY ONLY <6>1, <6>3, <6>4
        <5>2. last[s] \in Nat /\ now + d > now /\ NoRec.exec = 0
          BY <1>r, <3>2 DEF NoRec
        <5>3. \A e \in Execs : last[s] + 1 < e => idx[s][e] = 0
          BY <5>2 DEF IndexInv, AddInv, Execs
        <5> QED  BY <3>2, <4>2, <5>1, <5>2, <5>3
      <4> QED  BY <4>1, <4>2
    <3>5. StoredIsIndexed'
      <4>1. \A t \in Sandboxes : Stored(t) => rec[t].exec \in Execs /\ idx[t][rec[t].exec] # 0 /\ t # s
        <5>1. \A t \in Sandboxes : rec[t].exec \in 0..MaxExec
          BY ONLY <1>r DEF Records
        <5>2. rec[s].exec = 0
          BY <3>2 DEF NoRec
        <5>3. \A t \in Sandboxes : rec[t].exec # 0 => idx[t][rec[t].exec] # 0
          BY DEF IndexInv, StoredIsIndexed, Stored
        <5>4. MaxExec \in Nat
          BY <1>r
        <5>5. \A t \in Sandboxes : rec[t].exec # 0 => rec[t].exec \in 1..MaxExec
          BY ONLY <5>1, <5>4
        <5> QED  BY ONLY <5>2, <5>3, <5>5 DEF Stored, Execs
      <4> QED  BY <3>2, <3>3, <4>1 DEF StoredIsIndexed, Stored
    <3>6. HolderInv'
      BY <1>l, <3>2
    <3> QED  BY <1>t, <2>s, <3>4, <3>5, <3>6 DEF IndexInv
  <2>2. CASE AddFails(s)
    <3>1. UNCHANGED <<now, rec, idx, holder, last>> /\ adding' = [adding EXCEPT ![s] = NoRec]
      BY <2>2 DEF AddFails
    <3>2. \A t \in Sandboxes : adding'[t] = NoRec \/ adding'[t] = adding[t]
      BY <1>r, <3>1
    <3>3. AddInv' /\ StoredIsIndexed' /\ HolderInv'
      BY <1>l, <3>1, <3>2 DEF IndexInv, AddInv, StoredIsIndexed, Stored
    <3> QED  BY <1>t, <2>s, <3>3 DEF IndexInv
  <2>3. CASE UpdateRecord(s)
    <3>1. PICK d \in Durations :
            /\ rec' = [rec EXCEPT ![s].end = NewEnd(rec[s], d)]
            /\ holder' = [holder EXCEPT ![s] = [op |-> "rescore", exec |-> rec[s].exec, score |-> NewEnd(rec[s], d)]]
      BY <2>3 DEF UpdateRecord
    <3>2. rec[s].exec # 0 /\ UNCHANGED <<now, idx, adding, last>>
      BY <2>3 DEF UpdateRecord, Stored
    <3>3. NewEnd(rec[s], d) # 0
      BY <1>r, <3>2, ConstantsAssumption DEF NewEnd, Records, IndexInv, AddInv
    <3>4. \A t \in Sandboxes : IF t = s THEN rec'[s].exec = rec[s].exec /\ rec'[s].end = NewEnd(rec[s], d) ELSE rec'[t] = rec[t]
      BY ONLY <1>r, <3>1 DEF Records
    <3>5. AddInv' /\ StoredIsIndexed'
      BY <3>2, <3>3, <3>4, RecordsKeepIndex
    <3>6. HolderInv'
      <4>1. rec[s].exec \in Execs
        BY <1>r, <3>2 DEF Records, Execs
      <4>2. holder'[s] = [op |-> "rescore", exec |-> rec[s].exec, score |-> NewEnd(rec[s], d)]
        BY <1>r, <3>1
      <4>3. \A t \in Sandboxes : t # s => holder'[t] = holder[t]
        BY <1>r, <3>1
      <4> QED  BY <1>d, <3>4, <4>1, <4>2, <4>3 DEF IndexInv, HolderInv
    <3> QED  BY <1>t, <2>s, <3>5, <3>6 DEF IndexInv
  <2>4. CASE StartRemoving(s)
    <3>1. /\ rec' = [rec EXCEPT ![s] = Removing(rec[s])] /\ rec[s].exec # 0 /\ holder[s] = NoDebt
          /\ UNCHANGED <<now, idx, adding, last, holder>>
      BY <2>4 DEF StartRemoving, Stored, clientVars, Unlocked
    <3>2. Removing(rec[s]).exec = rec[s].exec /\ Removing(rec[s]).end # 0
      BY <1>r, <3>1 DEF Removing, Records, IndexInv, AddInv
    <3>3. AddInv' /\ StoredIsIndexed'
      BY <1>r, <3>1, <3>2, RecordsKeepIndex
    <3>4. HolderInv'
      BY <1>r, <1>d, <3>1 DEF IndexInv, HolderInv, NoDebt
    <3> QED  BY <1>t, <2>s, <3>3, <3>4 DEF IndexInv
  <2>5. CASE RemovalDies(s)
    <3>1. /\ rec' = [rec EXCEPT ![s].state = "stuck"] /\ rec[s].state = "removing"
          /\ UNCHANGED <<now, idx, adding, last, holder>>
      BY <2>5 DEF RemovalDies, clientVars
    <3>2. rec[s].exec # 0
      BY <3>1 DEF IndexInv, AddInv, NoRec
    <3>3. \A t \in Sandboxes : /\ rec'[t].exec = rec[t].exec /\ rec'[t].end = rec[t].end
                               /\ t # s => rec'[t] = rec[t]
      BY ONLY <1>r, <3>1 DEF Records
    <3>4. AddInv' /\ StoredIsIndexed'
      <4>1. rec[s].end # 0
        BY <3>2 DEF IndexInv, AddInv
      <4> QED  BY <3>1, <3>2, <3>3, <4>1, RecordsKeepIndex
    <3>5. HolderInv'
      BY <1>d, <3>1, <3>3 DEF IndexInv, HolderInv
    <3> QED  BY <1>t, <2>s, <3>4, <3>5 DEF IndexInv
  <2>6. CASE IndexWriteFails(s)
    <3>1. UNCHANGED <<now, rec, idx, adding, last>> /\ holder' = [holder EXCEPT ![s] = NoDebt]
      BY <2>6 DEF IndexWriteFails
    <3>2. HolderInv'
      BY <1>r, <1>d, <3>1 DEF IndexInv, HolderInv, NoDebt
    <3> QED  BY <1>t, <1>k, <2>s, <3>1, <3>2 DEF IndexInv
  <2> QED  BY <1>1, <2>1, <2>2, <2>3, <2>4, <2>5, <2>6 DEF ClientStep
<1>2. ASSUME NEW s \in Sandboxes, HandlerStep(s) PROVE IndexInv'
  <2>s. SweepInv' /\ HealInv'
    BY <1>2, <1>s, <1>h DEF HandlerStep, FinishAdd, UpdateScore, RemoveRecord, RemoveMember
  <2>1. CASE FinishAdd(s)
    <3>1. /\ adding[s] # NoRec
          /\ rec' = [rec EXCEPT ![s] = adding[s]] /\ adding' = [adding EXCEPT ![s] = NoRec]
          /\ UNCHANGED <<now, idx, holder, last>>
      BY <2>1 DEF FinishAdd
    <3>2. /\ adding[s].exec = last[s] /\ last[s] \in Execs /\ rec[s] = NoRec
          /\ adding[s].end > now /\ idx[s][last[s]] = adding[s].end
      BY <3>1 DEF IndexInv, AddInv
    <3>3. \A t \in Sandboxes : IF t = s THEN rec'[t] = adding[s] /\ adding'[t] = NoRec
                                        ELSE rec'[t] = rec[t] /\ adding'[t] = adding[t]
      BY ONLY <1>r, <3>1
    <3>4. last[s] \in Nat /\ last[s] # 0 /\ adding[s].end \in Nat /\ adding[s].end # 0
      BY ONLY <1>r, <3>2 DEF Execs
    <3>5. AddInv'
      BY <3>1, <3>2, <3>3, <3>4 DEF IndexInv, AddInv
    <3>6. StoredIsIndexed'
      BY <3>1, <3>2, <3>3, <3>4 DEF IndexInv, StoredIsIndexed, Stored
    <3>7. HolderInv'
      <4>1. rec[s].exec = 0 /\ holder[s].op # "rescore"
        <5>1. rec[s].exec = 0 /\ 0 \notin Execs
          BY <3>2 DEF NoRec, Execs
        <5>2. holder[s].op = "rescore" => holder[s].exec \in Execs /\ holder[s].exec = rec[s].exec
          BY DEF IndexInv, HolderInv
        <5> QED  BY ONLY <5>1, <5>2
      <4> QED  BY <1>d, <3>1, <3>3, <4>1 DEF IndexInv, HolderInv
    <3> QED  BY <1>t, <2>s, <3>5, <3>6, <3>7 DEF IndexInv
  <2>2. CASE UpdateScore(s)
    <3>1. /\ holder[s].op = "rescore" /\ Score(s, holder[s].exec, holder[s].score)
          /\ holder' = [holder EXCEPT ![s] = NoDebt]
          /\ UNCHANGED <<now, rec, adding, last>>
      BY <2>2 DEF UpdateScore
    <3>2. /\ holder[s].exec \in Execs /\ holder[s].exec = rec[s].exec /\ holder[s].score = rec[s].end
          /\ rec[s].exec \in Nat /\ rec[s].exec # 0 /\ rec[s].end \in Nat
      BY <1>r, <3>1 DEF IndexInv, HolderInv, Execs, Records
    <3>3. Seen(s, holder[s].exec) /\ holder[s].score # 0
      <4>1. adding[s] = NoRec
        BY <3>2 DEF IndexInv, AddInv, NoRec
      <4> QED  BY <3>2, <4>1 DEF IndexInv, AddInv, Seen, NoRec
    <3>4. \A t \in Sandboxes, x \in Execs :
            idx'[t][x] = IF t = s /\ x = holder[s].exec THEN holder[s].score ELSE idx[t][x]
      BY <1>t, <3>1, <3>2, ScoreWritten
    <3>5. AddInv' /\ StoredIsIndexed'
      BY <3>1, <3>3, <3>4, WritesKeepIndex
    <3>6. HolderInv'
      BY <1>r, <1>d, <3>1 DEF IndexInv, HolderInv, NoDebt
    <3> QED  BY <1>t, <2>s, <3>5, <3>6 DEF IndexInv
  <2>3. CASE RemoveRecord(s)
    <3>1. /\ rec[s].state = "removing" /\ rec' = [rec EXCEPT ![s] = NoRec]
          /\ holder' = [holder EXCEPT ![s] = [op |-> "unindex", exec |-> rec[s].exec, score |-> 0]]
          /\ UNCHANGED <<now, idx, adding, last>>
      BY <2>3 DEF RemoveRecord
    <3>2. AddInv' /\ StoredIsIndexed'
      BY <1>r, <3>1, RecordsKeepIndex
    <3>x. PICK x : x = rec[s].exec
      OBVIOUS
    <3>3. Dead(s, x)'
      <4>1. rec[s].exec \in Execs /\ rec[s].exec <= last[s] /\ adding[s] = NoRec
        <5>1. rec[s] # NoRec
          BY <3>1 DEF NoRec
        <5>2. rec[s].exec \in 0..MaxExec /\ rec[s].exec # 0 /\ rec[s].exec <= last[s] /\ adding[s] = NoRec
          BY <1>r, <5>1 DEF IndexInv, AddInv, Records
        <5> QED  BY <5>2, <1>r DEF Execs
      <4>2. rec'[s] = NoRec
        BY <1>r, <3>1
      <4>3. NoRec.exec \notin Execs
        BY <1>r DEF NoRec, Execs
      <4>4. adding[s].exec = 0 /\ 0 \notin Execs
        BY <4>1 DEF NoRec, Execs
      <4> QED  BY <3>1, <3>x, <4>1, <4>2, <4>3, <4>4 DEF Dead, Seen
    <3>4. HolderInv'
      <4>1. holder'[s].exec = x /\ holder'[s].op = "unindex"
        BY ONLY <1>r, <3>1, <3>x
      <4>2. \A t \in Sandboxes : t # s => holder'[t] = holder[t] /\ rec'[t] = rec[t]
        BY <1>r, <3>1
      <4> QED  BY <1>d, <3>3, <4>1, <4>2 DEF IndexInv, HolderInv
    <3> QED  BY <1>t, <2>s, <3>2, <3>4 DEF IndexInv
  <2>4. CASE RemoveMember(s)
    <3>1. /\ holder[s].op = "unindex" /\ Score(s, holder[s].exec, 0)
          /\ holder' = [holder EXCEPT ![s] = NoDebt]
          /\ UNCHANGED <<now, rec, adding, last>>
      BY <2>4 DEF RemoveMember, Unindex
    <3>2. Dead(s, holder[s].exec)
      BY <3>1 DEF IndexInv, HolderInv
    <3>3. \A t \in Sandboxes, x \in Execs :
            idx'[t][x] = IF t = s /\ x = holder[s].exec THEN 0 ELSE idx[t][x]
      BY <1>t, <3>1, ScoreWritten
    <3>4. AddInv' /\ StoredIsIndexed'
      BY <3>1, <3>2, <3>3, WritesKeepIndex
    <3>5. HolderInv'
      BY <1>r, <1>d, <3>1 DEF IndexInv, HolderInv, NoDebt
    <3> QED  BY <1>t, <2>s, <3>4, <3>5 DEF IndexInv
  <2> QED  BY <1>2, <2>1, <2>2, <2>3, <2>4 DEF HandlerStep
<1>3. ASSUME NEW w \in Sweepers, SweepStep(w) PROVE IndexInv'
  <2> USE DEF clientVars
  <2>h. HealInv' /\ UNCHANGED <<now, adding, holder, last>>
    BY <1>3, <1>h DEF SweepStep, SweepRange, SweepRead, SweepClean, SweepRescore, Evict, SweepFails, SweepDone
  <2>o. \A v \in Sweepers : v # w => sweep'[v] = sweep[v]
    BY ONLY <1>r, <1>3 DEF SweepStep, SweepRange, SweepRead, SweepClean, SweepRescore, Evict, SweepFails, SweepDone
  <2>w. ASSUME /\ sweep'[w].pc = "read" => \A m \in sweep'[w].members : Seen(m[1], m[2])
               /\ sweep'[w].pc = "clean" => \A m \in sweep'[w].stale : Dead(m[1], m[2])
               /\ sweep'[w].pc \in {"clean", "rescore"} =>
                    \A d \in sweep'[w].drifted : Seen(d.member[1], d.member[2]) /\ d.score # 0
        PROVE  SweepInv'
    BY <1>d, <2>o, <2>w DEF IndexInv, SweepInv
  <2>1. CASE SweepRange(w)
    <3>1. PICK ms \in SUBSET Due :
            sweep' = [sweep EXCEPT ![w] = [IdleSweep EXCEPT !.pc = "read", !.t = now, !.members = ms]]
      BY <2>1 DEF SweepRange
    <3>2. sweep'[w].pc = "read" /\ sweep'[w].members = ms
      BY ONLY <1>r, <3>1 DEF IdleSweep
    <3>3. ASSUME NEW m \in Due PROVE Seen(m[1], m[2])
      <4>1. /\ m[1] \in Sandboxes /\ m[2] \in Execs
            /\ idx[m[1]][m[2]] # 0 /\ idx[m[1]][m[2]] <= now
        BY <3>3 DEF Due, Members, ScoreOf
      <4>2. m[2] \in Nat /\ m[2] # 0 /\ last[m[1]] \in Nat
        BY ONLY <1>r, <4>1 DEF Execs
      <4>3. m[2] <= last[m[1]]
        BY <4>1, <4>2 DEF IndexInv, AddInv
      <4>4. adding[m[1]].exec # m[2]
        <5>1. CASE adding[m[1]] = NoRec
          BY <4>2, <5>1 DEF NoRec
        <5>2. CASE adding[m[1]] # NoRec
          <6>1. /\ adding[m[1]].exec = last[m[1]] /\ idx[m[1]][last[m[1]]] = adding[m[1]].end
                /\ now < adding[m[1]].end
            BY <4>1, <5>2 DEF IndexInv, AddInv
          <6>2. adding[m[1]].end \in Nat /\ now \in Nat
            BY <1>r, <4>1
          <6> QED  BY ONLY <4>1, <6>1, <6>2
        <5> QED  BY <5>1, <5>2
      <4> QED  BY <4>1, <4>3, <4>4 DEF Seen
    <3>4. SweepInv'
      BY <2>w, <3>2, <3>3
    <3>5. UNCHANGED <<rec, idx>>
      BY <2>1 DEF SweepRange
    <3> QED  BY <1>t, <1>k, <1>l, <2>h, <3>4, <3>5 DEF IndexInv
  <2>2. CASE SweepRead(w)
    <3> DEFINE ms == sweep[w].members
               alive == {m \in ms : rec[m[1]].exec = m[2]}
               drift == {m \in alive : ~IsExpired(rec[m[1]], sweep[w].t)}
               todo == {m[1] : m \in {x \in alive \ drift : \/ rec[x[1]].state = "running"
                                                           \/ now - rec[x[1]].end > StaleCutoff}}
               drifted == {[member |-> m, score |-> rec[m[1]].end] : m \in drift}
    <3>1. /\ sweep[w].pc = "read"
          /\ sweep' = [sweep EXCEPT ![w].pc = "clean", ![w].stale = ms \ alive, ![w].drifted = drifted, ![w].todo = todo]
          /\ UNCHANGED <<rec, idx>>
      BY <2>2 DEF SweepRead
    <3>2. \A m \in ms : Seen(m[1], m[2])
      BY <3>1 DEF IndexInv, SweepInv
    <3>3. \A m \in ms \ alive : Dead(m[1], m[2])
      BY <3>2 DEF Dead
    <3>4. \A d \in drifted : Seen(d.member[1], d.member[2]) /\ d.score # 0
      <4>1. ASSUME NEW m \in drift PROVE Seen(m[1], m[2]) /\ rec[m[1]].end # 0
        <5>1. Seen(m[1], m[2]) /\ rec[m[1]].exec = m[2]
          BY <3>2, <4>1
        <5>2. m[1] \in Sandboxes /\ m[2] # 0
          BY <1>r, <5>1 DEF Seen, Execs
        <5> QED  BY <5>1, <5>2 DEF IndexInv, AddInv
      <4> QED  BY <4>1
    <3> HIDE DEF ms, alive, todo, drifted
    <3>5. sweep' = [sweep EXCEPT ![w] = [@ EXCEPT !.pc = "clean", !.stale = ms \ alive, !.drifted = drifted, !.todo = todo]]
      BY ONLY <1>r, <3>1
    <3>6. sweep'[w].pc = "clean" /\ sweep'[w].stale = ms \ alive /\ sweep'[w].drifted = drifted
      BY ONLY <1>r, <3>5 DEF Sweeps
    <3>7. SweepInv'
      BY <2>w, <3>3, <3>4, <3>6
    <3> QED  BY <1>t, <1>k, <1>l, <2>h, <3>1, <3>7 DEF IndexInv
  <2>3. CASE SweepClean(w)
    <3>1. /\ sweep[w].pc = "clean" /\ sweep' = [sweep EXCEPT ![w].pc = "rescore"] /\ UNCHANGED rec
          /\ \A s \in Sandboxes, e \in Execs : idx'[s][e] = IF <<s, e>> \in sweep[w].stale THEN 0 ELSE idx[s][e]
      BY <2>3 DEF SweepClean
    <3>2. \A s \in Sandboxes, e \in Execs : <<s, e>> \in sweep[w].stale => Dead(s, e)
      BY <3>1 DEF IndexInv, SweepInv
    <3>3. AddInv' /\ StoredIsIndexed'
      BY <2>h, <3>1, <3>2, WritesKeepIndex
    <3>4. sweep'[w].pc = "rescore" /\ sweep'[w].drifted = sweep[w].drifted
      BY ONLY <1>r, <3>1 DEF Sweeps
    <3>5. SweepInv'
      BY <2>w, <3>1, <3>4 DEF IndexInv, SweepInv
    <3> QED  BY <1>t, <1>l, <2>h, <3>1, <3>3, <3>5 DEF IndexInv
  <2>4. CASE SweepRescore(w)
    <3>1. sweep[w].pc = "rescore" /\ sweep' = [sweep EXCEPT ![w].pc = "evict"] /\ UNCHANGED rec
      BY <2>4 DEF SweepRescore
    <3>2. \A d \in sweep[w].drifted : Seen(d.member[1], d.member[2]) /\ d.score # 0
      BY <3>1 DEF IndexInv, SweepInv
    <3>3. ASSUME NEW s \in Sandboxes, NEW e \in Execs
          PROVE  idx'[s][e] = idx[s][e] \/ (Seen(s, e) /\ idx'[s][e] # 0)
      <4>1. SUFFICES ASSUME NEW d \in sweep[w].drifted, d.member = <<s, e>>, idx'[s][e] = d.score
                     PROVE  Seen(s, e) /\ d.score # 0
        BY <2>4, RescoreWrites
      <4>2. d.member[1] = s /\ d.member[2] = e
        BY <4>1
      <4> QED  BY <3>2, <4>2
    <3>4. AddInv' /\ StoredIsIndexed'
      BY <2>h, <3>1, <3>3, WritesKeepIndex
    <3>5. sweep'[w].pc = "evict"
      BY ONLY <1>r, <3>1 DEF Sweeps
    <3>6. SweepInv'
      BY <2>w, <3>5
    <3> QED  BY <1>t, <1>l, <2>h, <3>1, <3>4, <3>6 DEF IndexInv
  <2>5. ASSUME NEW s \in Sandboxes, Evict(w, s) PROVE IndexInv'
    <3>1. /\ sweep[w].pc = "evict" /\ sweep' = [sweep EXCEPT ![w].todo = @ \ {s}]
          /\ holder[s] = NoDebt /\ UNCHANGED idx
          /\ rec' = rec \/ (rec[s].exec # 0 /\ rec' = [rec EXCEPT ![s].state = "removing"])
      BY <2>5 DEF Evict, CanEvict, Stored, Unlocked
    <3>2. \A t \in Sandboxes : /\ rec'[t].exec = rec[t].exec /\ rec'[t].end = rec[t].end
                               /\ rec'[t] = rec[t] \/ (t = s /\ rec[t].exec # 0)
      BY ONLY <1>r, <3>1 DEF Records
    <3>3. AddInv' /\ StoredIsIndexed'
      <4>1. \A t \in Sandboxes : rec[t].exec # 0 => rec[t].end # 0
        BY DEF IndexInv, AddInv
      <4> QED  BY <2>h, <3>1, <3>2, <4>1, RecordsKeepIndex
    <3>4. HolderInv'
      BY <1>d, <2>h, <3>2 DEF IndexInv, HolderInv
    <3>5. sweep'[w].pc = "evict"
      BY ONLY <1>r, <3>1 DEF Sweeps
    <3>6. SweepInv'
      BY <2>w, <3>5
    <3> QED  BY <1>t, <2>h, <3>3, <3>4, <3>6 DEF IndexInv
  <2>6. CASE SweepFails(w) \/ SweepDone(w)
    <3>1. UNCHANGED <<rec, idx>>
      BY <2>6 DEF SweepFails, SweepDone
    <3>2. \/ sweep'[w].pc \in {"idle", "evict"}
          \/ sweep[w].pc = "clean" /\ sweep'[w].pc = "rescore" /\ sweep'[w].drifted = sweep[w].drifted
      BY ONLY <1>r, <2>6 DEF SweepFails, SweepDone, IdleSweep, Sweeps
    <3>3. SweepInv'
      BY <2>w, <3>2 DEF IndexInv, SweepInv
    <3> QED  BY <1>t, <1>k, <1>l, <2>h, <3>1, <3>3 DEF IndexInv
  <2> QED  BY <1>3, <2>1, <2>2, <2>3, <2>4, <2>5, <2>6 DEF SweepStep
<1>4. ASSUME NEW h \in Healers, HealStep(h) PROVE IndexInv'
  <2> USE DEF clientVars
  <2>s. SweepInv' /\ HolderInv' /\ UNCHANGED <<now, rec, adding, last>>
    BY <1>4, <1>s, <1>l DEF HealStep, HealRead, HealScore, HealAdd, HealFails
  <2>o. \A g \in Healers : g # h => heal'[g] = heal[g]
    BY ONLY <1>r, <1>4 DEF HealStep, HealRead, HealScore, HealAdd, HealFails
  <2>w. ASSUME heal'[h].pc # "idle" => Seen(heal'[h].id, heal'[h].exec) /\ heal'[h].score # 0
        PROVE  HealInv'
    BY <1>d, <2>o, <2>w DEF IndexInv, HealInv
  <2>1. ASSUME NEW s \in Sandboxes, HealRead(h, s) PROVE IndexInv'
    <3>1. /\ rec[s].exec # 0 /\ UNCHANGED idx
          /\ heal' = [heal EXCEPT ![h] = [pc |-> "score", id |-> s, exec |-> rec[s].exec, score |-> rec[s].end]]
      BY <2>1 DEF HealRead, Stored
    <3>2. heal'[h].id = s /\ heal'[h].exec = rec[s].exec /\ heal'[h].score = rec[s].end
      BY ONLY <1>r, <3>1
    <3>3. rec[s].exec \in Execs /\ rec[s].exec <= last[s] /\ adding[s] = NoRec /\ rec[s].end # 0
      <4>1. rec[s].exec \in 0..MaxExec
        BY <1>r DEF Records
      <4>2. rec[s] # NoRec
        BY <3>1 DEF NoRec
      <4> QED  BY <1>r, <3>1, <4>1, <4>2 DEF IndexInv, AddInv, Execs
    <3>4. HealInv'
      BY <2>w, <3>1, <3>2, <3>3 DEF Seen, NoRec
    <3> QED  BY <1>t, <1>k, <2>s, <3>1, <3>4 DEF IndexInv
  <2>2. CASE HealScore(h) \/ HealFails(h)
    <3>1. UNCHANGED idx
      BY <2>2 DEF HealScore, HealFails
    <3>2. \/ heal'[h].pc = "idle"
          \/ /\ heal[h].pc # "idle" /\ heal'[h].id = heal[h].id
             /\ heal'[h].exec = heal[h].exec /\ heal'[h].score = heal[h].score
      <4>1. \/ heal' = [heal EXCEPT ![h] = IdleHeal]
            \/ heal[h].pc = "score" /\ heal' = [heal EXCEPT ![h] = [heal[h] EXCEPT !.pc = "add"]]
        BY <2>2 DEF HealScore, HealFails
      <4> QED  BY ONLY <1>r, <4>1 DEF Heals, IdleHeal
    <3>3. HealInv'
      BY <2>w, <3>2 DEF IndexInv, HealInv
    <3> QED  BY <1>t, <1>k, <2>s, <3>1, <3>3 DEF IndexInv
  <2>3. CASE HealAdd(h)
    <3>1. /\ heal[h].pc = "add" /\ Score(heal[h].id, heal[h].exec, HealedNX(h))
          /\ heal' = [heal EXCEPT ![h] = IdleHeal]
      BY <2>3 DEF HealAdd
    <3>2. Seen(heal[h].id, heal[h].exec) /\ heal[h].score # 0
      BY <3>1 DEF IndexInv, HealInv
    <3>3. HealedNX(h) \in Nat /\ HealedNX(h) # 0
      <4>1. idx[heal[h].id][heal[h].exec] \in Nat /\ heal[h].score \in Nat
        BY <1>r, <3>2 DEF Seen, Heals
      <4> QED  BY <3>2, <4>1 DEF HealedNX
    <3>4. \A t \in Sandboxes, x \in Execs :
            idx'[t][x] = IF t = heal[h].id /\ x = heal[h].exec THEN HealedNX(h) ELSE idx[t][x]
      BY <1>t, <3>1, <3>2, <3>3, ScoreWritten DEF Seen
    <3>5. AddInv' /\ StoredIsIndexed'
      BY <2>s, <3>2, <3>3, <3>4, WritesKeepIndex
    <3>6. heal'[h].pc = "idle"
      BY ONLY <1>r, <3>1 DEF IdleHeal
    <3>7. HealInv'
      BY <2>w, <3>6
    <3> QED  BY <1>t, <2>s, <3>5, <3>7 DEF IndexInv
  <2> QED  BY <1>4, <2>1, <2>2, <2>3 DEF HealStep
<1>5. CASE Tick
  <2>1. /\ UNCHANGED <<rec, idx, adding, holder, last, sweep, heal>> /\ now' = now + 1
        /\ \A s \in Sandboxes : adding[s] # NoRec => now + 1 < adding[s].end
    BY <1>5 DEF Tick, clientVars
  <2>2. AddInv' /\ StoredIsIndexed'
    BY <2>1 DEF IndexInv, AddInv, StoredIsIndexed, Stored
  <2> QED  BY <1>t, <1>s, <1>h, <1>l, <2>1, <2>2 DEF IndexInv
<1>6. CASE UNCHANGED vars
  BY <1>6, <1>t, <1>s, <1>h, <1>l, <1>k DEF vars, IndexInv
<1> QED  BY <1>1, <1>2, <1>3, <1>4, <1>5, <1>6 DEF Next

\* An empty index is in order.
LEMMA IndexStarts == Init => IndexInv
<1> SUFFICES ASSUME Init PROVE IndexInv
  OBVIOUS
<1>1. TypeInv
  BY ConstantsAssumption DEF Init, TypeInv, Records, NoRec, NoDebt, IdleSweep, IdleHeal, Sweeps, Heals, Debts
<1>2. AddInv /\ StoredIsIndexed
  BY DEF Init, AddInv, StoredIsIndexed, Stored, NoRec, Execs
<1>3. HolderInv /\ SweepInv /\ HealInv
  BY DEF Init, HolderInv, SweepInv, HealInv, NoDebt, IdleSweep, IdleHeal
<1> QED  BY <1>1, <1>2, <1>3 DEF IndexInv

\* A stored sandbox is never missing from the expiration index, when no Add
\* outlasts the EndTime it writes.
THEOREM StoredStaysIndexed == ASSUME ~SlowAdds PROVE Spec => []StoredIsIndexed
<1>1. IndexInv /\ [Next]_vars => IndexInv'
  BY IndexStep
<1>2. IndexInv => StoredIsIndexed
  BY DEF IndexInv
<1> QED  BY <1>1, <1>2, IndexStarts, PTL DEF Spec

-----------------------------------------------------------------------------
\* A sandbox that runs was just added, or ran before with no later EndTime.
LEMMA RunningGoesOn ==
    ASSUME ~AllowShorter, IndexInv, [Next]_vars, NEW s \in Sandboxes, rec'[s].state = "running"
    PROVE  \/ rec'[s] = adding[s] /\ adding[s] # NoRec /\ UNCHANGED idx
           \/ rec[s].state = "running" /\ rec'[s].exec = rec[s].exec /\ rec[s].end <= rec'[s].end
<1>r. /\ rec \in [Sandboxes -> Records] /\ rec[s].end \in Nat
      /\ now \in Nat
  BY DEF IndexInv, TypeInv, Records
<1> USE DEF clientVars
<1>1. ASSUME rec'[s] = rec[s]
      PROVE  rec[s].state = "running" /\ rec'[s].exec = rec[s].exec /\ rec[s].end <= rec'[s].end
  BY <1>r, <1>1
<1>2. ASSUME NEW t \in Sandboxes, FinishAdd(t)
      PROVE  rec'[s] = rec[s] \/ (rec'[s] = adding[s] /\ adding[s] # NoRec /\ UNCHANGED idx)
  BY <1>r, <1>2 DEF FinishAdd
<1>3. ASSUME NEW t \in Sandboxes, UpdateRecord(t)
      PROVE  rec'[s] = rec[s] \/ (rec[s].state = "running" /\ rec'[s].exec = rec[s].exec /\ rec[s].end <= rec'[s].end)
  <2>1. PICK d \in Durations : rec' = [rec EXCEPT ![t].end = NewEnd(rec[t], d)]
    BY <1>3 DEF UpdateRecord
  <2>2. t = s => rec[s].end <= NewEnd(rec[s], d)
    BY <1>r, ConstantsAssumption DEF NewEnd
  <2>3. t = s => rec[s].state = "running"
    BY <1>3 DEF UpdateRecord
  <2> QED  BY ONLY <1>r, <2>1, <2>2, <2>3 DEF Records
<1>4. ASSUME NEW t \in Sandboxes, StartRemoving(t) \/ RemovalDies(t) \/ RemoveRecord(t)
      PROVE  rec'[s] = rec[s]
  <2>1. CASE StartRemoving(t)
    <3>1. rec' = [rec EXCEPT ![t] = Removing(rec[t])]
      BY <2>1 DEF StartRemoving
    <3>2. Removing(rec[t]).state = "removing"
      BY ONLY <1>r DEF Removing, Records
    <3> QED  BY <1>r, <3>1, <3>2
  <2>2. CASE RemovalDies(t)
    BY <1>r, <2>2 DEF RemovalDies, Records
  <2>3. CASE RemoveRecord(t)
    BY <1>r, <2>3 DEF RemoveRecord, NoRec
  <2> QED  BY <1>4, <2>1, <2>2, <2>3
<1>5. ASSUME NEW t \in Sandboxes,
             BeginAdd(t) \/ AddFails(t) \/ IndexWriteFails(t) \/ UpdateScore(t) \/ RemoveMember(t)
      PROVE  rec'[s] = rec[s]
  BY <1>5 DEF BeginAdd, AddFails, IndexWriteFails, UpdateScore, RemoveMember
<1>6. ASSUME NEW w \in Sweepers, NEW t \in Sandboxes, Evict(w, t) PROVE rec'[s] = rec[s]
  <2>1. rec' = rec \/ rec' = [rec EXCEPT ![t].state = "removing"]
    BY <1>6 DEF Evict
  <2> QED  BY <1>r, <2>1 DEF Records
<1>7. ASSUME NEW w \in Sweepers,
             SweepRange(w) \/ SweepRead(w) \/ SweepClean(w) \/ SweepRescore(w) \/ SweepFails(w) \/ SweepDone(w)
      PROVE  rec'[s] = rec[s]
  BY <1>7 DEF SweepRange, SweepRead, SweepClean, SweepRescore, SweepFails, SweepDone
<1>8. CASE (\E h \in Healers : HealStep(h)) \/ Tick \/ UNCHANGED vars
  <2>1. rec' = rec
    BY <1>8 DEF HealStep, HealRead, HealScore, HealAdd, HealFails, Tick, vars
  <2> QED  BY <1>1, <2>1
<1>9. CASE \E t \in Sandboxes : ClientStep(t) \/ HandlerStep(t)
  BY <1>1, <1>2, <1>3, <1>4, <1>5, <1>9 DEF ClientStep, HandlerStep
<1>10. CASE \E w \in Sweepers : SweepStep(w)
  BY <1>1, <1>6, <1>7, <1>10 DEF SweepStep
<1> QED  BY <1>8, <1>9, <1>10 DEF Next

\* No step writes, or plans to write, a late score.
LEMMA NotLateStep == ~SlowAdds /\ ~AllowShorter /\ IndexInv /\ ScoresNotLate /\ [Next]_vars => ScoresNotLate'
<1> SUFFICES ASSUME ~SlowAdds, ~AllowShorter, IndexInv, ScoresNotLate, [Next]_vars PROVE ScoresNotLate'
  OBVIOUS
<1>t. TypeInv /\ TypeInv' /\ IndexInv'
  BY IndexStep DEF IndexInv
<1>r. /\ rec \in [Sandboxes -> Records] /\ rec' \in [Sandboxes -> Records]
      /\ idx \in [Sandboxes -> [Execs -> Nat]] /\ idx' \in [Sandboxes -> [Execs -> Nat]]
      /\ holder \in [Sandboxes -> Debts]
      /\ sweep \in [Sweepers -> Sweeps]
      /\ heal \in [Healers -> Heals]
  BY <1>t DEF TypeInv
<1>e. \A s \in Sandboxes : rec[s].end \in Nat /\ rec'[s].end \in Nat
  BY <1>r DEF Records
<1>n. ASSUME NEW s, NEW e, NEW n \in Nat, Seen(s, e), NotLate(s, e, n) PROVE NotLate(s, e, n)'
  <2>1. SUFFICES ASSUME rec'[s].state = "running", rec'[s].exec = e PROVE n <= rec'[s].end
    BY DEF NotLate
  <2>2. s \in Sandboxes /\ adding[s].exec # e
    BY <1>n DEF Seen
  <2>3. rec[s].state = "running" /\ rec[s].exec = e /\ rec[s].end <= rec'[s].end
    BY <2>1, <2>2, RunningGoesOn
  <2>4. n <= rec[s].end
    BY <1>n, <2>3 DEF NotLate
  <2> QED  BY ONLY <1>n, <1>e, <2>2, <2>3, <2>4
\* The scores in the index.
<1>i. ASSUME NEW s \in Sandboxes, NEW e \in Execs,
             \/ idx'[s][e] \in {0, idx[s][e]}
             \/ Seen(s, e) /\ NotLate(s, e, idx'[s][e])
             \/ rec'[s].exec # e
      PROVE  NotLate(s, e, idx[s][e])'
  <2>1. CASE rec'[s].state # "running" \/ rec'[s].exec # e \/ idx'[s][e] = 0
    BY <1>e, <2>1 DEF NotLate
  <2>2. CASE Seen(s, e) /\ NotLate(s, e, idx'[s][e])
    <3>1. PICK n \in Nat : n = idx'[s][e]
      BY <1>r
    <3>2. NotLate(s, e, n)'
      BY <1>n, <2>2, <3>1
    <3> QED  BY <3>1, <3>2 DEF NotLate
  <2>3. CASE idx'[s][e] = idx[s][e] /\ rec'[s].state = "running" /\ rec'[s].exec = e
    <3>1. CASE rec'[s] = adding[s] /\ adding[s] # NoRec
      <4>1. adding[s].exec = last[s] /\ idx[s][last[s]] = adding[s].end
        BY <3>1 DEF IndexInv, AddInv
      <4>2. idx'[s][e] = rec'[s].end
        BY <2>3, <3>1, <4>1
      <4> QED  BY <1>e, <4>2 DEF NotLate
    <3>2. CASE rec[s].state = "running" /\ rec'[s].exec = rec[s].exec /\ rec[s].end <= rec'[s].end
      <4>1. idx[s][e] <= rec[s].end /\ idx[s][e] \in Nat
        BY <1>r, <2>3, <3>2 DEF ScoresNotLate, NotLate
      <4>2. idx'[s][e] <= rec'[s].end
        BY ONLY <1>e, <2>3, <3>2, <4>1
      <4> QED  BY <4>2 DEF NotLate
    <3> QED  BY <2>3, <3>1, <3>2, RunningGoesOn
  <2> QED  BY <1>i, <2>1, <2>2, <2>3
<1>u. ASSUME UNCHANGED idx PROVE \A s \in Sandboxes, e \in Execs : NotLate(s, e, idx[s][e])'
  BY <1>i, <1>u
\* What sweeps and healers plan to write.
<1>s. ASSUME NEW w \in Sweepers, sweep'[w].pc \in {"clean", "rescore"},
             sweep[w].pc \in {"clean", "rescore"}, sweep'[w].drifted = sweep[w].drifted
      PROVE  \A d \in sweep'[w].drifted : NotLate(d.member[1], d.member[2], d.score)'
  <2> SUFFICES ASSUME NEW d \in sweep[w].drifted PROVE NotLate(d.member[1], d.member[2], d.score)'
    BY <1>s
  <2>1. d.score \in Nat
    BY <1>r DEF Sweeps, Drifts
  <2>2. Seen(d.member[1], d.member[2]) /\ NotLate(d.member[1], d.member[2], d.score)
    BY <1>s DEF IndexInv, SweepInv, ScoresNotLate
  <2> QED  BY <1>n, <2>1, <2>2
<1>h. ASSUME NEW h \in Healers, heal[h].pc # "idle",
             heal'[h].id = heal[h].id, heal'[h].exec = heal[h].exec, heal'[h].score = heal[h].score
      PROVE  NotLate(heal[h].id, heal[h].exec, heal[h].score)'
  <2>1. PICK i, e, n : i = heal[h].id /\ e = heal[h].exec /\ n = heal[h].score
    OBVIOUS
  <2>2. n \in Nat
    BY <1>r, <2>1 DEF Heals
  <2>3. Seen(i, e) /\ NotLate(i, e, n)
    BY <1>h, <2>1 DEF IndexInv, HealInv, ScoresNotLate
  <2>4. NotLate(i, e, n)'
    BY <1>n, <2>2, <2>3
  <2> QED  BY <1>h, <2>1, <2>4 DEF NotLate
<1>ss. UNCHANGED sweep => \A w \in Sweepers : sweep'[w].pc \in {"clean", "rescore"} =>
          \A d \in sweep'[w].drifted : NotLate(d.member[1], d.member[2], d.score)'
  BY <1>s
<1>hh. UNCHANGED heal => \A h \in Healers : heal'[h].pc # "idle" => NotLate(heal[h].id, heal[h].exec, heal[h].score)'
  BY <1>h
<1> USE DEF clientVars
<1>1. ASSUME NEW s \in Sandboxes, ClientStep(s) \/ HandlerStep(s) PROVE ScoresNotLate'
  <2>1. UNCHANGED <<sweep, heal>>
    BY <1>1 DEF ClientStep, BeginAdd, AddFails, UpdateRecord, StartRemoving, RemovalDies, IndexWriteFails,
                HandlerStep, FinishAdd, UpdateScore, RemoveRecord, RemoveMember
  <2>2. ASSUME NEW t \in Sandboxes, NEW e \in Execs PROVE NotLate(t, e, idx[t][e])'
    <3>1. CASE BeginAdd(s)
      <4>1. PICK d \in Durations : Score(s, last[s] + 1, now + d)
        BY <3>1 DEF BeginAdd
      <4>2. now + d \in Nat /\ rec[s].exec = 0 /\ rec' = rec /\ 0 \notin Execs
        BY <1>t, <3>1, ConstantsAssumption DEF TypeInv, BeginAdd, Stored, Execs
      <4>3. idx'[t][e] = idx[t][e] \/ t = s
        BY <1>t, <4>1, <4>2, ScoreWritten
      <4> QED  BY <1>i, <4>2, <4>3
    <3>2. CASE UpdateScore(s)
      <4>1. holder[s].op = "rescore" /\ Score(s, holder[s].exec, holder[s].score) /\ UNCHANGED rec
        BY <3>2 DEF UpdateScore
      <4>2. holder[s].score = rec[s].end /\ holder[s].exec = rec[s].exec /\ holder[s].score \in Nat
        BY <1>e, <4>1 DEF IndexInv, HolderInv
      <4>3. idx'[t][e] = idx[t][e] \/ (t = s /\ idx'[t][e] = rec'[s].end)
        BY <1>t, <4>1, <4>2, ScoreWritten
      <4>4. CASE t = s /\ idx'[t][e] = rec'[s].end
        BY <1>e, <4>4 DEF NotLate
      <4> QED  BY <1>i, <4>3, <4>4
    <3>3. CASE RemoveMember(s)
      <4>1. Score(s, holder[s].exec, 0)
        BY <3>3 DEF RemoveMember, Unindex
      <4>2. idx'[t][e] \in {0, idx[t][e]}
        BY <1>t, <4>1, ScoreWritten
      <4> QED  BY <1>i, <4>2
    <3>4. CASE UNCHANGED idx
      BY <1>u, <3>4
    <3> QED  BY <1>1, <3>1, <3>2, <3>3, <3>4
             DEF ClientStep, AddFails, UpdateRecord, StartRemoving, RemovalDies, IndexWriteFails,
                 HandlerStep, FinishAdd, RemoveRecord
  <2> QED  BY <1>ss, <1>hh, <2>1, <2>2 DEF ScoresNotLate
<1>2. ASSUME NEW w \in Sweepers, SweepStep(w) PROVE ScoresNotLate'
  <2>1. UNCHANGED heal
    BY <1>2 DEF SweepStep, SweepRange, SweepRead, SweepClean, SweepRescore, Evict, SweepFails, SweepDone
  <2>o. \A v \in Sweepers : v # w => sweep'[v] = sweep[v]
    BY ONLY <1>r, <1>2 DEF SweepStep, SweepRange, SweepRead, SweepClean, SweepRescore, Evict, SweepFails, SweepDone
  <2>2. ASSUME NEW s \in Sandboxes, NEW e \in Execs PROVE NotLate(s, e, idx[s][e])'
    <3>1. CASE SweepClean(w)
      <4>1. idx'[s][e] \in {0, idx[s][e]}
        BY <3>1 DEF SweepClean
      <4> QED  BY <1>i, <4>1
    <3>2. CASE SweepRescore(w)
      <4>1. CASE idx'[s][e] = idx[s][e]
        BY <1>i, <4>1
      <4>2. ASSUME NEW d \in sweep[w].drifted, d.member = <<s, e>>, idx'[s][e] = d.score
            PROVE  NotLate(s, e, idx[s][e])'
        <5>1. Seen(d.member[1], d.member[2]) /\ NotLate(d.member[1], d.member[2], d.score)
          BY <3>2 DEF SweepRescore, IndexInv, SweepInv, ScoresNotLate
        <5>2. d.member[1] = s /\ d.member[2] = e
          BY <4>2
        <5> QED  BY <1>i, <4>2, <5>1, <5>2
      <4> QED  BY <3>2, <4>1, <4>2, RescoreWrites
    <3>3. CASE UNCHANGED idx
      BY <1>u, <3>3
    <3> QED  BY <1>2, <3>1, <3>2, <3>3 DEF SweepStep, SweepRange, SweepRead, Evict, SweepFails, SweepDone
  <2>3. sweep'[w].pc \in {"clean", "rescore"} =>
            \A d \in sweep'[w].drifted : NotLate(d.member[1], d.member[2], d.score)'
    <3>1. CASE SweepRead(w)
      <4> DEFINE alive == {m \in sweep[w].members : rec[m[1]].exec = m[2]}
                 drift == {m \in alive : ~IsExpired(rec[m[1]], sweep[w].t)}
                 stale == sweep[w].members \ alive
                 todo == {m[1] : m \in {x \in alive \ drift : \/ rec[x[1]].state = "running"
                                                             \/ now - rec[x[1]].end > StaleCutoff}}
                 drifted == {[member |-> m, score |-> rec[m[1]].end] : m \in drift}
      <4>1. /\ sweep' = [sweep EXCEPT ![w].pc = "clean", ![w].stale = stale, ![w].drifted = drifted, ![w].todo = todo]
            /\ UNCHANGED rec
            /\ sweep[w].pc = "read"
        BY <3>1 DEF SweepRead
      <4>2. \A d \in drifted : NotLate(d.member[1], d.member[2], d.score)'
        <5>1. ASSUME NEW m \in drift PROVE NotLate(m[1], m[2], rec[m[1]].end)'
          <6>1. Seen(m[1], m[2])
            BY <4>1, <5>1 DEF IndexInv, SweepInv
          <6>2. rec'[m[1]].end <= rec'[m[1]].end
            BY <1>e, <6>1 DEF Seen
          <6> QED  BY <6>2 DEF NotLate
        <5>2. SUFFICES ASSUME NEW d \in drifted PROVE NotLate(d.member[1], d.member[2], d.score)'
          OBVIOUS
        <5>3. PICK m \in drift : d = [member |-> m, score |-> rec[m[1]].end]
          BY <5>2
        <5>4. d.member = m /\ d.score = rec[m[1]].end
          BY <5>3
        <5> HIDE DEF drift, drifted
        <5> QED  BY <4>1, <5>1, <5>4 DEF NotLate
      <4> HIDE DEF stale, drifted, todo
      <4>3. sweep' = [sweep EXCEPT ![w] = [@ EXCEPT !.pc = "clean", !.stale = stale, !.drifted = drifted, !.todo = todo]]
        BY ONLY <1>r, <4>1
      <4>4. sweep'[w].drifted = drifted
        BY ONLY <1>r, <4>3 DEF Sweeps
      <4> QED  BY <4>2, <4>4
    <3>2. CASE SweepClean(w) \/ SweepFails(w)
      <4>1. \/ sweep'[w].pc \in {"idle", "evict"}
            \/ sweep[w].pc = "clean" /\ sweep'[w].pc = "rescore" /\ sweep'[w].drifted = sweep[w].drifted
        BY ONLY <1>r, <3>2 DEF SweepClean, SweepFails, IdleSweep, Sweeps
      <4> QED  BY <1>s, <4>1
    <3>3. CASE SweepRange(w) \/ SweepRescore(w) \/ SweepDone(w) \/ (\E s \in Sandboxes : Evict(w, s))
      <4>1. sweep'[w].pc \in {"read", "idle", "evict"}
        <5>1. CASE SweepRange(w)
          BY ONLY <1>r, <5>1 DEF SweepRange, IdleSweep
        <5>2. CASE SweepRescore(w) \/ SweepDone(w) \/ (\E s \in Sandboxes : Evict(w, s))
          BY ONLY <1>r, <5>2 DEF SweepRescore, SweepDone, Evict, IdleSweep, Sweeps
        <5> QED  BY <3>3, <5>1, <5>2
      <4> QED  BY <4>1
    <3> QED  BY <1>2, <3>1, <3>2, <3>3 DEF SweepStep
  <2>4. \A v \in Sweepers : sweep'[v].pc \in {"clean", "rescore"} =>
            \A d \in sweep'[v].drifted : NotLate(d.member[1], d.member[2], d.score)'
    BY <1>s, <2>o, <2>3
  <2> QED  BY <1>hh, <2>1, <2>2, <2>4 DEF ScoresNotLate
<1>3. ASSUME NEW h \in Healers, HealStep(h) PROVE ScoresNotLate'
  <2>1. UNCHANGED <<sweep, rec>>
    BY <1>3 DEF HealStep, HealRead, HealScore, HealAdd, HealFails
  <2>o. \A g \in Healers : g # h => heal'[g] = heal[g]
    BY ONLY <1>r, <1>3 DEF HealStep, HealRead, HealScore, HealAdd, HealFails
  <2>2. ASSUME NEW s \in Sandboxes, NEW e \in Execs PROVE NotLate(s, e, idx[s][e])'
    <3>1. CASE HealAdd(h)
      <4>1. heal[h].pc = "add" /\ Score(heal[h].id, heal[h].exec, HealedNX(h))
        BY <3>1 DEF HealAdd
      <4>2. Seen(heal[h].id, heal[h].exec) /\ NotLate(heal[h].id, heal[h].exec, heal[h].score)
        BY <4>1 DEF IndexInv, HealInv, ScoresNotLate
      <4>3. HealedNX(h) \in {heal[h].score, idx[heal[h].id][heal[h].exec]} /\ HealedNX(h) \in Nat
        BY <1>r, <4>2 DEF HealedNX, Seen, Heals
      <4>4. \/ idx'[s][e] = idx[s][e]
            \/ s = heal[h].id /\ e = heal[h].exec /\ idx'[s][e] = heal[h].score
        BY <1>t, <4>1, <4>2, <4>3, ScoreWritten DEF Seen
      <4> QED  BY <1>i, <4>2, <4>4
    <3>2. CASE UNCHANGED idx
      BY <1>u, <3>2
    <3> QED  BY <1>3, <3>1, <3>2 DEF HealStep, HealRead, HealScore, HealFails
  <2>3. heal'[h].pc # "idle" => NotLate(heal[h].id, heal[h].exec, heal[h].score)'
    <3>1. ASSUME NEW s \in Sandboxes, HealRead(h, s)
          PROVE  NotLate(heal[h].id, heal[h].exec, heal[h].score)'
      <4>1. heal'[h].id = s /\ heal'[h].score = rec[s].end
        BY ONLY <1>r, <3>1 DEF HealRead
      <4> QED  BY <1>e, <2>1, <4>1 DEF NotLate
    <3>2. CASE HealScore(h) \/ HealAdd(h) \/ HealFails(h)
      <4>1. \/ heal' = [heal EXCEPT ![h] = IdleHeal]
            \/ heal[h].pc = "score" /\ heal' = [heal EXCEPT ![h] = [heal[h] EXCEPT !.pc = "add"]]
        BY <3>2 DEF HealScore, HealAdd, HealFails
      <4>2. \/ heal'[h].pc = "idle"
            \/ /\ heal[h].pc # "idle" /\ heal'[h].id = heal[h].id
               /\ heal'[h].exec = heal[h].exec /\ heal'[h].score = heal[h].score
        BY ONLY <1>r, <4>1 DEF Heals, IdleHeal
      <4> QED  BY <1>h, <4>2
    <3> QED  BY <1>3, <3>1, <3>2 DEF HealStep
  <2>4. \A g \in Healers : heal'[g].pc # "idle" => NotLate(heal[g].id, heal[g].exec, heal[g].score)'
    BY <1>h, <2>o, <2>3
  <2> QED  BY <1>ss, <2>1, <2>2, <2>4 DEF ScoresNotLate
<1>4. CASE Tick \/ UNCHANGED vars
  <2>1. UNCHANGED <<idx, sweep, heal>>
    BY <1>4 DEF Tick, vars
  <2> QED  BY <1>u, <1>ss, <1>hh, <2>1 DEF ScoresNotLate
<1> QED  BY <1>1, <1>2, <1>3, <1>4 DEF Next

\* An expired running sandbox is due for the next sweep, when timeouts are only
\* extended and no Add outlasts the EndTime it writes.
THEOREM ExpiredIsDue == ASSUME ~SlowAdds, ~AllowShorter PROVE Spec => []ExpiredRunningIsDue
<1>1. Init => IndexInv /\ ScoresNotLate
  <2>1. Init => ScoresNotLate
    BY DEF Init, ScoresNotLate, NotLate, NoRec, IdleSweep, IdleHeal
  <2> QED  BY <2>1, IndexStarts
<1>2. IndexInv /\ ScoresNotLate /\ [Next]_vars => IndexInv' /\ ScoresNotLate'
  BY IndexStep, NotLateStep
<1>3. IndexInv /\ ScoresNotLate => ExpiredRunningIsDue
  <2> SUFFICES ASSUME IndexInv, ScoresNotLate, NEW s \in Sandboxes, rec[s].state = "running", now > rec[s].end
               PROVE  <<s, rec[s].exec>> \in Due
    BY DEF ExpiredRunningIsDue, IsExpired
  <2>1. /\ rec[s].exec \in 0..MaxExec /\ rec[s].end \in Nat /\ now \in Nat
        /\ idx \in [Sandboxes -> [Execs -> Nat]]
    BY DEF IndexInv, TypeInv, Records
  <2>2. rec[s].exec # 0
    BY DEF IndexInv, AddInv, NoRec
  <2>3. rec[s].exec \in Execs
    BY ONLY <2>1, <2>2, ConstantsAssumption DEF Execs, ConstantsAssumption
  <2>4. idx[s][rec[s].exec] # 0 /\ idx[s][rec[s].exec] <= rec[s].end
    BY <2>2, <2>3 DEF IndexInv, StoredIsIndexed, Stored, ScoresNotLate, NotLate
  <2>5. idx[s][rec[s].exec] <= now
    BY ONLY <2>1, <2>3, <2>4, now > rec[s].end
  <2> QED  BY <2>3, <2>4, <2>5 DEF Due, Members, ScoreOf
<1> QED  BY <1>1, <1>2, <1>3, PTL DEF Spec

-----------------------------------------------------------------------------
\* Failed removals.

\* A score of the execution that is in the index, or about to be written.
InSweep(w, s, e, n) ==
    /\ sweep[w].pc \in {"clean", "rescore"}
    /\ \E d \in sweep[w].drifted : d.member = <<s, e>> /\ d.score = n

InHeal(h, s, e, n) == heal[h].pc # "idle" /\ heal[h].id = s /\ heal[h].exec = e /\ heal[h].score = n

Planned(s, e, n) ==
    \/ idx[s][e] = n
    \/ \E w \in Sweepers : InSweep(w, s, e, n)
    \/ \E h \in Healers : InHeal(h, s, e, n)

\* A sweep leaves the healers alone, and writes scores in two of its steps.
LEMMA SweepWrites ==
    ASSUME NEW w \in Sweepers, SweepStep(w)
    PROVE  UNCHANGED heal /\ (SweepClean(w) \/ SweepRescore(w) \/ UNCHANGED idx)
<1>1. CASE SweepRange(w) \/ SweepRead(w)
  <2>1. SweepRange(w) => UNCHANGED <<idx, heal>>
    BY Zenon DEF SweepRange
  <2>2. SweepRead(w) => UNCHANGED <<idx, heal>>
    BY Zenon DEF SweepRead
  <2> QED  BY <1>1, <2>1, <2>2
<1>2. CASE SweepClean(w) \/ SweepRescore(w)
  BY <1>2 DEF SweepClean, SweepRescore
<1>3. CASE (\E s \in Sandboxes : Evict(w, s)) \/ SweepFails(w) \/ SweepDone(w)
  BY <1>3 DEF Evict, SweepFails, SweepDone
<1> QED  BY <1>1, <1>2, <1>3 DEF SweepStep

\* What a sweep is to write it has read from the record.
LEMMA SweepReads ==
    ASSUME sweep \in [Sweepers -> Sweeps], NEW w \in Sweepers, SweepRead(w)
    PROVE  \A d \in sweep'[w].drifted :
              rec[d.member[1]].exec = d.member[2] /\ d.score = rec[d.member[1]].end
<1> DEFINE alive == {m \in sweep[w].members : rec[m[1]].exec = m[2]}
           drift == {m \in alive : ~IsExpired(rec[m[1]], sweep[w].t)}
           stale == sweep[w].members \ alive
           todo == {m[1] : m \in {x \in alive \ drift : \/ rec[x[1]].state = "running"
                                                       \/ now - rec[x[1]].end > StaleCutoff}}
           drifted == {[member |-> m, score |-> rec[m[1]].end] : m \in drift}
<1>1. sweep' = [sweep EXCEPT ![w].pc = "clean", ![w].stale = stale, ![w].drifted = drifted, ![w].todo = todo]
  BY Zenon DEF SweepRead
<1>2. \A d \in drifted : rec[d.member[1]].exec = d.member[2] /\ d.score = rec[d.member[1]].end
  OBVIOUS
<1> HIDE DEF stale, drifted, todo
<1>3. sweep' = [sweep EXCEPT ![w] = [@ EXCEPT !.pc = "clean", !.stale = stale, !.drifted = drifted, !.todo = todo]]
  BY ONLY <1>1, sweep \in [Sweepers -> Sweeps]
<1>4. sweep'[w].drifted = drifted
  BY ONLY <1>3, sweep \in [Sweepers -> Sweeps], w \in Sweepers DEF Sweeps
<1> QED  BY <1>2, <1>4

\* No score is made up: it was there, or it is the EndTime of the record, or of
\* the Add that begins.
LEMMA PlansCome ==
    ASSUME ~SlowAdds, IndexInv, [Next]_vars,
           NEW s \in Sandboxes, NEW e \in Execs, NEW n \in Nat, n # 0, Planned(s, e, n)'
    PROVE  \/ Planned(s, e, n)
           \/ rec[s].exec = e /\ rec[s].end = n
           \/ adding'[s] # NoRec /\ \E d \in Durations : n = now + d
<1>t. TypeInv
  BY DEF IndexInv
<1>r. /\ rec \in [Sandboxes -> Records]
      /\ idx \in [Sandboxes -> [Execs -> Nat]]
      /\ adding \in [Sandboxes -> [exec : 0..MaxExec, state : {"none", "running"}, start : Nat, end : Nat]]
      /\ sweep \in [Sweepers -> Sweeps]
      /\ heal \in [Healers -> Heals]
      /\ now \in Nat
  BY <1>t DEF TypeInv
<1>e. \A t \in Sandboxes : rec[t].end \in Nat
  BY <1>r DEF Records
<1> DEFINE Goal == \/ Planned(s, e, n)
                   \/ rec[s].exec = e /\ rec[s].end = n
                   \/ adding'[s] # NoRec /\ \E d \in Durations : n = now + d
<1>c. idx'[s][e] = n \/ (\E w \in Sweepers : InSweep(w, s, e, n)') \/ (\E h \in Healers : InHeal(h, s, e, n)')
  BY DEF Planned
<1>i. ASSUME idx'[s][e] = n, idx'[s][e] \in {0, idx[s][e]} PROVE Goal
  BY <1>i DEF Planned
<1>w. ASSUME NEW w \in Sweepers, InSweep(w, s, e, n)', sweep[w].pc \in {"clean", "rescore"},
             sweep'[w].drifted = sweep[w].drifted
      PROVE  Goal
  BY <1>w DEF Planned, InSweep
<1>h. ASSUME NEW h \in Healers, InHeal(h, s, e, n)', heal[h].pc # "idle", heal'[h].id = heal[h].id,
             heal'[h].exec = heal[h].exec, heal'[h].score = heal[h].score
      PROVE  Goal
  BY <1>h DEF Planned, InHeal
<1> HIDE DEF Goal
<1> USE DEF clientVars
<1>ss. ASSUME UNCHANGED sweep, NEW w \in Sweepers, InSweep(w, s, e, n)' PROVE Goal
  BY <1>ss, <1>w DEF InSweep
<1>hh. ASSUME UNCHANGED heal, NEW h \in Healers, InHeal(h, s, e, n)' PROVE Goal
  BY <1>hh, <1>h DEF InHeal
<1>1. ASSUME NEW t \in Sandboxes, ClientStep(t) \/ HandlerStep(t), idx'[s][e] = n PROVE Goal
  <2>1. CASE BeginAdd(t)
    <3>1. PICK d \in Durations :
            /\ adding' = [adding EXCEPT ![t] =
                 [exec |-> last[t] + 1, state |-> "running", start |-> now, end |-> now + d]]
            /\ Score(t, last[t] + 1, now + d)
      BY <2>1 DEF BeginAdd
    <3>2. now + d \in Nat
      BY <1>r, ConstantsAssumption
    <3>3. idx'[s][e] = idx[s][e] \/ (t = s /\ idx'[s][e] = now + d)
      BY <1>t, <3>1, <3>2, ScoreWritten
    <3>4. CASE t = s /\ idx'[s][e] = now + d
      <4>1. adding'[s].state = "running"
        BY ONLY <1>r, <3>1, <3>4
      <4> QED  BY <1>1, <3>4, <4>1 DEF Goal, NoRec
    <3> QED  BY <1>1, <1>i, <3>3, <3>4
  <2>2. CASE UpdateScore(t)
    <3>1. holder[t].op = "rescore" /\ Score(t, holder[t].exec, holder[t].score)
      BY <2>2 DEF UpdateScore
    <3>2. holder[t].score = rec[t].end /\ holder[t].exec = rec[t].exec /\ holder[t].score \in Nat
      BY <1>e, <3>1 DEF IndexInv, HolderInv
    <3>3. idx'[s][e] = idx[s][e] \/ (t = s /\ rec[s].exec = e /\ idx'[s][e] = rec[s].end)
      BY <1>t, <3>1, <3>2, ScoreWritten
    <3> QED  BY <1>1, <1>i, <3>3 DEF Goal
  <2>3. CASE RemoveMember(t)
    <3>1. Score(t, holder[t].exec, 0)
      BY <2>3 DEF RemoveMember, Unindex
    <3>2. idx'[s][e] \in {0, idx[s][e]}
      BY <1>t, <3>1, ScoreWritten
    <3> QED  BY <1>1, <1>i, <3>2
  <2>4. CASE UNCHANGED idx
    BY <1>1, <1>i, <2>4
  <2> QED  BY <1>1, <2>1, <2>2, <2>3, <2>4
           DEF ClientStep, AddFails, UpdateRecord, StartRemoving, RemovalDies, IndexWriteFails,
               HandlerStep, FinishAdd, RemoveRecord
<1>2. ASSUME NEW t \in Sandboxes, ClientStep(t) \/ HandlerStep(t) PROVE UNCHANGED <<sweep, heal>>
  BY <1>2 DEF ClientStep, BeginAdd, AddFails, UpdateRecord, StartRemoving, RemovalDies, IndexWriteFails,
              HandlerStep, FinishAdd, UpdateScore, RemoveRecord, RemoveMember
<1>3. ASSUME NEW v \in Sweepers, SweepStep(v) PROVE Goal
  <2>1. UNCHANGED heal
    BY <1>3, SweepWrites
  <2>2. ASSUME idx'[s][e] = n PROVE Goal
    <3>1. CASE SweepClean(v)
      BY <1>i, <2>2, <3>1 DEF SweepClean
    <3>2. CASE SweepRescore(v)
      <4>1. sweep[v].pc = "rescore"
        BY <3>2 DEF SweepRescore
      <4>2. CASE idx'[s][e] = idx[s][e]
        BY <1>i, <2>2, <4>2
      <4>3. CASE \E d \in sweep[v].drifted : d.member = <<s, e>> /\ idx'[s][e] = d.score
        BY <2>2, <4>1, <4>3 DEF Goal, Planned, InSweep
      <4> QED  BY <3>2, <4>2, <4>3, RescoreWrites
    <3>3. CASE UNCHANGED idx
      BY <1>i, <2>2, <3>3
    <3> QED  BY <1>3, <3>1, <3>2, <3>3, SweepWrites
  <2>3. ASSUME NEW w \in Sweepers, InSweep(w, s, e, n)' PROVE Goal
    <3>1. CASE w # v
      <4>1. sweep'[w] = sweep[w]
        BY ONLY <1>r, <1>3, <3>1 DEF SweepStep, SweepRange, SweepRead, SweepClean, SweepRescore, Evict,
           SweepFails, SweepDone
      <4> QED  BY <1>w, <2>3, <4>1 DEF InSweep
    <3>2. CASE w = v /\ SweepRead(v)
      <4>1. PICK d \in sweep'[v].drifted : d.member = <<s, e>> /\ d.score = n
        BY <2>3, <3>2 DEF InSweep
      <4>2. rec[d.member[1]].exec = d.member[2] /\ d.score = rec[d.member[1]].end
        BY <1>r, <3>2, <4>1, SweepReads
      <4> QED  BY <4>1, <4>2 DEF Goal
    <3>3. CASE w = v /\ (SweepClean(v) \/ SweepFails(v))
      <4>1. \/ sweep'[v].pc \in {"idle", "evict"}
            \/ sweep[v].pc = "clean" /\ sweep'[v].pc = "rescore" /\ sweep'[v].drifted = sweep[v].drifted
        BY ONLY <1>r, <3>3 DEF SweepClean, SweepFails, IdleSweep, Sweeps
      <4> QED  BY <1>w, <2>3, <3>3, <4>1 DEF InSweep
    <3>4. CASE w = v /\ (SweepRange(v) \/ SweepRescore(v) \/ SweepDone(v) \/ \E t \in Sandboxes : Evict(v, t))
      <4>1. sweep'[v].pc \in {"read", "idle", "evict"}
        <5>1. CASE SweepRange(v)
          BY ONLY <1>r, <5>1 DEF SweepRange, IdleSweep
        <5>2. CASE SweepRescore(v) \/ SweepDone(v) \/ (\E t \in Sandboxes : Evict(v, t))
          BY ONLY <1>r, <5>2 DEF SweepRescore, SweepDone, Evict, IdleSweep, Sweeps
        <5> QED  BY <3>4, <5>1, <5>2
      <4> QED  BY <2>3, <3>4, <4>1 DEF InSweep
    <3> QED  BY <1>3, <3>1, <3>2, <3>3, <3>4 DEF SweepStep
  <2> QED  BY <1>c, <1>hh, <2>1, <2>2, <2>3
<1>4. ASSUME NEW g \in Healers, HealStep(g) PROVE Goal
  <2>1. UNCHANGED <<sweep, rec>>
    BY <1>4 DEF HealStep, HealRead, HealScore, HealAdd, HealFails
  <2>2. ASSUME idx'[s][e] = n PROVE Goal
    <3>1. CASE HealAdd(g)
      <4>1. heal[g].pc = "add" /\ Score(heal[g].id, heal[g].exec, HealedNX(g))
        BY <3>1 DEF HealAdd
      <4>2. Seen(heal[g].id, heal[g].exec)
        BY <4>1 DEF IndexInv, HealInv
      <4>3. HealedNX(g) \in {heal[g].score, idx[heal[g].id][heal[g].exec]} /\ HealedNX(g) \in Nat
        BY <1>r, <4>2 DEF HealedNX, Seen, Heals
      <4>4. \/ idx'[s][e] = idx[s][e]
            \/ s = heal[g].id /\ e = heal[g].exec /\ idx'[s][e] = heal[g].score
        BY <1>t, <4>1, <4>2, <4>3, ScoreWritten DEF Seen
      <4> QED  BY <1>i, <2>2, <4>1, <4>4 DEF Goal, Planned, InHeal
    <3>2. CASE UNCHANGED idx
      BY <1>i, <2>2, <3>2
    <3> QED  BY <1>4, <3>1, <3>2 DEF HealStep, HealRead, HealScore, HealFails
  <2>3. ASSUME NEW h \in Healers, InHeal(h, s, e, n)' PROVE Goal
    <3>1. CASE h # g
      <4>1. heal'[h] = heal[h]
        BY ONLY <1>r, <1>4, <3>1 DEF HealStep, HealRead, HealScore, HealAdd, HealFails
      <4> QED  BY <1>h, <2>3, <4>1 DEF InHeal
    <3>2. ASSUME h = g, NEW t \in Sandboxes, HealRead(g, t) PROVE Goal
      <4>1. heal'[g].id = t /\ heal'[g].exec = rec[t].exec /\ heal'[g].score = rec[t].end
        BY ONLY <1>r, <3>2 DEF HealRead
      <4> QED  BY <2>3, <3>2, <4>1 DEF InHeal, Goal
    <3>3. CASE h = g /\ (HealScore(g) \/ HealAdd(g) \/ HealFails(g))
      <4>1. \/ heal' = [heal EXCEPT ![g] = IdleHeal]
            \/ heal[g].pc = "score" /\ heal' = [heal EXCEPT ![g] = [heal[g] EXCEPT !.pc = "add"]]
        BY <3>3 DEF HealScore, HealAdd, HealFails
      <4>2. \/ heal'[g].pc = "idle"
            \/ /\ heal[g].pc # "idle" /\ heal'[g].id = heal[g].id
               /\ heal'[g].exec = heal[g].exec /\ heal'[g].score = heal[g].score
        BY ONLY <1>r, <4>1 DEF Heals, IdleHeal
      <4> QED  BY <1>h, <2>3, <3>3, <4>2 DEF InHeal
    <3> QED  BY <1>4, <3>1, <3>2, <3>3 DEF HealStep
  <2> QED  BY <1>c, <1>ss, <2>1, <2>2, <2>3
<1>5. ASSUME Tick \/ UNCHANGED vars PROVE Goal
  <2>1. UNCHANGED <<idx, sweep, heal>>
    BY <1>5 DEF Tick, vars
  <2> QED  BY <1>c, <1>i, <1>ss, <1>hh, <2>1
<1>6. ASSUME NEW t \in Sandboxes, ClientStep(t) \/ HandlerStep(t) PROVE Goal
  BY <1>c, <1>1, <1>2, <1>6, <1>ss, <1>hh
<1>7. Goal
  BY <1>3, <1>4, <1>5, <1>6 DEF Next
<1> QED  BY <1>7 DEF Goal

\* A sweep writes no record before it evicts, and never an Add or the clock.
LEMMA SweepLeaves ==
    ASSUME NEW w \in Sweepers,
           SweepRange(w) \/ SweepRead(w) \/ SweepClean(w) \/ SweepRescore(w) \/ SweepFails(w) \/ SweepDone(w)
    PROVE  UNCHANGED <<rec, adding, now>>
<1>1. SweepRange(w) => UNCHANGED <<rec, adding, now>>
  BY ONLY Zenon DEF SweepRange, clientVars
<1>2. SweepRead(w) => UNCHANGED <<rec, adding, now>>
  BY ONLY Zenon DEF SweepRead, clientVars
<1>3. SweepClean(w) => UNCHANGED <<rec, adding, now>>
  BY ONLY Zenon DEF SweepClean, clientVars
<1>4. SweepRescore(w) => UNCHANGED <<rec, adding, now>>
  BY ONLY Zenon DEF SweepRescore, clientVars
<1>5. SweepFails(w) => UNCHANGED <<rec, adding, now>>
  BY ONLY Zenon DEF SweepFails, clientVars
<1>6. SweepDone(w) => UNCHANGED <<rec, adding, now>>
  BY ONLY Zenon DEF SweepDone, clientVars
<1> QED  BY <1>1, <1>2, <1>3, <1>4, <1>5, <1>6

\* An EndTime moves forward, or to now or later, and never beyond the longest
\* timeout from now.
LEMMA EndsGoOn ==
    ASSUME IndexInv, [Next]_vars, NEW s \in Sandboxes, rec'[s].exec # 0
    PROVE  \/ rec'[s] = adding[s] /\ adding[s] # NoRec
           \/ /\ rec'[s].exec = rec[s].exec
              /\ rec[s].end <= rec'[s].end \/ now <= rec'[s].end
              /\ rec'[s].end <= rec[s].end \/ \E d \in Durations : rec'[s].end = now + d
<1>r. /\ rec \in [Sandboxes -> Records] /\ rec[s].end \in Nat
      /\ now \in Nat
  BY DEF IndexInv, TypeInv, Records
<1> DEFINE Moves == /\ rec'[s].exec = rec[s].exec
                    /\ rec[s].end <= rec'[s].end \/ now <= rec'[s].end
                    /\ rec'[s].end <= rec[s].end \/ \E d \in Durations : rec'[s].end = now + d
<1> USE DEF clientVars
<1>1. ASSUME rec'[s].exec = rec[s].exec, rec'[s].end = rec[s].end PROVE Moves
  BY <1>r, <1>1
<1> HIDE DEF Moves
<1>2. ASSUME NEW t \in Sandboxes, FinishAdd(t)
      PROVE  rec'[s] = rec[s] \/ (rec'[s] = adding[s] /\ adding[s] # NoRec)
  BY <1>r, <1>2 DEF FinishAdd
<1>3. ASSUME NEW t \in Sandboxes, UpdateRecord(t) PROVE rec'[s] = rec[s] \/ Moves
  <2>1. PICK d \in Durations : rec' = [rec EXCEPT ![t].end = NewEnd(rec[t], d)]
    BY <1>3 DEF UpdateRecord
  <2>2. CASE t = s
    <3>1. rec'[s].exec = rec[s].exec /\ rec'[s].end = NewEnd(rec[s], d)
      BY ONLY <1>r, <2>1, <2>2 DEF Records
    <3>2. NewEnd(rec[s], d) = now + d \/ NewEnd(rec[s], d) = rec[s].end
      BY DEF NewEnd
    <3>3. now <= now + d
      BY <1>r, ConstantsAssumption
    <3> QED  BY <1>1, <3>1, <3>2, <3>3 DEF Moves
  <2>3. CASE t # s
    BY <1>r, <2>1, <2>3
  <2> QED  BY <2>2, <2>3
<1>4. ASSUME NEW t \in Sandboxes, StartRemoving(t) PROVE rec'[s] = rec[s] \/ Moves
  <2>1. rec' = [rec EXCEPT ![t] = Removing(rec[t])]
    BY <1>4 DEF StartRemoving
  <2>2. CASE t = s
    <3>1. rec'[s] = Removing(rec[s])
      BY <1>r, <2>1, <2>2
    <3>2. /\ Removing(rec[s]).exec = rec[s].exec
          /\ Removing(rec[s]).end = IF now > rec[s].end THEN rec[s].end ELSE now
      BY ONLY <1>r DEF Removing, IsExpired, Records
    <3> QED  BY <1>r, <3>1, <3>2 DEF Moves
  <2>3. CASE t # s
    BY <1>r, <2>1, <2>3
  <2> QED  BY <2>2, <2>3
<1>5. ASSUME NEW t \in Sandboxes, RemovalDies(t) PROVE Moves
  <2>1. rec'[s].exec = rec[s].exec /\ rec'[s].end = rec[s].end
    BY ONLY <1>r, <1>5 DEF RemovalDies, Records
  <2> QED  BY <1>1, <2>1
<1>6. ASSUME NEW t \in Sandboxes, RemoveRecord(t) PROVE rec'[s] = rec[s]
  BY <1>r, <1>6 DEF RemoveRecord, NoRec
<1>7. ASSUME NEW t \in Sandboxes,
             BeginAdd(t) \/ AddFails(t) \/ IndexWriteFails(t) \/ UpdateScore(t) \/ RemoveMember(t)
      PROVE  rec'[s] = rec[s]
  BY <1>7 DEF BeginAdd, AddFails, IndexWriteFails, UpdateScore, RemoveMember
<1>8. ASSUME NEW w \in Sweepers, NEW t \in Sandboxes, Evict(w, t) PROVE Moves
  <2>1. rec' = rec \/ rec' = [rec EXCEPT ![t].state = "removing"]
    BY <1>8 DEF Evict
  <2>2. rec'[s].exec = rec[s].exec /\ rec'[s].end = rec[s].end
    BY ONLY <1>r, <2>1 DEF Records
  <2> QED  BY <1>1, <2>2
<1>9. ASSUME NEW w \in Sweepers,
             SweepRange(w) \/ SweepRead(w) \/ SweepClean(w) \/ SweepRescore(w) \/ SweepFails(w) \/ SweepDone(w)
      PROVE  rec'[s] = rec[s]
  BY <1>9, SweepLeaves
<1>10. ASSUME (\E h \in Healers : HealStep(h)) \/ Tick \/ UNCHANGED vars PROVE rec'[s] = rec[s]
  BY <1>10 DEF HealStep, HealRead, HealScore, HealAdd, HealFails, Tick, vars
<1>11. ASSUME \E t \in Sandboxes : ClientStep(t) \/ HandlerStep(t)
       PROVE  rec'[s] = rec[s] \/ Moves \/ (rec'[s] = adding[s] /\ adding[s] # NoRec)
  BY <1>2, <1>3, <1>4, <1>5, <1>6, <1>7, <1>11 DEF ClientStep, HandlerStep
<1>12. ASSUME \E w \in Sweepers : SweepStep(w) PROVE rec'[s] = rec[s] \/ Moves
  BY <1>8, <1>9, <1>12 DEF SweepStep
<1>13. rec'[s] = rec[s] \/ Moves \/ (rec'[s] = adding[s] /\ adding[s] # NoRec)
  BY <1>10, <1>11, <1>12 DEF Next
<1> QED  BY <1>1, <1>13 DEF Moves

\* An Add writes an EndTime within the longest timeout, and time goes on.
LEMMA AddsGoOn ==
    ASSUME TypeInv, [Next]_vars, NEW s \in Sandboxes
    PROVE  /\ \/ adding'[s] \in {NoRec, adding[s]}
              \/ \E d \in Durations : adding'[s].end = now + d
           /\ now' \in {now, now + 1}
<1>r. adding \in [Sandboxes -> [exec : 0..MaxExec, state : {"none", "running"}, start : Nat, end : Nat]]
  BY DEF TypeInv
<1> DEFINE Goal == /\ \/ adding'[s] \in {NoRec, adding[s]}
                      \/ \E d \in Durations : adding'[s].end = now + d
                   /\ now' \in {now, now + 1}
<1> USE DEF clientVars
<1>1. ASSUME NEW t \in Sandboxes, BeginAdd(t) PROVE Goal
  <2>1. PICK d \in Durations : adding' = [adding EXCEPT ![t] =
             [exec |-> last[t] + 1, state |-> "running", start |-> now, end |-> now + d]]
    BY <1>1 DEF BeginAdd
  <2>2. now' = now
    BY <1>1 DEF BeginAdd
  <2> QED  BY <1>r, <2>1, <2>2
<1>2. ASSUME NEW t \in Sandboxes, FinishAdd(t) \/ AddFails(t) PROVE Goal
  BY <1>r, <1>2 DEF FinishAdd, AddFails
<1>3. ASSUME NEW t \in Sandboxes,
             \/ UpdateRecord(t) \/ StartRemoving(t) \/ RemovalDies(t) \/ IndexWriteFails(t)
             \/ UpdateScore(t) \/ RemoveRecord(t) \/ RemoveMember(t)
      PROVE  UNCHANGED <<adding, now>>
  BY <1>3 DEF UpdateRecord, StartRemoving, RemovalDies, IndexWriteFails, UpdateScore, RemoveRecord, RemoveMember
<1>4. ASSUME NEW w \in Sweepers, SweepStep(w) PROVE UNCHANGED <<adding, now>>
  <2>1. ASSUME NEW t \in Sandboxes, Evict(w, t) PROVE UNCHANGED <<adding, now>>
    BY ONLY <2>1, Zenon DEF Evict, clientVars
  <2> QED  BY <1>4, <2>1, SweepLeaves DEF SweepStep
<1>5. ASSUME NEW h \in Healers, HealStep(h) PROVE UNCHANGED <<adding, now>>
  BY <1>5 DEF HealStep, HealRead, HealScore, HealAdd, HealFails
<1>6. ASSUME Tick \/ UNCHANGED vars PROVE UNCHANGED adding /\ now' \in {now, now + 1}
  BY <1>6 DEF Tick, vars
<1> QED  BY <1>1, <1>2, <1>3, <1>4, <1>5, <1>6 DEF Next, ClientStep, HandlerStep

\* A time, or a score of the stored execution, that is no further from now, or
\* from its EndTime, than some timeout.
Near(n) == \E d \in Durations : n <= now + d
Soon(s, e, n) == rec[s].exec = e => \E d \in Durations : n <= rec[s].end + d

\* No EndTime and no score, in the index or planned, is further away.
ScoresSoon ==
    \A s \in Sandboxes :
        /\ rec[s].exec # 0 => Near(rec[s].end)
        /\ adding[s] # NoRec => Near(adding[s].end)
        /\ \A e \in Execs, n \in Nat : n # 0 /\ Planned(s, e, n) => Near(n) /\ Soon(s, e, n)

\* Every step keeps it so, whether timeouts are shortened or not.
LEMMA SoonStep == ~SlowAdds /\ IndexInv /\ ScoresSoon /\ [Next]_vars => ScoresSoon'
<1> SUFFICES ASSUME ~SlowAdds, IndexInv, ScoresSoon, [Next]_vars PROVE ScoresSoon'
  OBVIOUS
<1>t. TypeInv /\ TypeInv' /\ IndexInv'
  BY IndexStep DEF IndexInv
<1>r. /\ now \in Nat /\ now' \in Nat /\ Durations \subseteq Nat
      /\ \A s \in Sandboxes : rec[s].end \in Nat /\ rec'[s].end \in Nat /\ adding[s].end \in Nat
  BY <1>t, ConstantsAssumption DEF TypeInv, Records
<1>n. ASSUME NEW n \in Nat, Near(n), NEW s \in Sandboxes PROVE Near(n)'
  <2>1. now' \in {now, now + 1}
    BY <1>n, <1>t, AddsGoOn
  <2>2. PICK d \in Durations : n <= now + d
    BY <1>n DEF Near
  <2>3. n <= now' + d
    BY <1>n, <1>r, <2>1, <2>2
  <2> QED  BY <2>3 DEF Near
<1> SUFFICES ASSUME NEW s \in Sandboxes
             PROVE  /\ rec'[s].exec # 0 => \E d \in Durations : rec'[s].end <= now' + d
                    /\ adding'[s] # NoRec => \E d \in Durations : adding'[s].end <= now' + d
                    /\ \A e \in Execs, n \in Nat :
                         n # 0 /\ Planned(s, e, n)' => Near(n)' /\ Soon(s, e, n)'
  BY DEF ScoresSoon, Near
<1>q. now' \in {now, now + 1}
  BY <1>t, AddsGoOn
<1>1. rec'[s].exec # 0 => \E d \in Durations : rec'[s].end <= now' + d
  <2> SUFFICES ASSUME rec'[s].exec # 0 PROVE \E d \in Durations : rec'[s].end <= now' + d
    OBVIOUS
  <2>1. CASE rec'[s] = adding[s] /\ adding[s] # NoRec
    <3>1. PICK d \in Durations : adding[s].end <= now + d
      BY <2>1 DEF ScoresSoon, Near
    <3> QED  BY <1>r, <1>q, <2>1, <3>1
  <2>2. CASE rec'[s].exec = rec[s].exec /\ rec'[s].end <= rec[s].end
    <3>1. PICK d \in Durations : rec[s].end <= now + d
      BY <2>2 DEF ScoresSoon, Near
    <3>2. rec'[s].end <= now' + d
      BY <1>r, <1>q, <2>2, <3>1
    <3> QED  BY <3>2
  <2>3. ASSUME NEW d \in Durations, rec'[s].end = now + d PROVE \E c \in Durations : rec'[s].end <= now' + c
    BY <1>r, <1>q, <2>3
  <2> QED  BY <2>1, <2>2, <2>3, EndsGoOn
<1>2. adding'[s] # NoRec => \E d \in Durations : adding'[s].end <= now' + d
  <2> SUFFICES ASSUME adding'[s] # NoRec PROVE \E d \in Durations : adding'[s].end <= now' + d
    OBVIOUS
  <2>1. CASE adding'[s] = adding[s]
    <3>1. PICK d \in Durations : adding[s].end <= now + d
      BY <2>1 DEF ScoresSoon, Near
    <3> QED  BY <1>r, <1>q, <2>1, <3>1
  <2>2. ASSUME NEW d \in Durations, adding'[s].end = now + d PROVE \E c \in Durations : adding'[s].end <= now' + c
    BY <1>r, <1>q, <2>2
  <2> QED  BY <1>t, <2>1, <2>2, AddsGoOn
<1>3. ASSUME NEW e \in Execs, NEW n \in Nat, n # 0, Planned(s, e, n)' PROVE Near(n)' /\ Soon(s, e, n)'
  <2>1. ASSUME adding'[s] # NoRec, NEW d \in Durations, n = now + d PROVE Near(n)' /\ Soon(s, e, n)'
    <3>1. rec'[s].exec # e
      <4>1. rec'[s] = NoRec
        BY <1>t, <2>1 DEF IndexInv, AddInv
      <4> QED  BY <4>1 DEF NoRec, Execs
    <3>2. n <= now' + d
      <4>1. d \in Nat /\ now \in Nat /\ n = now + d
        BY <1>r, <2>1
      <4>2. now' = now \/ now' = now + 1
        BY <1>q
      <4> QED  BY ONLY <4>1, <4>2
    <3> QED  BY <3>1, <3>2 DEF Near, Soon
  <2>2. ASSUME Near(n), Soon(s, e, n), rec'[s].exec = e => rec[s].exec = e
        PROVE  Near(n)' /\ Soon(s, e, n)'
    <3>1. Near(n)'
      BY <1>n, <2>2
    <3>2. SUFFICES ASSUME rec'[s].exec = e PROVE \E d \in Durations : n <= rec'[s].end + d
      BY <3>1 DEF Soon
    <3>3. e # 0
      BY DEF Execs
    <3>4. rec[s].exec = e /\ rec[s] # NoRec
      BY <2>2, <3>2, <3>3 DEF NoRec
    <3>5. adding[s] = NoRec
      BY <3>4 DEF IndexInv, AddInv
    <3>6. rec[s].end <= rec'[s].end \/ now <= rec'[s].end
      BY <3>2, <3>3, <3>5, EndsGoOn
    <3>7. PICK c \in Durations : n <= now + c
      BY <2>2 DEF Near
    <3>8. PICK d \in Durations : n <= rec[s].end + d
      BY <2>2, <3>4 DEF Soon
    <3>9. n <= rec'[s].end + c \/ n <= rec'[s].end + d
      BY <1>r, <3>6, <3>7, <3>8
    <3> QED  BY <3>9
  <2>3. CASE Planned(s, e, n)
    <3>1. Near(n) /\ Soon(s, e, n)
      BY <1>3, <2>3 DEF ScoresSoon
    <3>2. CASE rec'[s].exec = e /\ rec[s].exec # e
      <4>1. e # 0
        BY DEF Execs
      <4>2. rec'[s] = adding[s] /\ adding[s] # NoRec
        BY <3>2, <4>1, EndsGoOn
      <4>3. adding[s].exec = e /\ idx[s][e] = adding[s].end
        BY <3>2, <4>2 DEF IndexInv, AddInv
      <4>4. \A w \in Sweepers : ~InSweep(w, s, e, n)
        <5>1. SUFFICES ASSUME NEW w \in Sweepers, sweep[w].pc \in {"clean", "rescore"},
                              NEW d \in sweep[w].drifted, d.member = <<s, e>>
                       PROVE  FALSE
          BY DEF InSweep
        <5>2. Seen(d.member[1], d.member[2])
          BY <5>1 DEF IndexInv, SweepInv
        <5> QED  BY <4>3, <5>1, <5>2 DEF Seen
      <4>5. \A h \in Healers : ~InHeal(h, s, e, n)
        BY <4>3 DEF InHeal, IndexInv, HealInv, Seen
      <4>6. n = rec'[s].end
        BY <2>3, <4>2, <4>3, <4>4, <4>5 DEF Planned
      <4>7. PICK d \in Durations : n <= now + d
        BY <3>1 DEF Near
      <4>8. n <= rec'[s].end + d
        BY <1>r, <4>6
      <4>9. Near(n)'
        BY <1>n, <3>1
      <4> QED  BY <4>8, <4>9 DEF Soon
    <3> QED  BY <2>2, <3>1, <3>2
  <2>4. CASE rec[s].exec = e /\ rec[s].end = n
    <3>1. e # 0
      BY DEF Execs
    <3>2. Near(n)
      BY <2>4, <3>1 DEF ScoresSoon
    <3>3. PICK d \in Durations : n <= now + d
      BY <3>2 DEF Near
    <3>4. n <= rec[s].end + d
      BY <1>r, <2>4
    <3> QED  BY <2>2, <2>4, <3>2, <3>4 DEF Soon
  <2> QED  BY <1>3, <2>1, <2>3, <2>4, PlansCome
<1> QED  BY <1>1, <1>2, <1>3

\* A removal that failed is due for a sweep once StaleCutoff and the longest
\* timeout have passed, when no Add outlasts the EndTime it writes.
THEOREM FailedRemovalComesDue == ASSUME ~SlowAdds PROVE Spec => []FailedRemovalIsDue
<1>1. Init => IndexInv /\ ScoresSoon
  <2>1. Init => ScoresSoon
    BY DEF Init, ScoresSoon, Planned, InSweep, InHeal, NoRec, IdleSweep, IdleHeal
  <2> QED  BY <2>1, IndexStarts
<1>2. IndexInv /\ ScoresSoon /\ [Next]_vars => IndexInv' /\ ScoresSoon'
  BY IndexStep, SoonStep
<1>3. IndexInv /\ ScoresSoon => FailedRemovalIsDue
  <2> SUFFICES ASSUME IndexInv, ScoresSoon, NEW s \in Sandboxes, rec[s].state = "stuck",
                      \A d \in Durations : now - rec[s].end >= d
               PROVE  <<s, rec[s].exec>> \in Due
    BY DEF FailedRemovalIsDue
  <2>1. /\ rec[s].exec \in 0..MaxExec /\ rec[s].end \in Nat /\ now \in Nat /\ Durations \subseteq Nat
        /\ idx \in [Sandboxes -> [Execs -> Nat]]
    BY ConstantsAssumption DEF IndexInv, TypeInv, Records
  <2>2. rec[s].exec # 0
    BY DEF IndexInv, AddInv, NoRec
  <2>3. rec[s].exec \in Execs
    BY ONLY <2>1, <2>2, ConstantsAssumption DEF Execs, ConstantsAssumption
  <2>4. idx[s][rec[s].exec] # 0 /\ idx[s][rec[s].exec] \in Nat
    BY <2>1, <2>2, <2>3 DEF IndexInv, StoredIsIndexed, Stored
  <2>5. PICK d \in Durations : idx[s][rec[s].exec] <= rec[s].end + d
    BY <2>3, <2>4 DEF ScoresSoon, Planned, Soon
  <2>6. now - rec[s].end >= d
    OBVIOUS
  <2>7. idx[s][rec[s].exec] <= now
    BY ONLY <2>1, <2>4, <2>5, <2>6
  <2> QED  BY <2>3, <2>4, <2>7 DEF Due, Members, ScoreOf
<1> QED  BY <1>1, <1>2, <1>3, PTL DEF Spec

-----------------------------------------------------------------------------
\* A step that neither grants time nor is a client's removal leaves a running
\* record whose EndTime has not passed alone: a removal in progress, or one that
\* died, is not running, and an eviction reads the EndTime again.
LEMMA UnexpiredStays ==
    ASSUME TypeInv, [Next]_vars, NEW s \in Sandboxes,
           rec[s].state = "running", now <= rec[s].end,
           ~FinishAdd(s), ~UpdateRecord(s), ~StartRemoving(s)
    PROVE  rec'[s] = rec[s]
<1>r. /\ rec \in [Sandboxes -> Records] /\ rec[s].end \in Nat
      /\ now \in Nat
  BY DEF TypeInv, Records
<1> USE DEF clientVars
<1>1. ASSUME NEW t \in Sandboxes, FinishAdd(t) \/ UpdateRecord(t) \/ StartRemoving(t) PROVE rec'[s] = rec[s]
  <2>1. t # s
    BY <1>1
  <2> QED  BY <1>1, <1>r, <2>1 DEF FinishAdd, UpdateRecord, StartRemoving
<1>2. ASSUME NEW t \in Sandboxes, RemovalDies(t) \/ RemoveRecord(t) PROVE rec'[s] = rec[s]
  <2>1. rec[t].state = "removing"
    BY <1>2 DEF RemovalDies, RemoveRecord
  <2>2. t # s
    BY <2>1
  <2> QED  BY <1>2, <1>r, <2>2 DEF RemovalDies, RemoveRecord
<1>3. ASSUME NEW t \in Sandboxes,
             BeginAdd(t) \/ AddFails(t) \/ IndexWriteFails(t) \/ UpdateScore(t) \/ RemoveMember(t)
      PROVE  rec'[s] = rec[s]
  BY <1>3 DEF BeginAdd, AddFails, IndexWriteFails, UpdateScore, RemoveMember
<1>4. ASSUME NEW w \in Sweepers, NEW t \in Sandboxes, Evict(w, t) PROVE rec'[s] = rec[s]
  <2>1. rec' = rec \/ (IsExpired(rec[t], now) /\ rec' = [rec EXCEPT ![t].state = "removing"])
    BY <1>4 DEF Evict, CanEvict
  <2>2. ~IsExpired(rec[s], now)
    BY <1>r DEF IsExpired
  <2> QED  BY <1>r, <2>1, <2>2
<1>5. ASSUME NEW w \in Sweepers,
             SweepRange(w) \/ SweepRead(w) \/ SweepClean(w) \/ SweepRescore(w) \/ SweepFails(w) \/ SweepDone(w)
      PROVE  rec'[s] = rec[s]
  BY <1>5, SweepLeaves
<1>6. ASSUME (\E h \in Healers : HealStep(h)) \/ Tick \/ UNCHANGED vars PROVE rec'[s] = rec[s]
  BY <1>6 DEF HealStep, HealRead, HealScore, HealAdd, HealFails, Tick, vars
<1>7. ASSUME NEW t \in Sandboxes, ClientStep(t) \/ HandlerStep(t) PROVE rec'[s] = rec[s]
  BY <1>1, <1>2, <1>3, <1>7 DEF ClientStep, HandlerStep
<1>8. ASSUME NEW w \in Sweepers, SweepStep(w) PROVE rec'[s] = rec[s]
  BY <1>4, <1>5, <1>8 DEF SweepStep
<1> QED  BY <1>6, <1>7, <1>8 DEF Next

\* What is being added is running.
AddsRun == \A s \in Sandboxes : adding[s] # NoRec => adding[s].state = "running"

\* Every Add stores a running record.
LEMMA AddsRunStep == TypeInv /\ AddsRun /\ [Next]_vars => AddsRun'
<1> SUFFICES ASSUME TypeInv, AddsRun, [Next]_vars PROVE AddsRun'
  OBVIOUS
<1>r. adding \in [Sandboxes -> [exec : 0..MaxExec, state : {"none", "running"}, start : Nat, end : Nat]]
  BY DEF TypeInv
<1> USE DEF clientVars, AddsRun
<1>1. ASSUME NEW t \in Sandboxes, BeginAdd(t) PROVE AddsRun'
  <2>1. PICK d \in Durations : adding' = [adding EXCEPT ![t] =
             [exec |-> last[t] + 1, state |-> "running", start |-> now, end |-> now + d]]
    BY <1>1 DEF BeginAdd
  <2> QED  BY <1>r, <2>1
<1>2. ASSUME NEW t \in Sandboxes, FinishAdd(t) \/ AddFails(t) PROVE AddsRun'
  BY <1>r, <1>2 DEF FinishAdd, AddFails
<1>3. ASSUME NEW t \in Sandboxes,
             \/ UpdateRecord(t) \/ StartRemoving(t) \/ RemovalDies(t) \/ IndexWriteFails(t)
             \/ UpdateScore(t) \/ RemoveRecord(t) \/ RemoveMember(t)
      PROVE  UNCHANGED adding
  BY <1>3 DEF UpdateRecord, StartRemoving, RemovalDies, IndexWriteFails, UpdateScore, RemoveRecord, RemoveMember
<1>4. ASSUME NEW w \in Sweepers, SweepStep(w) PROVE UNCHANGED adding
  BY <1>4, Zenon DEF SweepStep, SweepRange, SweepRead, SweepClean, SweepRescore, Evict, SweepFails, SweepDone
<1>5. ASSUME (\E h \in Healers : HealStep(h)) \/ Tick \/ UNCHANGED vars PROVE UNCHANGED adding
  BY <1>5 DEF HealStep, HealRead, HealScore, HealAdd, HealFails, Tick, vars
<1> QED  BY <1>1, <1>2, <1>3, <1>4, <1>5 DEF Next, ClientStep, HandlerStep

\* Every step keeps what was promised.
LEMMA PromiseStep ==
    TypeInv /\ PromiseType /\ AddsRun /\ PromisedTimeKept /\ [Next]_vars => PromisedTimeKept'
<1> SUFFICES ASSUME TypeInv, PromiseType, AddsRun, PromisedTimeKept, [Next]_vars, NEW s \in Sandboxes,
                    now' <= promised'[s]
             PROVE  rec'[s].state = "running" /\ promised'[s] <= rec'[s].end
  BY DEF PromisedTimeKept
<1>r. /\ rec \in [Sandboxes -> Records] /\ rec[s].end \in Nat
      /\ adding[s].end \in Nat
      /\ now \in Nat /\ now # 0 /\ Durations \subseteq Nat
      /\ promised \in [Sandboxes -> Nat]
  BY ConstantsAssumption DEF TypeInv, Records, PromiseType
<1>1. CASE FinishAdd(s)
  <2>1. /\ rec'[s] = adding[s] /\ adding[s] # NoRec
        /\ promised'[s] \in {0, adding[s].end}
    BY <1>1, <1>r DEF FinishAdd
  <2> QED  BY <1>r, <2>1 DEF AddsRun
<1>2. CASE UpdateRecord(s)
  <2>1. PICK d \in Durations :
          /\ rec' = [rec EXCEPT ![s].end = NewEnd(rec[s], d)]
          /\ promised' = [promised EXCEPT ![s] = IF AllowShorter \/ now + d >= @ THEN now + d ELSE @]
    BY <1>2 DEF UpdateRecord
  <2>2. rec[s].state = "running" /\ now' = now
    BY <1>2 DEF UpdateRecord
  <2>3. rec'[s].state = "running" /\ rec'[s].end = NewEnd(rec[s], d)
    BY ONLY <1>r, <2>1, <2>2 DEF Records
  <2>4. promised'[s] = IF AllowShorter \/ now + d >= promised[s] THEN now + d ELSE promised[s]
    BY <1>r, <2>1
  <2>5. CASE AllowShorter \/ now + d >= promised[s]
    BY <1>r, <2>3, <2>4, <2>5 DEF NewEnd
  <2>6. CASE ~(AllowShorter \/ now + d >= promised[s])
    <3>1. promised'[s] = promised[s] /\ now <= promised[s]
      BY <1>r, <2>2, <2>4, <2>6
    <3>2. promised[s] <= rec[s].end
      BY <3>1 DEF PromisedTimeKept
    <3> QED  BY <1>r, <2>3, <2>6, <3>1, <3>2 DEF NewEnd
  <2> QED  BY <2>5, <2>6
<1>3. CASE StartRemoving(s)
  <2>1. promised'[s] = 0 /\ now' = now
    BY <1>3, <1>r DEF StartRemoving
  <2> QED  BY <1>r, <2>1
<1>4. CASE ~FinishAdd(s) /\ ~UpdateRecord(s) /\ ~StartRemoving(s)
  <2>1. promised'[s] = promised[s] \/ (Tick /\ promised'[s] \in {0, promised[s]})
    <3>1. ASSUME NEW t \in Sandboxes, FinishAdd(t) \/ UpdateRecord(t) \/ StartRemoving(t)
          PROVE  promised'[s] = promised[s]
      <4>1. t # s
        BY <1>4, <3>1
      <4> QED  BY <1>r, <3>1, <4>1 DEF FinishAdd, UpdateRecord, StartRemoving
    <3>2. CASE Tick
      BY <1>r, <3>2 DEF Tick
    <3> QED  BY <3>1, <3>2, PromisesGoOn
  <2>2. now <= now' /\ now' \in Nat
    BY <1>r, AddsGoOn
  <2>3. promised'[s] = promised[s] /\ now <= promised[s]
    BY <1>r, <2>1, <2>2
  <2>4. rec[s].state = "running" /\ promised[s] <= rec[s].end
    BY <2>3 DEF PromisedTimeKept
  <2>5. rec'[s] = rec[s]
    BY <1>r, <1>4, <2>3, <2>4, UnexpiredStays
  <2> QED  BY <2>3, <2>4, <2>5
<1> QED  BY <1>1, <1>2, <1>3, <1>4

\* A sandbox runs for as long as a client was last granted, unless a client asks
\* for its removal: for any sweeps, heals, failed writes and slow Adds, and with
\* timeouts that are shortened or not.
THEOREM ClientsKeepTheirTime == Spec => []PromisedTimeKept
<1>1. Init => TypeInv /\ PromiseType /\ AddsRun /\ PromisedTimeKept
  BY ConstantsAssumption DEF Init, TypeInv, PromiseType, AddsRun, PromisedTimeKept, Records, NoRec, NoDebt, IdleSweep,
     IdleHeal, Sweeps, Heals, Debts
<1> QED  BY <1>1, StepTypes, PromiseTypes, AddsRunStep, PromiseStep, PTL DEF Spec
=============================================================================
