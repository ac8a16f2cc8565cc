------------------------- MODULE ToolExecutionProofs -------------------------
(***************************************************************************)
(* Proofs about ToolExecution for every set of tools and every batch, any  *)
(* number of batches and time-outs and any limit on parallel calls.  What  *)
(* the barrier rests on is that a group is only started when no call of    *)
(* the batch is awaited; what a call reads rests on the barrier.           *)
(* Then about what brings tools: the registries, and plugins.              *)
(***************************************************************************)
EXTENDS MCToolExecution, FiniteSetTheorems, WellFoundedInduction, NaturalsInduction, TLAPS

\* A call of the batch in progress is one of those started; at most one run is
\* its own, and what is not started has no result yet.
Placed ==
  /\ Idle \/ batch # 0
  /\ \A r \in runs : r.batch <= batch
  /\ \A r \in runs : Current(r) => r.index \in started /\ r.tool = calls[r.index]
  /\ \A r, q \in runs : Current(r) /\ Current(q) /\ r.index = q.index => r = q
  /\ \A i \in DOMAIN calls \ started : results[i] = Nothing

\* The barrier, also for calls that still await the policy engine.
Awaited == {r \in runs : r.held /\ Current(r)}
Barrier == \A r, q \in Awaited : Exclusive(r) => q = r

IInv == TypeOK /\ Placed /\ Barrier

\* As long as no outcome slipped, nothing runs that nobody waits for.
Attended == ~slipped => \A r \in runs : r \in Awaited

\* What a call has done to the world so far.
Acted(i) == IF results[i] # Nothing THEN results[i].acted
            ELSE \E r \in Awaited : r.index = i /\ r.at = "acted"
Effects(n) == {i \in started : i < n /\ calls[i] \in Mutating /\ Acted(i)}
Before(n) == base + Cardinality(Effects(n))

\* The grouped executor starts its calls from the front: an exclusive call when
\* those in front have their results, and nothing else while it is awaited.
FromTheFront ==
  /\ \A r \in runs : r.at # "queued"
  /\ cache = [t \in Tools |-> Nothing]
  /\ \A i \in started : 1..i \subseteq started
  /\ \A i \in started : ~Parallel(calls[i]) => \A j \in 1..(i-1) : results[j] # Nothing
  /\ \A r \in Awaited : Exclusive(r) => \A i \in started : i <= r.index

\* What it has read is what the calls in front have left, and the world is
\* what all of them have left.
Sequential ==
  ~slipped /\ ~Idle =>
    /\ world = Before(Len(calls) + 1)
    /\ \A r \in runs : r.at = "acted" => r.saw = Before(r.index)
    /\ \A i \in started : results[i] # Nothing /\ results[i].acted =>
                            results[i].saw = Before(i)
InOrder == executor = "grouped" => FromTheFront /\ Sequential

\* What has been read in the batch executor, and may be cached, is fresh; and a
\* tool that changes the world is the last one that did.
ReadsAreFresh ==
  executor = "batch" /\ ~slipped =>
    /\ \A r \in runs : r.at = "acted" =>
         IF r.tool \in Mutating THEN world = r.saw + 1 ELSE r.saw = world
    /\ CacheIsFresh
-----------------------------------------------------------------------------
\* The next group

\* A non-empty set of naturals has a least element.
LEMMA LeastOf ==
  ASSUME NEW S, S \subseteq Nat, S # {}
  PROVE  \E i \in S : \A j \in S : i <= j
<1> DEFINE R == OpToRel(<, Nat)
<1>1. IsWellFoundedOn(R, Nat)
  BY NatLessThanWellFounded
<1>2. \A x, y \in Nat : x < y => <<x, y>> \in R
  BY DEF OpToRel
<1> HIDE DEF R
<1>3. PICK x \in S : \A y \in S : ~(<<y, x>> \in R)
  BY <1>1, WFMin
<1>4. \A y \in S : ~(y < x)
  BY <1>2, <1>3, Zenon
<1> QED
  BY <1>4

\* The calls of a batch are numbered from 1.
LEMMA CallsTyped ==
  ASSUME TypeOK
  PROVE  /\ calls \in Seq(Tools) /\ Len(calls) \in Nat /\ DOMAIN calls = 1..Len(calls)
         /\ Left \subseteq DOMAIN calls /\ started \subseteq DOMAIN calls
         /\ Idle => Left = {} /\ started = {}
BY ToolConstants DEF TypeOK, Left, Idle

\* A tool that must run alone is a group of its own, and groups take the calls
\* from the front.
LEMMA NextWaveFacts ==
  ASSUME TypeOK, Left # {}
  PROVE  /\ NextWave \subseteq Left
         /\ \A i \in NextWave :
              (IF executor = "grouped" THEN ~Parallel(calls[i]) ELSE calls[i] \in Mutating)
                => NextWave = {i}
         /\ executor = "grouped" => \A i \in NextWave : \A j \in Left : j <= i => j \in NextWave
<1>1. Left \subseteq Nat /\ calls \in Seq(Tools) /\ DOMAIN calls = 1..Len(calls)
  BY CallsTyped
<1>2. \E i \in Left : \A j \in Left : i <= j
  BY <1>1, LeastOf
<1>3. Foremost \in Left /\ \A j \in Left : Foremost <= j
  BY <1>2 DEF Foremost
<1> DEFINE f == Foremost
<1>4. f \in Nat /\ f \in Left /\ \A j \in Left : f <= j
  BY <1>1, <1>3
<1>5. CASE executor = "grouped" /\ Parallel(calls[f])
  <2>1. NextWave = {j \in Left : j < f + MaxParallel /\ \A i \in f..j : Parallel(calls[i])}
    BY <1>5 DEF NextWave, NextGroup
  <2> HIDE DEF f
  <2>2. \A i \in NextWave : i \in f..i /\ Parallel(calls[i])
    BY <1>1, <1>4, <2>1
  <2>3. ASSUME NEW i \in NextWave, NEW j \in Left, j <= i
        PROVE  j \in NextWave
    <3>1. i \in Nat /\ j \in Nat /\ j < f + MaxParallel /\ f..j \subseteq f..i
      BY <1>1, <1>4, <2>1, <2>3, ToolConstants
    <3> QED
      BY <2>1, <2>3, <3>1
  <2> QED
    BY <1>5, <2>1, <2>2, <2>3
<1>6. CASE executor = "grouped" /\ ~Parallel(calls[f])
  <2>1. NextWave = {f}
    BY <1>6 DEF NextWave, NextGroup
  <2>2. \A j \in Left : j <= f => j = f
    BY <1>1, <1>4
  <2> QED
    BY <1>4, <2>1, <2>2
<1>7. CASE executor # "grouped"
  <2>1. \/ NextWave = {i \in Left : calls[i] \notin Mutating}
        \/ NextWave = {f}
    BY <1>7 DEF NextWave, NextSplit
  <2> QED
    BY <1>4, <1>7, <2>1
<1> QED
  BY <1>5, <1>6, <1>7

-----------------------------------------------------------------------------
\* Type correctness, the places of the runs, and the barrier

\* A run and what a step makes of it.
Same(s, r) ==
  s.batch = r.batch /\ s.index = r.index /\ s.tool = r.tool /\ (s.held => r.held)

\* A step of one run: the run it leaves, if any, and the types of what else it
\* may change.
RunMoves(r, new) ==
  /\ new \subseteq Runs
  /\ \A s \in new : Same(s, r)
  /\ \A s, q \in new : s = q
  /\ runs' = (runs \ {r}) \cup new
  /\ executor' = executor /\ batch' = batch /\ base' = base
  /\ world' \in Nat /\ timeOuts' \in 0..MaxTimeOuts /\ slipped' \in BOOLEAN /\ thrown' \in Nat
  /\ cache' \in [Tools -> [saw: Nat] \cup {Nothing}]

\* A step of one run that leaves its batch in progress: either it stays as
\* awaited as it was, or it answers.
LEMMA OneRun ==
  ASSUME IInv, NEW r \in runs, NEW new, RunMoves(r, new),
         calls' = calls, started' = started,
         \/ results' = results /\ (Current(r) /\ r.held => \E s \in new : s.held)
         \/ /\ Current(r) /\ \A s \in new : ~s.held
            /\ \E result \in Results : results' = [results EXCEPT ![r.index] = result]
  PROVE  IInv'
<1> USE DEF RunMoves
<1>1. /\ TypeOK /\ Placed /\ Barrier /\ runs \subseteq Runs
      /\ results \in [DOMAIN calls -> Results \cup {Nothing}]
      /\ started \subseteq DOMAIN calls
      /\ \A i \in started : results[i] = Nothing <=>
           \E q \in runs : q.batch = batch /\ q.index = i /\ q.held
  BY DEF IInv, TypeOK
<1>2. Idle' = Idle /\ \A s : Current(s)' <=> Current(s)
  BY DEF Idle, Current
<1>3. \A s \in runs' : \E q \in runs : Same(s, q)
  BY DEF Same
<1>4. /\ Current(r) => r.index \in started
      /\ \A s \in new : Current(s) <=> Current(r)
  BY <1>1 DEF Placed, Current, Same
<1>5. results' \in [DOMAIN calls -> Results \cup {Nothing}]
  BY <1>1
<1>6. ASSUME NEW i \in started
      PROVE  results'[i] = Nothing <=>
               \E s \in runs' : s.batch = batch /\ s.index = i /\ s.held
  <2>1. ~Idle
    BY <1>1, <1>6 DEF Idle
  <2>2. \A q \in runs : q.batch = batch => Current(q)
    BY <2>1 DEF Current
  <2>3. \A q \in runs : q.batch = batch /\ q.index = i /\ r.batch = batch /\ r.index = i => q = r
    BY <1>1, <2>2 DEF Placed
  <2>4. CASE ~(r.batch = batch /\ r.index = i)
    <3>1. results'[i] = results[i]
      BY <1>1, <1>4, <1>6, <2>4 DEF Current
    <3> QED
      BY <1>1, <1>6, <2>4, <3>1 DEF Same
  <2>5. CASE /\ r.batch = batch /\ r.index = i
             /\ results' = results /\ (Current(r) /\ r.held => \E s \in new : s.held)
    <3>1. \A s \in runs' : s.batch = batch /\ s.index = i <=> s \in new
      BY <2>3, <2>5 DEF Same
    <3>2. (\E s \in new : s.held) <=> r.held
      BY <2>2, <2>5 DEF Same
    <3>3. results[i] = Nothing <=> r.held
      BY <1>1, <1>6, <2>3, <2>5
    <3> QED
      BY <2>5, <3>1, <3>2, <3>3
  <2>6. CASE /\ r.batch = batch /\ r.index = i /\ \A s \in new : ~s.held
             /\ \E result \in Results : results' = [results EXCEPT ![r.index] = result]
    <3>1. \A s \in runs' : ~(s.batch = batch /\ s.index = i /\ s.held)
      BY <2>3, <2>6
    <3>2. results'[i] \in Results
      BY <1>1, <1>6, <2>6
    <3>3. Nothing \notin Results
      BY DEF Nothing, Results
    <3> QED
      BY <3>1, <3>2, <3>3
  <2> QED
    BY <2>4, <2>5, <2>6
<1>7. TypeOK'
  BY <1>1, <1>2, <1>5, <1>6 DEF TypeOK
<1>8. Placed'
  <2>1. \A s \in runs' : s.batch <= batch
    BY <1>1, <1>3 DEF Placed, Same
  <2>2. \A s \in runs' : Current(s) => s.index \in started /\ s.tool = calls[s.index]
    BY <1>1, <1>3 DEF Placed, Same, Current
  <2>3. \A s, q \in runs' : Current(s) /\ Current(q) /\ s.index = q.index => s = q
    BY <1>1, <1>4 DEF Placed, Same
  <2>4. \A i \in DOMAIN calls \ started : results'[i] = Nothing
    BY <1>1, <1>4 DEF Placed
  <2> QED
    BY <1>1, <1>2, <2>1, <2>2, <2>3, <2>4 DEF Placed
<1>9. Barrier'
  <2>1. Awaited' = {s \in runs' : s.held /\ Current(s)}
    BY <1>2 DEF Awaited
  <2>2. \A s : Exclusive(s)' <=> Exclusive(s)
    BY DEF Exclusive
  <2>3. \A s \in new : s \in Awaited' => r \in Awaited /\ (Exclusive(s) <=> Exclusive(r))
    BY <1>4, <2>1 DEF Awaited, Same, Exclusive
  <2>4. \A s \in Awaited' : s \in new \/ (s \in Awaited /\ s # r)
    BY <2>1 DEF Awaited
  <2> QED
    BY <1>1, <2>2, <2>3, <2>4 DEF Barrier
<1> QED
  BY <1>7, <1>8, <1>9 DEF IInv

\* The batch returns or throws: what still runs is no longer its.
LEMMA BatchEnds ==
  ASSUME IInv, runs' \subseteq Runs, \A s \in runs' : \E q \in runs : s.batch = q.batch,
         calls' = <<>>, started' = {}, results' = <<>>,
         executor' = executor, batch' = batch, base' = base, world' \in Nat,
         timeOuts' \in 0..MaxTimeOuts, slipped' \in BOOLEAN, thrown' \in Nat,
         cache' \in [Tools -> [saw: Nat] \cup {Nothing}]
  PROVE  IInv'
<1>1. Idle' /\ \A s : ~Current(s)'
  BY DEF Idle, Current
<1>2. TypeOK'
  BY <1>1 DEF IInv, TypeOK
<1>3. Placed'
  BY <1>1 DEF IInv, Placed
<1>4. Barrier'
  BY <1>1 DEF Barrier, Awaited
<1> QED
  BY <1>2, <1>3, <1>4 DEF IInv


\* The runs of the next group.
RunOf(i) == [batch |-> batch, index |-> i, tool |-> calls[i],
             at |-> IF executor = "grouped" THEN "running" ELSE "queued",
             held |-> TRUE, saw |-> 0]
Begun == {RunOf(i) : i \in NextWave}

\* A group is started when nothing of its batch is awaited any more.
LEMMA NothingAwaited ==
  ASSUME IInv, WaveSettled, ~Idle
  PROVE  Awaited = {}
<1>1. \A r \in Awaited : r \in runs /\ r.held /\ r.batch = batch /\ r.index \in started
  BY DEF IInv, Placed, Awaited, Current
<1>2. \A r \in Awaited : results[r.index] = Nothing
  BY <1>1 DEF IInv, TypeOK
<1> QED
  BY <1>1, <1>2 DEF WaveSettled

\* What StartWave starts.
LEMMA BegunFacts ==
  ASSUME IInv, StartWave
  PROVE  /\ runs' = runs \cup Begun /\ Begun \subseteq Runs /\ ~Idle /\ Idle' = Idle
         /\ \A s : Current(s)' <=> Current(s)
         /\ \A s \in Begun : /\ s.batch = batch /\ s.index \in NextWave /\ s.index \notin started
                             /\ s.tool = calls[s.index] /\ s.held /\ Current(s) /\ s.saw = 0
                             /\ s.at = IF executor = "grouped" THEN "running" ELSE "queued"
         /\ \A i \in NextWave : \E s \in Begun : s.index = i
         /\ \A s, q \in Begun : s.index = q.index => s = q
         /\ Awaited = {} /\ Awaited' = Begun
         /\ NextWave \subseteq DOMAIN calls \ started
<1>1. /\ TypeOK /\ Placed /\ Left # {} /\ WaveSettled /\ NextWave \subseteq Left
      /\ calls \in Seq(Tools) /\ DOMAIN calls = 1..Len(calls) /\ ~Idle
      /\ Left \subseteq DOMAIN calls /\ Left = DOMAIN calls \ started
  BY CallsTyped, NextWaveFacts DEF IInv, StartWave, Left
<1>2. runs' = runs \cup Begun /\ UNCHANGED <<calls, batch>>
  BY DEF StartWave, Begun, RunOf
<1>3. Idle' = Idle /\ \A s : Current(s)' <=> Current(s)
  BY <1>2 DEF Idle, Current
<1>4. batch \in 1..MaxBatches
  <2>1. batch # 0
    BY <1>1 DEF Placed
  <2> QED
    BY <1>1, <2>1, ToolConstants DEF TypeOK
<1>5. \A i \in NextWave : calls[i] \in Tools /\ i \in Nat \ {0} /\ i \notin started
  BY <1>1
<1>6. Begun \subseteq Runs
  <2>1. ASSUME NEW i \in NextWave PROVE RunOf(i) \in Runs
    BY <1>4, <1>5 DEF RunOf, Runs
  <2> QED
    BY <2>1 DEF Begun
<1>7. \A s \in Begun : /\ s.batch = batch /\ s.index \in NextWave /\ s.index \notin started
                       /\ s.tool = calls[s.index] /\ s.held /\ Current(s) /\ s.saw = 0
                       /\ s.at = IF executor = "grouped" THEN "running" ELSE "queued"
  BY <1>1, <1>5 DEF Begun, RunOf, Current
<1>8. /\ \A i \in NextWave : \E s \in Begun : s.index = i
      /\ \A s, q \in Begun : s.index = q.index => s = q
  <2>1. \A i \in NextWave : RunOf(i).index = i
    BY DEF RunOf
  <2> QED
    BY <2>1 DEF Begun
<1>9. Awaited = {}
  BY <1>1, NothingAwaited
<1>10. Awaited' = Begun
  BY <1>2, <1>3, <1>7, <1>9 DEF Awaited
<1> QED
  BY <1>1, <1>2, <1>3, <1>6, <1>7, <1>8, <1>9, <1>10


\* A new batch has no calls in progress.
LEMMA BeginKeeps ==
  ASSUME IInv, NEW cs \in Batches, BeginBatch(cs)
  PROVE  IInv' /\ ~Idle' /\ \A r \in runs' : ~Current(r)'
<1>1. /\ TypeOK /\ Placed /\ cs \in Seq(Tools) /\ cs # <<>> /\ runs' = runs
      /\ calls' = cs /\ batch' = batch + 1 /\ batch \in Nat /\ started' = {}
  BY ToolConstants DEF IInv, BeginBatch, TypeOK
<1>2. ~Idle' /\ \A r \in runs' : ~Current(r)'
  <2>1. \A r \in runs : r.batch \in Nat /\ r.batch <= batch
    BY <1>1 DEF TypeOK, Placed, Runs
  <2> QED
    BY <1>1, <2>1 DEF Idle, Current
<1>3. TypeOK'
  BY <1>1, ToolConstants DEF BeginBatch, TypeOK
<1>4. Placed'
  <2>1. \A r \in runs' : r.batch <= batch'
    BY <1>1 DEF TypeOK, Placed, Runs
  <2>2. \A i \in DOMAIN calls' : results'[i] = Nothing
    BY <1>1 DEF BeginBatch
  <2> QED
    BY <1>1, <1>2, <2>1, <2>2 DEF Placed
<1>5. Barrier'
  BY <1>2 DEF Barrier, Awaited
<1> QED
  BY <1>2, <1>3, <1>4, <1>5 DEF IInv

\* The next group is started.
LEMMA StartKeeps ==
  ASSUME IInv, StartWave
  PROVE  IInv'
<1>1. /\ runs' = runs \cup Begun /\ Begun \subseteq Runs /\ ~Idle /\ Idle' = Idle
      /\ \A s : Current(s)' <=> Current(s)
      /\ \A s \in Begun : /\ s.batch = batch /\ s.index \in NextWave /\ s.index \notin started
                          /\ s.tool = calls[s.index] /\ s.held /\ Current(s)
      /\ \A i \in NextWave : \E s \in Begun : s.index = i
      /\ \A s, q \in Begun : s.index = q.index => s = q
      /\ Awaited = {} /\ Awaited' = Begun
      /\ NextWave \subseteq DOMAIN calls \ started
  BY BegunFacts
<1>2. /\ TypeOK /\ Placed /\ started' = started \cup NextWave /\ WaveSettled /\ Left # {}
      /\ UNCHANGED <<executor, batch, calls, results, world, cache, base, timeOuts, slipped,
                     thrown>>
  BY DEF IInv, StartWave
<1>3. \A r \in runs : Current(r) <=> r.batch = batch
  BY <1>1 DEF Current
<1>4. ASSUME NEW i \in started'
      PROVE  results'[i] = Nothing <=>
               \E r \in runs' : r.batch = batch /\ r.index = i /\ r.held
  <2>1. CASE i \in started
    BY <1>1, <1>2, <2>1 DEF TypeOK
  <2>2. CASE i \in NextWave
    BY <1>1, <1>2, <2>2 DEF Placed
  <2> QED
    BY <1>2, <1>4, <2>1, <2>2
<1>5. TypeOK'
  BY <1>1, <1>2, <1>4 DEF TypeOK
<1>6. Placed'
  <2>1. \A r \in runs' : r.batch <= batch
    BY <1>1, <1>2 DEF Placed, TypeOK
  <2>2. \A r \in runs' : Current(r) => r.index \in started' /\ r.tool = calls[r.index]
    BY <1>1, <1>2 DEF Placed
  <2>3. \A r, q \in runs' : Current(r) /\ Current(q) /\ r.index = q.index => r = q
    BY <1>1, <1>2 DEF Placed
  <2> QED
    BY <1>1, <1>2, <2>1, <2>2, <2>3 DEF Placed
<1>7. Barrier'
  <2>1. /\ \A i \in NextWave :
             (IF executor = "grouped" THEN ~Parallel(calls[i]) ELSE calls[i] \in Mutating)
               => NextWave = {i}
    BY <1>2, NextWaveFacts
  <2>2. \A s \in Begun : Exclusive(s)' => NextWave = {s.index}
    BY <1>1, <1>2, <2>1 DEF Exclusive
  <2> QED
    BY <1>1, <2>2 DEF Barrier
<1> QED
  BY <1>5, <1>6, <1>7 DEF IInv

\* A run and what one of its steps makes of it are runs.
LEMMA RunsMove ==
  ASSUME IInv, NEW r \in runs
  PROVE  /\ r \in Runs
         /\ \A at \in {"queued", "running", "acted"} :
              [r EXCEPT !.at = at] \in Runs /\ Same([r EXCEPT !.at = at], r)
                /\ [r EXCEPT !.at = at].held = r.held /\ [r EXCEPT !.at = at].at = at
                /\ [r EXCEPT !.at = at].saw = r.saw
         /\ \A saw \in Nat : LET s == [r EXCEPT !.at = "acted", !.saw = saw]
                             IN  /\ s \in Runs /\ Same(s, r) /\ s.held = r.held
                                 /\ s.at = "acted" /\ s.saw = saw
         /\ GivenUp(r) \in Runs /\ Same(GivenUp(r), r) /\ ~GivenUp(r).held
         /\ r.saw \in Nat /\ r.held \in BOOLEAN /\ r.tool \in Tools
<1>1. r \in Runs
  BY DEF IInv, TypeOK
<1> QED
  BY <1>1 DEF Runs, Same, GivenUp


\* What a call that answers, or that throws, does to the batch.
LEMMA AnswerKeeps ==
  ASSUME IInv, NEW r \in runs, NEW new, RunMoves(r, new), \A s \in new : ~s.held,
         NEW result \in Results, Resolve(r, result) \/ Reject(r)
  PROVE  IInv'
<1>1. CASE ~Current(r)
  <2>1. results' = results /\ calls' = calls /\ started' = started
    BY <1>1 DEF Resolve, Reject
  <2> QED
    BY <1>1, <2>1, OneRun
<1>2. CASE Current(r) /\ Resolve(r, result)
  <2>1. /\ results' = [results EXCEPT ![r.index] = result]
        /\ calls' = calls /\ started' = started
    BY <1>2 DEF Resolve
  <2> QED
    BY <1>2, <2>1, OneRun
<1>3. CASE Current(r) /\ Reject(r)
  <2>1. calls' = <<>> /\ started' = {} /\ results' = <<>>
    BY <1>3 DEF Reject
  <2>2. /\ runs' \subseteq Runs /\ \A s \in runs' : \E q \in runs : s.batch = q.batch
        /\ executor' = executor /\ batch' = batch /\ base' = base
        /\ world' \in Nat /\ timeOuts' \in 0..MaxTimeOuts /\ slipped' \in BOOLEAN
        /\ thrown' \in Nat /\ cache' \in [Tools -> [saw: Nat] \cup {Nothing}]
    BY DEF RunMoves, Same, IInv, TypeOK
  <2> QED
    BY <2>1, <2>2, BatchEnds
<1> QED
  BY <1>1, <1>2, <1>3

\* What the cache holds after a call.
LEMMA CachedType ==
  ASSUME IInv, NEW r \in runs, NEW outcome
  PROVE  Cached(r, outcome) \in [Tools -> [saw: Nat] \cup {Nothing}]
<1>1. cache \in [Tools -> [saw: Nat] \cup {Nothing}] /\ r.saw \in Nat
  BY RunsMove DEF IInv, TypeOK
<1> QED
  BY <1>1 DEF Cached

\* Every step of a call.
LEMMA CallKeeps ==
  ASSUME IInv, NEW r \in runs, CallStep(r)
  PROVE  IInv'
<1>0. ThrownBy(r) \in Nat /\ thrown \in Nat
  <2>1. r.saw \in Nat
    BY RunsMove
  <2>2. thrown \in Nat
    BY DEF IInv, TypeOK
  <2> QED
    BY <2>1, <2>2 DEF ThrownBy
<1>1. /\ timeOuts \in 0..MaxTimeOuts /\ slipped \in BOOLEAN /\ world \in Nat
      /\ cache \in [Tools -> [saw: Nat] \cup {Nothing}]
      /\ \A t \in Tools : cache[t] # Nothing => cache[t].saw \in Nat
  BY DEF IInv, TypeOK
<1>2. CASE Admit(r)
  <2>1. ASSUME NEW result \in Results, Resolve(r, result), runs' = runs \ {r}
        PROVE  IInv'
    <3>1. RunMoves(r, {})
      BY <1>0, <1>1, <1>2, <2>1 DEF Admit, RunMoves
    <3> QED
      BY <2>1, <3>1, AnswerKeeps
  <2>2. CASE /\ runs' = (runs \ {r}) \cup {[r EXCEPT !.at = "running"]}
             /\ UNCHANGED <<calls, started, results>>
    <3> DEFINE s == [r EXCEPT !.at = "running"]
    <3>1. s \in Runs /\ Same(s, r) /\ s.held = r.held
      BY RunsMove
    <3>2. UNCHANGED <<executor, batch, base, world, timeOuts, slipped, thrown, cache>>
      BY <1>2 DEF Admit
    <3> HIDE DEF s
    <3>3. RunMoves(r, {s})
      BY <1>0, <1>1, <2>2, <3>1, <3>2 DEF s, RunMoves
    <3> QED
      BY <2>2, <3>1, <3>3, OneRun
  <2>3. [ok |-> FALSE, acted |-> FALSE, saw |-> 0] \in Results
    BY DEF Results
  <2>4. r.tool \in Tools /\ (cache[r.tool] # Nothing =>
          [ok |-> TRUE, acted |-> TRUE, saw |-> cache[r.tool].saw] \in Results)
    BY <1>1, RunsMove DEF Results
  <2> QED
    BY <1>2, <2>1, <2>2, <2>3, <2>4 DEF Admit
<1>3. CASE Unknown(r)
  <2>1. RunMoves(r, {}) /\ Reject(r)
    BY <1>0, <1>1, <1>3 DEF Unknown, LeavesOthers, RunMoves
  <2>2. [ok |-> FALSE, acted |-> FALSE, saw |-> 0] \in Results
    BY DEF Results
  <2> QED
    BY <2>1, <2>2, AnswerKeeps
<1>4. CASE Act(r)
  <2> DEFINE s == [r EXCEPT !.at = "acted", !.saw = world]
  <2>1. s \in Runs /\ Same(s, r) /\ s.held = r.held
    BY <1>1, RunsMove
  <2>2. /\ UNCHANGED <<executor, batch, calls, started, results, base, timeOuts, slipped,
                       cache>>
        /\ runs' = (runs \ {r}) \cup {s} /\ world' \in Nat /\ thrown' \in Nat
    BY <1>0, <1>1, <1>4 DEF Act
  <2> HIDE DEF s
  <2>3. RunMoves(r, {s})
    BY <1>1, <2>1, <2>2 DEF RunMoves
  <2> QED
    BY <2>1, <2>2, <2>3, OneRun
<1>5. CASE TimeOut(r)
  <2> DEFINE s == GivenUp(r)
             result == [ok |-> FALSE, acted |-> r.at = "acted", saw |-> r.saw]
  <2>1. s \in Runs /\ Same(s, r) /\ ~s.held
    BY RunsMove
  <2>2. result \in Results
    BY RunsMove DEF Results
  <2>3. /\ UNCHANGED <<executor, batch, base, world, cache>>
        /\ runs' = (runs \ {r}) \cup {s} /\ timeOuts' \in 0..MaxTimeOuts
        /\ slipped' \in BOOLEAN /\ thrown' \in Nat /\ (Resolve(r, result) \/ Reject(r))
    BY <1>0, <1>1, <1>5, ToolConstants DEF TimeOut
  <2> HIDE DEF s, result
  <2>4. RunMoves(r, {s})
    BY <1>1, <2>1, <2>3 DEF RunMoves
  <2> QED
    BY <2>1, <2>2, <2>3, <2>4, AnswerKeeps
<1>6. ASSUME NEW outcome, Settle(r, outcome)
      PROVE  IInv'
  <2> DEFINE result == [ok |-> outcome = "ok", acted |-> r.at = "acted", saw |-> r.saw]
  <2>1. /\ UNCHANGED <<executor, batch, base, world, timeOuts, slipped>>
        /\ runs' = (runs \ {r}) \cup {}
    BY <1>6 DEF Settle
  <2>2. CASE r.held
    <3>1. result \in Results
      BY RunsMove DEF Results
    <3>2. /\ Resolve(r, result) /\ thrown' \in Nat
          /\ cache' \in [Tools -> [saw: Nat] \cup {Nothing}]
      BY <1>0, <1>1, <1>6, <2>2, CachedType DEF Settle
    <3> HIDE DEF result
    <3>3. RunMoves(r, {})
      BY <1>1, <2>1, <3>2 DEF RunMoves
    <3> QED
      BY <3>1, <3>2, <3>3, AnswerKeeps
  <2>3. CASE ~r.held
    <3>1. UNCHANGED <<calls, started, results, cache, thrown>>
      BY <1>6, <2>3 DEF Settle
    <3>2. RunMoves(r, {})
      BY <1>0, <1>1, <2>1, <3>1 DEF RunMoves
    <3> QED
      BY <2>3, <3>1, <3>2, OneRun
  <2> QED
    BY <2>2, <2>3
<1>7. CASE Rethrow(r)
  <2>1. RunMoves(r, {}) /\ Reject(r)
    BY <1>0, <1>1, <1>7 DEF Rethrow, LeavesOthers, RunMoves
  <2>2. [ok |-> FALSE, acted |-> FALSE, saw |-> 0] \in Results
    BY DEF Results
  <2> QED
    BY <2>1, <2>2, AnswerKeeps
<1> QED
  BY <1>2, <1>3, <1>4, <1>5, <1>6, <1>7 DEF CallStep

\* Every step keeps types, places and the barrier.
LEMMA InvKept ==
  ASSUME IInv, [Next]_vars
  PROVE  IInv'
<1>1. CASE ReturnBatch
  <2>1. /\ runs' = runs /\ runs \subseteq Runs
        /\ executor' = executor /\ batch' = batch /\ base' = base
        /\ world' \in Nat /\ timeOuts' \in 0..MaxTimeOuts /\ slipped' \in BOOLEAN
        /\ thrown' \in Nat /\ cache' \in [Tools -> [saw: Nat] \cup {Nothing}]
        /\ calls' = <<>> /\ started' = {} /\ results' = <<>>
    BY <1>1 DEF IInv, TypeOK, ReturnBatch
  <2> QED
    BY <2>1, BatchEnds
<1>2. CASE UNCHANGED vars
  BY <1>2 DEF vars, IInv, TypeOK, Placed, Barrier, Awaited, Exclusive, Current, Idle
<1> QED
  BY <1>1, <1>2, BeginKeeps, StartKeeps, CallKeeps DEF Next

\* A new executor has run nothing.
LEMMA InitHolds == Init => IInv
<1>1. Init => TypeOK
  <2> SUFFICES ASSUME Init PROVE TypeOK
    OBVIOUS
  <2>1. results \in [DOMAIN calls -> Results \cup {Nothing}] /\ started \subseteq DOMAIN calls
    BY DEF Init
  <2>2. cache \in [Tools -> [saw: Nat] \cup {Nothing}]
    BY DEF Init
  <2>3. /\ batch \in 0..MaxBatches /\ timeOuts \in 0..MaxTimeOuts /\ slipped \in BOOLEAN
        /\ executor \in {"grouped", "batch"} /\ world \in Nat /\ base \in Nat
        /\ thrown \in Nat
        /\ calls \in Batches \cup {<<>>} /\ runs \subseteq Runs /\ started = {}
    <3>1. batch = 0 /\ timeOuts = 0 /\ 0 \in 0..MaxBatches /\ 0 \in 0..MaxTimeOuts
      BY ToolConstants DEF Init
    <3> QED
      BY <3>1 DEF Init
  <2> QED
    BY <2>1, <2>2, <2>3 DEF TypeOK
<1> QED
  BY <1>1 DEF Init, IInv, Placed, Barrier, Awaited, Idle

\* The types of calls, runs and results, and that every call of a started group
\* is either awaited or has its one result: no answer is lost or given twice,
\* whatever times out or goes on by itself.
THEOREM TypeCorrect == Spec => []TypeOK
<1>1. IInv => TypeOK
  BY DEF IInv
<1> QED
  BY <1>1, InitHolds, InvKept, PTL DEF Spec

\* While a tool that must run alone is awaited, no other tool of its batch is:
\* for any tools, batches and limits, on both executors.
THEOREM BarrierCorrect == Spec => []BarrierHolds
<1>1. IInv => BarrierHolds
  BY DEF IInv, Barrier, BarrierHolds, Awaited
<1> QED
  BY <1>1, InitHolds, InvKept, PTL DEF Spec


-----------------------------------------------------------------------------
\* As long as no outcome slips, every run is awaited

\* Once an outcome slipped, that is remembered.
LEMMA SlippedStays ==
  ASSUME [Next]_vars, slipped
  PROVE  slipped'
BY DEF Next, CallStep, BeginBatch, StartWave, ReturnBatch, Admit, Unknown, Act, Settle,
       TimeOut, Rethrow, vars

\* An awaited run, and what a step makes of it while the batch goes on.
LEMMA StillAwaited ==
  ASSUME calls' = calls, batch' = batch
  PROVE  /\ Idle' = Idle /\ \A s : Current(s)' <=> Current(s)
         /\ Awaited' = {s \in runs' : s.held /\ Current(s)}
BY DEF Awaited, Idle, Current

\* Every step leaves only awaited runs, unless an outcome slips.
LEMMA AttendedKept ==
  ASSUME IInv, Attended, [Next]_vars
  PROVE  Attended'
<1> SUFFICES ASSUME ~slipped' PROVE \A r \in runs' : r \in Awaited'
  BY DEF Attended
<1>1. ~slipped /\ \A r \in runs : r \in Awaited /\ r.held /\ Current(r)
  BY SlippedStays DEF Attended, Awaited
<1>2. ASSUME NEW cs \in Batches, BeginBatch(cs) PROVE \A r \in runs' : r \in Awaited'
  BY <1>1, <1>2 DEF BeginBatch, Current
<1>3. CASE StartWave
  <2>1. runs' = runs \cup Begun /\ Awaited = {} /\ Awaited' = Begun
    BY <1>3, BegunFacts
  <2> QED
    BY <1>1, <2>1
<1>4. CASE ReturnBatch
  <2>1. Awaited = {} /\ runs' = runs
    BY <1>4, NothingAwaited DEF ReturnBatch
  <2> QED
    BY <1>1, <2>1
<1>5. ASSUME NEW r \in runs, NEW s, runs' \subseteq (runs \ {r}) \cup {s},
             Same(s, r), s.held, calls' = calls, batch' = batch
      PROVE  \A q \in runs' : q \in Awaited'
  <2>1. \A q \in runs' : q \in runs \/ q = s
    BY <1>5
  <2>2. Current(s)
    BY <1>1, <1>5 DEF Current, Same
  <2> QED
    BY <1>1, <1>5, <2>1, <2>2, StillAwaited
<1>6. ASSUME NEW r \in runs, CallStep(r) PROVE \A q \in runs' : q \in Awaited'
  <2>1. /\ Same(r, r) /\ r.held /\ Current(r) /\ r.saw \in Nat /\ world \in Nat
    BY <1>1, RunsMove DEF Same, IInv, TypeOK
  <2>2. CASE Admit(r)
    <3> DEFINE s == [r EXCEPT !.at = "running"]
    <3>1. Same(s, r) /\ s.held
      BY <2>1, RunsMove
    <3>2. calls' = calls /\ batch' = batch
      BY <2>2 DEF Admit, Resolve
    <3>3. runs' = runs \ {r} \/ runs' = (runs \ {r}) \cup {s}
      BY <2>2 DEF Admit
    <3> HIDE DEF s
    <3> QED
      BY <1>5, <2>1, <3>1, <3>2, <3>3
  <2>3. CASE Unknown(r) \/ Rethrow(r)
    <3>1. ~LeavesOthers(r) /\ runs' = runs \ {r}
      BY <2>3 DEF Unknown, Rethrow
    <3>2. \A q \in runs : q = r
      BY <1>1, <3>1 DEF LeavesOthers, Current
    <3> QED
      BY <3>1, <3>2
  <2>4. CASE Act(r)
    <3> DEFINE s == [r EXCEPT !.at = "acted", !.saw = world]
    <3>1. Same(s, r) /\ s.held
      BY <2>1, RunsMove
    <3>2. calls' = calls /\ batch' = batch /\ runs' = (runs \ {r}) \cup {s}
      BY <2>4 DEF Act
    <3> HIDE DEF s
    <3> QED
      BY <1>5, <2>1, <3>1, <3>2
  <2>5. ASSUME NEW outcome, Settle(r, outcome) PROVE \A q \in runs' : q \in Awaited'
    <3>1. calls' = calls /\ batch' = batch /\ runs' = runs \ {r}
      BY <2>1, <2>5 DEF Settle, Resolve
    <3> QED
      BY <1>5, <2>1, <3>1
  <2>6. CASE TimeOut(r)
    BY <2>6 DEF TimeOut
  <2> QED
    BY <1>6, <2>2, <2>3, <2>4, <2>5, <2>6 DEF CallStep
<1>7. CASE UNCHANGED vars
  BY <1>1, <1>7 DEF vars, Awaited, Current, Idle
<1> QED
  BY <1>2, <1>3, <1>4, <1>6, <1>7 DEF Next


-----------------------------------------------------------------------------
\* The grouped executor

\* A step of a call of the grouped executor.
LEMMA FrontByCall ==
  ASSUME IInv, executor = "grouped", FromTheFront, NEW r \in runs, NEW s,
         runs' \subseteq (runs \ {r}) \cup {s}, Same(s, r), s.at # "queued",
         executor' = executor, batch' = batch, calls' = calls, started' = started, cache' = cache,
         \/ results' = results
         \/ \E result \in Results : results' = [results EXCEPT ![r.index] = result]
  PROVE  FromTheFront'
<1>1. \A q \in runs' : (q \in runs \/ q = s) /\ q.at # "queued"
  BY DEF FromTheFront
<1>2. \A i \in DOMAIN calls : results[i] # Nothing => results'[i] # Nothing
  <2>1. results \in [DOMAIN calls -> Results \cup {Nothing}] /\ Nothing \notin Results
    BY DEF IInv, TypeOK, Results, Nothing
  <2> QED
    BY <2>1
<1>3. \A i \in started : \A j \in 1..(i-1) : j \in DOMAIN calls
  BY CallsTyped DEF IInv
<1>4. \A q \in Awaited' : \E x \in Awaited : x.index = q.index /\ (Exclusive(q)' <=> Exclusive(x))
  <2>1. Current(s) <=> Current(r)
    BY DEF Current, Same
  <2>2. \A q \in Awaited' : q \in Awaited \/ (q = s /\ r \in Awaited)
    BY <1>1, <2>1, StillAwaited DEF Awaited, Same
  <2>3. /\ \A q \in Awaited : Exclusive(q)' <=> Exclusive(q)
        /\ (Exclusive(s)' <=> Exclusive(r)) /\ s.index = r.index
    BY DEF Exclusive, Same
  <2> QED
    BY <2>2, <2>3
<1>5. /\ \A i \in started' : 1..i \subseteq started'
      /\ cache' = [t \in Tools |-> Nothing]
      /\ \A i \in started' : ~Parallel(calls'[i]) => \A j \in 1..(i-1) : results'[j] # Nothing
  BY <1>2, <1>3 DEF FromTheFront
<1>6. \A q \in Awaited' : Exclusive(q)' => \A i \in started' : i <= q.index
  BY <1>4 DEF FromTheFront
<1> QED
  BY <1>1, <1>5, <1>6 DEF FromTheFront

\* A group that is started takes the calls from the front.
LEMMA FrontByStart ==
  ASSUME IInv, executor = "grouped", FromTheFront, StartWave
  PROVE  FromTheFront'
<1>1. /\ runs' = runs \cup Begun /\ Awaited' = Begun
      /\ \A s \in Begun : /\ s.index \in NextWave /\ s.index \notin started
                          /\ s.tool = calls[s.index] /\ s.at = "running"
      /\ NextWave \subseteq DOMAIN calls \ started
  BY BegunFacts
<1>2. /\ started' = started \cup NextWave /\ WaveSettled
      /\ UNCHANGED <<executor, calls, results, cache>>
  BY DEF StartWave
<1>3. /\ \A i \in NextWave : ~Parallel(calls[i]) => NextWave = {i}
      /\ \A i \in NextWave : \A j \in Left : j <= i => j \in NextWave
  BY NextWaveFacts DEF IInv, StartWave
<1>4. /\ DOMAIN calls = 1..Len(calls) /\ Len(calls) \in Nat
      /\ started \subseteq DOMAIN calls /\ Left = DOMAIN calls \ started
  BY CallsTyped DEF IInv, Left
<1>5. \A i \in NextWave : \A j \in 1..i : j \in started \/ (j \in NextWave /\ j <= i)
  BY <1>1, <1>3, <1>4
<1>6. \A i \in started' : 1..i \subseteq started'
  BY <1>2, <1>5 DEF FromTheFront
<1>7. ASSUME NEW i \in started', ~Parallel(calls[i]), NEW j \in 1..(i-1)
      PROVE  results[j] # Nothing
  <2>1. CASE i \in started
    BY <1>7, <2>1 DEF FromTheFront
  <2>2. CASE i \in NextWave
    <3>1. j \in 1..i /\ j # i
      BY <1>1, <1>4, <1>7, <2>2
    <3>2. j \in started
      BY <1>3, <1>5, <1>7, <2>2, <3>1
    <3> QED
      BY <1>2, <3>2 DEF WaveSettled
  <2> QED
    BY <1>2, <2>1, <2>2
<1>8. ASSUME NEW s \in Begun, Exclusive(s)', NEW i \in started'
      PROVE  i <= s.index
  <2>1. NextWave = {s.index} /\ s.index \in 1..Len(calls)
    BY <1>1, <1>2, <1>3, <1>4, <1>8 DEF Exclusive
  <2>2. CASE i \in started
    <3>1. i \in Nat /\ s.index \in Nat \ {0} /\ s.index \notin 1..i
      BY <1>1, <1>4, <2>1, <2>2 DEF FromTheFront
    <3> QED
      BY <3>1
  <2> QED
    BY <1>2, <1>4, <2>1, <2>2
<1>9. \A r \in runs' : r.at # "queued"
  BY <1>1 DEF FromTheFront
<1> QED
  BY <1>1, <1>2, <1>6, <1>7, <1>8, <1>9 DEF FromTheFront

\* Every step of the grouped executor.
LEMMA FrontKept ==
  ASSUME IInv, executor = "grouped", FromTheFront, [Next]_vars
  PROVE  FromTheFront' /\ executor' = executor
<1>1. executor' = executor
  BY DEF Next, CallStep, BeginBatch, StartWave, ReturnBatch, Admit, Unknown, Act, Settle,
         TimeOut, Rethrow, vars
<1>2. ASSUME NEW cs \in Batches, BeginBatch(cs) PROVE FromTheFront'
  <2>1. \A r \in runs' : ~Current(r)'
    BY <1>2, BeginKeeps
  <2> QED
    BY <1>2, <2>1 DEF BeginBatch, FromTheFront, Awaited
<1>3. CASE ReturnBatch
  BY <1>3 DEF ReturnBatch, FromTheFront, Awaited, Current, Idle
<1>4. ASSUME NEW r \in runs, CallStep(r) PROVE FromTheFront'
  <2>1. /\ r.at # "queued" /\ r.saw \in Nat /\ world \in Nat /\ Same(r, r)
        /\ \A ok, acted \in BOOLEAN : [ok |-> ok, acted |-> acted, saw |-> r.saw] \in Results
    BY RunsMove DEF FromTheFront, IInv, TypeOK, Same, Results
  <2>2. CASE Act(r)
    <3> DEFINE s == [r EXCEPT !.at = "acted", !.saw = world]
    <3>1. Same(s, r) /\ s.at # "queued"
      BY <2>1, RunsMove
    <3>2. runs' = (runs \ {r}) \cup {s} /\ UNCHANGED <<batch, calls, started, cache, results>>
      BY <2>2 DEF Act
    <3> HIDE DEF s
    <3> QED
      BY <1>1, <3>1, <3>2, FrontByCall
  <2>3. ASSUME NEW outcome, Settle(r, outcome) PROVE FromTheFront'
    <3>1. runs' = runs \ {r} /\ batch' = batch /\ calls' = calls /\ started' = started /\ cache' = cache
      BY <2>3 DEF Settle, Resolve
    <3>2. \/ results' = results
          \/ \E result \in Results : results' = [results EXCEPT ![r.index] = result]
      BY <2>1, <2>3 DEF Settle, Resolve
    <3> QED
      BY <1>1, <2>1, <3>1, <3>2, FrontByCall
  <2>4. CASE TimeOut(r)
    <3> DEFINE s == GivenUp(r)
    <3>1. Same(s, r) /\ s.at # "queued"
      BY <2>1, RunsMove DEF GivenUp, IInv, TypeOK, Runs
    <3>2. /\ runs' = (runs \ {r}) \cup {s}
          /\ batch' = batch /\ calls' = calls /\ started' = started /\ cache' = cache
      BY <2>4 DEF TimeOut, Resolve
    <3>3. \/ results' = results
          \/ \E result \in Results : results' = [results EXCEPT ![r.index] = result]
      BY <2>1, <2>4 DEF TimeOut, Resolve
    <3> HIDE DEF s
    <3> QED
      BY <1>1, <3>1, <3>2, <3>3, FrontByCall
  <2> QED
    BY <1>4, <2>1, <2>2, <2>3, <2>4 DEF CallStep, Admit, Unknown, Rethrow
<1>5. CASE UNCHANGED vars
  BY <1>5 DEF vars, FromTheFront, Awaited, Current, Idle, Exclusive
<1> QED
  BY <1>1, <1>2, <1>3, <1>4, <1>5, FrontByStart DEF Next


\* What counts as done of a call does not depend on other calls, and those that
\* have done something in front of a call are finitely many.
LEMMA EffectsFinite ==
  ASSUME TypeOK, NEW n
  PROVE  IsFiniteSet(Effects(n)) /\ Cardinality(Effects(n)) \in Nat
<1>1. Len(calls) \in Nat /\ Effects(n) \subseteq 1..Len(calls)
  BY CallsTyped DEF Effects
<1>2. IsFiniteSet(1..Len(calls))
  BY <1>1, FS_Interval
<1>3. IsFiniteSet(Effects(n))
  BY <1>1, <1>2, FS_Subset
<1> QED
  BY <1>3, FS_CardinalityType

\* A mutating tool never runs in parallel.
LEMMA MutatingIsExclusive ==
  ASSUME NEW tool, tool \in Mutating
  PROVE  ~Parallel(tool)
BY ToolConstants DEF Parallel

\* Awaited runs, with what has been done so far.
LEMMA AwaitedActs ==
  ASSUME IInv, NEW r \in Awaited
  PROVE  /\ r.index \in started /\ results[r.index] = Nothing /\ r.tool = calls[r.index]
         /\ Acted(r.index) <=> r.at = "acted"
<1>1. r \in runs /\ Current(r) /\ r.held /\ r.batch = batch
  BY DEF Awaited, Current
<1>2. r.index \in started /\ results[r.index] = Nothing /\ r.tool = calls[r.index]
  BY <1>1 DEF IInv, TypeOK, Placed
<1>3. \A q \in Awaited : q.index = r.index => q = r
  BY <1>1 DEF IInv, Placed, Awaited
<1> QED
  BY <1>1, <1>2, <1>3 DEF Acted

\* While a call that is awaited has not acted, none behind it has changed
\* anything.
LEMMA NoneBehind ==
  ASSUME IInv, executor = "grouped", FromTheFront, \A q \in runs : q \in Awaited,
         NEW r \in runs, r.at # "acted"
  PROVE  Effects(Len(calls) + 1) = Effects(r.index)
<1>1. r.index \in started /\ results[r.index] = Nothing /\ ~Acted(r.index)
  BY AwaitedActs
<1>2. \A i \in started : i \in Nat /\ i < Len(calls) + 1
  BY CallsTyped DEF IInv
<1>3. \A i \in started : calls[i] \in Mutating => \A j \in 1..(i-1) : results[j] # Nothing
  BY MutatingIsExclusive DEF FromTheFront
<1>4. r.index \in 1..Len(calls) /\ Len(calls) \in Nat
  BY <1>1, CallsTyped DEF IInv
<1>5. ASSUME NEW i \in started, calls[i] \in Mutating, Acted(i)
      PROVE  i < r.index
  <2>1. i # r.index
    BY <1>1, <1>5
  <2>2. ~(r.index \in 1..(i-1))
    BY <1>1, <1>3, <1>5
  <2> QED
    BY <1>2, <1>4, <2>1, <2>2
<1> QED
  BY <1>2, <1>5 DEF Effects

\* A step that adds nothing to what has been done.
LEMMA SequentialSame ==
  ASSUME IInv, Sequential, ~slipped, ~Idle, calls' = calls, base' = base, world' = world,
         \A n : Effects(n)' = Effects(n),
         \A q \in runs' : q.at = "acted" => q \in runs,
         \A i \in started' : results'[i] # Nothing /\ results'[i].acted =>
             \/ i \in started /\ results'[i] = results[i]
             \/ \E r \in runs : r.at = "acted" /\ r.index = i /\ r.saw = results'[i].saw
  PROVE  Sequential'
<1>1. /\ world = Before(Len(calls) + 1)
      /\ \A r \in runs : r.at = "acted" => r.saw = Before(r.index)
      /\ \A i \in started : results[i] # Nothing /\ results[i].acted => results[i].saw = Before(i)
  BY DEF Sequential
<1>2. \A n : base' + Cardinality(Effects(n)') = Before(n)
  BY DEF Before
<1>3. \A i \in started' : results'[i] # Nothing /\ results'[i].acted => results'[i].saw = Before(i)
  BY <1>1
<1> HIDE DEF Before
<1>4. \A n : Before(n)' = Before(n)
  BY <1>2 DEF Before
<1> QED
  BY <1>1, <1>3, <1>4 DEF Sequential

\* A tool acts: it reads what the calls in front have left, and leaves the world
\* to those behind.
LEMMA SequentialByAct ==
  ASSUME IInv, executor = "grouped", FromTheFront, Sequential, ~slipped,
         \A q \in runs : q \in Awaited, NEW r \in runs, Act(r), IInv'
  PROVE  Sequential'
<1> DEFINE s == [r EXCEPT !.at = "acted", !.saw = world]
           last == Len(calls) + 1
<1>1. /\ runs' = (runs \ {r}) \cup {s} /\ r.at = "running"
      /\ UNCHANGED <<executor, batch, calls, started, results, base>>
      /\ world' = IF r.tool \in Mutating THEN world + 1 ELSE world
  BY DEF Act
<1>2. /\ s.index = r.index /\ s.at = "acted" /\ s.saw = world
      /\ s.held = r.held /\ s.batch = r.batch
  <2>1. r \in Runs
    BY RunsMove
  <2> QED
    BY <2>1 DEF Runs
<1> HIDE DEF s
<1>3. /\ r.index \in started /\ r.tool = calls[r.index] /\ results[r.index] = Nothing
      /\ ~Acted(r.index) /\ ~Idle
  BY <1>1, AwaitedActs DEF Awaited, Current
<1>4. /\ world = Before(last)
      /\ \A q \in runs : q.at = "acted" => q.saw = Before(q.index)
      /\ \A i \in started : results[i] # Nothing /\ results[i].acted => results[i].saw = Before(i)
  BY <1>3 DEF Sequential
<1>5. \A i : Acted(i)' <=> Acted(i) \/ i = r.index
  <2>1. Awaited = runs
    BY DEF Awaited
  <2>2. r.held /\ Current(r) /\ Current(s)
    BY <1>2 DEF Awaited, Current
  <2>3. Awaited' = (runs \ {r}) \cup {s}
    BY <1>1, <1>2, <2>1, <2>2, StillAwaited DEF Awaited
  <2> QED
    BY <1>1, <1>2, <1>3, <2>1, <2>3 DEF Acted
<1>6. \A i \in started : i \in Nat /\ i < last /\ last \in Nat
  BY CallsTyped DEF IInv
<1>7. Effects(last) = Effects(r.index)
  BY <1>1, NoneBehind
<1>8. Effects(r.index)' = Effects(r.index)
  BY <1>1, <1>5, <1>6, <1>3 DEF Effects
<1>9. s.saw = Before(r.index)'
  BY <1>1, <1>2, <1>4, <1>7, <1>8 DEF Before
<1>10. CASE r.tool \notin Mutating
  <2>1. \A n : Effects(n)' = Effects(n)
    BY <1>1, <1>3, <1>5, <1>10 DEF Effects
  <2>2. \A n : base' + Cardinality(Effects(n)') = Before(n)
    BY <1>1, <2>1 DEF Before
  <2>3. \A n : Before(n)' = Before(n)
    BY <2>2 DEF Before
  <2>4. \A q \in runs' : q.at = "acted" => q.saw = Before(q.index)'
    BY <1>1, <1>2, <1>4, <1>9, <2>3
  <2> HIDE DEF last
  <2> QED
    BY <1>1, <1>4, <1>10, <2>3, <2>4 DEF Sequential, last
<1>11. CASE r.tool \in Mutating
  <2>1. Exclusive(r)
    BY <1>11, MutatingIsExclusive DEF Exclusive
  <2>2. runs = {r} /\ \A i \in started : i <= r.index
    BY <2>1 DEF IInv, Barrier, FromTheFront
  <2>3. \A i \in started : Effects(i)' = Effects(i)
    BY <1>1, <1>3, <1>5, <1>6, <2>2 DEF Effects
  <2>4. \A i \in started : base' + Cardinality(Effects(i)') = Before(i)
    BY <1>1, <2>3 DEF Before
  <2>5. \A i \in started : Before(i)' = Before(i)
    BY <2>4 DEF Before
  <2>6. Effects(last)' = Effects(last) \cup {r.index} /\ r.index \notin Effects(last)
    BY <1>1, <1>3, <1>5, <1>6, <1>11 DEF Effects
  <2>7. Cardinality(Effects(last)') = Cardinality(Effects(last)) + 1
    BY <2>6, EffectsFinite, FS_AddElement DEF IInv
  <2>8. base \in Nat /\ Cardinality(Effects(last)) \in Nat
    BY EffectsFinite DEF IInv, TypeOK
  <2> HIDE DEF last
  <2>9. world' = base' + Cardinality(Effects(last)')
    BY <1>1, <1>4, <1>11, <2>7, <2>8 DEF Before
  <2>10. world' = Before(Len(calls) + 1)'
    BY <1>1, <2>9 DEF last, Before
  <2>11. \A q \in runs' : q.at = "acted" => q.saw = Before(q.index)'
    BY <1>1, <1>2, <1>9, <2>2
  <2> QED
    BY <1>1, <1>4, <2>5, <2>10, <2>11 DEF Sequential
<1> QED
  BY <1>10, <1>11


\* Every step of the grouped executor keeps its calls in sequence.
LEMMA SequentialKept ==
  ASSUME IInv, Attended, executor = "grouped", FromTheFront, Sequential, [Next]_vars
  PROVE  Sequential'
<1> SUFFICES ASSUME ~slipped', ~Idle' PROVE Sequential'
  BY DEF Sequential
<1>1. ~slipped /\ \A r \in runs : r \in Awaited
  BY SlippedStays DEF Attended
<1>2. ASSUME NEW cs \in Batches, BeginBatch(cs) PROVE Sequential'
  <2>1. runs' = {} /\ started' = {} /\ world' = base' /\ world \in Nat /\ base' = world
    BY <1>1, <1>2 DEF BeginBatch, Awaited, Current, IInv, TypeOK
  <2>2. \A n : base' + Cardinality(Effects(n)') = base'
    <3>1. \A n : Effects(n)' = {}
      BY <2>1 DEF Effects
    <3> QED
      BY <2>1, <3>1, FS_EmptySet
  <2>3. \A n : Before(n)' = base'
    BY <2>2 DEF Before
  <2>4. world' = Before(Len(calls) + 1)'
    BY <2>1, <2>2 DEF Before
  <2> QED
    BY <2>1, <2>4 DEF Sequential
<1>3. CASE StartWave
  <2>1. /\ runs' = runs \cup Begun /\ ~Idle /\ Awaited = {} /\ Awaited' = Begun
        /\ \A s \in Begun : s.at = "running" /\ s.index \notin started
        /\ NextWave \subseteq DOMAIN calls \ started
    BY <1>3, BegunFacts
  <2>2. /\ started' = started \cup NextWave
        /\ UNCHANGED <<calls, results, world, base>>
    BY <1>3 DEF StartWave
  <2>3. runs = {}
    BY <1>1, <2>1
  <2>4. \A i \in NextWave : results[i] = Nothing
    BY <2>1 DEF IInv, Placed
  <2>5. \A i : Acted(i)' <=> Acted(i)
    BY <2>1, <2>2 DEF Acted
  <2>6. \A i \in NextWave : ~Acted(i)
    BY <2>1, <2>4 DEF Acted
  <2>7. \A n : Effects(n)' = Effects(n)
    BY <2>2, <2>5, <2>6 DEF Effects
  <2>8. \A q \in runs' : q.at # "acted"
    BY <2>1, <2>3
  <2>9. \A i \in started' : results'[i] # Nothing => i \in started /\ results'[i] = results[i]
    BY <2>2, <2>4
  <2> QED
    BY <1>1, <2>1, <2>2, <2>7, <2>8, <2>9, SequentialSame
<1>4. CASE ReturnBatch
  BY <1>4 DEF ReturnBatch, Idle
<1>5. ASSUME NEW r \in runs, CallStep(r) PROVE Sequential'
  <2>1. r.at # "queued" /\ r \in Awaited /\ r.held /\ Current(r) /\ ~Idle
    BY <1>1 DEF FromTheFront, Awaited, Current
  <2>2. CASE Act(r)
    BY <1>1, <2>2, SequentialByAct, InvKept
  <2>3. CASE TimeOut(r)
    BY <2>3 DEF TimeOut
  <2>4. ASSUME NEW outcome, Settle(r, outcome) PROVE Sequential'
    <3> DEFINE result == [ok |-> outcome = "ok", acted |-> r.at = "acted", saw |-> r.saw]
    <3>1. /\ runs' = runs \ {r} /\ results' = [results EXCEPT ![r.index] = result]
          /\ UNCHANGED <<batch, calls, started, world, base>>
      BY <2>1, <2>4 DEF Settle, Resolve
    <3>2. result.acted = (r.at = "acted") /\ result.saw = r.saw /\ result # Nothing
      BY DEF Nothing
    <3> HIDE DEF result
    <3>3. /\ r.index \in started /\ results[r.index] = Nothing /\ (Acted(r.index) <=> r.at = "acted")
          /\ r.index \in DOMAIN results
      <4>1. r.index \in started /\ results[r.index] = Nothing /\ (Acted(r.index) <=> r.at = "acted")
        BY <2>1, AwaitedActs
      <4> QED
        BY <4>1 DEF IInv, TypeOK
    <3>4. Awaited' = Awaited \ {r}
      BY <3>1, StillAwaited DEF Awaited
    <3>5. \A q \in Awaited : q.index = r.index => q = r
      BY <2>1 DEF Awaited, IInv, Placed
    <3>6. results \in [DOMAIN calls -> Results \cup {Nothing}] /\ started \subseteq DOMAIN calls
      BY DEF IInv, TypeOK
    <3>7. \A i \in started : Acted(i)' <=> Acted(i)
      <4>1. results'[r.index] = result /\ \A i \in started \ {r.index} : results'[i] = results[i]
        BY <3>1, <3>3, <3>6
      <4>2. Acted(r.index)' <=> r.at = "acted"
        BY <3>2, <4>1 DEF Acted
      <4>3. \A i \in started \ {r.index} : Acted(i)' <=> Acted(i)
        BY <3>4, <4>1 DEF Acted
      <4> QED
        BY <3>3, <4>2, <4>3
    <3>8. \A n : Effects(n)' = Effects(n)
      BY <3>1, <3>7 DEF Effects
    <3>9. \A i \in started' : results'[i] # Nothing /\ results'[i].acted =>
             \/ i \in started /\ results'[i] = results[i]
             \/ \E q \in runs : q.at = "acted" /\ q.index = i /\ q.saw = results'[i].saw
      BY <3>1, <3>2, <3>3, <3>6
    <3>10. \A q \in runs' : q \in runs
      BY <3>1
    <3> QED
      BY <1>1, <2>1, <3>1, <3>8, <3>9, <3>10, SequentialSame
  <2> QED
    BY <1>5, <2>1, <2>2, <2>3, <2>4 DEF CallStep, Admit, Unknown, Rethrow
<1>6. CASE UNCHANGED vars
  <2>1. UNCHANGED <<runs, results, started, calls, world, base, batch>> /\ ~Idle
    BY <1>6 DEF vars, Idle
  <2>2. \A n : Effects(n)' = Effects(n)
    BY <2>1 DEF Effects, Acted, Awaited, Current, Idle
  <2> QED
    BY <1>1, <2>1, <2>2, SequentialSame
<1> QED
  BY <1>2, <1>3, <1>4, <1>5, <1>6 DEF Next

\* What a call of the grouped executor reads is what the calls before it in the
\* batch have left, as if they had been run one by one: for any batch and any
\* limit, as long as every tool's outcome was waited for.
THEOREM ReadsCorrect == Spec => []ReadsInOrder
<1> DEFINE Inv == IInv /\ Attended /\ InOrder
<1>1. Init => Inv
  <2> SUFFICES ASSUME Init PROVE Inv
    OBVIOUS
  <2>1. IInv /\ Idle
    BY InitHolds DEF Init, Idle
  <2> QED
    BY <2>1 DEF Init, Attended, InOrder, FromTheFront, Sequential, Awaited
<1>2. Inv /\ [Next]_vars => Inv'
  <2> SUFFICES ASSUME Inv, [Next]_vars PROVE Inv'
    OBVIOUS
  <2>1. IInv' /\ Attended'
    BY InvKept, AttendedKept
  <2>2. executor' = executor
    BY DEF Next, CallStep, BeginBatch, StartWave, ReturnBatch, Admit, Unknown, Act, Settle,
           TimeOut, Rethrow, vars
  <2>3. executor = "grouped" => FromTheFront' /\ Sequential'
    BY FrontKept, SequentialKept DEF InOrder
  <2> QED
    BY <2>1, <2>2, <2>3 DEF InOrder
<1>3. Inv => ReadsInOrder
  <2> SUFFICES ASSUME Inv, executor = "grouped", ~slipped,
                      NEW i \in DOMAIN results, results[i] # Nothing, results[i].acted
               PROVE  results[i].saw = base + Cardinality({j \in 1..(i-1) :
                          calls[j] \in Mutating /\ results[j] # Nothing /\ results[j].acted})
    BY DEF ReadsInOrder
  <2>1. i \in started /\ i \in 1..Len(calls) /\ Len(calls) \in Nat /\ ~Idle
    BY CallsTyped DEF IInv, TypeOK, Placed, Idle
  <2>2. FromTheFront /\ results[i].saw = Before(i) /\ \A r \in runs : r \in Awaited
    BY <2>1 DEF InOrder, Sequential, Attended
  <2>3. \A r \in Awaited : r.tool \in Mutating => i <= r.index
    BY <2>1, <2>2, MutatingIsExclusive DEF FromTheFront, Exclusive
  <2>4. \A j \in started : calls[j] \in Mutating /\ results[j] = Nothing /\ Acted(j) => i <= j
    <3> SUFFICES ASSUME NEW j \in started, calls[j] \in Mutating, results[j] = Nothing, Acted(j)
                 PROVE  i <= j
      OBVIOUS
    <3>1. PICK r \in Awaited : r.index = j
      BY DEF Acted
    <3>2. r.tool = calls[j]
      BY <3>1, AwaitedActs
    <3> QED
      BY <2>3, <3>1, <3>2
  <2>5. 1..(i-1) \subseteq started /\ \A j \in started : j \in Nat \ {0}
    <3>1. 1..i \subseteq started /\ \A j \in started : j \in 1..Len(calls)
      BY <2>1, <2>2, CallsTyped DEF FromTheFront, IInv
    <3> QED
      BY <2>1, <3>1
  <2>6. Effects(i) = {j \in 1..(i-1) :
                        calls[j] \in Mutating /\ results[j] # Nothing /\ results[j].acted}
    <3>1. \A j : j \in Effects(i) <=>
             /\ j \in 1..(i-1) /\ calls[j] \in Mutating
             /\ results[j] # Nothing /\ results[j].acted
      <4>1. \A j \in started : j < i <=> j \in 1..(i-1)
        BY <2>1, <2>5
      <4>2. \A j \in started : j < i /\ calls[j] \in Mutating /\ Acted(j) => results[j] # Nothing
        BY <2>1, <2>4, <2>5
      <4> QED
        BY <2>5, <4>1, <4>2 DEF Effects, Acted
    <3> QED
      BY <3>1
  <2> QED
    BY <2>2, <2>6 DEF Before
<1> QED
  BY <1>1, <1>2, <1>3, PTL DEF Spec


-----------------------------------------------------------------------------
\* The result cache of the batch executor

\* In the batch executor a mutating tool runs alone.
LEMMA MutatingAlone ==
  ASSUME IInv, executor = "batch", \A q \in runs : q \in Awaited,
         NEW r \in runs, r.tool \in Mutating
  PROVE  runs = {r}
BY DEF IInv, Barrier, Exclusive

\* Every step of the batch executor, as long as no outcome slips.
LEMMA FreshKept ==
  ASSUME IInv, Attended, ReadsAreFresh, [Next]_vars
  PROVE  ReadsAreFresh'
<1> DEFINE SawLast(r) == r.at = "acted" => IF r.tool \in Mutating THEN world = r.saw + 1
                                                                 ELSE r.saw = world
           Excused == thrown = world \/ \E r \in runs : r.tool \in Mutating /\ r.at = "acted"
           CacheFresh == /\ \A r \in runs : SawLast(r)
                         /\ \A t \in Tools : cache[t] # Nothing => cache[t].saw = world \/ Excused
<1> SUFFICES ASSUME executor' = "batch", ~slipped'
             PROVE  CacheFresh'
  BY DEF ReadsAreFresh, CacheIsFresh
<1>1. executor = "batch"
  BY DEF Next, CallStep, BeginBatch, StartWave, ReturnBatch, Admit, Unknown, Act, Settle,
         TimeOut, Rethrow, vars
<1>2. ~slipped /\ \A r \in runs : r \in Awaited
  BY SlippedStays DEF Attended
<1>3. CacheFresh
  BY <1>1, <1>2 DEF ReadsAreFresh, CacheIsFresh
<1>4. CASE UNCHANGED <<runs, world, cache, thrown>>
  BY <1>3, <1>4
<1>5. CASE StartWave
  <2>1. runs' = runs \cup Begun /\ \A s \in Begun : s.at # "acted"
    BY <1>1, <1>5, BegunFacts
  <2>2. UNCHANGED <<world, cache, thrown>>
    BY <1>5 DEF StartWave
  <2> QED
    BY <1>3, <2>1, <2>2
<1>6. ASSUME NEW r \in runs, NEW s, runs' \subseteq (runs \ {r}) \cup {s}, r.at # "acted",
             s.at # "acted", UNCHANGED <<world, cache, thrown>>,
             \A q \in runs : q = r \/ q \in runs'
      PROVE  CacheFresh'
  BY <1>3, <1>6
<1>7. ASSUME NEW r \in runs, r.tool \in Mutating, r.at = "acted", runs' = runs \ {r},
             UNCHANGED <<world, cache>>, thrown' = ThrownBy(r)
      PROVE  CacheFresh'
  <2>1. runs = {r}
    BY <1>1, <1>2, <1>7, MutatingAlone
  <2>2. thrown' = world'
    BY <1>1, <1>3, <1>7 DEF ThrownBy
  <2> QED
    BY <1>7, <2>1, <2>2
<1>8. ASSUME NEW r \in runs, r.tool \notin Mutating \/ r.at # "acted", runs' = runs \ {r},
             UNCHANGED <<world, thrown>>,
             \A t \in Tools : cache'[t] = cache[t] \/ cache'[t].saw = world
      PROVE  CacheFresh'
  <2>1. Excused => Excused'
    BY <1>8
  <2>2. \A q \in runs' : SawLast(q)'
    BY <1>3, <1>8
  <2> HIDE DEF Excused
  <2> QED
    BY <1>3, <1>8, <2>1, <2>2
<1>9. ASSUME NEW r \in runs, CallStep(r)
      PROVE  CacheFresh'
  <2>1. /\ r \in Runs /\ r.held /\ Current(r) /\ r.tool \in Tools /\ r.saw \in Nat
        /\ cache \in [Tools -> [saw: Nat] \cup {Nothing}] /\ world \in Nat
    BY <1>2, RunsMove DEF Awaited, IInv, TypeOK
  <2>2. CASE Admit(r)
    <3> DEFINE s == [r EXCEPT !.at = "running"]
    <3>1. s.at = "running"
      BY <2>1 DEF Runs
    <3>2. /\ runs' = runs \ {r} \/ runs' = (runs \ {r}) \cup {s}
          /\ r.at = "queued" /\ UNCHANGED <<world, cache, thrown>>
      BY <2>2 DEF Admit
    <3> HIDE DEF s, CacheFresh
    <3> QED
      BY <1>6, <3>1, <3>2
  <2>3. CASE Unknown(r)
    <3>1. /\ runs' = runs \ {r} /\ r.at = "queued" /\ UNCHANGED <<world, cache, thrown>>
      BY <2>3 DEF Unknown
    <3> HIDE DEF CacheFresh
    <3> QED
      BY <1>6, <3>1
  <2>4. CASE Act(r)
    <3> DEFINE s == [r EXCEPT !.at = "acted", !.saw = world]
    <3>1. s.at = "acted" /\ s.saw = world /\ s.tool = r.tool
      BY <2>1 DEF Runs
    <3>2. /\ runs' = (runs \ {r}) \cup {s} /\ cache' = cache /\ thrown' = thrown
          /\ world' = IF r.tool \in Mutating THEN world + 1 ELSE world
          /\ r.at = "running"
      BY <2>4 DEF Act
    <3> HIDE DEF s
    <3>3. CASE r.tool \in Mutating
      <4>1. runs = {r}
        BY <1>1, <1>2, <3>3, MutatingAlone
      <4> QED
        BY <3>1, <3>2, <3>3, <4>1
    <3>4. CASE r.tool \notin Mutating
      <4>1. \A q \in runs' : SawLast(q)'
        BY <1>3, <3>1, <3>2, <3>4
      <4>2. Excused => Excused'
        BY <3>2, <3>4
      <4> QED
        BY <1>3, <3>2, <3>4, <4>1, <4>2
    <3> QED
      BY <3>3, <3>4
  <2>5. CASE TimeOut(r)
    BY <2>5 DEF TimeOut
  <2>6. CASE Rethrow(r)
    <3>1. runs' = runs \ {r} /\ UNCHANGED <<world, cache>> /\ thrown' = ThrownBy(r)
      BY <2>6 DEF Rethrow
    <3>2. CASE r.at = "acted" /\ r.tool \in Mutating
      <4> HIDE DEF CacheFresh
      <4> QED
        BY <1>7, <3>1, <3>2
    <3>3. CASE ~(r.at = "acted" /\ r.tool \in Mutating)
      <4>1. thrown' = thrown
        BY <3>1, <3>3 DEF ThrownBy
      <4> HIDE DEF CacheFresh
      <4> QED
        BY <1>8, <3>1, <3>3, <4>1
    <3> QED
      BY <3>2, <3>3
  <2>7. ASSUME NEW outcome, Settle(r, outcome)
        PROVE  CacheFresh'
    <3>1. /\ runs' = runs \ {r} /\ world' = world /\ cache' = Cached(r, outcome)
          /\ thrown' = IF outcome = "throws" THEN ThrownBy(r) ELSE thrown
          /\ outcome = "ok" => r.at = "acted"
          /\ r.at \in {"running", "acted"}
      BY <1>1, <2>1, <2>7 DEF Settle
    <3>2. CASE r.tool \in Mutating /\ outcome # "throws"
      <4>1. runs = {r} /\ cache' = [t \in Tools |-> Nothing]
        BY <1>1, <1>2, <3>1, <3>2, MutatingAlone DEF Cached, Cacheable
      <4> QED
        BY <3>1, <4>1
    <3>3. CASE r.tool \in Mutating /\ outcome = "throws" /\ r.at = "acted"
      <4>1. cache' = cache
        BY <3>1, <3>3 DEF Cached, Cacheable
      <4> HIDE DEF Fresh
      <4> QED
        BY <1>7, <3>1, <3>3, <4>1
    <3>4. CASE r.tool \in Mutating /\ outcome = "throws" /\ r.at # "acted"
      <4>1. cache' = cache /\ thrown' = thrown
        BY <3>1, <3>4 DEF Cached, Cacheable, ThrownBy
      <4> HIDE DEF Fresh
      <4> QED
        BY <1>8, <3>1, <3>4, <4>1
    <3>5. CASE r.tool \notin Mutating
      <4>1. \/ cache' = cache
            \/ /\ r.at = "acted" /\ r.saw = world
               /\ cache' = [cache EXCEPT ![r.tool] = [saw |-> r.saw]]
        BY <1>3, <3>1, <3>5 DEF Cached, Cacheable
      <4>2. \A t \in Tools : \/ cache'[t] = cache[t]
                             \/ cache'[t].saw = world
        BY <2>1, <4>1
      <4>3. thrown' = thrown
        BY <3>1, <3>5 DEF ThrownBy
      <4> HIDE DEF Fresh
      <4> QED
        BY <1>8, <3>1, <3>5, <4>2, <4>3
    <3> QED
      BY <3>2, <3>3, <3>4, <3>5
  <2> HIDE DEF Fresh
  <2> QED
    BY <1>9, <2>2, <2>3, <2>4, <2>5, <2>6, <2>7 DEF CallStep
<1> HIDE DEF Fresh
<1> QED
  BY <1>4, <1>5, <1>9 DEF Next, BeginBatch, ReturnBatch, vars

\* As long as every tool's outcome was waited for, a cached result is what the
\* tool would read now, also after tools that changed something and then
\* reported a failure, unless the last tool that changed anything threw: for
\* any tools and batches.
THEOREM CacheCorrect == Spec => []CacheIsFresh
<1> DEFINE Inv == IInv /\ Attended /\ InOrder /\ ReadsAreFresh
<1>1. Init => Inv
  <2> SUFFICES ASSUME Init PROVE Inv
    OBVIOUS
  <2>1. IInv /\ Idle
    BY InitHolds DEF Init, Idle
  <2> QED
    BY <2>1 DEF Init, Attended, InOrder, FromTheFront, Sequential, Awaited, ReadsAreFresh,
                CacheIsFresh
<1>2. Inv /\ [Next]_vars => Inv'
  <2> SUFFICES ASSUME Inv, [Next]_vars PROVE Inv'
    OBVIOUS
  <2>1. IInv' /\ Attended' /\ ReadsAreFresh'
    BY InvKept, AttendedKept, FreshKept
  <2>2. executor' = executor
    BY DEF Next, CallStep, BeginBatch, StartWave, ReturnBatch, Admit, Unknown, Act, Settle,
           TimeOut, Rethrow, vars
  <2>3. executor = "grouped" => FromTheFront' /\ Sequential'
    BY FrontKept, SequentialKept DEF InOrder
  <2> QED
    BY <2>1, <2>2, <2>3 DEF InOrder
<1>3. Inv => CacheIsFresh
  BY DEF IInv, TypeOK, InOrder, FromTheFront, ReadsAreFresh, CacheIsFresh
<1> QED
  BY <1>1, <1>2, <1>3, PTL DEF Spec
-----------------------------------------------------------------------------
\* The registries.

\* The least of some numbers.
LEMMA LeastExists ==
  ASSUME NEW S, S \subseteq Nat, S # {}
  PROVE  /\ (CHOOSE i \in S : \A j \in S : i <= j) \in S
         /\ \A j \in S : (CHOOSE i \in S : \A k \in S : i <= k) <= j
<1>1. PICK x \in S : \A y \in S : x <= y
  BY LeastOf
<1> QED
  BY <1>1

ShelfKinds == {"user", "workspace", "package"}
SkillsInv ==
  /\ skills \in [SkillNames -> Registrants \cup {"none"} \cup ShelfKinds]
  /\ mounted \subseteq SkillNames
  /\ skillDisposers \subseteq [name : SkillNames, owner : Registrants]
  /\ discovery \in [at : 0..4, shelf : [ShelfKinds -> SUBSET SkillNames],
                    found : Seq([source : ShelfKinds, names : SUBSET SkillNames]),
                    changed : SUBSET SkillNames]
  /\ discovery.at < 4 =>
       /\ Len(discovery.found) = discovery.at
       /\ \A k \in 1..discovery.at :
            /\ discovery.found[k].source = Sources[k]
            /\ discovery.found[k].names = discovery.shelf[Sources[k]]
  /\ SkillsSound

LEMMA SourcesAre ==
  /\ Sources[1] = "user" /\ Sources[2] = "workspace" /\ Sources[3] = "package"
  /\ Len(Sources) = 3 /\ \A k \in 1..3 : Sources[k] \in ShelfKinds
BY DEF Sources, ShelfKinds

LEMMA SkillsStart == SkillsInit => SkillsInv
<1> SUFFICES ASSUME SkillsInit PROVE SkillsInv
  OBVIOUS
<1>1. PICK shelf \in Shelves : discovery = [at |-> 0, shelf |-> shelf, found |-> <<>>, changed |-> {}]
  BY DEF SkillsInit
<1>2. shelf \in [ShelfKinds -> SUBSET SkillNames]
  BY RegistryConstants DEF ShelfKinds
<1>3. /\ skills = [n \in SkillNames |-> "none"] /\ mounted = {} /\ skillDisposers = {}
  BY DEF SkillsInit
<1>4. /\ discovery \in [at : 0..4, shelf : [ShelfKinds -> SUBSET SkillNames],
                    found : Seq([source : ShelfKinds, names : SUBSET SkillNames]),
                    changed : SUBSET SkillNames]
      /\ discovery.at = 0 /\ Len(discovery.found) = 0
  BY <1>1, <1>2
<1>5. SkillsSound
  BY <1>3, <1>4, SourcesAre DEF SkillsSound
<1> QED
  BY <1>3, <1>4, <1>5 DEF SkillsInv

\* What changes a skill is noted, and takes it out of those mounted when it
\* takes it out of the registry.
LEMMA SkillChanges ==
  ASSUME SkillsInv, NEW n \in SkillNames, NEW from \in Registrants \cup {"none"},
         SetSkill(n, from), skillDisposers' \subseteq [name : SkillNames, owner : Registrants],
         (mounted' = mounted /\ from # "none") \/ mounted' = mounted \ {n}
  PROVE  SkillsInv'
<1>1. /\ skills' = [skills EXCEPT ![n] = from]
      /\ discovery' = [discovery EXCEPT !.changed = @ \cup {n}]
  BY DEF SetSkill
<1>2. /\ skills' \in [SkillNames -> Registrants \cup {"none"} \cup ShelfKinds]
      /\ skills'[n] = from /\ \A m \in SkillNames : m # n => skills'[m] = skills[m]
  BY <1>1 DEF SkillsInv
<1>3. /\ discovery' \in [at : 0..4, shelf : [ShelfKinds -> SUBSET SkillNames],
                    found : Seq([source : ShelfKinds, names : SUBSET SkillNames]),
                    changed : SUBSET SkillNames]
      /\ discovery'.at = discovery.at /\ discovery'.shelf = discovery.shelf
      /\ discovery'.found = discovery.found /\ discovery'.changed = discovery.changed \cup {n}
  BY <1>1 DEF SkillsInv
<1>4. \A m \in mounted' : skills'[m] # "none"
  BY <1>2 DEF SkillsInv, SkillsSound
<1>5. SkillsSound'
  BY <1>2, <1>3, <1>4 DEF SkillsInv, SkillsSound
<1> QED
  BY <1>2, <1>3, <1>5 DEF SkillsInv

\* The strongest of the sources is the last one to have a skill.
LEMMA StrongestIs ==
  ASSUME NEW found, NEW n, NEW other, DOMAIN found = 1..3
  PROVE  Strongest(found, n, other) =
           IF n \in found[3].names THEN found[3].source
           ELSE IF n \in found[2].names THEN found[2].source
           ELSE IF n \in found[1].names THEN found[1].source ELSE other
<1> DEFINE having == {k \in DOMAIN found : n \in found[k].names}
           best == CHOOSE k \in having : \A j \in having : j <= k
<1>1. having \subseteq 1..3 /\ \A k \in 1..3 : k \in having <=> n \in found[k].names
  OBVIOUS
<1>2. ASSUME NEW k \in having, \A j \in having : j <= k
      PROVE  best = k
  <2>1. best \in having /\ \A j \in having : j <= best
    BY <1>2
  <2>2. best <= k /\ k <= best /\ best \in 1..3 /\ k \in 1..3
    BY <1>1, <1>2, <2>1
  <2> QED
    BY <2>2
<1>3. Strongest(found, n, other) = IF having = {} THEN other ELSE found[best].source
  BY DEF Strongest
<1> HIDE DEF having, best
<1>4. CASE n \in found[3].names
  <2>1. 3 \in having /\ \A j \in having : j <= 3
    BY <1>1, <1>4
  <2> QED
    BY <1>2, <1>3, <1>4, <2>1
<1>5. CASE n \notin found[3].names /\ n \in found[2].names
  <2>1. 2 \in having /\ 3 \notin having
    BY <1>1, <1>5
  <2>2. \A j \in having : j <= 2
    BY <1>1, <2>1
  <2> QED
    BY <1>2, <1>3, <1>5, <2>1, <2>2
<1>6. CASE n \notin found[3].names /\ n \notin found[2].names /\ n \in found[1].names
  <2>1. 1 \in having /\ \A j \in having : j <= 1
    BY <1>1, <1>6
  <2> QED
    BY <1>2, <1>3, <1>6, <2>1
<1>7. CASE n \notin found[3].names /\ n \notin found[2].names /\ n \notin found[1].names
  <2>1. having = {}
    BY <1>1, <1>7
  <2> QED
    BY <1>3, <1>7, <2>1
<1> QED
  BY <1>4, <1>5, <1>6, <1>7

LEMMA SkillsStep == SkillsInv /\ [SkillsNext]_skillVars => SkillsInv'
<1> SUFFICES ASSUME SkillsInv, [SkillsNext]_skillVars PROVE SkillsInv'
  OBVIOUS
<1>1. ASSUME NEW n \in SkillNames, NEW owner \in Registrants, RegisterSkill(n, owner)
      PROVE  SkillsInv'
  <2>1. SetSkill(n, owner) /\ mounted' = mounted /\ owner # "none"
        /\ skillDisposers' = skillDisposers \cup {[name |-> n, owner |-> owner]}
    BY <1>1, RegistryConstants DEF RegisterSkill
  <2>2. skillDisposers' \subseteq [name : SkillNames, owner : Registrants]
    BY <2>1 DEF SkillsInv
  <2> QED
    BY <2>1, <2>2, SkillChanges
<1>2. ASSUME NEW n \in SkillNames, Unregister(n)
      PROVE  SkillsInv'
  <2>1. SetSkill(n, "none") /\ mounted' = mounted \ {n} /\ skillDisposers' = skillDisposers
    BY <1>2 DEF Unregister, WithoutSkill
  <2>2. skillDisposers' \subseteq [name : SkillNames, owner : Registrants]
    BY <2>1 DEF SkillsInv
  <2> QED
    BY <2>1, <2>2, SkillChanges
<1>3. ASSUME NEW d \in skillDisposers, DisposeSkill(d)
      PROVE  SkillsInv'
  <2>1. SetSkill(d.name, "none") /\ mounted' = mounted \ {d.name} /\ skillDisposers' = skillDisposers
    BY <1>3 DEF DisposeSkill, WithoutSkill
  <2>2. skillDisposers' \subseteq [name : SkillNames, owner : Registrants] /\ d.name \in SkillNames
    BY <2>1 DEF SkillsInv
  <2> QED
    BY <2>1, <2>2, SkillChanges
<1>4. ASSUME NEW n \in SkillNames, MountSkill(n)
      PROVE  SkillsInv'
  BY <1>4 DEF MountSkill, SkillsInv, SkillsSound
<1>5. ASSUME NEW n \in SkillNames, UnmountSkill(n)
      PROVE  SkillsInv'
  BY <1>5 DEF UnmountSkill, SkillsInv, SkillsSound
<1>6. CASE ScanSource
  <2> DEFINE at == discovery.at
             source == Sources[discovery.at + 1]
             row == [source |-> source, names |-> discovery.shelf[source]]
  <2>1. /\ at \in 0..2
        /\ discovery' = [discovery EXCEPT !.at = @ + 1, !.found = Append(@, row)]
        /\ skills' = skills /\ mounted' = mounted /\ skillDisposers' = skillDisposers
    BY <1>6, SourcesAre DEF ScanSource, SkillsInv
  <2>2. source \in ShelfKinds /\ row \in [source : ShelfKinds, names : SUBSET SkillNames]
    BY <2>1, SourcesAre DEF SkillsInv
  <2>3. /\ Len(discovery.found) = at /\ discovery.found \in Seq([source : ShelfKinds, names : SUBSET SkillNames])
        /\ \A k \in 1..at : /\ discovery.found[k].source = Sources[k]
                            /\ discovery.found[k].names = discovery.shelf[Sources[k]]
    BY <2>1 DEF SkillsInv
  <2>4. row.source = Sources[at + 1] /\ row.names = discovery.shelf[Sources[at + 1]]
    OBVIOUS
  <2> DEFINE found == Append(discovery.found, row)
  <2>5. /\ discovery' \in [at : 0..4, shelf : [ShelfKinds -> SUBSET SkillNames],
                    found : Seq([source : ShelfKinds, names : SUBSET SkillNames]),
                    changed : SUBSET SkillNames]
        /\ discovery'.at = at + 1 /\ discovery'.found = found /\ discovery'.shelf = discovery.shelf
        /\ discovery'.changed = discovery.changed
    <3>1. found \in Seq([source : ShelfKinds, names : SUBSET SkillNames])
      <4> HIDE DEF row
      <4> QED
        BY <2>2, <2>3
    <3>2. discovery' = [discovery EXCEPT !.at = at + 1, !.found = found]
      BY <2>1 DEF SkillsInv
    <3>3. discovery \in [at : 0..4, shelf : [ShelfKinds -> SUBSET SkillNames],
                    found : Seq([source : ShelfKinds, names : SUBSET SkillNames]),
                    changed : SUBSET SkillNames]
      BY DEF SkillsInv
    <3>4. at + 1 \in 0..4
      BY <2>1
    <3> HIDE DEF at, row, found
    <3> QED
      BY <3>1, <3>2, <3>3, <3>4
  <2>6. /\ Len(found) = at + 1 /\ found[at + 1] = row
        /\ \A k \in 1..at : found[k] = discovery.found[k]
    <3> HIDE DEF row
    <3> QED
      BY <2>1, <2>2, <2>3
  <2> HIDE DEF row, found
  <2>7. \A k \in 1..(at + 1) : /\ found[k].source = Sources[k]
                               /\ found[k].names = discovery.shelf[Sources[k]]
    BY <2>1, <2>3, <2>4, <2>6
  <2>8. SkillsSound'
    BY <2>1, <2>5, SourcesAre DEF SkillsInv, SkillsSound
  <2> QED
    BY <2>1, <2>5, <2>6, <2>7, <2>8 DEF SkillsInv
<1>7. CASE RegisterDiscovered
  <2>1. /\ discovery.at = 3
        /\ skills' = [n \in SkillNames |-> Strongest(discovery.found, n, skills[n])]
        /\ discovery' = [discovery EXCEPT !.at = 4, !.changed = {}]
        /\ mounted' = mounted /\ skillDisposers' = skillDisposers
    BY <1>7, SourcesAre DEF RegisterDiscovered
  <2>2. /\ DOMAIN discovery.found = 1..3
        /\ discovery.found[1].source = "user" /\ discovery.found[1].names = discovery.shelf["user"]
        /\ discovery.found[2].source = "workspace" /\ discovery.found[2].names = discovery.shelf["workspace"]
        /\ discovery.found[3].source = "package" /\ discovery.found[3].names = discovery.shelf["package"]
    BY <2>1, SourcesAre DEF SkillsInv
  <2>3. \A n \in SkillNames :
          skills'[n] = IF n \in discovery.shelf["package"] THEN "package"
                       ELSE IF n \in discovery.shelf["workspace"] THEN "workspace"
                       ELSE IF n \in discovery.shelf["user"] THEN "user" ELSE skills[n]
    BY <2>1, <2>2, StrongestIs
  <2>4. skills' \in [SkillNames -> Registrants \cup {"none"} \cup ShelfKinds]
    <3>1. \A n \in SkillNames : skills'[n] \in Registrants \cup {"none"} \cup ShelfKinds
      BY <2>3 DEF SkillsInv, ShelfKinds
    <3> QED
      BY <2>1, <3>1
  <2>5. /\ discovery' \in [at : 0..4, shelf : [ShelfKinds -> SUBSET SkillNames],
                    found : Seq([source : ShelfKinds, names : SUBSET SkillNames]),
                    changed : SUBSET SkillNames]
        /\ discovery'.at = 4 /\ discovery'.shelf = discovery.shelf
        /\ discovery'.changed = {}
    <3>1. {} \in SUBSET SkillNames /\ 4 \in 0..4
      OBVIOUS
    <3> QED
      BY <2>1, <3>1 DEF SkillsInv
  <2>6. \A n \in mounted' : skills'[n] # "none"
    BY <2>1, <2>3 DEF SkillsInv, SkillsSound
  <2>7. SkillsSound'
    BY <2>3, <2>5, <2>6 DEF SkillsSound
  <2> QED
    BY <2>1, <2>4, <2>5, <2>7 DEF SkillsInv
<1>8. CASE UNCHANGED skillVars
  BY <1>8 DEF skillVars, SkillsInv, SkillsSound
<1> QED
  BY <1>1, <1>2, <1>3, <1>4, <1>5, <1>6, <1>7, <1>8 DEF SkillsNext

\* An adapter's list is read as far as it is good.
Entry == [tool : Seq(STRING), schema : BOOLEAN]
Entries == Seq(Entry)
LEMMA ListsAre ==
  ASSUME NEW s \in Servers
  PROVE  /\ s # <<>> /\ ServerLists[s] \in Seq(Entries) /\ Len(ServerLists[s]) >= 1
         /\ \A v \in 1..Len(ServerLists[s]) : ServerLists[s][v] \in Entries
<1>1. s # <<>> /\ ServerLists[s] # <<>> /\ ServerLists[s] \in Seq(Entries)
  BY RegistryConstants DEF Servers, Entries, Entry
<1> QED
  BY <1>1

LEMMA RegistrableIs ==
  ASSUME NEW list \in Entries
  PROVE  Registrable(list) \in 0..Len(list)
<1> DEFINE bad == {i \in DOMAIN list : ~list[i].schema}
           least == CHOOSE i \in bad : \A j \in bad : i <= j
<1>1. Len(list) \in Nat /\ bad \subseteq 1..Len(list)
  BY DEF Entries
<1>2. Registrable(list) = IF bad = {} THEN Len(list) ELSE least - 1
  BY DEF Registrable
<1>3. ASSUME bad # {}
      PROVE  least \in bad
  <2>1. bad \subseteq Nat
    BY <1>1
  <2> HIDE DEF bad
  <2> QED
    BY <1>3, <2>1, LeastExists
<1> HIDE DEF bad, least
<1>4. CASE bad = {}
  BY <1>1, <1>2, <1>4
<1>5. CASE bad # {}
  <2>1. least \in 1..Len(list)
    BY <1>1, <1>3, <1>5
  <2>2. Registrable(list) = least - 1
    BY <1>2, <1>5
  <2> QED
    BY <1>1, <2>1, <2>2
<1> QED
  BY <1>4, <1>5

LEMMA NamesAre ==
  ASSUME NEW s \in Servers, NEW v \in 1..Len(ServerLists[s]),
         NEW i \in 1..Len(ServerLists[s][v])
  PROVE  PrefixedName(s, ServerLists[s][v][i].tool) \in ToolNames
<1>1. DOMAIN ServerLists[s] = 1..Len(ServerLists[s])
      /\ DOMAIN ServerLists[s][v] = 1..Len(ServerLists[s][v])
  BY ListsAre DEF Entries
<1> DEFINE Of(t, w) == {PrefixedName(t, ServerLists[t][w][j].tool) : j \in DOMAIN ServerLists[t][w]}
           All(t) == UNION {Of(t, w) : w \in DOMAIN ServerLists[t]}
<1>2. PrefixedName(s, ServerLists[s][v][i].tool) \in Of(s, v)
  BY <1>1
<1>3. Of(s, v) \subseteq All(s)
  <2> HIDE DEF Of
  <2> QED
    BY <1>1
<1>4. ToolNames = UNION {All(t) : t \in Servers}
  BY DEF ToolNames
<1> HIDE DEF Of, All
<1> QED
  BY <1>2, <1>3, <1>4

Phases == {"new", "initialize", "list", "answered", "done", "failed"}
Syncing == {"initialize", "list", "answered"}
Keys == DOMAIN ServerOf

\* What a synchronisation has read it has read of the lists there were; while
\* one of a server goes on alone, none has read a newer list than it will.
SyncsInv ==
  /\ tools \in [ToolNames -> [server : Servers \cup {<<>>}, tool : Seq(STRING), version : Nat]]
  /\ syncs \in [Keys -> [at : Phases, version : Nat, put : Nat]]
  /\ offered \in [Servers -> [version : Nat, overlapped : BOOLEAN]]
  /\ \A s \in Servers : offered[s].version \in 1..Len(ServerLists[s])
  /\ \A k \in Keys :
       /\ syncs[k].version <= offered[ServerOf[k]].version
       /\ syncs[k].at \in {"new", "initialize", "list"} => syncs[k].version = 0
       /\ syncs[k].at = "answered" => syncs[k].version > 0
       /\ syncs[k].put > 0 =>
            /\ syncs[k].at \in {"done", "failed"} /\ syncs[k].version > 0
            /\ syncs[k].put <= Len(ServerLists[ServerOf[k]][syncs[k].version])
  /\ \A j, k \in Keys : LET s == ServerOf[k] IN
       ServerOf[j] = s /\ ~offered[s].overlapped =>
         /\ syncs[j].at \in Syncing /\ syncs[k].at \in Syncing => j = k
         /\ syncs[k].at = "answered" => syncs[j].version <= syncs[k].version
  /\ SyncsSound

LEMMA SyncsStart == SyncsInit => SyncsInv
<1> SUFFICES ASSUME SyncsInit PROVE SyncsInv
  OBVIOUS
<1>1. /\ tools = [n \in ToolNames |-> NoTool]
      /\ syncs = [k \in Keys |-> [at |-> "new", version |-> 0, put |-> 0]]
      /\ offered = [s \in Servers |-> [version |-> 1, overlapped |-> FALSE]]
  BY DEF SyncsInit, Keys
<1>2. tools \in [ToolNames -> [server : Servers \cup {<<>>}, tool : Seq(STRING), version : Nat]]
  <2>1. NoTool \in [server : Servers \cup {<<>>}, tool : Seq(STRING), version : Nat]
    BY DEF NoTool
  <2> QED
    BY <1>1, <2>1
<1>3. \A k \in Keys : syncs[k].at = "new" /\ syncs[k].version = 0 /\ syncs[k].put = 0
  BY <1>1
<1>4. /\ syncs \in [Keys -> [at : Phases, version : Nat, put : Nat]]
      /\ offered \in [Servers -> [version : Nat, overlapped : BOOLEAN]]
      /\ \A s \in Servers : offered[s].version = 1
  BY <1>1 DEF Phases
<1>5. \A s \in Servers : offered[s].version \in 1..Len(ServerLists[s])
  BY <1>4, ListsAre
<1>6. \A k \in Keys : ServerOf[k] \in Servers
  BY DEF Servers, Keys
<1>7. SyncsSound
  BY <1>3 DEF SyncsSound, Keys
<1> QED
  BY <1>2, <1>3, <1>4, <1>5, <1>6, <1>7 DEF SyncsInv, Syncing

\* What was put in stays found while nobody touches the registry.
LEMMA SoundStays ==
  ASSUME SyncsSound, tools' = tools, removed' = removed,
         \A k \in Keys : /\ syncs'[k].put = syncs[k].put /\ syncs[k].put \in Nat
                         /\ syncs[k].put > 0 => syncs'[k].version = syncs[k].version,
         \A s \in Servers : offered[s].overlapped => offered'[s].overlapped
  PROVE  SyncsSound'
<1> SUFFICES ASSUME NEW k \in Keys, NEW i \in 1..syncs'[k].put
             PROVE  LET s == ServerOf[k]
                        name == PrefixedName(s, ServerLists[s][syncs'[k].version][i].tool)
                    IN  /\ tools'[name] # NoTool \/ name \in removed'
                        /\ ~offered'[s].overlapped /\ tools'[name].server = s
                             => tools'[name].version >= syncs'[k].version
  BY DEF SyncsSound, Keys
<1>1. /\ i \in 1..syncs[k].put /\ syncs'[k].version = syncs[k].version
      /\ offered[ServerOf[k]].overlapped => offered'[ServerOf[k]].overlapped
  BY DEF Servers, Keys
<1> QED
  BY <1>1 DEF SyncsSound, Keys

\* One synchronisation moves on, without an answer yet.
LEMMA OneMoves ==
  ASSUME SyncsInv, NEW k \in Keys, NEW at \in {"initialize", "list", "failed"},
         syncs[k].at \in {"new", "initialize", "list"},
         syncs' = [syncs EXCEPT ![k].at = at],
         tools' = tools, removed' = removed,
         \/ offered' = offered /\ syncs[k].at \in Syncing
         \/ offered' = [offered EXCEPT ![ServerOf[k]].overlapped = @ \/ UnderwayAt(ServerOf[k]) # {}]
  PROVE  SyncsInv'
<1>1. /\ syncs' \in [Keys -> [at : Phases, version : Nat, put : Nat]]
      /\ syncs'[k].at = at
      /\ \A j \in Keys : j # k => syncs'[j].at = syncs[j].at
      /\ \A j \in Keys : syncs'[j].version = syncs[j].version /\ syncs'[j].put = syncs[j].put
  BY DEF SyncsInv, Phases
<1>2. \A j \in Keys : ServerOf[j] \in Servers
  BY DEF Servers, Keys
<1>3. /\ offered' \in [Servers -> [version : Nat, overlapped : BOOLEAN]]
      /\ \A s \in Servers : /\ offered'[s].version = offered[s].version
                            /\ offered[s].overlapped => offered'[s].overlapped
  <2>1. offered \in [Servers -> [version : Nat, overlapped : BOOLEAN]] /\ ServerOf[k] \in Servers
    BY <1>2 DEF SyncsInv
  <2>2. CASE offered' = offered
    BY <2>1, <2>2
  <2>3. CASE offered' = [offered EXCEPT ![ServerOf[k]].overlapped = @ \/ UnderwayAt(ServerOf[k]) # {}]
    <3> DEFINE now == offered[ServerOf[k]].overlapped \/ UnderwayAt(ServerOf[k]) # {}
    <3>1. offered' = [offered EXCEPT ![ServerOf[k]].overlapped = now]
      BY <2>1, <2>3
    <3>2. /\ now \in BOOLEAN
          /\ offered[ServerOf[k]].overlapped => now
      BY <2>1
    <3> HIDE DEF now
    <3>3. offered' \in [Servers -> [version : Nat, overlapped : BOOLEAN]]
      BY <2>1, <3>1, <3>2
    <3>4. \A s \in Servers : offered'[s].version = offered[s].version
      BY <2>1, <3>1
    <3>5. offered'[ServerOf[k]].overlapped = now
          /\ \A s \in Servers : s # ServerOf[k] => offered'[s].overlapped = offered[s].overlapped
      BY <2>1, <3>1
    <3>6. \A s \in Servers : offered[s].overlapped => offered'[s].overlapped
      BY <3>2, <3>5, Zenon
    <3> QED
      BY <3>3, <3>4, <3>6, Zenon
  <2> QED
    BY <2>2, <2>3
<1>4. /\ syncs[k].version = 0 /\ syncs[k].put = 0
  BY DEF SyncsInv
<1>5. SyncsSound'
  <2>1. SyncsSound /\ \A j \in Keys : syncs[j].put \in Nat
    BY DEF SyncsInv
  <2> QED
    BY <1>1, <1>3, <2>1, SoundStays
<1>6. ASSUME NEW j \in Keys, NEW l \in Keys, ServerOf[j] = ServerOf[l],
             ~offered'[ServerOf[l]].overlapped
      PROVE  /\ syncs'[j].at \in Syncing /\ syncs'[l].at \in Syncing => j = l
             /\ syncs'[l].at = "answered" => syncs'[j].version <= syncs'[l].version
  <2>1. ~offered[ServerOf[l]].overlapped
    BY <1>2, <1>3, <1>6
  <2>2. /\ syncs[j].at \in Syncing /\ syncs[l].at \in Syncing => j = l
        /\ syncs[l].at = "answered" => syncs[j].version <= syncs[l].version
    BY <1>6, <2>1 DEF SyncsInv
  <2>3. syncs'[l].at = "answered" => syncs[l].at = "answered"
    BY <1>1
  <2>4. ASSUME syncs'[j].at \in Syncing, syncs'[l].at \in Syncing, j # l
        PROVE  FALSE
    <3>1. ASSUME NEW m \in Keys, m # k, ServerOf[m] = ServerOf[k], syncs[m].at \in Syncing,
                 ~offered'[ServerOf[k]].overlapped
          PROVE  syncs[k].at \in Syncing
      <4>1. m \in UnderwayAt(ServerOf[k])
        BY <3>1 DEF UnderwayAt, Keys, Syncing
      <4>2. CASE offered' = [offered EXCEPT ![ServerOf[k]].overlapped = @ \/ UnderwayAt(ServerOf[k]) # {}]
        <5>1. offered'[ServerOf[k]].overlapped = (offered[ServerOf[k]].overlapped \/ UnderwayAt(ServerOf[k]) # {})
          BY <1>2, <4>2 DEF SyncsInv
        <5> QED
          BY <3>1, <4>1, <5>1
      <4> QED
        BY <4>2
    <3>2. syncs[j].at \in Syncing /\ syncs[l].at \in Syncing
      <4>1. CASE j = k
        BY <1>1, <1>6, <2>4, <3>1, <4>1
      <4>2. CASE l = k
        BY <1>1, <1>6, <2>4, <3>1, <4>2
      <4>3. CASE j # k /\ l # k
        BY <1>1, <2>4, <4>3
      <4> QED
        BY <4>1, <4>2, <4>3
    <3> QED
      BY <2>2, <2>4, <3>2
  <2> QED
    BY <1>1, <2>2, <2>3, <2>4
<1>7. tools' \in [ToolNames -> [server : Servers \cup {<<>>}, tool : Seq(STRING), version : Nat]]
      /\ \A s \in Servers : offered'[s].version \in 1..Len(ServerLists[s])
  BY <1>3 DEF SyncsInv
<1>8. ASSUME NEW j \in Keys
      PROVE  /\ syncs'[j].version <= offered'[ServerOf[j]].version
             /\ syncs'[j].at \in {"new", "initialize", "list"} => syncs'[j].version = 0
             /\ syncs'[j].at = "answered" => syncs'[j].version > 0
             /\ syncs'[j].put > 0 =>
                  /\ syncs'[j].at \in {"done", "failed"} /\ syncs'[j].version > 0
                  /\ syncs'[j].put <= Len(ServerLists[ServerOf[j]][syncs'[j].version])
  <2>1. /\ syncs[j].version <= offered[ServerOf[j]].version
        /\ syncs[j].at \in {"new", "initialize", "list"} => syncs[j].version = 0
        /\ syncs[j].at = "answered" => syncs[j].version > 0
        /\ syncs[j].put > 0 =>
             /\ syncs[j].at \in {"done", "failed"} /\ syncs[j].version > 0
             /\ syncs[j].put <= Len(ServerLists[ServerOf[j]][syncs[j].version])
    BY DEF SyncsInv
  <2> QED
    BY <1>1, <1>2, <1>3, <1>4, <2>1
<1> QED
  BY <1>1, <1>3, <1>5, <1>6, <1>7, <1>8 DEF SyncsInv

\* The server answers with the list it has, which is none older than another
\* synchronisation has read.
LEMMA ClientAnswerKeeps ==
  ASSUME SyncsInv, NEW k \in Keys, ServerAnswers(k)
  PROVE  SyncsInv'
<1> DEFINE read == offered[ServerOf[k]].version
<1>1. ServerOf[k] \in Servers /\ syncs[k].at = "list" /\ syncs[k].version = 0 /\ syncs[k].put = 0
      /\ read \in 1..Len(ServerLists[ServerOf[k]]) /\ read \in Nat /\ read > 0
  <2>1. ServerOf[k] \in Servers
    BY DEF Servers, Keys
  <2>2. syncs[k].at = "list"
    BY DEF ServerAnswers
  <2>3. syncs[k].version = 0 /\ syncs[k].put = 0
    BY <2>2 DEF SyncsInv
  <2>4. read \in 1..Len(ServerLists[ServerOf[k]])
    BY <2>1 DEF SyncsInv
  <2>5. Len(ServerLists[ServerOf[k]]) \in Nat
    BY <2>1, ListsAre
  <2> HIDE DEF read
  <2>6. read \in Nat /\ read > 0
    BY <2>4, <2>5
  <2> QED
    BY <2>1, <2>2, <2>3, <2>4, <2>6
<1>2. /\ syncs' = [syncs EXCEPT ![k].at = "answered", ![k].version = read]
      /\ tools' = tools /\ offered' = offered /\ removed' = removed
  BY DEF ServerAnswers
<1> HIDE DEF read
<1>3. /\ syncs' \in [Keys -> [at : Phases, version : Nat, put : Nat]]
      /\ syncs'[k].at = "answered" /\ syncs'[k].version = read
      /\ \A j \in Keys : j # k => syncs'[j] = syncs[j]
      /\ \A j \in Keys : syncs'[j].put = syncs[j].put
  BY <1>1, <1>2 DEF SyncsInv, Phases
<1>4. SyncsSound'
  <2>1. SyncsSound /\ \A j \in Keys : syncs[j].put \in Nat
    BY DEF SyncsInv
  <2>2. \A j \in Keys : syncs[j].put > 0 => syncs'[j].version = syncs[j].version
    BY <1>1, <1>3
  <2> QED
    BY <1>2, <1>3, <2>1, <2>2, SoundStays
<1>5. ASSUME NEW j \in Keys, NEW l \in Keys, ServerOf[j] = ServerOf[l],
             ~offered'[ServerOf[l]].overlapped
      PROVE  /\ syncs'[j].at \in Syncing /\ syncs'[l].at \in Syncing => j = l
             /\ syncs'[l].at = "answered" => syncs'[j].version <= syncs'[l].version
  <2>1. /\ syncs[j].at \in Syncing /\ syncs[l].at \in Syncing => j = l
        /\ syncs[l].at = "answered" => syncs[j].version <= syncs[l].version
    BY <1>2, <1>5 DEF SyncsInv
  <2>2. syncs[k].at \in Syncing
    BY <1>1 DEF Syncing
  <2>3. syncs'[j].at \in Syncing /\ syncs'[l].at \in Syncing => j = l
    BY <1>3, <2>1, <2>2
  <2>4. ASSUME syncs'[l].at = "answered"
        PROVE  syncs'[j].version <= syncs'[l].version
    <3>1. CASE l = k
      <4>1. \A m \in Keys : ServerOf[m] = ServerOf[k] => syncs[m].version <= read
        BY DEF SyncsInv, read
      <4> QED
        BY <1>1, <1>3, <1>5, <3>1, <4>1
    <3>2. CASE l # k /\ j # k
      BY <1>3, <2>1, <2>4, <3>2
    <3>3. CASE l # k /\ j = k
      <4>1. syncs[l].at \in Syncing /\ syncs[j].at \in Syncing
        BY <1>3, <2>2, <2>4, <3>3 DEF Syncing
      <4> QED
        BY <2>1, <3>3, <4>1
    <3> QED
      BY <3>1, <3>2, <3>3
  <2> QED
    BY <2>3, <2>4
<1>6. /\ tools' \in [ToolNames -> [server : Servers \cup {<<>>}, tool : Seq(STRING), version : Nat]]
      /\ offered' \in [Servers -> [version : Nat, overlapped : BOOLEAN]]
      /\ \A s \in Servers : offered'[s].version \in 1..Len(ServerLists[s])
  BY <1>2 DEF SyncsInv
<1>7. ASSUME NEW j \in Keys
      PROVE  /\ syncs'[j].version <= offered'[ServerOf[j]].version
             /\ syncs'[j].at \in {"new", "initialize", "list"} => syncs'[j].version = 0
             /\ syncs'[j].at = "answered" => syncs'[j].version > 0
             /\ syncs'[j].put > 0 =>
                  /\ syncs'[j].at \in {"done", "failed"} /\ syncs'[j].version > 0
                  /\ syncs'[j].put <= Len(ServerLists[ServerOf[j]][syncs'[j].version])
  <2>1. CASE j = k
    <3>1. syncs'[j].put = 0 /\ syncs'[j].version = offered'[ServerOf[j]].version
      BY <1>1, <1>2, <1>3, <2>1 DEF read
    <3> QED
      BY <1>1, <1>3, <2>1, <3>1
  <2>2. CASE j # k
    <3>1. syncs'[j] = syncs[j] /\ offered' = offered
      BY <1>2, <1>3, <2>2
    <3> QED
      BY <3>1 DEF SyncsInv
  <2> QED
    BY <2>1, <2>2
<1> QED
  BY <1>3, <1>4, <1>5, <1>6, <1>7 DEF SyncsInv

\* The server has another list; those who have asked have the old one.
LEMMA ChangeKeeps ==
  ASSUME SyncsInv, NEW s \in Servers, ServerChanges(s)
  PROVE  SyncsInv'
<1>1. /\ offered[s].version < Len(ServerLists[s])
      /\ offered' = [offered EXCEPT ![s].version = @ + 1]
      /\ tools' = tools /\ syncs' = syncs /\ removed' = removed
  BY DEF ServerChanges
<1>2. /\ offered' \in [Servers -> [version : Nat, overlapped : BOOLEAN]]
      /\ \A t \in Servers : t # s => offered'[t] = offered[t]
      /\ offered'[s].version = offered[s].version + 1 /\ offered'[s].overlapped = offered[s].overlapped
  <2>1. offered \in [Servers -> [version : Nat, overlapped : BOOLEAN]]
    BY DEF SyncsInv
  <2>2. offered[s].version + 1 \in Nat
    BY <2>1
  <2> DEFINE next == offered[s].version + 1
  <2>3. offered' = [offered EXCEPT ![s].version = next]
    BY <1>1, <2>1
  <2> HIDE DEF next
  <2>4. /\ offered' \in [Servers -> [version : Nat, overlapped : BOOLEAN]]
        /\ \A t \in Servers : t # s => offered'[t] = offered[t]
        /\ offered'[s].version = next /\ offered'[s].overlapped = offered[s].overlapped
    BY <2>1, <2>2, <2>3 DEF next
  <2> QED
    BY <2>4 DEF next
<1>3. \A t \in Servers : /\ offered'[t].overlapped = offered[t].overlapped
                         /\ offered[t].version \in Nat /\ offered[t].version <= offered'[t].version
  BY <1>2 DEF SyncsInv
<1>4. \A t \in Servers : offered'[t].version \in 1..Len(ServerLists[t])
  BY <1>1, <1>2, ListsAre DEF SyncsInv
<1>5. \A k \in Keys : ServerOf[k] \in Servers /\ syncs[k].version \in Nat
  BY DEF SyncsInv, Servers, Keys
<1>6. \A k \in Keys : syncs'[k].version <= offered'[ServerOf[k]].version
  <2>1. \A k \in Keys : syncs[k].version <= offered[ServerOf[k]].version
    BY DEF SyncsInv
  <2> QED
    BY <1>1, <1>3, <1>5, <2>1
<1>7. SyncsSound'
  <2>1. SyncsSound /\ \A j \in Keys : syncs[j].put \in Nat
    BY DEF SyncsInv
  <2> QED
    BY <1>1, <1>3, <2>1, SoundStays
<1> QED
  BY <1>1, <1>2, <1>3, <1>4, <1>5, <1>6, <1>7 DEF SyncsInv

\* What the host takes out it has taken out.
LEMMA TakingOutKeeps ==
  ASSUME SyncsInv, NEW n \in ToolNames, UnregisterTool(n)
  PROVE  SyncsInv'
<1>1. /\ tools' = [tools EXCEPT ![n] = NoTool] /\ removed' = removed \cup {n}
      /\ syncs' = syncs /\ offered' = offered
  BY DEF UnregisterTool
<1>2. /\ tools' \in [ToolNames -> [server : Servers \cup {<<>>}, tool : Seq(STRING), version : Nat]]
      /\ tools'[n] = NoTool /\ \A m : m # n => tools'[m] = tools[m]
  <2>1. NoTool \in [server : Servers \cup {<<>>}, tool : Seq(STRING), version : Nat]
    BY DEF NoTool
  <2> QED
    BY <1>1, <2>1 DEF SyncsInv
<1>3. ASSUME NEW k \in Keys, NEW i \in 1..syncs'[k].put
      PROVE  LET s == ServerOf[k]
                 name == PrefixedName(s, ServerLists[s][syncs'[k].version][i].tool)
             IN  /\ tools'[name] # NoTool \/ name \in removed'
                 /\ ~offered'[s].overlapped /\ tools'[name].server = s
                      => tools'[name].version >= syncs'[k].version
  <2> DEFINE s == ServerOf[k]
             name == PrefixedName(s, ServerLists[s][syncs[k].version][i].tool)
  <2>1. /\ tools[name] # NoTool \/ name \in removed
        /\ ~offered[s].overlapped /\ tools[name].server = s
             => tools[name].version >= syncs[k].version
    BY <1>1, <1>3 DEF SyncsInv, SyncsSound, Keys
  <2>2. s # <<>>
    BY ListsAre DEF Servers, Keys
  <2> HIDE DEF name
  <2>3. CASE name = n
    <3>1. name \in removed' /\ tools'[name].server # s
      BY <1>1, <1>2, <2>2, <2>3 DEF NoTool
    <3> QED
      BY <1>1, <3>1 DEF name
  <2>4. CASE name # n
    <3>1. tools'[name] = tools[name] /\ (name \in removed => name \in removed')
      BY <1>1, <1>2, <2>4
    <3> QED
      BY <1>1, <2>1, <3>1 DEF name
  <2> QED
    BY <2>3, <2>4
<1>4. SyncsSound'
  BY <1>3 DEF SyncsSound, Keys
<1> QED
  BY <1>1, <1>2, <1>4 DEF SyncsInv

\* A list is put in as far as it is good, over whatever was there.
LEMMA RegisterKeeps ==
  ASSUME SyncsInv, NEW k \in Keys, RegisterTools(k)
  PROVE  SyncsInv'
<1> DEFINE s == ServerOf[k]
           v == syncs[k].version
           list == ServerLists[s][v]
           good == Registrable(list)
           Name(i) == PrefixedName(s, list[i].tool)
           D == {Name(i) : i \in 1..good}
           Tool(n) == CHOOSE t \in {list[i].tool : i \in 1..good} : PrefixedName(s, t) = n
           Row(n) == [server |-> s, version |-> v, tool |-> Tool(n)]
           at == IF good = Len(list) THEN "done" ELSE "failed"
<1>1. s \in Servers /\ syncs[k].at = "answered"
  BY DEF RegisterTools, Servers, Keys
<1>2. v \in Nat /\ v > 0 /\ v <= offered[s].version /\ syncs[k].put = 0
  BY <1>1 DEF SyncsInv
<1>3. v \in 1..Len(ServerLists[s])
  <2>1. offered[s].version \in 1..Len(ServerLists[s]) /\ Len(ServerLists[s]) \in Nat
    BY <1>1, ListsAre DEF SyncsInv
  <2> HIDE DEF v, s
  <2> QED
    BY <1>2, <2>1
<1>4. list \in Entries /\ s # <<>>
  BY <1>1, <1>3, ListsAre
<1>5. good \in 0..Len(list) /\ Len(list) \in Nat
  <2>1. Len(list) \in Nat
    BY <1>4 DEF Entries
  <2> HIDE DEF list
  <2> QED
    BY <1>4, <2>1, RegistrableIs
<1>6. /\ tools' = [n \in ToolNames |-> IF n \in D THEN Row(n) ELSE tools[n]]
      /\ removed' = removed \ D /\ offered' = offered
      /\ syncs' = [syncs EXCEPT ![k].at = at, ![k].put = good]
  <2> DEFINE new == [n \in D |-> [server |-> s, version |-> v, tool |-> Tool(n)]]
  <2>1. /\ tools' = [n \in ToolNames |-> IF n \in DOMAIN new THEN new[n] ELSE tools[n]]
        /\ removed' = removed \ DOMAIN new /\ offered' = offered
        /\ syncs' = [syncs EXCEPT ![k].at = at, ![k].put = good]
    BY Zenon DEF RegisterTools
  <2>2. DOMAIN new = D /\ \A n \in D : new[n] = Row(n)
    <3> HIDE DEF D, Tool
    <3> QED
      OBVIOUS
  <2> HIDE DEF new, D, Row, at, good
  <2> QED
    BY <2>1, <2>2
<1>7. \A n \in D : Row(n) \in [server : Servers \cup {<<>>}, tool : Seq(STRING), version : Nat]
  <2>1. \A i \in 1..good : list[i].tool \in Seq(STRING)
    <3>1. list \in Seq(Entry)
      BY <1>4 DEF Entries
    <3> HIDE DEF list, good
    <3>2. \A i \in 1..good : i \in 1..Len(list)
      BY <1>5
    <3>3. \A i \in 1..Len(list) : list[i] \in Entry
      BY <3>1
    <3>4. \A r \in Entry : r.tool \in Seq(STRING)
      BY DEF Entry
    <3> QED
      BY <3>2, <3>3, <3>4
  <2>2. ASSUME NEW n \in D
        PROVE  Tool(n) \in Seq(STRING)
    <3>1. PICK i \in 1..good : n = Name(i)
      OBVIOUS
    <3>2. Tool(n) \in {list[j].tool : j \in 1..good}
      <4>1. list[i].tool \in {list[j].tool : j \in 1..good} /\ PrefixedName(s, list[i].tool) = n
        BY <3>1
      <4> HIDE DEF list, good, s, PrefixedName
      <4> QED
        BY <4>1
    <3> HIDE DEF Tool, good, list
    <3> QED
      BY <2>1, <3>2
  <2> HIDE DEF Tool, D
  <2> QED
    BY <1>1, <1>2, <2>2
<1>8. tools' \in [ToolNames -> [server : Servers \cup {<<>>}, tool : Seq(STRING), version : Nat]]
  <2>1. tools \in [ToolNames -> [server : Servers \cup {<<>>}, tool : Seq(STRING), version : Nat]]
    BY DEF SyncsInv
  <2> HIDE DEF D, Row
  <2> QED
    BY <1>6, <1>7, <2>1
<1>9. \A i \in 1..good : Name(i) \in D /\ Name(i) \in ToolNames
  <2>1. \A i \in 1..good : i \in 1..Len(list)
    BY <1>5
  <2> HIDE DEF good, PrefixedName
  <2> QED
    BY <1>1, <1>3, <2>1, NamesAre
<1>10. at \in {"done", "failed"} /\ good \in Nat
  BY <1>5
<1> HIDE DEF D, Row, Tool, at, good, Name
<1>11. /\ syncs' \in [Keys -> [at : Phases, version : Nat, put : Nat]]
       /\ syncs'[k].at = at /\ syncs'[k].put = good /\ syncs'[k].version = v
       /\ \A j \in Keys : j # k => syncs'[j] = syncs[j]
       /\ \A j \in Keys : syncs'[j].version = syncs[j].version
  <2>1. syncs \in [Keys -> [at : Phases, version : Nat, put : Nat]] /\ at \in Phases
    BY <1>10 DEF SyncsInv, Phases
  <2> QED
    BY <1>6, <1>10, <2>1
<1>12. ASSUME NEW j \in Keys, NEW i \in 1..syncs'[j].put
       PROVE  LET t == ServerOf[j]
                  name == PrefixedName(t, ServerLists[t][syncs'[j].version][i].tool)
              IN  /\ tools'[name] # NoTool \/ name \in removed'
                  /\ ~offered'[t].overlapped /\ tools'[name].server = t
                       => tools'[name].version >= syncs'[j].version
  <2>1. CASE j = k
    <3>1. tools'[Name(i)] = Row(Name(i))
      BY <1>6, <1>9, <1>11, <2>1
    <3>2. tools'[Name(i)] # NoTool /\ tools'[Name(i)].version = v
      BY <1>4, <3>1 DEF Row, NoTool
    <3>3. syncs'[j].version = v
      BY <1>11, <2>1
    <3>4. PrefixedName(ServerOf[j], ServerLists[ServerOf[j]][v][i].tool) = Name(i)
      BY <2>1 DEF Name
    <3> HIDE DEF v
    <3> QED
      BY <1>2, <3>2, <3>3, <3>4
  <2>2. CASE j # k
    <3> DEFINE t == ServerOf[j]
               name == PrefixedName(t, ServerLists[t][syncs[j].version][i].tool)
    <3>1. syncs'[j] = syncs[j] /\ i \in 1..syncs[j].put
      BY <1>11, <2>2
    <3>2. /\ tools[name] # NoTool \/ name \in removed
          /\ ~offered[t].overlapped /\ tools[name].server = t
               => tools[name].version >= syncs[j].version
      BY <3>1 DEF SyncsInv, SyncsSound, Keys
    <3>3. name \in ToolNames
      <4>1. t \in Servers /\ syncs[j].put \in Nat /\ syncs[j].put > 0
        BY <3>1 DEF SyncsInv, Servers, Keys
      <4>2. /\ syncs[j].version > 0 /\ syncs[j].version \in Nat
            /\ syncs[j].put <= Len(ServerLists[t][syncs[j].version])
            /\ syncs[j].version <= offered[t].version
        BY <4>1 DEF SyncsInv
      <4>3. offered[t].version \in 1..Len(ServerLists[t]) /\ Len(ServerLists[t]) \in Nat
        BY <4>1, ListsAre DEF SyncsInv
      <4>4. syncs[j].version \in 1..Len(ServerLists[t])
        BY <4>2, <4>3
      <4>5. Len(ServerLists[t][syncs[j].version]) \in Nat
        BY <4>1, <4>4, ListsAre DEF Entries
      <4>6. i \in 1..Len(ServerLists[t][syncs[j].version])
        BY <3>1, <4>1, <4>2, <4>5
      <4> QED
        BY <4>1, <4>4, <4>6, NamesAre
    <3> HIDE DEF name
    <3>4. CASE name \in D
      <4>1. tools'[name] = Row(name)
        BY <1>6, <3>3, <3>4
      <4>2. tools'[name] # NoTool /\ tools'[name].version = v /\ tools'[name].server = s
        BY <1>4, <4>1 DEF Row, NoTool
      <4>3. ASSUME ~offered[t].overlapped, s = t
            PROVE  v >= syncs[j].version
        <5>1. syncs[j].version <= v
          BY <1>1, <4>3 DEF SyncsInv
        <5> QED
          BY <1>2, <5>1 DEF SyncsInv
      <4> QED
        BY <1>6, <3>1, <4>2, <4>3 DEF name
    <3>5. CASE name \notin D
      <4>1. tools'[name] = tools[name] /\ (name \in removed => name \in removed')
        BY <1>6, <3>3, <3>5
      <4> QED
        BY <1>6, <3>1, <3>2, <4>1 DEF name
    <3> QED
      BY <3>4, <3>5
  <2> QED
    BY <2>1, <2>2
<1>13. SyncsSound'
  BY <1>12 DEF SyncsSound, Keys
<1>14. ASSUME NEW j \in Keys, NEW l \in Keys, ServerOf[j] = ServerOf[l],
              ~offered'[ServerOf[l]].overlapped
       PROVE  /\ syncs'[j].at \in Syncing /\ syncs'[l].at \in Syncing => j = l
              /\ syncs'[l].at = "answered" => syncs'[j].version <= syncs'[l].version
  <2>1. /\ syncs[j].at \in Syncing /\ syncs[l].at \in Syncing => j = l
        /\ syncs[l].at = "answered" => syncs[j].version <= syncs[l].version
    BY <1>6, <1>14 DEF SyncsInv
  <2>2. at \notin Syncing /\ at # "answered"
    BY <1>10 DEF Syncing
  <2> QED
    BY <1>11, <2>1, <2>2
<1>15. ASSUME NEW j \in Keys
       PROVE  /\ syncs'[j].version <= offered'[ServerOf[j]].version
              /\ syncs'[j].at \in {"new", "initialize", "list"} => syncs'[j].version = 0
              /\ syncs'[j].at = "answered" => syncs'[j].version > 0
              /\ syncs'[j].put > 0 =>
                   /\ syncs'[j].at \in {"done", "failed"} /\ syncs'[j].version > 0
                   /\ syncs'[j].put <= Len(ServerLists[ServerOf[j]][syncs'[j].version])
  <2>1. CASE j = k
    <3>1. good <= Len(ServerLists[ServerOf[j]][v])
      BY <1>5, <2>1
    <3> HIDE DEF v, s, list
    <3>2. syncs'[j].version = v /\ syncs'[j].put = good /\ syncs'[j].at = at
      BY <1>11, <2>1
    <3>3. v <= offered'[ServerOf[j]].version
      BY <1>2, <1>6, <2>1 DEF s
    <3> QED
      BY <1>2, <1>10, <3>1, <3>2, <3>3
  <2>2. CASE j # k
    <3>1. syncs'[j] = syncs[j] /\ offered' = offered
      BY <1>6, <1>11, <2>2
    <3> QED
      BY <3>1 DEF SyncsInv
  <2> QED
    BY <2>1, <2>2
<1> QED
  BY <1>6, <1>8, <1>11, <1>13, <1>14, <1>15 DEF SyncsInv

LEMMA SyncsStep == SyncsInv /\ [SyncsNext]_syncVars => SyncsInv'
<1> SUFFICES ASSUME SyncsInv, [SyncsNext]_syncVars PROVE SyncsInv'
  OBVIOUS
<1>1. ASSUME NEW k \in Keys, StartSync(k)
      PROVE  SyncsInv'
  BY <1>1, OneMoves DEF StartSync
<1>2. ASSUME NEW k \in Keys, Initialized(k)
      PROVE  SyncsInv'
  BY <1>2, OneMoves DEF Initialized, Syncing
<1>3. ASSUME NEW k \in Keys, ServerFails(k)
      PROVE  SyncsInv'
  BY <1>3, OneMoves DEF ServerFails, Syncing
<1>4. CASE UNCHANGED syncVars
  BY <1>4 DEF syncVars, SyncsInv, SyncsSound
<1> QED
  BY <1>1, <1>2, <1>3, <1>4, ClientAnswerKeeps, RegisterKeeps, ChangeKeeps, TakingOutKeeps
     DEF SyncsNext, Keys

\* Whatever registers, disposes, mounts and discovers skills, and however many
\* servers are synchronised with, change their lists and fail: what is mounted
\* is registered, discovery leaves the strongest source's skill, and what was
\* put in is found, none of it older than before while one goes on at a time.
THEOREM RegistriesCorrect == RegistriesSpec => []RegistriesHold
<1>1. SkillsInit /\ SyncsInit => SkillsInv /\ SyncsInv
  BY SkillsStart, SyncsStart
<1>2. SkillsInv /\ SyncsInv
      /\ [ \/ SkillsNext /\ UNCHANGED syncVars
           \/ SyncsNext /\ UNCHANGED skillVars ]_<<skillVars, syncVars>>
        => (SkillsInv /\ SyncsInv)'
  <2> SUFFICES ASSUME SkillsInv, SyncsInv,
                      [ \/ SkillsNext /\ UNCHANGED syncVars
                        \/ SyncsNext /\ UNCHANGED skillVars ]_<<skillVars, syncVars>>
               PROVE  SkillsInv' /\ SyncsInv'
    OBVIOUS
  <2>1. [SkillsNext]_skillVars /\ [SyncsNext]_syncVars
    OBVIOUS
  <2> QED
    BY <2>1, SkillsStep, SyncsStep
<1>3. SkillsInv /\ SyncsInv => RegistriesHold
  BY DEF SkillsInv, SyncsInv, RegistriesHold
<1> QED
  BY <1>1, <1>2, <1>3, PTL DEF RegistriesSpec
-----------------------------------------------------------------------------
\* Plugins.

\* Sequences turned round, and without one element.
LEMMA ReverseIs ==
  ASSUME NEW X, NEW s \in Seq(X)
  PROVE  /\ Reverse(s) \in Seq(X) /\ Len(Reverse(s)) = Len(s)
         /\ \A i \in 1..Len(s) : Len(s) - i + 1 \in 1..Len(s) /\ Reverse(s)[i] = s[Len(s) - i + 1]
<1>1. Len(s) \in Nat
  OBVIOUS
<1>2. \A i \in 1..Len(s) : Len(s) - i + 1 \in 1..Len(s) /\ s[Len(s) - i + 1] \in X
  BY <1>1
<1>3. Reverse(s) = [i \in 1..Len(s) |-> s[Len(s) - i + 1]]
  BY DEF Reverse
<1> QED
  BY <1>1, <1>2, <1>3

LEMMA FrontIs ==
  ASSUME NEW X, NEW s \in Seq(X), Len(s) > 0
  PROVE  /\ Front(s) \in Seq(X) /\ Len(Front(s)) = Len(s) - 1
         /\ \A i \in 1..(Len(s) - 1) : Front(s)[i] = s[i]
<1>1. Len(s) \in Nat /\ Len(s) - 1 \in Nat
  OBVIOUS
<1>2. Front(s) = [i \in 1..(Len(s) - 1) |-> s[i]]
  <2>1. Front(s) = [i \in 1..(Len(s) - 1 - 1 + 1) |-> s[i + 1 - 1]]
    BY <1>1 DEF Front
  <2> QED
    BY <1>1, <2>1
<1>3. \A i \in 1..(Len(s) - 1) : s[i] \in X
  BY <1>1
<1> QED
  BY <1>1, <1>2, <1>3

LEMMA TailIs ==
  ASSUME NEW X, NEW s \in Seq(X), s # <<>>
  PROVE  /\ Len(s) \in Nat /\ Len(s) > 0 /\ Head(s) = s[1] /\ Head(s) \in X
         /\ Tail(s) \in Seq(X) /\ Len(Tail(s)) = Len(s) - 1
         /\ \A i \in 1..(Len(s) - 1) : Tail(s)[i] = s[i + 1]
OBVIOUS

LEMMA JoinIs ==
  ASSUME NEW X, NEW s \in Seq(X), NEW t \in Seq(X)
  PROVE  /\ s \o t \in Seq(X) /\ Len(s \o t) = Len(s) + Len(t)
         /\ \A i \in 1..Len(s) : (s \o t)[i] = s[i]
         /\ \A i \in 1..Len(t) : (s \o t)[Len(s) + i] = t[i]
         /\ Len(s) \in Nat /\ Len(t) \in Nat
OBVIOUS

LEMMA SliceIs ==
  ASSUME NEW X, NEW s \in Seq(X), NEW m \in Nat, NEW n \in Nat, m >= 1, n <= Len(s), m <= n + 1
  PROVE  /\ SubSeq(s, m, n) \in Seq(X) /\ Len(SubSeq(s, m, n)) = n - m + 1
         /\ \A i \in 1..(n - m + 1) : SubSeq(s, m, n)[i] = s[m + i - 1]
<1>1. Len(s) \in Nat /\ n - m + 1 \in Nat
  OBVIOUS
<1>2. SubSeq(s, m, n) = [i \in 1..(n - m + 1) |-> s[i + m - 1]]
  BY <1>1
<1>3. \A i \in 1..(n - m + 1) : i + m - 1 = m + i - 1 /\ m + i - 1 \in 1..Len(s) /\ s[m + i - 1] \in X
  BY <1>1
<1> QED
  BY <1>1, <1>2, <1>3

LEMMA RemoveIs ==
  ASSUME NEW X, NEW s \in Seq(X), NEW k \in 1..Len(s)
  PROVE  /\ RemoveAt(s, k) \in Seq(X)
         /\ \A i \in 1..Len(s) : i # k => \E j \in 1..Len(RemoveAt(s, k)) : RemoveAt(s, k)[j] = s[i]
<1> DEFINE a == SubSeq(s, 1, k - 1)
           b == SubSeq(s, k + 1, Len(s))
<1>1. Len(s) \in Nat /\ k \in Nat /\ k >= 1 /\ k <= Len(s)
  OBVIOUS
<1>2. /\ a \in Seq(X) /\ Len(a) = k - 1
      /\ \A i \in 1..(k - 1) : a[i] = s[i]
  <2>1. k - 1 \in Nat /\ k - 1 <= Len(s) /\ 1 <= k - 1 + 1 /\ k - 1 - 1 + 1 = k - 1
    BY <1>1
  <2> DEFINE n == k - 1
  <2>2. n \in Nat /\ n <= Len(s) /\ 1 <= n + 1 /\ n - 1 + 1 = n
    BY <2>1
  <2> HIDE DEF n
  <2>3. /\ SubSeq(s, 1, n) \in Seq(X) /\ Len(SubSeq(s, 1, n)) = n - 1 + 1
        /\ \A i \in 1..(n - 1 + 1) : SubSeq(s, 1, n)[i] = s[1 + i - 1]
    BY <2>2, SliceIs
  <2>4. \A i \in 1..n : 1 + i - 1 = i
    BY <2>2
  <2> QED
    BY <2>2, <2>3, <2>4 DEF n
<1>3. /\ b \in Seq(X) /\ Len(b) = Len(s) - k
      /\ \A i \in 1..(Len(s) - k) : b[i] = s[k + i]
  <2> DEFINE m == k + 1
             n == Len(s)
  <2>1. m \in Nat /\ n \in Nat /\ m >= 1 /\ n <= Len(s) /\ m <= n + 1 /\ n - m + 1 = Len(s) - k
    BY <1>1
  <2>2. \A i \in 1..(Len(s) - k) : m + i - 1 = k + i
    BY <1>1
  <2> HIDE DEF m, n
  <2>3. /\ SubSeq(s, m, n) \in Seq(X) /\ Len(SubSeq(s, m, n)) = n - m + 1
        /\ \A i \in 1..(n - m + 1) : SubSeq(s, m, n)[i] = s[m + i - 1]
    BY <2>1, SliceIs
  <2> QED
    BY <2>1, <2>2, <2>3 DEF m, n
<1>4. RemoveAt(s, k) = a \o b
  BY DEF RemoveAt
<1> HIDE DEF a, b
<1>5. /\ a \o b \in Seq(X) /\ Len(a \o b) = Len(s) - 1
      /\ \A i \in 1..(k - 1) : (a \o b)[i] = a[i]
      /\ \A i \in 1..(Len(s) - k) : (a \o b)[k - 1 + i] = b[i]
  <2>1. /\ a \o b \in Seq(X) /\ Len(a \o b) = Len(a) + Len(b)
        /\ \A i \in 1..Len(a) : (a \o b)[i] = a[i]
        /\ \A i \in 1..Len(b) : (a \o b)[Len(a) + i] = b[i]
    <3>1. a \in Seq(X) /\ b \in Seq(X)
      BY <1>2, <1>3
    <3> QED
      BY <3>1
  <2>2. Len(a) = k - 1 /\ Len(b) = Len(s) - k
    BY <1>2, <1>3
  <2>3. Len(a \o b) = Len(s) - 1
    BY <1>1, <2>1, <2>2
  <2> QED
    BY <2>1, <2>2, <2>3
<1>6. ASSUME NEW i \in 1..Len(s), i # k
      PROVE  \E j \in 1..Len(a \o b) : (a \o b)[j] = s[i]
  <2>1. CASE i < k
    <3>1. i \in 1..(k - 1) /\ i \in 1..(Len(s) - 1)
      BY <1>1, <2>1
    <3> QED
      BY <1>2, <1>5, <3>1
  <2>2. CASE i > k
    <3>1. i - k \in 1..(Len(s) - k) /\ k - 1 + (i - k) \in 1..(Len(s) - 1) /\ k + (i - k) = i
      BY <1>1, <2>2
    <3>2. (a \o b)[k - 1 + (i - k)] = b[i - k] /\ b[i - k] = s[k + (i - k)]
      BY <1>3, <1>5, <3>1
    <3> QED
      BY <1>5, <3>1, <3>2
  <2> QED
    BY <1>1, <1>6, <2>1, <2>2
<1> QED
  BY <1>4, <1>5, <1>6

LEMMA FirstIn ==
  ASSUME NEW X, NEW s \in Seq(X), NEW p
  PROVE  LET i == SelectInSeq(s, LAMBDA q : q = p)
         IN  i = 0 \/ (i \in 1..Len(s) /\ s[i] = p)
<1> DEFINE I == {i \in 1..Len(s) : s[i] = p}
           least == CHOOSE x \in I : \A y \in I : x <= y
<1>1. SelectInSeq(s, LAMBDA q : q = p) = IF I # {} THEN least ELSE 0
  BY DEF SelectInSeq, Min
<1>2. I \subseteq Nat
  OBVIOUS
<1>3. I # {} => least \in I
  <2> HIDE DEF I
  <2> QED
    BY <1>2, LeastExists
<1> HIDE DEF least
<1> QED
  BY <1>1, <1>3

EffectSet == [by : Plugins, load : Nat, n : Nat]
PluginTypes ==
  /\ record \in [Plugins -> {"absent", "loading", "active", "failed", "disposing"}]
  /\ disposers \in [Names -> Seq(EffectSet)]
  /\ loadOrder \in Seq(Plugins) /\ stack \in Seq(Plugins)
  /\ applying \in [Plugins -> [load : Nat, effects : Nat, threw : BOOLEAN]]
  /\ unwinds \in [Owners -> Seq(EffectSet)]
  /\ closing \in Seq(Plugins) /\ disposal \in {"open", "plugins", "global", "closed"}
  /\ live \subseteq EffectSet /\ setups \subseteq EffectSet /\ missed \subseteq EffectSet
  /\ overlapped \in BOOLEAN /\ cut \in BOOLEAN /\ loads \in Nat

\* EffectSet have loads and numbers of their own.
Numbered ==
  /\ \A p \in Plugins : /\ applying[p].load <= loads
                        /\ applying[p].threw => applying[p].load > 0
                        /\ applying[p].load = 0 => applying[p] = NotLoading
  /\ \A e \in live \cup missed :
       /\ e.load <= loads /\ e.load > 0
       /\ e.load = applying[e.by].load => e.n <= applying[e.by].effects
  /\ setups \subseteq live

\* A load in progress has a place on the stack, of a plugin that is there.
Stacked ==
  /\ IsFiniteSet({p \in Plugins : Loading(p)})
  /\ Cardinality({p \in Plugins : Loading(p)}) = Len(stack)

FailureQuiet == \A p \in Plugins : ~applying[p].threw => unwinds[<<p, "failure">>] = <<>>


LEMMA PluginsStart == PluginInit => PluginTypes /\ Numbered /\ Stacked /\ FailureQuiet
<1> SUFFICES ASSUME PluginInit PROVE PluginTypes /\ Numbered /\ Stacked /\ FailureQuiet
  OBVIOUS
<1>1. \A p \in Plugins : applying[p] = NotLoading
  BY DEF PluginInit
<1>2. PluginTypes
  <2>1. NotLoading \in [load : Nat, effects : Nat, threw : BOOLEAN]
    BY DEF NotLoading
  <2>2. applying \in [Plugins -> [load : Nat, effects : Nat, threw : BOOLEAN]]
    BY <2>1 DEF PluginInit
  <2> QED
    <3>1. /\ record \in [Plugins -> {"absent", "loading", "active", "failed", "disposing"}]
          /\ disposers \in [Names -> Seq(EffectSet)] /\ unwinds \in [Owners -> Seq(EffectSet)]
          /\ loadOrder \in Seq(Plugins) /\ stack \in Seq(Plugins) /\ closing \in Seq(Plugins)
      BY DEF PluginInit
    <3>2. /\ disposal = "open" /\ live = {} /\ setups = {} /\ missed = {}
          /\ overlapped = FALSE /\ cut = FALSE /\ loads = 0
      BY DEF PluginInit
    <3> QED
      BY <2>2, <3>1, <3>2 DEF PluginTypes
<1>3. Numbered
  BY <1>1 DEF PluginInit, Numbered, NotLoading
<1>4. Stacked
  <2>1. {p \in Plugins : Loading(p)} = {}
    BY <1>1 DEF Loading
  <2> QED
    BY <2>1, FS_EmptySet DEF PluginInit, Stacked
<1>5. FailureQuiet
  <2>1. \A p \in Plugins : <<p, "failure">> \in Owners
    BY DEF Owners
  <2> QED
    BY <2>1 DEF PluginInit, FailureQuiet
<1> QED
  BY <1>2, <1>3, <1>4, <1>5

LEMMA OwnersAre ==
  /\ \A p \in Plugins : /\ p \in Names /\ p # "global"
                        /\ <<p, "unload">> \in Owners /\ <<p, "failure">> \in Owners
  /\ "global" \in Names /\ <<"global", "unload">> \in Owners
BY GlobalIsNoPlugin DEF Owners, Names

\* Of a list of disposers nothing else is made.
LEMMA UnwindingIs ==
  ASSUME NEW list \in Seq(EffectSet)
  PROVE  /\ Unwinding(list) \in Seq(EffectSet) /\ Len(Unwinding(list)) = Len(list)
         /\ \A i \in 1..Len(list) : /\ Len(list) - i + 1 \in 1..Len(list)
                                    /\ Unwinding(list)[i] = list[Len(list) - i + 1]
BY ReverseIs DEF Unwinding

LEMMA TrackerIs ==
  ASSUME PluginTypes, NEW p \in Plugins
  PROVE  Tracker(p) \in Names
<1>1. CASE stack = <<>>
  BY <1>1 DEF Tracker, Names
<1>2. CASE stack # <<>>
  <2>1. Last(stack) \in Plugins
    BY <1>2 DEF Last, PluginTypes
  <2> QED
    BY <2>1 DEF Tracker, Names
<1> QED
  BY <1>1, <1>2

\* The top of the stack goes.
LEMMA PopIs ==
  ASSUME PluginTypes, Numbered, Stacked, NEW p \in Plugins, Loading(p), PopLoad(p)
  PROVE  /\ applying' \in [Plugins -> [load : Nat, effects : Nat, threw : BOOLEAN]]
         /\ applying'[p] = NotLoading
         /\ \A q \in Plugins : q # p => applying'[q] = applying[q]
         /\ stack' \in Seq(Plugins) /\ Len(stack) > 0 /\ Len(stack') = Len(stack) - 1
         /\ \A i \in 1..Len(stack') : i \in 1..Len(stack) /\ stack'[i] = stack[i]
         /\ Stacked'
<1>1. /\ applying' = [applying EXCEPT ![p] = NotLoading] /\ stack' = Front(stack)
  BY DEF PopLoad
<1>2. /\ applying' \in [Plugins -> [load : Nat, effects : Nat, threw : BOOLEAN]]
      /\ applying'[p] = NotLoading
      /\ \A q \in Plugins : q # p => applying'[q] = applying[q]
  <2>1. NotLoading \in [load : Nat, effects : Nat, threw : BOOLEAN]
    BY DEF NotLoading
  <2>2. applying \in [Plugins -> [load : Nat, effects : Nat, threw : BOOLEAN]]
    BY DEF PluginTypes
  <2> QED
    BY <1>1, <2>1, <2>2
<1> DEFINE now == {q \in Plugins : Loading(q)}
           then == {q \in Plugins : applying'[q] # NotLoading}
<1>3. then = now \ {p}
  BY <1>2 DEF Loading
<1>4. p \in now /\ IsFiniteSet(now) /\ Cardinality(now) = Len(stack)
  BY DEF Stacked
<1>5. stack \in Seq(Plugins) /\ Len(stack) \in Nat
  BY DEF PluginTypes
<1> HIDE DEF now, then
<1>6. /\ IsFiniteSet(then) /\ Cardinality(then) = Len(stack) - 1
  BY <1>3, <1>4, FS_RemoveElement
<1>7. Len(stack) > 0
  BY <1>4, <1>5, FS_EmptySet
<1>8. /\ stack' \in Seq(Plugins) /\ Len(stack') = Len(stack) - 1
      /\ \A i \in 1..(Len(stack) - 1) : stack'[i] = stack[i]
  BY <1>1, <1>5, <1>7, FrontIs
<1>9. Stacked'
  <2>1. {q \in Plugins : Loading(q)}' = then
    BY DEF Loading, then
  <2> QED
    BY <1>6, <1>8, <2>1 DEF Stacked
<1>10. \A i \in 1..Len(stack') : i \in 1..Len(stack) /\ stack'[i] = stack[i]
  BY <1>5, <1>8
<1> QED
  BY <1>2, <1>7, <1>8, <1>9, <1>10

Basic == PluginTypes /\ Numbered /\ Stacked /\ FailureQuiet

\* Nothing is done to the loads.
LEMMA LoadsKept ==
  ASSUME Basic, PluginTypes', applying' = applying, stack' = stack, loads' = loads,
         live' \cup missed' \subseteq live \cup missed, setups' \subseteq live',
         \A p \in Plugins : unwinds[<<p, "failure">>] = <<>> => unwinds'[<<p, "failure">>] = <<>>
  PROVE  Basic'
<1>1. Stacked'
  BY DEF Basic, Stacked, Loading
<1>2. FailureQuiet'
  BY DEF Basic, FailureQuiet
<1>3. Numbered'
  <2>1. Numbered
    BY DEF Basic
  <2> QED
    BY <2>1 DEF Numbered
<1> QED
  BY <1>1, <1>2, <1>3 DEF Basic

LEMMA BasicStarts ==
  ASSUME Basic, NEW p \in Plugins, StartLoad(p)
  PROVE  /\ Basic' /\ ~Loading(p) /\ Loading(p)'
         /\ \A q \in Plugins : q # p => applying'[q] = applying[q]
         /\ Len(stack') = Len(stack) + 1 /\ stack'[Len(stack) + 1] = p
         /\ \A i \in 1..Len(stack) : stack'[i] = stack[i]
         /\ applying'[p].load = loads + 1 /\ applying'[p].effects = 0 /\ ~applying'[p].threw
<1>1. /\ ~Loading(p) /\ loads' = loads + 1
      /\ record' = [record EXCEPT ![p] = "loading"]
      /\ disposers' = [disposers EXCEPT ![p] = <<>>]
      /\ loadOrder' = Append(loadOrder, p) /\ stack' = Append(stack, p)
      /\ applying' = [applying EXCEPT ![p].load = loads + 1]
      /\ overlapped' = (overlapped \/ Busy)
      /\ unwinds' = unwinds /\ closing' = closing /\ disposal' = disposal /\ live' = live
      /\ setups' = setups /\ missed' = missed /\ cut' = (cut \/ disposers[p] # <<>>)
  BY DEF StartLoad
<1>2. PluginTypes /\ p \in Names
  BY OwnersAre DEF Basic
<1>3. /\ applying \in [Plugins -> [load : Nat, effects : Nat, threw : BOOLEAN]] /\ loads \in Nat
      /\ applying[p] = [load |-> 0, effects |-> 0, threw |-> FALSE]
  BY <1>1, <1>2 DEF Loading, NotLoading, PluginTypes
<1>4. /\ applying' \in [Plugins -> [load : Nat, effects : Nat, threw : BOOLEAN]]
      /\ \A q \in Plugins : q # p => applying'[q] = applying[q]
      /\ applying'[p].load = loads + 1 /\ applying'[p].effects = 0 /\ ~applying'[p].threw
      /\ applying'[p] # NotLoading
  <2> DEFINE next == loads + 1
  <2>1. next \in Nat /\ next # 0
    BY <1>3
  <2>2. applying' = [applying EXCEPT ![p].load = next]
    BY <1>1
  <2> HIDE DEF next
  <2>3. /\ applying' \in [Plugins -> [load : Nat, effects : Nat, threw : BOOLEAN]]
        /\ \A q \in Plugins : q # p => applying'[q] = applying[q]
        /\ applying'[p].load = next /\ applying'[p].effects = applying[p].effects
        /\ applying'[p].threw = applying[p].threw
    BY <1>3, <2>1, <2>2
  <2>4. applying'[p] # NotLoading
    BY <2>1, <2>3 DEF NotLoading
  <2> QED
    BY <1>3, <2>3, <2>4 DEF next
<1>5. PluginTypes'
  <2>1. /\ record' \in [Plugins -> {"absent", "loading", "active", "failed", "disposing"}]
        /\ disposers' \in [Names -> Seq(EffectSet)]
        /\ loadOrder' \in Seq(Plugins) /\ stack' \in Seq(Plugins) /\ loads' \in Nat
    <3>1. disposers \in [Names -> Seq(EffectSet)] /\ <<>> \in Seq(EffectSet)
      BY <1>2 DEF PluginTypes
    <3>2. disposers' \in [Names -> Seq(EffectSet)]
      BY <1>1, <1>2, <3>1
    <3>3. /\ record' \in [Plugins -> {"absent", "loading", "active", "failed", "disposing"}]
          /\ loads' \in Nat
      BY <1>1, <1>2 DEF PluginTypes
    <3>4. loadOrder' \in Seq(Plugins) /\ stack' \in Seq(Plugins)
      BY <1>1, <1>2 DEF PluginTypes
    <3> QED
      BY <3>2, <3>3, <3>4
  <2>2. overlapped' \in BOOLEAN
    BY <1>1, <1>2 DEF PluginTypes, Busy
  <2> QED
    BY <1>1, <1>2, <1>4, <2>1, <2>2 DEF PluginTypes
<1>6. Numbered'
  <2>1. Numbered
    BY DEF Basic
  <2>2. ASSUME NEW e \in live \cup missed
        PROVE  e.load <= loads' /\ e.load > 0
               /\ (e.load = applying'[e.by].load => e.n <= applying'[e.by].effects)
    <3>1. e \in EffectSet
      BY <1>2 DEF PluginTypes
    <3>2. e.by \in Plugins /\ e.load \in Nat
      BY <3>1 DEF EffectSet
    <3>3. e.load <= loads /\ e.load > 0 /\ (e.load = applying[e.by].load => e.n <= applying[e.by].effects)
      BY <2>1 DEF Numbered
    <3>4. e.load # loads + 1 /\ e.load <= loads + 1
      BY <1>3, <3>2, <3>3
    <3>5. CASE e.by = p
      BY <1>1, <1>3, <1>4, <3>3, <3>4, <3>5
    <3>6. CASE e.by # p
      BY <1>1, <1>4, <3>2, <3>3, <3>4, <3>6
    <3> QED
      BY <3>5, <3>6
  <2>3. ASSUME NEW q \in Plugins
        PROVE  /\ applying'[q].load <= loads'
               /\ applying'[q].threw => applying'[q].load > 0
               /\ applying'[q].load = 0 => applying'[q] = NotLoading
    <3>1. CASE q = p
      BY <1>1, <1>3, <1>4, <3>1
    <3>2. CASE q # p
      <4>1. /\ applying[q].load <= loads
            /\ applying[q].threw => applying[q].load > 0
            /\ applying[q].load = 0 => applying[q] = NotLoading
        BY <2>1 DEF Numbered
      <4>2. applying[q].load \in Nat
        BY <1>2 DEF PluginTypes
      <4> QED
        BY <1>1, <1>3, <1>4, <3>2, <4>1, <4>2
    <3> QED
      BY <3>1, <3>2
  <2> QED
    BY <1>1, <2>1, <2>2, <2>3 DEF Numbered
<1>7. /\ stack \in Seq(Plugins) /\ Len(stack') = Len(stack) + 1 /\ stack'[Len(stack) + 1] = p
      /\ \A i \in 1..Len(stack) : stack'[i] = stack[i]
  BY <1>1, <1>2 DEF PluginTypes
<1>8. Stacked'
  <2> DEFINE now == {q \in Plugins : Loading(q)}
             then == {q \in Plugins : applying'[q] # NotLoading}
  <2>1. then = now \cup {p} /\ p \notin now
    BY <1>1, <1>3, <1>4 DEF Loading
  <2>2. IsFiniteSet(now) /\ Cardinality(now) = Len(stack)
    BY DEF Basic, Stacked
  <2>3. {q \in Plugins : Loading(q)}' = then
    BY DEF Loading
  <2> HIDE DEF now, then
  <2>4. IsFiniteSet(then) /\ Cardinality(then) = Len(stack) + 1
    BY <2>1, <2>2, FS_AddElement
  <2> QED
    BY <1>7, <2>3, <2>4 DEF Stacked
<1>9. FailureQuiet'
  <2>1. ~applying[p].threw
    BY <1>1 DEF Loading, NotLoading
  <2> QED
    BY <1>1, <1>3, <1>4, <2>1 DEF Basic, FailureQuiet
<1> QED
  BY <1>1, <1>4, <1>5, <1>6, <1>7, <1>8, <1>9 DEF Basic, Loading

\* A registration: a new effect in force, in the list of whoever is on top.
LEMMA BasicRegisters ==
  ASSUME Basic, NEW p \in Plugins, Register(p)
  PROVE  LET e == Effect(p, applying[p].load, applying[p].effects + 1)
         IN  /\ Basic' /\ Loading(p) /\ ~applying[p].threw
             /\ e \in EffectSet /\ e \notin live \cup missed
             /\ e.by = p /\ e.load = applying[p].load /\ e.n = applying[p].effects + 1
             /\ live' = live \cup {e} /\ Tracker(p) \in Names
             /\ disposers' = [disposers EXCEPT ![Tracker(p)] = Append(@, e)]
             /\ \A q \in Plugins : /\ q # p => applying'[q] = applying[q]
                                   /\ applying'[q].load = applying[q].load
                                   /\ applying'[q].threw = applying[q].threw
                                   /\ Loading(q)' <=> Loading(q)
             /\ applying'[p].effects = applying[p].effects + 1
<1> DEFINE e == Effect(p, applying[p].load, applying[p].effects + 1)
           more == applying[p].effects + 1
<1>1. /\ Loading(p) /\ ~applying[p].threw /\ live' = live \cup {e}
      /\ setups' = (IF p \in Async THEN setups \cup {e} ELSE setups)
      /\ disposers' = [disposers EXCEPT ![Tracker(p)] = Append(@, e)]
      /\ applying' = [applying EXCEPT ![p].effects = @ + 1]
      /\ cut' = cut
      /\ record' = record /\ loadOrder' = loadOrder /\ stack' = stack /\ unwinds' = unwinds
      /\ closing' = closing /\ disposal' = disposal /\ missed' = missed
      /\ overlapped' = overlapped /\ loads' = loads
  BY DEF Register
<1>2. PluginTypes /\ Numbered /\ Tracker(p) \in Names
  BY TrackerIs DEF Basic
<1>3. applying \in [Plugins -> [load : Nat, effects : Nat, threw : BOOLEAN]]
  BY <1>2 DEF PluginTypes
<1>4. more \in Nat /\ more = applying[p].effects + 1 /\ applying[p].load \in Nat /\ applying[p].effects \in Nat
  BY <1>3
<1>5. e \in EffectSet /\ e.by = p /\ e.load = applying[p].load /\ e.n = more
  BY <1>4 DEF Effect, EffectSet
<1>6. e \notin live \cup missed
  <2>1. e \in live \cup missed => e.n <= applying[p].effects
    BY <1>2, <1>5 DEF Numbered
  <2> QED
    BY <1>4, <1>5, <2>1
<1>7. applying' = [applying EXCEPT ![p].effects = more]
  BY <1>1, <1>3
<1> HIDE DEF e, more
<1>8. /\ applying' \in [Plugins -> [load : Nat, effects : Nat, threw : BOOLEAN]]
      /\ \A q \in Plugins : q # p => applying'[q] = applying[q]
      /\ applying'[p].effects = more
      /\ \A q \in Plugins : applying'[q].load = applying[q].load /\ applying'[q].threw = applying[q].threw
  BY <1>3, <1>4, <1>7
<1>9. \A q \in Plugins : Loading(q)' <=> Loading(q)
  <2>1. applying'[p] # NotLoading
    BY <1>4, <1>8 DEF NotLoading
  <2> QED
    BY <1>1, <1>8, <2>1 DEF Loading
<1>10. PluginTypes'
  <2>1. disposers' \in [Names -> Seq(EffectSet)]
    <3>1. disposers \in [Names -> Seq(EffectSet)]
      BY <1>2 DEF PluginTypes
    <3>2. Append(disposers[Tracker(p)], e) \in Seq(EffectSet)
      BY <1>2, <1>5, <3>1
    <3> QED
      BY <1>1, <1>2, <3>1, <3>2
  <2>2. live' \subseteq EffectSet /\ setups' \subseteq EffectSet /\ cut' \in BOOLEAN
    BY <1>1, <1>2, <1>5 DEF PluginTypes
  <2> QED
    BY <1>1, <1>2, <1>8, <2>1, <2>2 DEF PluginTypes
<1>11. Numbered'
  <2>1. ASSUME NEW f \in live' \cup missed'
        PROVE  f.load <= loads' /\ f.load > 0
               /\ (f.load = applying'[f.by].load => f.n <= applying'[f.by].effects)
    <3>1. CASE f = e
      <4>1. applying[p].load > 0 /\ applying[p].load <= loads
        <5>1. applying[p].load # 0 /\ applying[p].load <= loads
          BY <1>1, <1>2 DEF Numbered, Loading
        <5> QED
          BY <1>4, <5>1
      <4>2. f.n = more /\ applying'[f.by].effects = more /\ f.load = applying[p].load
        BY <1>5, <1>8, <3>1
      <4> QED
        BY <1>1, <1>4, <4>1, <4>2
    <3>2. CASE f \in live \cup missed
      <4>1. f.load <= loads /\ f.load > 0 /\ (f.load = applying[f.by].load => f.n <= applying[f.by].effects)
        BY <1>2, <3>2 DEF Numbered
      <4>2. f.by \in Plugins /\ f.n \in Nat
        BY <1>2, <3>2 DEF PluginTypes, EffectSet
      <4>3. CASE f.by = p
        BY <1>1, <1>4, <1>8, <4>1, <4>2, <4>3
      <4>4. CASE f.by # p
        BY <1>1, <1>8, <4>1, <4>2, <4>4
      <4> QED
        BY <4>3, <4>4
    <3> QED
      BY <1>1, <3>1, <3>2
  <2>2. ASSUME NEW q \in Plugins
        PROVE  /\ applying'[q].load <= loads'
               /\ applying'[q].threw => applying'[q].load > 0
               /\ applying'[q].load = 0 => applying'[q] = NotLoading
    <3>1. /\ applying[q].load <= loads
          /\ applying[q].threw => applying[q].load > 0
          /\ applying[q].load = 0 => applying[q] = NotLoading
      BY <1>2 DEF Numbered
    <3> QED
      BY <1>1, <1>8, <3>1 DEF Loading
  <2> QED
    BY <1>1, <1>2, <2>1, <2>2 DEF Numbered
<1>12. Stacked'
  <2>1. {q \in Plugins : Loading(q)}' = {q \in Plugins : Loading(q)}
    BY <1>9
  <2> QED
    BY <1>1, <2>1 DEF Basic, Stacked
<1>13. FailureQuiet'
  BY <1>1, <1>8 DEF Basic, FailureQuiet
<1> QED
  BY <1>1, <1>2, <1>4, <1>5, <1>6, <1>8, <1>9, <1>10, <1>11, <1>12, <1>13 DEF Basic, e, more

\* The end of a load, well or not.
LEMMA BasicPops ==
  ASSUME Basic, NEW p \in Plugins, Loading(p), PopLoad(p),
         record' \in [Plugins -> {"absent", "loading", "active", "failed", "disposing"}],
         unwinds[<<p, "failure">>] = <<>>,
         UNCHANGED <<disposers, loadOrder, unwinds, closing, disposal, live, setups, missed,
                     overlapped, cut, loads>>
  PROVE  Basic'
<1>1. PluginTypes /\ Numbered /\ Stacked /\ FailureQuiet
  BY DEF Basic
<1>2. /\ applying' \in [Plugins -> [load : Nat, effects : Nat, threw : BOOLEAN]]
      /\ applying'[p] = NotLoading
      /\ \A q \in Plugins : q # p => applying'[q] = applying[q]
      /\ stack' \in Seq(Plugins) /\ Stacked'
  BY <1>1, PopIs
<1>3. PluginTypes'
  BY <1>1, <1>2 DEF PluginTypes
<1>4. Numbered'
  <2>1. ASSUME NEW f \in live \cup missed
        PROVE  f.load <= loads /\ f.load > 0
               /\ (f.load = applying'[f.by].load => f.n <= applying'[f.by].effects)
    <3>1. f.load <= loads /\ f.load > 0 /\ (f.load = applying[f.by].load => f.n <= applying[f.by].effects)
      BY <1>1 DEF Numbered
    <3>2. f.by \in Plugins /\ f.load \in Nat
      BY <1>1 DEF PluginTypes, EffectSet
    <3>3. NotLoading.load = 0
      BY DEF NotLoading
    <3>4. f.by = p => f.load # applying'[f.by].load
      BY <1>2, <3>1, <3>2, <3>3
    <3> QED
      BY <1>2, <3>1, <3>2, <3>4
  <2>2. ASSUME NEW q \in Plugins
        PROVE  /\ applying'[q].load <= loads
               /\ applying'[q].threw => applying'[q].load > 0
               /\ applying'[q].load = 0 => applying'[q] = NotLoading
    <3>1. /\ applying[q].load <= loads
          /\ applying[q].threw => applying[q].load > 0
          /\ applying[q].load = 0 => applying[q] = NotLoading
      BY <1>1 DEF Numbered
    <3>2. loads \in Nat /\ NotLoading.load = 0 /\ NotLoading.threw = FALSE
      BY <1>1 DEF PluginTypes, NotLoading
    <3>3. CASE q = p
      <4>1. applying'[q] = NotLoading
        BY <1>2, <3>3
      <4>2. ~applying'[q].threw
        BY <3>2, <4>1, Zenon
      <4>3. applying'[q].load <= loads
        BY <3>2, <4>1
      <4> QED
        BY <4>1, <4>2, <4>3
    <3>4. CASE q # p
      BY <1>2, <3>1, <3>4
    <3> QED
      BY <3>3, <3>4
  <2> QED
    BY <1>1, <2>1, <2>2 DEF Numbered
<1>5. FailureQuiet'
  BY <1>1, <1>2 DEF FailureQuiet
<1> QED
  BY <1>2, <1>3, <1>4, <1>5 DEF Basic

LEMMA BasicFails ==
  ASSUME Basic, NEW p \in Plugins, LoadFails(p)
  PROVE  /\ Basic'
         /\ \A q \in Plugins : /\ q # p => applying'[q] = applying[q]
                               /\ applying'[q].load = applying[q].load
                               /\ applying'[q].effects = applying[q].effects
                               /\ Loading(q)' <=> Loading(q)
         /\ applying'[p].threw
<1>1. /\ Loading(p) /\ ~applying[p].threw
      /\ applying' = [applying EXCEPT ![p].threw = TRUE]
      /\ loadOrder' = loadOrder /\ stack' = stack /\ closing' = closing /\ disposal' = disposal
      /\ live' = live /\ setups' = setups /\ missed' = missed
      /\ overlapped' = overlapped /\ cut' = cut /\ loads' = loads
      /\ record' = [record EXCEPT ![p] = IF @ = "loading" THEN "failed" ELSE @]
      /\ unwinds' = [unwinds EXCEPT ![<<p, "failure">>] = Unwinding(disposers[p])]
      /\ disposers' = [disposers EXCEPT ![p] = <<>>]
  BY DEF LoadFails
<1>2. PluginTypes /\ Numbered /\ Stacked /\ FailureQuiet
  BY DEF Basic
<1>3. applying \in [Plugins -> [load : Nat, effects : Nat, threw : BOOLEAN]] /\ TRUE \in BOOLEAN
  BY <1>2 DEF PluginTypes
<1>4. /\ applying' \in [Plugins -> [load : Nat, effects : Nat, threw : BOOLEAN]]
      /\ \A q \in Plugins : q # p => applying'[q] = applying[q]
      /\ \A q \in Plugins : applying'[q].load = applying[q].load /\ applying'[q].effects = applying[q].effects
  BY <1>1, <1>3
<1>5. applying'[p].threw
  BY <1>1, <1>3
<1>6. applying[p].load > 0
  <2>1. applying[p].load # 0
    BY <1>1, <1>2 DEF Numbered, Loading
  <2> QED
    BY <1>3, <2>1
<1>7. \A q \in Plugins : Loading(q)' <=> Loading(q)
  <2>1. applying'[p] # NotLoading
    BY <1>4, <1>6 DEF NotLoading
  <2> QED
    BY <1>1, <1>4, <2>1 DEF Loading
<1>8. PluginTypes'
  <2>1. /\ record' \in [Plugins -> {"absent", "loading", "active", "failed", "disposing"}]
        /\ disposers' \in [Names -> Seq(EffectSet)] /\ unwinds' \in [Owners -> Seq(EffectSet)]
    <3>1. /\ p \in Names /\ <<p, "failure">> \in Owners /\ disposers[p] \in Seq(EffectSet)
          /\ Unwinding(disposers[p]) \in Seq(EffectSet) /\ <<>> \in Seq(EffectSet)
      <4>1. p \in Names /\ disposers[p] \in Seq(EffectSet)
        BY <1>2, OwnersAre DEF PluginTypes
      <4>2. Unwinding(disposers[p]) \in Seq(EffectSet)
        BY <4>1, UnwindingIs
      <4>3. <<p, "failure">> \in Owners
        BY OwnersAre
      <4>4. <<>> \in Seq(EffectSet)
        OBVIOUS
      <4> QED
        BY <4>1, <4>2, <4>3, <4>4
    <3> HIDE DEF Unwinding
    <3> QED
      BY <1>1, <1>2, <3>1 DEF PluginTypes
  <2> QED
    BY <1>1, <1>2, <1>4, <2>1 DEF PluginTypes
<1>9. Numbered'
  <2>1. ASSUME NEW q \in Plugins
        PROVE  /\ applying'[q].load <= loads'
               /\ applying'[q].threw => applying'[q].load > 0
               /\ applying'[q].load = 0 => applying'[q] = NotLoading
    <3>1. /\ applying[q].load <= loads
          /\ applying[q].threw => applying[q].load > 0
          /\ applying[q].load = 0 => applying[q] = NotLoading
      BY <1>2 DEF Numbered
    <3> QED
      BY <1>1, <1>4, <1>6, <3>1
  <2>2. \A e \in live \cup missed : e.by \in Plugins
    BY <1>2 DEF PluginTypes, EffectSet
  <2>3. \A e \in live \cup missed :
          /\ e.load <= loads /\ e.load > 0
          /\ e.load = applying[e.by].load => e.n <= applying[e.by].effects
    BY <1>2 DEF Numbered
  <2>4. live' \cup missed' = live \cup missed /\ loads' = loads
    BY <1>1
  <2>5. \A e \in live \cup missed :
          /\ e.load <= loads /\ e.load > 0
          /\ e.load = applying'[e.by].load => e.n <= applying'[e.by].effects
    BY <1>4, <2>2, <2>3
  <2>6. setups' \subseteq live'
    BY <1>1, <1>2 DEF Numbered
  <2> QED
    BY <2>1, <2>4, <2>5, <2>6 DEF Numbered
<1>10. Stacked'
  <2>1. {q \in Plugins : Loading(q)}' = {q \in Plugins : Loading(q)}
    BY <1>7
  <2> QED
    BY <1>1, <1>2, <2>1 DEF Stacked
<1>11. FailureQuiet'
  <2>1. ASSUME NEW q \in Plugins, q # p
        PROVE  unwinds'[<<q, "failure">>] = unwinds[<<q, "failure">>]
    <3>1. <<q, "failure">> # <<p, "failure">> /\ <<q, "failure">> \in Owners
      BY <2>1, OwnersAre
    <3>2. unwinds \in [Owners -> Seq(EffectSet)]
      BY <1>2 DEF PluginTypes
    <3> QED
      BY <1>1, <3>1, <3>2
  <2> QED
    BY <1>2, <1>4, <1>5, <2>1 DEF FailureQuiet
<1> QED
  BY <1>4, <1>5, <1>7, <1>8, <1>9, <1>10, <1>11 DEF Basic

LEMMA BasicUnloads ==
  ASSUME Basic, NEW p \in Plugins, BeginUnload(p), overlapped' \in BOOLEAN,
         closing' \in Seq(Plugins),
         UNCHANGED <<loadOrder, stack, applying, disposal, live, setups, missed, loads>>
  PROVE  Basic'
<1>1. /\ record' = [record EXCEPT ![p] = "disposing"]
      /\ unwinds' = [unwinds EXCEPT ![<<p, "unload">>] = @ \o Unwinding(disposers[p])]
      /\ disposers' = [disposers EXCEPT ![p] = <<>>]
      /\ cut' = (cut \/ \E q \in Plugins : Loading(q))
  BY DEF BeginUnload
<1>2. PluginTypes
  BY DEF Basic
<1>3. /\ disposers \in [Names -> Seq(EffectSet)] /\ unwinds \in [Owners -> Seq(EffectSet)]
      /\ p \in Names /\ <<p, "unload">> \in Owners
  BY <1>2, OwnersAre DEF PluginTypes
<1>4. disposers' \in [Names -> Seq(EffectSet)]
  <2>1. <<>> \in Seq(EffectSet)
    OBVIOUS
  <2> QED
    BY <1>1, <1>3, <2>1
<1>5. unwinds' \in [Owners -> Seq(EffectSet)]
  <2>1. disposers[p] \in Seq(EffectSet) /\ unwinds[<<p, "unload">>] \in Seq(EffectSet)
    BY <1>3
  <2>2. Unwinding(disposers[p]) \in Seq(EffectSet)
    BY <2>1, UnwindingIs
  <2> DEFINE both == unwinds[<<p, "unload">>] \o Unwinding(disposers[p])
  <2>3. both \in Seq(EffectSet)
    BY <2>1, <2>2
  <2>4. unwinds' = [unwinds EXCEPT ![<<p, "unload">>] = both]
    BY <1>1, <1>3
  <2> HIDE DEF both
  <2> QED
    BY <1>3, <2>3, <2>4
<1>6. record' \in [Plugins -> {"absent", "loading", "active", "failed", "disposing"}] /\ cut' \in BOOLEAN
  BY <1>1, <1>2 DEF PluginTypes
<1>7. PluginTypes' /\ setups' \subseteq live'
  BY <1>2, <1>4, <1>5, <1>6 DEF PluginTypes, Basic, Numbered
<1>8. \A q \in Plugins : unwinds'[<<q, "failure">>] = unwinds[<<q, "failure">>]
  BY <1>1, <1>3, OwnersAre
<1> QED
  BY <1>7, <1>8, LoadsKept

LEMMA BasicDisposes ==
  ASSUME Basic, NEW o \in Owners, RunDisposer(o)
  PROVE  Basic'
<1>1. /\ unwinds[o] # <<>> /\ unwinds' = [unwinds EXCEPT ![o] = Tail(@)]
      /\ \/ missed' = missed \cup {Head(unwinds[o])} /\ live' = live /\ Head(unwinds[o]) \in setups
         \/ live' = live \ {Head(unwinds[o])} /\ missed' = missed
      /\ record' = record /\ disposers' = disposers /\ loadOrder' = loadOrder /\ stack' = stack
      /\ applying' = applying /\ closing' = closing /\ disposal' = disposal /\ setups' = setups
      /\ overlapped' = overlapped /\ cut' = cut /\ loads' = loads
  BY DEF RunDisposer
<1>2. PluginTypes
  BY DEF Basic
<1>3. unwinds \in [Owners -> Seq(EffectSet)] /\ unwinds[o] \in Seq(EffectSet)
  BY <1>2 DEF PluginTypes
<1>4. Tail(unwinds[o]) \in Seq(EffectSet) /\ Head(unwinds[o]) \in EffectSet
  BY <1>1, <1>3
<1>5. unwinds' \in [Owners -> Seq(EffectSet)]
  BY <1>1, <1>3, <1>4
<1>6. \A p \in Plugins : unwinds[<<p, "failure">>] = <<>> => unwinds'[<<p, "failure">>] = <<>>
  BY <1>1, <1>3, OwnersAre
<1>7. setups \subseteq live
  BY DEF Basic, Numbered
<1>8. /\ live' \cup missed' \subseteq live \cup missed /\ setups' \subseteq live'
      /\ live' \subseteq EffectSet /\ missed' \subseteq EffectSet
  BY <1>1, <1>2, <1>4, <1>7 DEF PluginTypes, RunDisposer
<1>9. PluginTypes'
  BY <1>1, <1>2, <1>5, <1>8 DEF PluginTypes
<1> QED
  BY <1>1, <1>6, <1>8, <1>9, LoadsKept

LEMMA BasicStep == Basic /\ [PluginNext]_pluginVars => Basic'
<1> SUFFICES ASSUME Basic, [PluginNext]_pluginVars PROVE Basic'
  OBVIOUS
<1>0. PluginTypes /\ FailureQuiet /\ setups \subseteq live
  BY DEF Basic, Numbered
<1>1. ASSUME NEW p \in Plugins, Loaded(p)
      PROVE  Basic'
  <2>1. /\ Loading(p) /\ ~applying[p].threw /\ PopLoad(p)
        /\ record' = [record EXCEPT ![p] = IF @ = "loading" THEN "active" ELSE @]
        /\ UNCHANGED <<disposers, loadOrder, unwinds, closing, disposal, live, setups, missed,
                     overlapped, cut, loads>>
    BY <1>1 DEF Loaded
  <2>2. record' \in [Plugins -> {"absent", "loading", "active", "failed", "disposing"}]
    BY <1>0, <2>1 DEF PluginTypes
  <2>3. unwinds[<<p, "failure">>] = <<>>
    BY <1>0, <2>1 DEF FailureQuiet
  <2> QED
    BY <2>1, <2>2, <2>3, BasicPops
<1>2. ASSUME NEW p \in Plugins, LoadFailed(p)
      PROVE  Basic'
  <2>1. /\ applying[p].threw /\ unwinds[<<p, "failure">>] = <<>> /\ PopLoad(p) /\ record' = record
        /\ UNCHANGED <<disposers, loadOrder, unwinds, closing, disposal, live, setups, missed,
                     overlapped, cut, loads>>
    BY <1>2 DEF LoadFailed
  <2>2. record' \in [Plugins -> {"absent", "loading", "active", "failed", "disposing"}]
    BY <1>0, <2>1 DEF PluginTypes
  <2>3. Loading(p)
    BY <2>1 DEF Loading, NotLoading
  <2> QED
    BY <2>1, <2>2, <2>3, BasicPops
<1>3. ASSUME NEW p \in Plugins, Unload(p)
      PROVE  Basic'
  <2>1. /\ BeginUnload(p) /\ overlapped' = (overlapped \/ Busy) /\ closing' = closing
        /\ UNCHANGED <<loadOrder, stack, applying, disposal, live, setups, missed, loads>>
    BY <1>3 DEF Unload
  <2>2. overlapped' \in BOOLEAN /\ closing' \in Seq(Plugins)
    BY <1>0, <2>1 DEF PluginTypes, Busy
  <2> QED
    BY <2>1, <2>2, BasicUnloads
<1>4. ASSUME NEW p \in Plugins, Unloaded(p)
      PROVE  Basic'
  <2> DEFINE i == SelectInSeq(loadOrder, LAMBDA q : q = p)
  <2>1. /\ record' = [record EXCEPT ![p] = "absent"] /\ disposers' = Without({p})
        /\ loadOrder' = (IF i = 0 THEN loadOrder ELSE RemoveAt(loadOrder, i))
        /\ UNCHANGED <<stack, applying, unwinds, closing, disposal, live, setups, missed, overlapped, cut, loads>>
    BY <1>4 DEF Unloaded
  <2>2. loadOrder \in Seq(Plugins) /\ (i = 0 \/ i \in 1..Len(loadOrder))
    <3>1. loadOrder \in Seq(Plugins)
      BY <1>0 DEF PluginTypes
    <3>2. i = 0 \/ (i \in 1..Len(loadOrder) /\ loadOrder[i] = p)
      BY <3>1, FirstIn, Zenon
    <3> QED
      BY <3>1, <3>2
  <2> HIDE DEF i
  <2>3. loadOrder' \in Seq(Plugins)
    <3>1. i # 0 => RemoveAt(loadOrder, i) \in Seq(Plugins)
      BY <2>2, RemoveIs
    <3> QED
      BY <2>1, <2>2, <3>1
  <2>4. disposers' \in [Names -> Seq(EffectSet)]
    <3>1. disposers \in [Names -> Seq(EffectSet)] /\ p \in Names
      BY <1>0, OwnersAre DEF PluginTypes
    <3>2. <<>> \in Seq(EffectSet)
      OBVIOUS
    <3> QED
      BY <2>1, <3>1, <3>2 DEF Without
  <2>5. record' \in [Plugins -> {"absent", "loading", "active", "failed", "disposing"}]
    BY <1>0, <2>1 DEF PluginTypes
  <2>6. PluginTypes'
    BY <1>0, <2>1, <2>3, <2>4, <2>5 DEF PluginTypes
  <2> QED
    BY <1>0, <2>1, <2>6, LoadsKept
<1>5. ASSUME NEW e \in setups, SetupResolves(e)
      PROVE  Basic'
  <2>1. PluginTypes'
    BY <1>0, <1>5 DEF SetupResolves, PluginTypes
  <2> QED
    BY <1>0, <1>5, <2>1, LoadsKept DEF SetupResolves
<1>6. CASE Dispose
  <2>1. closing' = Reverse(loadOrder) /\ closing' \in Seq(Plugins)
    <3>1. loadOrder \in Seq(Plugins)
      BY <1>0 DEF PluginTypes
    <3> QED
      BY <1>6, <3>1, ReverseIs DEF Dispose
  <2>2. overlapped' \in BOOLEAN
    BY <1>0, <1>6 DEF Dispose, Busy, PluginTypes
  <2>3. /\ UNCHANGED <<record, disposers, loadOrder, stack, applying, unwinds, live, setups, missed, cut, loads>>
        /\ disposal' = "plugins"
    BY <1>6 DEF Dispose
  <2>4. PluginTypes'
    BY <1>0, <2>1, <2>2, <2>3 DEF PluginTypes
  <2> QED
    BY <1>0, <2>3, <2>4, LoadsKept
<1>7. CASE DisposeNext
  <2>1. /\ closing # <<>>
        /\ UNCHANGED <<loadOrder, stack, applying, disposal, live, setups, missed, overlapped, loads>>
    BY <1>7 DEF DisposeNext
  <2>2. closing \in Seq(Plugins) /\ Head(closing) \in Plugins /\ Tail(closing) \in Seq(Plugins)
    BY <1>0, <2>1 DEF PluginTypes
  <2>3. CASE closing' = Tail(closing) /\ UNCHANGED <<record, unwinds, disposers, cut>>
    <3>1. PluginTypes'
      BY <1>0, <2>1, <2>2, <2>3 DEF PluginTypes
    <3> QED
      BY <1>0, <2>1, <2>3, <3>1, LoadsKept
  <2>4. CASE BeginUnload(Head(closing)) /\ UNCHANGED closing
    <3>1. overlapped' \in BOOLEAN /\ closing' \in Seq(Plugins)
      BY <1>0, <2>1, <2>4 DEF PluginTypes
    <3> QED
      BY <2>1, <2>2, <2>4, <3>1, BasicUnloads
  <2> QED
    BY <1>7, <2>3, <2>4 DEF DisposeNext
<1>8. CASE DisposeGlobal
  <2>1. /\ disposal' = "global"
        /\ unwinds' = [unwinds EXCEPT ![<<"global", "unload">>] = Unwinding(disposers["global"])]
        /\ disposers' = [disposers EXCEPT !["global"] = <<>>]
        /\ UNCHANGED <<record, loadOrder, stack, applying, closing, live, setups, missed, overlapped, cut, loads>>
    BY <1>8 DEF DisposeGlobal
  <2>2. /\ disposers \in [Names -> Seq(EffectSet)] /\ unwinds \in [Owners -> Seq(EffectSet)]
        /\ disposers["global"] \in Seq(EffectSet) /\ <<>> \in Seq(EffectSet)
    BY <1>0, OwnersAre DEF PluginTypes
  <2>3. Unwinding(disposers["global"]) \in Seq(EffectSet)
    BY <2>2, UnwindingIs
  <2>4. disposers' \in [Names -> Seq(EffectSet)] /\ unwinds' \in [Owners -> Seq(EffectSet)]
    BY <2>1, <2>2, <2>3
  <2>5. PluginTypes'
    BY <1>0, <2>1, <2>4 DEF PluginTypes
  <2>6. \A p \in Plugins : unwinds'[<<p, "failure">>] = unwinds[<<p, "failure">>]
    BY <2>1, <2>2, OwnersAre
  <2> QED
    BY <1>0, <2>1, <2>5, <2>6, LoadsKept
<1>9. CASE DisposeEnds
  <2>1. /\ disposal' = "closed" /\ record' = [p \in Plugins |-> "absent"]
        /\ disposers' = Without(Plugins)
        /\ loadOrder' = <<>>
        /\ UNCHANGED <<stack, applying, unwinds, closing, live, setups, missed, overlapped, cut, loads>>
    BY <1>9 DEF DisposeEnds
  <2>2. disposers' \in [Names -> Seq(EffectSet)]
    <3>1. disposers \in [Names -> Seq(EffectSet)] /\ <<>> \in Seq(EffectSet)
      BY <1>0 DEF PluginTypes
    <3> QED
      BY <2>1, <3>1 DEF Without
  <2>3. loadOrder' \in Seq(Plugins) /\ record' \in [Plugins -> {"absent", "loading", "active", "failed", "disposing"}]
    BY <2>1
  <2>4. PluginTypes'
    BY <1>0, <2>1, <2>2, <2>3 DEF PluginTypes
  <2> QED
    BY <1>0, <2>1, <2>4, LoadsKept
<1>10. CASE UNCHANGED pluginVars
  <2>1. PluginTypes'
    BY <1>0, <1>10 DEF pluginVars, PluginTypes
  <2> QED
    BY <1>0, <1>10, <2>1, LoadsKept DEF pluginVars
<1> QED
  BY <1>1, <1>2, <1>3, <1>4, <1>5, <1>6, <1>7, <1>8, <1>9, <1>10,
     BasicStarts, BasicRegisters, BasicFails, BasicDisposes DEF PluginNext

\* The lists of disposers that are still to run: each effect that is in one of
\* them is in no other place of them.
Slots == ({"list"} \X Names) \cup ({"unwind"} \X Owners)
ListsIn(d, u) == [s \in Slots |-> IF s[1] = "list" THEN d[s[2]] ELSE u[s[2]]]
Apiece(L) ==
  \A s, t \in Slots : \A i \in 1..Len(L[s]) : \A j \in 1..Len(L[t]) :
    L[s][i] = L[t][j] => s = t /\ i = j
Somewhere(L, e) == \E s \in Slots : \E i \in 1..Len(L[s]) : L[s][i] = e
Once(L, S) == Apiece(L) /\ \A e \in EffectSet : e \in S <=> Somewhere(L, e)

LEMMA OnceAppended ==
  ASSUME NEW L \in [Slots -> Seq(EffectSet)], NEW S, Once(L, S), NEW a \in Slots,
         NEW e \in EffectSet, e \notin S, NEW M,
         M[a] = Append(L[a], e), \A s \in Slots : s # a => M[s] = L[s]
  PROVE  Once(M, S \cup {e})
<1> DEFINE n == Len(L[a])
<1>1. /\ n \in Nat /\ Len(M[a]) = n + 1 /\ M[a][n + 1] = e
      /\ \A i \in 1..n : M[a][i] = L[a][i]
  OBVIOUS
<1> HIDE DEF n
<1>2. \A s \in Slots : \A i \in 1..Len(L[s]) : L[s][i] # e
  <2>1. ~Somewhere(L, e)
    BY DEF Once
  <2> QED
    BY <2>1 DEF Somewhere
<1>3. ASSUME NEW s \in Slots, NEW i \in 1..Len(M[s])
      PROVE  \/ s = a /\ i = n + 1 /\ M[s][i] = e
             \/ i \in 1..Len(L[s]) /\ M[s][i] = L[s][i] /\ M[s][i] # e
  <2>1. CASE s # a
    BY <1>2, <2>1
  <2>2. CASE s = a /\ i = n + 1
    BY <1>1, <2>2
  <2>3. CASE s = a /\ i # n + 1
    <3>1. i \in 1..n /\ n = Len(L[s])
      BY <1>1, <2>3 DEF n
    <3> QED
      BY <1>1, <1>2, <2>3, <3>1
  <2> QED
    BY <2>1, <2>2, <2>3
<1>4. Apiece(M)
  <2> SUFFICES ASSUME NEW s \in Slots, NEW t \in Slots,
                      NEW i \in 1..Len(M[s]), NEW j \in 1..Len(M[t]), M[s][i] = M[t][j]
               PROVE  s = t /\ i = j
    BY DEF Apiece
  <2>1. CASE M[s][i] = e
    <3>1. s = a /\ i = n + 1
      BY <1>3, <2>1
    <3>2. t = a /\ j = n + 1
      BY <1>3, <2>1
    <3> QED
      BY <3>1, <3>2
  <2>2. CASE M[s][i] # e
    <3>1. i \in 1..Len(L[s]) /\ j \in 1..Len(L[t]) /\ L[s][i] = L[t][j]
      BY <1>3, <2>2
    <3> QED
      BY <3>1 DEF Once, Apiece
  <2> QED
    BY <2>1, <2>2
<1>5. ASSUME NEW f \in EffectSet
      PROVE  f \in S \cup {e} <=> Somewhere(M, f)
  <2>1. ASSUME Somewhere(M, f)
        PROVE  f \in S \cup {e}
    <3>0. PICK s \in Slots : \E i \in 1..Len(M[s]) : M[s][i] = f
      BY <2>1 DEF Somewhere
    <3>1. PICK i \in 1..Len(M[s]) : M[s][i] = f
      BY <3>0
    <3>2. f = e \/ Somewhere(L, f)
      BY <1>3, <3>1 DEF Somewhere
    <3> QED
      BY <3>2 DEF Once
  <2>2. Somewhere(M, e)
    <3>1. n + 1 \in 1..Len(M[a])
      BY <1>1
    <3> QED
      BY <1>1, <3>1 DEF Somewhere
  <2>3. ASSUME f \in S
        PROVE  Somewhere(M, f)
    <3>0. PICK s \in Slots : \E i \in 1..Len(L[s]) : L[s][i] = f
      BY <2>3 DEF Once, Somewhere
    <3>1. PICK i \in 1..Len(L[s]) : L[s][i] = f
      BY <3>0
    <3>2. i \in 1..Len(M[s]) /\ M[s][i] = f
      <4>1. CASE s = a
        <5>1. i \in 1..n
          BY <4>1 DEF n
        <5> QED
          BY <1>1, <3>1, <4>1, <5>1
      <4>2. CASE s # a
        BY <3>1, <4>2
      <4> QED
        BY <4>1, <4>2
    <3> QED
      BY <3>2 DEF Somewhere
  <2> QED
    BY <2>1, <2>2, <2>3
<1> QED
  BY <1>4, <1>5 DEF Once

LEMMA OnceTaken ==
  ASSUME NEW L \in [Slots -> Seq(EffectSet)], NEW S, Once(L, S), NEW a \in Slots, L[a] # <<>>,
         NEW M, M[a] = Tail(L[a]), \A s \in Slots : s # a => M[s] = L[s]
  PROVE  Head(L[a]) \in S /\ Once(M, S \ {Head(L[a])})
<1> DEFINE n == Len(L[a])
           e == Head(L[a])
<1>1. /\ n \in Nat /\ n > 0 /\ e = L[a][1] /\ e \in EffectSet /\ Len(M[a]) = n - 1
      /\ \A i \in 1..(n - 1) : M[a][i] = L[a][i + 1]
  <2>1. L[a] \in Seq(EffectSet)
    OBVIOUS
  <2> QED
    BY <2>1, TailIs
<1> HIDE DEF n, e
<1>2. 1 \in 1..Len(L[a]) /\ Somewhere(L, e) /\ e \in S
  <2>1. 1 \in 1..Len(L[a])
    BY <1>1 DEF n
  <2> QED
    BY <1>1, <2>1 DEF Once, Somewhere
<1>3. ASSUME NEW s \in Slots, NEW i \in 1..Len(M[s])
      PROVE  \E k \in 1..Len(L[s]) : /\ M[s][i] = L[s][k] /\ M[s][i] # e
                                     /\ k = IF s = a THEN i + 1 ELSE i
  <2>1. CASE s = a
    <3>1. i + 1 \in 1..Len(L[s]) /\ i \in 1..(n - 1) /\ i + 1 # 1
      BY <1>1, <2>1 DEF n
    <3>2. M[s][i] = L[s][i + 1]
      BY <1>1, <2>1, <3>1
    <3>3. L[s][i + 1] # e
      BY <1>1, <1>2, <2>1, <3>1 DEF Once, Apiece
    <3> QED
      BY <2>1, <3>1, <3>2, <3>3
  <2>2. CASE s # a
    <3>1. i \in 1..Len(L[s]) /\ M[s][i] = L[s][i]
      BY <2>2
    <3>2. L[s][i] # e
      BY <1>1, <1>2, <2>2, <3>1 DEF Once, Apiece
    <3> QED
      BY <2>2, <3>1, <3>2
  <2> QED
    BY <2>1, <2>2
<1>4. Apiece(M)
  <2> SUFFICES ASSUME NEW s \in Slots, NEW t \in Slots,
                      NEW i \in 1..Len(M[s]), NEW j \in 1..Len(M[t]), M[s][i] = M[t][j]
               PROVE  s = t /\ i = j
    BY DEF Apiece
  <2>1. PICK k \in 1..Len(L[s]) : M[s][i] = L[s][k] /\ k = IF s = a THEN i + 1 ELSE i
    BY <1>3
  <2>2. PICK l \in 1..Len(L[t]) : M[t][j] = L[t][l] /\ l = IF t = a THEN j + 1 ELSE j
    BY <1>3
  <2>0. Apiece(L) /\ L[s][k] = L[t][l]
    BY <2>1, <2>2 DEF Once
  <2>3. s = t /\ k = l
    BY <2>0 DEF Apiece
  <2>4. i \in Int /\ j \in Int
    OBVIOUS
  <2> QED
    BY <2>1, <2>2, <2>3, <2>4
<1>5. ASSUME NEW f \in EffectSet
      PROVE  f \in S \ {e} <=> Somewhere(M, f)
  <2>1. ASSUME Somewhere(M, f)
        PROVE  f \in S \ {e}
    <3>0. PICK s \in Slots : \E i \in 1..Len(M[s]) : M[s][i] = f
      BY <2>1 DEF Somewhere
    <3>1. PICK i \in 1..Len(M[s]) : M[s][i] = f
      BY <3>0
    <3>2. f # e /\ Somewhere(L, f)
      BY <1>3, <3>1 DEF Somewhere
    <3> QED
      BY <3>2 DEF Once
  <2>2. ASSUME f \in S, f # e
        PROVE  Somewhere(M, f)
    <3>0. PICK s \in Slots : \E i \in 1..Len(L[s]) : L[s][i] = f
      BY <2>2 DEF Once, Somewhere
    <3>1. PICK i \in 1..Len(L[s]) : L[s][i] = f
      BY <3>0
    <3>2. CASE s = a
      <4>1. i # 1 /\ i \in 1..n
        BY <1>1, <2>2, <3>1, <3>2 DEF n
      <4>2. i - 1 \in 1..(n - 1) /\ i - 1 \in 1..Len(M[a]) /\ i - 1 + 1 = i
        BY <1>1, <4>1
      <4>3. M[a][i - 1] = f
        BY <1>1, <3>1, <3>2, <4>2
      <4> QED
        BY <4>2, <4>3 DEF Somewhere
    <3>3. CASE s # a
      BY <3>1, <3>3 DEF Somewhere
    <3> QED
      BY <3>2, <3>3
  <2> QED
    BY <2>1, <2>2
<1> QED
  BY <1>2, <1>4, <1>5 DEF Once, e

\* A list is put behind another one, the other way round.
LEMMA OnceMoved ==
  ASSUME NEW L \in [Slots -> Seq(EffectSet)], NEW S, Once(L, S),
         NEW a \in Slots, NEW b \in Slots, a # b,
         NEW M, M[a] = <<>>, M[b] = L[b] \o Unwinding(L[a]),
         \A s \in Slots : s # a /\ s # b => M[s] = L[s]
  PROVE  Once(M, S)
<1> DEFINE n == Len(L[a])
           m == Len(L[b])
<1>1. /\ n \in Nat /\ m \in Nat /\ Len(M[b]) = m + n /\ Len(M[a]) = 0
      /\ \A i \in 1..m : M[b][i] = L[b][i]
      /\ \A i \in 1..n : M[b][m + i] = L[a][n - i + 1]
  <2>1. L[a] \in Seq(EffectSet) /\ L[b] \in Seq(EffectSet) /\ n \in Nat /\ m \in Nat
    OBVIOUS
  <2> DEFINE u == Unwinding(L[a])
  <2>2. u \in Seq(EffectSet) /\ Len(u) = n /\ \A i \in 1..n : u[i] = L[a][n - i + 1]
    BY <2>1, UnwindingIs
  <2> HIDE DEF u
  <2>3. M[b] = L[b] \o u
    BY DEF u
  <2>4. /\ Len(L[b] \o u) = m + n
        /\ \A i \in 1..m : (L[b] \o u)[i] = L[b][i]
        /\ \A i \in 1..n : (L[b] \o u)[m + i] = u[i]
    <3>1. u \in Seq(EffectSet) /\ L[b] \in Seq(EffectSet) /\ n = Len(u)
      BY <2>1, <2>2
    <3> HIDE DEF n
    <3> QED
      BY <3>1
  <2> QED
    BY <2>1, <2>2, <2>3, <2>4
<1> HIDE DEF n, m
<1>2. ASSUME NEW s \in Slots, NEW i \in 1..Len(M[s])
      PROVE  /\ i \in Int
             /\ \E c \in Slots : \E k \in 1..Len(L[c]) :
                  /\ M[s][i] = L[c][k]
                  /\ \/ c = s /\ k = i /\ c # a
                     \/ s = b /\ c = a /\ k = n - (i - m) + 1
  <2>0. s # a /\ i \in Int
    BY <1>1
  <2>1. CASE s # b
    <3>1. M[s] = L[s]
      BY <2>0, <2>1
    <3>2. i \in 1..Len(L[s]) /\ M[s][i] = L[s][i]
      BY <3>1
    <3> QED
      BY <2>0, <3>2
  <2>2. CASE s = b /\ i <= m
    <3>1. i \in 1..m
      BY <1>1, <2>0, <2>2
    <3>2. i \in 1..Len(L[s]) /\ M[s][i] = L[s][i]
      BY <1>1, <2>2, <3>1 DEF m
    <3> QED
      BY <2>0, <3>2
  <2>3. CASE s = b /\ i > m
    <3>1. i \in 1..(m + n)
      BY <1>1, <2>3
    <3>2. i - m \in 1..n /\ m + (i - m) = i /\ n - (i - m) + 1 \in 1..n
      BY <1>1, <2>3, <3>1
    <3>3. M[b][m + (i - m)] = L[a][n - (i - m) + 1]
      BY <1>1, <3>2
    <3>4. n - (i - m) + 1 \in 1..Len(L[a]) /\ M[s][i] = L[a][n - (i - m) + 1]
      BY <2>3, <3>2, <3>3 DEF n
    <3> QED
      BY <2>0, <2>3, <3>4
  <2> QED
    BY <1>1, <2>0, <2>1, <2>2, <2>3
<1>3. Apiece(L)
  BY DEF Once
<1>4. Apiece(M)
  <2> SUFFICES ASSUME NEW s \in Slots, NEW t \in Slots,
                      NEW i \in 1..Len(M[s]), NEW j \in 1..Len(M[t]), M[s][i] = M[t][j]
               PROVE  s = t /\ i = j
    BY DEF Apiece
  <2>1. PICK c \in Slots : \E k \in 1..Len(L[c]) :
          /\ M[s][i] = L[c][k]
          /\ \/ c = s /\ k = i /\ c # a
             \/ s = b /\ c = a /\ k = n - (i - m) + 1
    BY <1>2
  <2>2. PICK k \in 1..Len(L[c]) :
          /\ M[s][i] = L[c][k]
          /\ \/ c = s /\ k = i /\ c # a
             \/ s = b /\ c = a /\ k = n - (i - m) + 1
    BY <2>1
  <2>3. PICK d \in Slots : \E l \in 1..Len(L[d]) :
          /\ M[t][j] = L[d][l]
          /\ \/ d = t /\ l = j /\ d # a
             \/ t = b /\ d = a /\ l = n - (j - m) + 1
    BY <1>2
  <2>4. PICK l \in 1..Len(L[d]) :
          /\ M[t][j] = L[d][l]
          /\ \/ d = t /\ l = j /\ d # a
             \/ t = b /\ d = a /\ l = n - (j - m) + 1
    BY <2>3
  <2>5. L[c][k] = L[d][l]
    BY <2>2, <2>4
  <2>6. c = d /\ k = l
    BY <1>3, <2>5 DEF Apiece
  <2>7. i \in Int /\ j \in Int /\ m \in Int /\ n \in Int
    BY <1>1
  <2> QED
    BY <2>2, <2>4, <2>6, <2>7
<1>5. ASSUME NEW f \in EffectSet
      PROVE  f \in S <=> Somewhere(M, f)
  <2>1. ASSUME Somewhere(M, f)
        PROVE  Somewhere(L, f)
    <3>0. PICK s \in Slots : \E i \in 1..Len(M[s]) : M[s][i] = f
      BY <2>1 DEF Somewhere
    <3>1. PICK i \in 1..Len(M[s]) : M[s][i] = f
      BY <3>0
    <3>2. \E c \in Slots : \E k \in 1..Len(L[c]) : M[s][i] = L[c][k]
      BY <1>2
    <3>3. PICK c \in Slots : \E k \in 1..Len(L[c]) : M[s][i] = L[c][k]
      BY <3>2
    <3> QED
      BY <3>1, <3>3 DEF Somewhere
  <2>2. ASSUME Somewhere(L, f)
        PROVE  Somewhere(M, f)
    <3>0. PICK s \in Slots : \E i \in 1..Len(L[s]) : L[s][i] = f
      BY <2>2 DEF Somewhere
    <3>1. PICK i \in 1..Len(L[s]) : L[s][i] = f
      BY <3>0
    <3>2. CASE s # a /\ s # b
      BY <3>1, <3>2 DEF Somewhere
    <3>3. CASE s = b
      <4>1. i \in 1..m /\ i \in 1..Len(M[b])
        BY <1>1, <3>3 DEF m
      <4> QED
        BY <1>1, <3>1, <3>3, <4>1 DEF Somewhere
    <3>4. CASE s = a
      <4>1. i \in 1..n
        BY <3>4 DEF n
      <4>2. n - i + 1 \in 1..n /\ m + (n - i + 1) \in 1..Len(M[b]) /\ n - (n - i + 1) + 1 = i
        BY <1>1, <4>1
      <4>3. M[b][m + (n - i + 1)] = L[a][n - (n - i + 1) + 1]
        BY <1>1, <4>2
      <4>4. M[b][m + (n - i + 1)] = f
        BY <3>1, <3>4, <4>2, <4>3
      <4> QED
        BY <4>2, <4>4 DEF Somewhere
    <3> QED
      BY <3>2, <3>3, <3>4
  <2> QED
    BY <2>1, <2>2 DEF Once
<1> QED
  BY <1>4, <1>5 DEF Once

LEMMA ListsInAre ==
  ASSUME NEW d, NEW u
  PROVE  /\ \A n \in Names : /\ <<"list", n>> \in Slots
                             /\ ListsIn(d, u)[<<"list", n>>] = d[n]
         /\ \A o \in Owners : /\ <<"unwind", o>> \in Slots
                              /\ ListsIn(d, u)[<<"unwind", o>>] = u[o]
         /\ \A s \in Slots : \/ \E n \in Names : s = <<"list", n>>
                             \/ \E o \in Owners : s = <<"unwind", o>>
         /\ d \in [Names -> Seq(EffectSet)] /\ u \in [Owners -> Seq(EffectSet)]
            => ListsIn(d, u) \in [Slots -> Seq(EffectSet)]
<1>1. \A s \in Slots : \/ \E n \in Names : s = <<"list", n>>
                       \/ \E o \in Owners : s = <<"unwind", o>>
  BY DEF Slots
<1>2. \A n \in Names : /\ <<"list", n>> \in Slots
                       /\ ListsIn(d, u)[<<"list", n>>] = d[n]
  BY DEF Slots, ListsIn
<1>3. \A o \in Owners : /\ <<"unwind", o>> \in Slots
                        /\ ListsIn(d, u)[<<"unwind", o>>] = u[o]
  BY DEF Slots, ListsIn
<1>4. ASSUME d \in [Names -> Seq(EffectSet)], u \in [Owners -> Seq(EffectSet)]
      PROVE  ListsIn(d, u) \in [Slots -> Seq(EffectSet)]
  <2>1. ASSUME NEW s \in Slots
        PROVE  (IF s[1] = "list" THEN d[s[2]] ELSE u[s[2]]) \in Seq(EffectSet)
    <3>1. CASE \E n \in Names : s = <<"list", n>>
      BY <1>4, <3>1
    <3>2. CASE \E o \in Owners : s = <<"unwind", o>>
      BY <1>4, <3>2
    <3> QED
      BY <1>1, <3>1, <3>2
  <2> QED
    BY <2>1 DEF ListsIn
<1> QED
  BY <1>1, <1>2, <1>3, <1>4

\* Up to dispose() and until somebody forgets one, each effect in force has
\* its place in the lists; the plugins on the stack are there, and one that is
\* not, or is on its way out, has no list.
OnStack == \A i \in 1..Len(stack) : record[stack[i]] \in {"loading", "active", "failed"}
OnlyTheirs ==
  /\ \A p \in Plugins : record[p] \in {"absent", "disposing"} => disposers[p] = <<>>
  /\ disposers["global"] = <<>>
Tracked ==
  disposal = "open" /\ ~cut =>
    Once(ListsIn(disposers, unwinds), live \ missed) /\ OnStack /\ OnlyTheirs

LEMMA TrackedAtFirst == PluginInit => Tracked
<1> SUFFICES ASSUME PluginInit PROVE Tracked
  OBVIOUS
<1>1. /\ stack = <<>> /\ live = {} /\ disposers = [n \in Names |-> <<>>]
      /\ unwinds = [o \in Owners |-> <<>>]
  BY DEF PluginInit
<1>2. OnStack /\ OnlyTheirs
  <2>1. Len(stack) = 0 /\ \A n \in Names : disposers[n] = <<>>
    BY <1>1
  <2> QED
    <3>1. OnStack
      BY <2>1 DEF OnStack
    <3>2. OnlyTheirs
      BY <2>1, OwnersAre DEF OnlyTheirs
    <3> QED
      BY <3>1, <3>2
<1> DEFINE L == ListsIn(disposers, unwinds)
<1>3. ASSUME NEW s \in Slots
      PROVE  Len(L[s]) = 0
  <2>1. CASE \E n \in Names : s = <<"list", n>>
    BY <1>1, <2>1, ListsInAre
  <2>2. CASE \E o \in Owners : s = <<"unwind", o>>
    BY <1>1, <2>2, ListsInAre
  <2> QED
    BY <2>1, <2>2, ListsInAre
<1> HIDE DEF L
<1>4. Apiece(L) /\ \A e \in EffectSet : ~Somewhere(L, e)
  BY <1>3 DEF Apiece, Somewhere
<1>5. Once(L, live \ missed)
  BY <1>1, <1>4 DEF Once
<1> QED
  BY <1>2, <1>5 DEF Tracked, L

\* A plugin's list goes behind what is being unwound of it.
LEMMA ListUnwound ==
  ASSUME PluginTypes, NEW p \in Plugins, NEW o \in Owners, NEW S,
         Once(ListsIn(disposers, unwinds), S),
         disposers' = [disposers EXCEPT ![p] = <<>>],
         unwinds' = [unwinds EXCEPT ![o] = unwinds[o] \o Unwinding(disposers[p])]
  PROVE  Once(ListsIn(disposers', unwinds'), S)
<1> DEFINE L == ListsIn(disposers, unwinds)
           M == ListsIn(disposers', unwinds')
           a == <<"list", p>>
           b == <<"unwind", o>>
<1>0. /\ \A n \in Names : L[<<"list", n>>] = disposers[n] /\ M[<<"list", n>>] = disposers'[n]
      /\ \A x \in Owners : L[<<"unwind", x>>] = unwinds[x] /\ M[<<"unwind", x>>] = unwinds'[x]
  <2>1. ASSUME NEW n \in Names
        PROVE  L[<<"list", n>>] = disposers[n] /\ M[<<"list", n>>] = disposers'[n]
    <3>1. L[<<"list", n>>] = disposers[n]
      BY ListsInAre
    <3>2. M[<<"list", n>>] = disposers'[n]
      BY DEF ListsIn, Slots
    <3> QED
      BY <3>1, <3>2
  <2>2. ASSUME NEW x \in Owners
        PROVE  L[<<"unwind", x>>] = unwinds[x] /\ M[<<"unwind", x>>] = unwinds'[x]
    <3>1. L[<<"unwind", x>>] = unwinds[x]
      BY ListsInAre
    <3>2. M[<<"unwind", x>>] = unwinds'[x]
      BY DEF ListsIn, Slots
    <3> QED
      BY <3>1, <3>2
  <2> HIDE DEF L, M
  <2> QED
    BY <2>1, <2>2
<1>1. /\ disposers \in [Names -> Seq(EffectSet)] /\ unwinds \in [Owners -> Seq(EffectSet)]
      /\ p \in Names
  BY OwnersAre DEF PluginTypes
<1>2. /\ a \in Slots /\ b \in Slots /\ a # b /\ L[a] = disposers[p] /\ L[b] = unwinds[o]
      /\ L \in [Slots -> Seq(EffectSet)]
  BY <1>1, ListsInAre
<1>3. M[a] = <<>> /\ M[b] = unwinds[o] \o Unwinding(disposers[p])
  <2>1. disposers'[p] = <<>> /\ unwinds'[o] = unwinds[o] \o Unwinding(disposers[p])
    BY <1>1
  <2>2. M[a] = disposers'[p] /\ M[b] = unwinds'[o]
    BY <1>0, <1>1
  <2> QED
    BY <2>1, <2>2
<1>4. ASSUME NEW s \in Slots, s # a, s # b
      PROVE  M[s] = L[s]
  <2>1. CASE \E n \in Names : s = <<"list", n>>
    <3>1. PICK n \in Names : s = <<"list", n>>
      BY <2>1
    <3>2. n # p
      BY <1>4, <3>1
    <3>3. disposers'[n] = disposers[n]
      BY <1>1, <3>2
    <3> QED
      BY <1>0, <3>1, <3>3
  <2>2. CASE \E x \in Owners : s = <<"unwind", x>>
    <3>1. PICK x \in Owners : s = <<"unwind", x>>
      BY <2>2
    <3>2. x # o
      BY <1>4, <3>1
    <3>3. unwinds'[x] = unwinds[x]
      BY <1>1, <3>2
    <3> QED
      BY <1>0, <3>1, <3>3
  <2> QED
    BY <2>1, <2>2, ListsInAre
<1> HIDE DEF L, M, a, b
<1>5. M[b] = L[b] \o Unwinding(L[a])
  BY <1>2, <1>3
<1>6. Once(L, S)
  BY DEF L
<1>7. Once(M, S)
  <2>1. /\ L \in [Slots -> Seq(EffectSet)] /\ Once(L, S) /\ a \in Slots /\ b \in Slots /\ a # b
        /\ M[a] = <<>> /\ M[b] = L[b] \o Unwinding(L[a])
    BY <1>2, <1>3, <1>5, <1>6
  <2>2. \A s \in Slots : s # a /\ s # b => M[s] = L[s]
    BY <1>4
  <2> QED
    BY <2>1, <2>2, OnceMoved
<1> QED
  BY <1>7 DEF M

\* The records and the lists stay, as far as the stack sees.
LEMMA TrackedKept ==
  ASSUME Tracked, disposers' = disposers, unwinds' = unwinds, live' \ missed' = live \ missed,
         disposal' = "open" /\ ~cut' => disposal = "open" /\ ~cut,
         disposal = "open" /\ ~cut /\ OnStack /\ OnlyTheirs => OnStack' /\ OnlyTheirs'
  PROVE  Tracked'
<1> SUFFICES ASSUME disposal' = "open", ~cut'
             PROVE  Once(ListsIn(disposers', unwinds'), live' \ missed') /\ OnStack' /\ OnlyTheirs'
  BY DEF Tracked
<1>1. Once(ListsIn(disposers, unwinds), live \ missed) /\ OnStack /\ OnlyTheirs
  BY DEF Tracked
<1>2. OnStack' /\ OnlyTheirs'
  BY <1>1
<1>3. ListsIn(disposers', unwinds') = ListsIn(disposers, unwinds)
  OBVIOUS
<1> QED
  BY <1>1, <1>2, <1>3

\* A load puts its plugin on the stack and forgets its list, which was empty.
LEMMA TrackedStarts ==
  ASSUME Basic, Tracked, NEW p \in Plugins, StartLoad(p)
  PROVE  Tracked'
<1>1. /\ record[p] \in {"absent", "failed"} /\ record' = [record EXCEPT ![p] = "loading"]
      /\ disposers' = [disposers EXCEPT ![p] = <<>>] /\ disposal' = disposal
      /\ cut' = (cut \/ disposers[p] # <<>>) /\ unwinds' = unwinds /\ live' = live /\ missed' = missed /\ stack' = Append(stack, p)
  BY DEF StartLoad
<1>2. /\ record \in [Plugins -> {"absent", "loading", "active", "failed", "disposing"}]
      /\ disposers \in [Names -> Seq(EffectSet)] /\ stack \in Seq(Plugins)
  BY DEF Basic, PluginTypes
<1> SUFFICES ASSUME disposal = "open", ~cut'
             PROVE  Tracked'
  BY <1>1 DEF Tracked
<1>3. OnStack /\ OnlyTheirs
  BY <1>1 DEF Tracked
<1>4. disposers' = disposers
  <2>1. disposers[p] = <<>>
    BY <1>1
  <2> QED
    BY <1>1, <1>2, <2>1
<1>5. OnStack'
  <2>1. ASSUME NEW i \in 1..Len(stack')
        PROVE  record'[stack'[i]] \in {"loading", "active", "failed"}
    <3>1. stack'[i] = p \/ (i \in 1..Len(stack) /\ stack'[i] = stack[i] /\ stack[i] \in Plugins)
      BY <1>1, <1>2
    <3>2. CASE stack'[i] = p
      BY <1>1, <1>2, <3>2
    <3>3. CASE stack'[i] # p
      <4>1. record[stack[i]] \in {"loading", "active", "failed"}
        BY <1>3, <3>1, <3>3 DEF OnStack
      <4>2. record'[stack[i]] = record[stack[i]]
        BY <1>1, <1>2, <3>1, <3>3
      <4> QED
        BY <3>1, <3>3, <4>1, <4>2
    <3> QED
      BY <3>2, <3>3
  <2> QED
    BY <2>1 DEF OnStack
<1>6. OnlyTheirs'
  <2>1. \A q \in Plugins : record'[q] = IF q = p THEN "loading" ELSE record[q]
    BY <1>1, <1>2
  <2> QED
    BY <1>3, <1>4, <2>1 DEF OnlyTheirs
<1> QED
  BY <1>1, <1>4, <1>5, <1>6, TrackedKept

\* Nothing is registered for good but with a plugin on the stack.
LEMMA TrackedRegisters ==
  ASSUME Basic, Tracked, NEW p \in Plugins, Register(p)
  PROVE  Tracked'
<1> DEFINE e == Effect(p, applying[p].load, applying[p].effects + 1)
<1>1. /\ Loading(p) /\ e \in EffectSet /\ e \notin live \cup missed /\ live' = live \cup {e}
      /\ disposers' = [disposers EXCEPT ![Tracker(p)] = Append(@, e)]
  BY BasicRegisters
<1>2. /\ record' = record /\ stack' = stack /\ unwinds' = unwinds /\ disposal' = disposal
      /\ missed' = missed /\ cut' = cut
  BY DEF Register
<1> HIDE DEF e
<1>3. /\ disposers \in [Names -> Seq(EffectSet)] /\ stack \in Seq(Plugins)
      /\ unwinds \in [Owners -> Seq(EffectSet)]
  BY DEF Basic, PluginTypes
<1> SUFFICES ASSUME disposal = "open", ~cut'
             PROVE  Tracked'
  BY <1>2 DEF Tracked
<1>4. Once(ListsIn(disposers, unwinds), live \ missed) /\ OnStack /\ OnlyTheirs
  BY <1>2 DEF Tracked
<1>5. stack # <<>>
  <2>1. IsFiniteSet({q \in Plugins : Loading(q)}) /\ p \in {q \in Plugins : Loading(q)}
        /\ Cardinality({q \in Plugins : Loading(q)}) = Len(stack)
    BY <1>1 DEF Basic, Stacked
  <2>2. Len(stack) # 0
    BY <2>1, FS_EmptySet
  <2> QED
    BY <2>2
<1> DEFINE top == Last(stack)
<1>6. /\ top \in Plugins /\ record[top] \in {"loading", "active", "failed"}
  <2>1. Len(stack) \in 1..Len(stack) /\ top = stack[Len(stack)] /\ top \in Plugins
    BY <1>3, <1>5 DEF Last
  <2> QED
    BY <1>4, <2>1 DEF OnStack
<1>7. Tracker(p) = top
  BY <1>5, <1>6 DEF Tracker
<1> HIDE DEF top
<1>8. top # "global" /\ top \in Names /\ record[top] \in {"loading", "active", "failed"}
  BY <1>2, <1>6, <1>7, OwnersAre
<1>9. disposers' = [disposers EXCEPT ![top] = Append(disposers[top], e)]
  BY <1>1, <1>7
<1>10. OnlyTheirs'
  <2>1. \A n \in Names : n # top => disposers'[n] = disposers[n]
    BY <1>3, <1>9
  <2>2. "global" \in Names /\ \A q \in Plugins : q \in Names
    BY OwnersAre
  <2> QED
    BY <1>2, <1>4, <1>8, <2>1, <2>2 DEF OnlyTheirs
<1>11. Once(ListsIn(disposers', unwinds'), live' \ missed')
  <2> DEFINE L == ListsIn(disposers, unwinds)
             M == ListsIn(disposers', unwinds')
             a == <<"list", top>>
  <2>1. L \in [Slots -> Seq(EffectSet)] /\ a \in Slots /\ L[a] = disposers[top]
    BY <1>3, <1>8, ListsInAre
  <2>2. M[a] = Append(disposers[top], e)
    <3>1. M[a] = disposers'[top]
      BY <1>8 DEF ListsIn, Slots
    <3> QED
      BY <1>3, <1>8, <1>9, <3>1
  <2>3. ASSUME NEW s \in Slots, s # a
        PROVE  M[s] = L[s]
    <3>1. CASE \E n \in Names : s = <<"list", n>>
      <4>1. PICK n \in Names : s = <<"list", n>>
        BY <3>1
      <4>2. disposers'[n] = disposers[n]
        BY <1>3, <1>9, <2>3, <4>1
      <4>3. M[s] = disposers'[n] /\ L[s] = disposers[n]
        BY <4>1 DEF ListsIn, Slots
      <4> QED
        BY <4>2, <4>3
    <3>2. CASE \E x \in Owners : s = <<"unwind", x>>
      <4>1. PICK x \in Owners : s = <<"unwind", x>>
        BY <3>2
      <4>2. M[s] = unwinds'[x] /\ L[s] = unwinds[x]
        BY <4>1 DEF ListsIn, Slots
      <4> QED
        BY <1>2, <4>2
    <3> QED
      BY <3>1, <3>2, ListsInAre
  <2>4. Once(L, live \ missed)
    BY <1>4
  <2> HIDE DEF L, M, a
  <2>5. M[a] = Append(L[a], e)
    BY <2>1, <2>2
  <2>6. e \notin live \ missed /\ live' \ missed' = (live \ missed) \cup {e}
    BY <1>1, <1>2
  <2>7. Once(M, (live \ missed) \cup {e})
    <3>1. L \in [Slots -> Seq(EffectSet)] /\ Once(L, live \ missed) /\ a \in Slots
          /\ e \in EffectSet /\ e \notin live \ missed /\ M[a] = Append(L[a], e)
      BY <1>1, <2>1, <2>4, <2>5, <2>6
    <3>2. \A s \in Slots : s # a => M[s] = L[s]
      BY <2>3
    <3> QED
      BY <3>1, <3>2, OnceAppended
  <2> QED
    BY <2>6, <2>7 DEF M
<1>12. OnStack'
  BY <1>2, <1>4 DEF OnStack
<1> QED
  BY <1>10, <1>11, <1>12 DEF Tracked

\* The end of a load, well or not.
LEMMA TrackedPops ==
  ASSUME Basic, Tracked, NEW p \in Plugins, Loaded(p) \/ LoadFailed(p)
  PROVE  Tracked'
<1>1. /\ Loading(p) /\ PopLoad(p)
      /\ disposers' = disposers /\ unwinds' = unwinds /\ live' = live /\ missed' = missed
      /\ disposal' = disposal /\ cut' = cut
  <2>1. applying[p].threw => Loading(p)
    BY DEF Basic, Numbered, Loading, NotLoading
  <2> QED
    BY <2>1 DEF Loaded, LoadFailed
<1>2. \A q \in Plugins : \/ record'[q] = record[q]
                         \/ record[q] = "loading" /\ record'[q] = "active"
  <2>1. record \in [Plugins -> {"absent", "loading", "active", "failed", "disposing"}]
    BY DEF Basic, PluginTypes
  <2>2. \/ record' = record
        \/ record' = [record EXCEPT ![p] = IF @ = "loading" THEN "active" ELSE @]
    BY DEF Loaded, LoadFailed
  <2> QED
    BY <2>1, <2>2
<1>3. /\ stack \in Seq(Plugins)
      /\ \A i \in 1..Len(stack') : i \in 1..Len(stack) /\ stack'[i] = stack[i]
  BY <1>1, PopIs DEF Basic, PluginTypes
<1>4. ASSUME OnStack PROVE OnStack'
  <2>1. ASSUME NEW i \in 1..Len(stack')
        PROVE  record'[stack'[i]] \in {"loading", "active", "failed"}
    <3>1. i \in 1..Len(stack) /\ stack'[i] = stack[i] /\ stack[i] \in Plugins
      BY <1>3
    <3> QED
      BY <1>2, <1>4, <3>1 DEF OnStack
  <2> QED
    BY <2>1 DEF OnStack
<1>5. ASSUME OnlyTheirs PROVE OnlyTheirs'
  <2>1. ASSUME NEW q \in Plugins, record'[q] \in {"absent", "disposing"}
        PROVE  disposers[q] = <<>>
    <3>1. record[q] \in {"absent", "disposing"}
      BY <1>2, <2>1
    <3> QED
      BY <1>5, <3>1 DEF OnlyTheirs
  <2> QED
    BY <1>1, <1>5, <2>1 DEF OnlyTheirs
<1> QED
  BY <1>1, <1>4, <1>5, TrackedKept

\* What a failed load registered goes over to its unwinding, which is empty.
LEMMA TrackedFails ==
  ASSUME Basic, Tracked, NEW p \in Plugins, LoadFails(p)
  PROVE  Tracked'
<1>1. /\ ~applying[p].threw /\ stack' = stack /\ live' = live /\ missed' = missed
      /\ disposal' = disposal /\ cut' = cut
  BY DEF LoadFails
<1>2. ASSUME disposal = "open", ~cut
      PROVE  Tracked'
  <2>1. Once(ListsIn(disposers, unwinds), live \ missed) /\ OnStack /\ OnlyTheirs
    BY <1>2 DEF Tracked
  <2>2. /\ record' = [record EXCEPT ![p] = IF @ = "loading" THEN "failed" ELSE @]
        /\ unwinds' = [unwinds EXCEPT ![<<p, "failure">>] = Unwinding(disposers[p])]
        /\ disposers' = [disposers EXCEPT ![p] = <<>>]
    BY DEF LoadFails
  <2>3. /\ PluginTypes /\ disposers \in [Names -> Seq(EffectSet)] /\ p \in Names
        /\ <<p, "failure">> \in Owners /\ stack \in Seq(Plugins)
        /\ record \in [Plugins -> {"absent", "loading", "active", "failed", "disposing"}]
    BY OwnersAre DEF Basic, PluginTypes
  <2>4. unwinds[<<p, "failure">>] \o Unwinding(disposers[p]) = Unwinding(disposers[p])
    <3>1. unwinds[<<p, "failure">>] = <<>>
      BY <1>1 DEF Basic, FailureQuiet
    <3>2. Unwinding(disposers[p]) \in Seq(EffectSet)
      BY <2>3, UnwindingIs
    <3> QED
      BY <3>1, <3>2
  <2>5. Once(ListsIn(disposers', unwinds'), live \ missed)
    <3>1. unwinds' = [unwinds EXCEPT ![<<p, "failure">>] =
                        unwinds[<<p, "failure">>] \o Unwinding(disposers[p])]
      BY <2>2, <2>4
    <3> QED
      BY <2>1, <2>2, <2>3, <3>1, ListUnwound
  <2>6. OnStack'
    <3>1. ASSUME NEW i \in 1..Len(stack)
          PROVE  record'[stack[i]] \in {"loading", "active", "failed"}
      <4>1. stack[i] \in Plugins /\ record[stack[i]] \in {"loading", "active", "failed"}
        BY <2>1, <2>3 DEF OnStack
      <4> QED
        BY <2>2, <2>3, <4>1
    <3> QED
      BY <1>1, <3>1 DEF OnStack
  <2>7. OnlyTheirs'
    <3>1. \A n \in Names : disposers'[n] = IF n = p THEN <<>> ELSE disposers[n]
      BY <2>2, <2>3
    <3>2. \A q \in Plugins : q # p => record'[q] = record[q]
      BY <2>2, <2>3
    <3> QED
      BY <2>1, <3>1, <3>2, OwnersAre DEF OnlyTheirs
  <2> QED
    BY <1>1, <2>5, <2>6, <2>7 DEF Tracked
<1> QED
  BY <1>1, <1>2 DEF Tracked

\* A plugin is unloaded: unless that cuts a load, the stack is empty.
LEMMA TrackedUnloads ==
  ASSUME Basic, Tracked, NEW p \in Plugins, Unload(p)
  PROVE  Tracked'
<1>1. /\ record' = [record EXCEPT ![p] = "disposing"]
      /\ unwinds' = [unwinds EXCEPT ![<<p, "unload">>] = @ \o Unwinding(disposers[p])]
      /\ cut' = (cut \/ \E q \in Plugins : Loading(q))
      /\ disposers' = [disposers EXCEPT ![p] = <<>>]
      /\ stack' = stack /\ live' = live /\ missed' = missed /\ disposal' = disposal
  BY DEF Unload, BeginUnload
<1> SUFFICES ASSUME disposal = "open", ~cut'
             PROVE  Tracked'
  BY <1>1 DEF Tracked
<1>2. Once(ListsIn(disposers, unwinds), live \ missed) /\ OnStack /\ OnlyTheirs
  BY <1>1 DEF Tracked
<1>3. /\ PluginTypes /\ disposers \in [Names -> Seq(EffectSet)] /\ p \in Names
      /\ unwinds \in [Owners -> Seq(EffectSet)]
      /\ <<p, "unload">> \in Owners /\ stack \in Seq(Plugins)
      /\ record \in [Plugins -> {"absent", "loading", "active", "failed", "disposing"}]
  BY OwnersAre DEF Basic, PluginTypes
<1>4. Once(ListsIn(disposers', unwinds'), live \ missed)
  <2>1. unwinds' = [unwinds EXCEPT ![<<p, "unload">>] =
                      unwinds[<<p, "unload">>] \o Unwinding(disposers[p])]
    BY <1>1, <1>3
  <2> QED
    BY <1>1, <1>2, <1>3, <2>1, ListUnwound
<1>5. OnStack'
  <2>1. {q \in Plugins : Loading(q)} = {}
    BY <1>1
  <2>2. Len(stack) = 0
    BY <2>1, FS_EmptySet DEF Basic, Stacked
  <2> QED
    BY <1>1, <2>2 DEF OnStack
<1>6. OnlyTheirs'
  <2>1. \A n \in Names : disposers'[n] = IF n = p THEN <<>> ELSE disposers[n]
    BY <1>1, <1>3
  <2>2. \A q \in Plugins : q # p => record'[q] = record[q]
    BY <1>1, <1>3
  <2> QED
    BY <1>2, <2>1, <2>2, OwnersAre DEF OnlyTheirs
<1> QED
  BY <1>1, <1>4, <1>5, <1>6 DEF Tracked

\* A disposer has run, in time or not.
LEMMA TrackedDisposes ==
  ASSUME Basic, Tracked, NEW o \in Owners, RunDisposer(o)
  PROVE  Tracked'
<1> DEFINE e == Head(unwinds[o])
<1>1. /\ unwinds[o] # <<>> /\ unwinds' = [unwinds EXCEPT ![o] = Tail(@)]
      /\ \/ missed' = missed \cup {e} /\ live' = live
         \/ live' = live \ {e} /\ missed' = missed
      /\ record' = record /\ disposers' = disposers /\ stack' = stack
      /\ disposal' = disposal /\ cut' = cut
  BY DEF RunDisposer
<1> SUFFICES ASSUME disposal = "open", ~cut
             PROVE  Tracked'
  BY <1>1 DEF Tracked
<1>2. Once(ListsIn(disposers, unwinds), live \ missed) /\ OnStack /\ OnlyTheirs
  BY DEF Tracked
<1>3. disposers \in [Names -> Seq(EffectSet)] /\ unwinds \in [Owners -> Seq(EffectSet)]
  BY DEF Basic, PluginTypes
<1>4. live' \ missed' = (live \ missed) \ {e}
  BY <1>1
<1>5. OnStack' /\ OnlyTheirs'
  BY <1>1, <1>2 DEF OnStack, OnlyTheirs
<1>6. Once(ListsIn(disposers', unwinds'), live' \ missed')
  <2> DEFINE L == ListsIn(disposers, unwinds)
             M == ListsIn(disposers', unwinds')
             a == <<"unwind", o>>
  <2>1. L \in [Slots -> Seq(EffectSet)] /\ a \in Slots /\ L[a] = unwinds[o]
    BY <1>3, ListsInAre
  <2>2. M[a] = Tail(unwinds[o])
    <3>1. M[a] = unwinds'[o]
      BY DEF ListsIn, Slots
    <3> QED
      BY <1>1, <1>3, <3>1
  <2>3. ASSUME NEW s \in Slots, s # a
        PROVE  M[s] = L[s]
    <3>1. CASE \E n \in Names : s = <<"list", n>>
      <4>1. PICK n \in Names : s = <<"list", n>>
        BY <3>1
      <4>2. M[s] = disposers'[n] /\ L[s] = disposers[n]
        BY <4>1 DEF ListsIn, Slots
      <4> QED
        BY <1>1, <4>2
    <3>2. CASE \E x \in Owners : s = <<"unwind", x>>
      <4>1. PICK x \in Owners : s = <<"unwind", x>>
        BY <3>2
      <4>2. unwinds'[x] = unwinds[x]
        BY <1>1, <1>3, <2>3, <4>1
      <4>3. M[s] = unwinds'[x] /\ L[s] = unwinds[x]
        BY <4>1 DEF ListsIn, Slots
      <4> QED
        BY <4>2, <4>3
    <3> QED
      BY <3>1, <3>2, ListsInAre
  <2>4. Once(L, live \ missed)
    BY <1>2
  <2> HIDE DEF L, M, a
  <2>5. M[a] = Tail(L[a]) /\ L[a] # <<>> /\ e = Head(L[a])
    BY <1>1, <2>1, <2>2
  <2> HIDE DEF e
  <2>6. Once(M, (live \ missed) \ {e})
    <3>1. L \in [Slots -> Seq(EffectSet)] /\ Once(L, live \ missed) /\ a \in Slots
          /\ L[a] # <<>> /\ M[a] = Tail(L[a])
      BY <2>1, <2>4, <2>5
    <3>2. \A s \in Slots : s # a => M[s] = L[s]
      BY <2>3
    <3>3. Once(M, (live \ missed) \ {Head(L[a])})
      BY <3>1, <3>2, OnceTaken
    <3> QED
      BY <2>5, <3>3
  <2> QED
    BY <1>4, <2>6 DEF M
<1> QED
  BY <1>5, <1>6 DEF Tracked

LEMMA TrackedStep == Basic /\ Tracked /\ [PluginNext]_pluginVars => Tracked'
<1> SUFFICES ASSUME Basic, Tracked, [PluginNext]_pluginVars PROVE Tracked'
  OBVIOUS
<1>1. ASSUME disposal' = disposal, cut' = cut, record' = record, stack' = stack,
             disposers' = disposers, unwinds' = unwinds, live' = live, missed' = missed
      PROVE  Tracked'
  <2>1. OnStack /\ OnlyTheirs => OnStack' /\ OnlyTheirs'
    BY <1>1 DEF OnStack, OnlyTheirs
  <2> QED
    BY <1>1, <2>1, TrackedKept
<1>2. CASE UNCHANGED pluginVars
  BY <1>1, <1>2 DEF pluginVars
<1>3. CASE \E e \in setups : SetupResolves(e)
  BY <1>1, <1>3 DEF SetupResolves
<1>4. ASSUME NEW p \in Plugins, Unloaded(p)
      PROVE  Tracked'
  <2>1. /\ record[p] = "disposing" /\ record' = [record EXCEPT ![p] = "absent"]
        /\ disposers' = Without({p})
        /\ stack' = stack /\ unwinds' = unwinds /\ disposal' = disposal /\ live' = live
        /\ missed' = missed /\ cut' = cut
    BY <1>4 DEF Unloaded
  <2>2. /\ record \in [Plugins -> {"absent", "loading", "active", "failed", "disposing"}]
        /\ disposers \in [Names -> Seq(EffectSet)] /\ stack \in Seq(Plugins)
    BY DEF Basic, PluginTypes
  <2> SUFFICES ASSUME disposal = "open", ~cut
               PROVE  Tracked'
    BY <2>1 DEF Tracked
  <2>3. OnStack /\ OnlyTheirs
    BY DEF Tracked
  <2>4. disposers' = disposers
    <3>1. disposers[p] = <<>>
      BY <2>1, <2>3 DEF OnlyTheirs
    <3> QED
      BY <2>1, <2>2, <3>1 DEF Without
  <2>5. OnStack'
    <3>1. ASSUME NEW i \in 1..Len(stack)
          PROVE  record'[stack[i]] \in {"loading", "active", "failed"}
      <4>1. stack[i] \in Plugins /\ record[stack[i]] \in {"loading", "active", "failed"}
        BY <2>2, <2>3 DEF OnStack
      <4> QED
        BY <2>1, <2>2, <4>1
    <3> QED
      BY <2>1, <3>1 DEF OnStack
  <2>6. OnlyTheirs'
    <3>1. \A q \in Plugins : q # p => record'[q] = record[q]
      BY <2>1, <2>2
    <3> QED
      BY <2>1, <2>3, <2>4, <3>1 DEF OnlyTheirs
  <2> QED
    BY <2>1, <2>4, <2>5, <2>6, TrackedKept
<1>5. CASE Dispose \/ DisposeNext \/ DisposeGlobal \/ DisposeEnds
  <2>1. disposal' # "open"
    BY <1>5 DEF Dispose, DisposeNext, DisposeGlobal, DisposeEnds
  <2> QED
    BY <2>1 DEF Tracked
<1>6. ASSUME NEW p \in Plugins,
             \/ StartLoad(p) \/ Loaded(p) \/ LoadFails(p) \/ LoadFailed(p)
             \/ Register(p) \/ Unload(p)
      PROVE  Tracked'
  BY <1>6, TrackedStarts, TrackedPops, TrackedFails, TrackedRegisters, TrackedUnloads
<1>7. CASE \E o \in Owners : RunDisposer(o)
  BY <1>7, TrackedDisposes
<1> QED
  BY <1>2, <1>3, <1>4, <1>5, <1>6, <1>7 DEF PluginNext

LEMMA TrackedIsTracked == PluginTypes /\ Tracked => EffectsTracked
<1> SUFFICES ASSUME PluginTypes, Tracked, disposal = "open", ~cut
             PROVE  /\ live \ missed = UNION {ToSet(list) : list \in Waiting}
                    /\ \A one, other \in Waiting : one # other => ToSet(one) \cap ToSet(other) = {}
  BY DEF EffectsTracked
<1> DEFINE L == ListsIn(disposers, unwinds)
<1>1. Once(L, live \ missed)
  BY DEF Tracked
<1>2. /\ disposers \in [Names -> Seq(EffectSet)] /\ unwinds \in [Owners -> Seq(EffectSet)]
      /\ live \subseteq EffectSet
  BY DEF PluginTypes
<1>3. L \in [Slots -> Seq(EffectSet)]
  BY <1>2, ListsInAre
<1>4. \A list : list \in Waiting <=> \E s \in Slots : list = L[s]
  <2>1. ASSUME NEW list \in Waiting
        PROVE  \E s \in Slots : list = L[s]
    <3>1. CASE \E n \in Names : list = disposers[n]
      <4>1. PICK n \in Names : list = disposers[n]
        BY <3>1
      <4>2. <<"list", n>> \in Slots /\ L[<<"list", n>>] = disposers[n]
        BY ListsInAre
      <4> QED
        BY <4>1, <4>2
    <3>2. CASE \E o \in Owners : list = unwinds[o]
      <4>1. PICK o \in Owners : list = unwinds[o]
        BY <3>2
      <4>2. <<"unwind", o>> \in Slots /\ L[<<"unwind", o>>] = unwinds[o]
        BY ListsInAre
      <4> QED
        BY <4>1, <4>2
    <3> QED
      BY <3>1, <3>2 DEF Waiting
  <2>2. ASSUME NEW s \in Slots
        PROVE  L[s] \in Waiting
    <3>1. CASE \E n \in Names : s = <<"list", n>>
      <4>1. PICK n \in Names : s = <<"list", n>>
        BY <3>1
      <4>2. L[s] = disposers[n]
        BY <4>1, ListsInAre
      <4> QED
        BY <4>2 DEF Waiting
    <3>2. CASE \E o \in Owners : s = <<"unwind", o>>
      <4>1. PICK o \in Owners : s = <<"unwind", o>>
        BY <3>2
      <4>2. L[s] = unwinds[o]
        BY <4>1, ListsInAre
      <4> QED
        BY <4>2 DEF Waiting
    <3> QED
      BY <3>1, <3>2, ListsInAre
  <2> QED
    BY <2>1, <2>2
<1> HIDE DEF L
<1>5. ASSUME NEW s \in Slots
      PROVE  \A e : e \in ToSet(L[s]) <=> \E i \in 1..Len(L[s]) : L[s][i] = e
  <2>1. L[s] \in Seq(EffectSet)
    BY <1>3
  <2> QED
    BY <2>1 DEF ToSet
<1>6. \A e : e \in UNION {ToSet(list) : list \in Waiting} <=> Somewhere(L, e)
  <2>1. ASSUME NEW e, e \in UNION {ToSet(list) : list \in Waiting}
        PROVE  Somewhere(L, e)
    <3>1. PICK list \in Waiting : e \in ToSet(list)
      BY <2>1
    <3>2. PICK s \in Slots : list = L[s]
      BY <1>4
    <3> QED
      BY <1>5, <3>1, <3>2 DEF Somewhere
  <2>2. ASSUME NEW e, Somewhere(L, e)
        PROVE  e \in UNION {ToSet(list) : list \in Waiting}
    <3>1. PICK s \in Slots : \E i \in 1..Len(L[s]) : L[s][i] = e
      BY <2>2 DEF Somewhere
    <3>2. e \in ToSet(L[s]) /\ L[s] \in Waiting
      BY <1>4, <1>5, <3>1
    <3> QED
      BY <3>2
  <2> QED
    BY <2>1, <2>2
<1>7. \A e : Somewhere(L, e) => e \in EffectSet
  <2>1. ASSUME NEW e, NEW s \in Slots, NEW i \in 1..Len(L[s]), L[s][i] = e
        PROVE  e \in EffectSet
    <3>1. L[s] \in Seq(EffectSet)
      BY <1>3
    <3> QED
      BY <2>1, <3>1
  <2> QED
    BY <2>1 DEF Somewhere
<1>8. live \ missed = UNION {ToSet(list) : list \in Waiting}
  <2>1. \A e : e \in live \ missed <=> Somewhere(L, e)
    BY <1>1, <1>2, <1>7 DEF Once
  <2> QED
    BY <1>6, <2>1
<1>9. ASSUME NEW one \in Waiting, NEW other \in Waiting, NEW e,
             e \in ToSet(one), e \in ToSet(other)
      PROVE  one = other
  <2>1. PICK s \in Slots : one = L[s]
    BY <1>4
  <2>2. PICK t \in Slots : other = L[t]
    BY <1>4
  <2>3. PICK i \in 1..Len(L[s]) : L[s][i] = e
    BY <1>5, <1>9, <2>1
  <2>4. PICK j \in 1..Len(L[t]) : L[t][j] = e
    BY <1>5, <1>9, <2>2
  <2>5. Apiece(L) /\ L[s][i] = L[t][j]
    BY <1>1, <2>3, <2>4 DEF Once
  <2>6. s = t
    BY <2>5 DEF Apiece
  <2> QED
    BY <2>1, <2>2, <2>6
<1> QED
  BY <1>8, <1>9

\* While nothing overlaps, the effects in force of a plugin are the first ones
\* of its last load, its list holds them in the order they came, and an
\* unwinding of it the other way round.
Upwards(list, p, l, m) == Len(list) = m /\ \A i \in 1..m : list[i] = Effect(p, l, i)
Downwards(list, p, l, m) == Len(list) = m /\ \A i \in 1..m : list[i] = Effect(p, l, m - i + 1)
FirstOf(p, l, m) == {Effect(p, l, n) : n \in 1..m}
InForce(p) == {e \in live \ missed : e.by = p}

HeldIn(p, l, m) ==
  /\ record[p] \in {"loading", "active"}
  /\ Upwards(disposers[p], p, l, m)
  /\ unwinds[<<p, "failure">>] = <<>> /\ unwinds[<<p, "unload">>] = <<>>
  /\ Loading(p) => l = applying[p].load /\ m = applying[p].effects
Failing(p, l, m) ==
  /\ record[p] = "failed" /\ Loading(p) /\ applying[p].threw
  /\ disposers[p] = <<>> /\ unwinds[<<p, "unload">>] = <<>>
  /\ Downwards(unwinds[<<p, "failure">>], p, l, m)
Leaving(p, l, m) ==
  /\ record[p] = "disposing"
  /\ disposers[p] = <<>> /\ unwinds[<<p, "failure">>] = <<>>
  /\ Downwards(unwinds[<<p, "unload">>], p, l, m)
Gone(p, m) ==
  /\ record[p] \in {"absent", "failed"} /\ ~Loading(p) /\ m = 0
  /\ disposers[p] = <<>> /\ unwinds[<<p, "failure">>] = <<>> /\ unwinds[<<p, "unload">>] = <<>>
InPlace(p) ==
  \E l, m \in Nat :
    /\ InForce(p) = FirstOf(p, l, m)
    /\ HeldIn(p, l, m) \/ Failing(p, l, m) \/ Leaving(p, l, m) \/ Gone(p, m)

\* One thing at a time.
Astir(p) == Loading(p) \/ record[p] = "disposing"
Alone ==
  /\ disposers["global"] = <<>> /\ unwinds[<<"global", "unload">>] = <<>>
  /\ \A p, q \in Plugins : Astir(p) /\ Astir(q) => p = q
  /\ \A p \in Plugins : Loading(p) =>
       /\ stack = <<p>> /\ disposal \in {"open", "closed"}
       /\ record[p] = IF applying[p].threw THEN "failed" ELSE "loading"

\* dispose() comes to every plugin there is.
Reached ==
  \A p \in Plugins :
    /\ record[p] # "absent" => \E i \in 1..Len(loadOrder) : loadOrder[i] = p
    /\ disposal = "plugins" /\ record[p] # "absent" => \E i \in 1..Len(closing) : closing[i] = p
    /\ disposal = "plugins" /\ record[p] = "disposing" => closing # <<>> /\ Head(closing) = p
    /\ disposal = "global" => record[p] = "absent"

InTurn == ~overlapped => (\A p \in Plugins : InPlace(p)) /\ Alone /\ Reached

LEMMA FirstIs ==
  ASSUME NEW p \in Plugins, NEW l \in Nat, NEW m \in Nat
  PROVE  /\ FirstOf(p, l, 0) = {}
         /\ Effect(p, l, m + 1) \notin FirstOf(p, l, m)
         /\ FirstOf(p, l, m) \cup {Effect(p, l, m + 1)} = FirstOf(p, l, m + 1)
         /\ m > 0 => /\ FirstOf(p, l, m) \ {Effect(p, l, m)} = FirstOf(p, l, m - 1)
                     /\ Effect(p, l, m) \in FirstOf(p, l, m)
<1>1. ASSUME NEW k \in Nat, NEW n \in Nat, Effect(p, l, k) = Effect(p, l, n)
      PROVE  k = n
  <2>1. Effect(p, l, k).n = k /\ Effect(p, l, n).n = n
    BY DEF Effect
  <2> QED
    BY <1>1, <2>1
<1>2. FirstOf(p, l, 0) = {}
  BY DEF FirstOf
<1>3. Effect(p, l, m + 1) \notin FirstOf(p, l, m)
  <2>1. ASSUME NEW n \in 1..m
        PROVE  Effect(p, l, m + 1) # Effect(p, l, n)
    <3>1. m + 1 \in Nat /\ n \in Nat /\ m + 1 # n
      OBVIOUS
    <3> QED
      BY <1>1, <3>1
  <2> QED
    BY <2>1 DEF FirstOf
<1>4. ASSUME NEW k \in Nat
      PROVE  FirstOf(p, l, k + 1) = FirstOf(p, l, k) \cup {Effect(p, l, k + 1)}
  <2>1. 1..(k + 1) = (1..k) \cup {k + 1}
    OBVIOUS
  <2> QED
    BY <2>1, Zenon DEF FirstOf
<1>5. ASSUME m > 0
      PROVE  /\ FirstOf(p, l, m) \ {Effect(p, l, m)} = FirstOf(p, l, m - 1)
             /\ Effect(p, l, m) \in FirstOf(p, l, m)
  <2>1. m - 1 \in Nat /\ m - 1 + 1 = m
    BY <1>5
  <2>2. FirstOf(p, l, m) = FirstOf(p, l, m - 1) \cup {Effect(p, l, m)}
    BY <1>4, <2>1
  <2>3. Effect(p, l, m) \notin FirstOf(p, l, m - 1)
    <3>1. ASSUME NEW n \in 1..(m - 1)
          PROVE  Effect(p, l, m) # Effect(p, l, n)
      <4>1. n \in Nat /\ m # n
        OBVIOUS
      <4> QED
        BY <1>1, <4>1
    <3> QED
      BY <3>1 DEF FirstOf
  <2> QED
    BY <2>2, <2>3
<1> QED
  BY <1>2, <1>3, <1>4, <1>5

LEMMA UpMore ==
  ASSUME NEW s \in Seq(EffectSet), NEW p, NEW l, NEW m \in Nat, Upwards(s, p, l, m)
  PROVE  Upwards(Append(s, Effect(p, l, m + 1)), p, l, m + 1)
<1> DEFINE e == Effect(p, l, m + 1)
           t == Append(s, e)
<1>1. Len(s) = m /\ \A i \in 1..m : s[i] = Effect(p, l, i)
  BY DEF Upwards
<1> HIDE DEF e
<1>2. Len(t) = m + 1 /\ t[m + 1] = e /\ \A i \in 1..m : t[i] = s[i]
  BY <1>1
<1> HIDE DEF t
<1>3. ASSUME NEW i \in 1..(m + 1)
      PROVE  t[i] = Effect(p, l, i)
  <2>1. CASE i = m + 1
    BY <1>2, <2>1 DEF e
  <2>2. CASE i # m + 1
    <3>1. i \in 1..m
      BY <2>2
    <3> QED
      BY <1>1, <1>2, <3>1
  <2> QED
    BY <2>1, <2>2
<1> QED
  BY <1>2, <1>3 DEF Upwards, t, e

LEMMA UpDown ==
  ASSUME NEW s \in Seq(EffectSet), NEW p, NEW l, NEW m \in Nat, Upwards(s, p, l, m)
  PROVE  Downwards(Unwinding(s), p, l, m)
<1>1. Len(s) = m /\ \A i \in 1..m : s[i] = Effect(p, l, i)
  BY DEF Upwards
<1>2. /\ Len(Unwinding(s)) = m
      /\ \A i \in 1..m : m - i + 1 \in 1..m /\ Unwinding(s)[i] = s[m - i + 1]
  BY <1>1, UnwindingIs
<1> QED
  BY <1>1, <1>2 DEF Downwards

LEMMA DownLess ==
  ASSUME NEW s \in Seq(EffectSet), NEW p, NEW l, NEW m \in Nat, Downwards(s, p, l, m), s # <<>>
  PROVE  m > 0 /\ Head(s) = Effect(p, l, m) /\ Downwards(Tail(s), p, l, m - 1)
<1>1. Len(s) = m /\ \A i \in 1..m : s[i] = Effect(p, l, m - i + 1)
  BY DEF Downwards
<1>2. /\ m > 0 /\ Head(s) = s[1] /\ Len(Tail(s)) = m - 1
      /\ \A i \in 1..(m - 1) : Tail(s)[i] = s[i + 1]
  BY <1>1, TailIs
<1>3. Head(s) = Effect(p, l, m)
  <2>1. 1 \in 1..m /\ m - 1 + 1 = m
    BY <1>2
  <2> QED
    BY <1>1, <1>2, <2>1
<1>4. ASSUME NEW i \in 1..(m - 1)
      PROVE  Tail(s)[i] = Effect(p, l, (m - 1) - i + 1)
  <2>1. i + 1 \in 1..m /\ m - (i + 1) + 1 = (m - 1) - i + 1
    OBVIOUS
  <2>2. s[i + 1] = Effect(p, l, m - (i + 1) + 1)
    BY <1>1, <2>1
  <2> QED
    BY <1>2, <2>1, <2>2
<1> QED
  BY <1>2, <1>3, <1>4 DEF Downwards

\* No step is made for this plugin.
LEMMA PlaceKept ==
  ASSUME NEW p \in Plugins, InPlace(p), record'[p] = record[p], disposers'[p] = disposers[p],
         unwinds'[<<p, "failure">>] = unwinds[<<p, "failure">>],
         unwinds'[<<p, "unload">>] = unwinds[<<p, "unload">>],
         applying'[p] = applying[p], InForce(p)' = InForce(p)
  PROVE  InPlace(p)'
<1>1. PICK l \in Nat, m \in Nat :
        /\ InForce(p) = FirstOf(p, l, m)
        /\ HeldIn(p, l, m) \/ Failing(p, l, m) \/ Leaving(p, l, m) \/ Gone(p, m)
  BY DEF InPlace
<1>2. HeldIn(p, l, m) => HeldIn(p, l, m)'
  BY DEF HeldIn, Loading
<1>3. Failing(p, l, m) => Failing(p, l, m)'
  BY DEF Failing, Loading
<1>4. Leaving(p, l, m) => Leaving(p, l, m)'
  BY DEF Leaving
<1>5. Gone(p, m) => Gone(p, m)'
  BY DEF Gone, Loading
<1>6. /\ InForce(p)' = FirstOf(p, l, m)
      /\ HeldIn(p, l, m)' \/ Failing(p, l, m)' \/ Leaving(p, l, m)' \/ Gone(p, m)'
  BY <1>1, <1>2, <1>3, <1>4, <1>5
<1> QED
  BY <1>6 DEF InPlace

LEMMA InTurnAtFirst == PluginInit => InTurn
<1> SUFFICES ASSUME PluginInit PROVE InTurn
  OBVIOUS
<1>1. /\ \A p \in Plugins : ~Loading(p) /\ record[p] = "absent"
      /\ disposers = [n \in Names |-> <<>>] /\ unwinds = [o \in Owners |-> <<>>]
      /\ live = {} /\ disposal = "open"
  BY DEF PluginInit, Loading
<1>2. ASSUME NEW p \in Plugins
      PROVE  InPlace(p)
  <2>1. Gone(p, 0)
    BY <1>1, OwnersAre DEF Gone
  <2>2. InForce(p) = FirstOf(p, 0, 0)
    BY <1>1, FirstIs DEF InForce
  <2> QED
    BY <2>1, <2>2 DEF InPlace
<1>3. Alone
  BY <1>1, OwnersAre DEF Alone, Astir
<1>4. Reached
  BY <1>1 DEF Reached
<1> QED
  BY <1>2, <1>3, <1>4 DEF InTurn

\* While a plugin is not there, or is, what is in force of it.
LEMMA InTurnIsInOrder == InTurn => UnwoundInOrder
<1> SUFFICES ASSUME InTurn, ~overlapped, NEW p \in Plugins
             PROVE  /\ record[p] \in {"absent", "failed"} /\ ~Loading(p) => InForce(p) = {}
                    /\ \A e \in InForce(p) : \A n \in 1..(e.n - 1) :
                         Effect(p, e.load, n) \in InForce(p) \cup missed
  BY DEF UnwoundInOrder, InForce
<1>1. PICK l \in Nat, m \in Nat :
        /\ InForce(p) = FirstOf(p, l, m)
        /\ HeldIn(p, l, m) \/ Failing(p, l, m) \/ Leaving(p, l, m) \/ Gone(p, m)
  BY DEF InTurn, InPlace
<1>2. ASSUME record[p] \in {"absent", "failed"}, ~Loading(p)
      PROVE  InForce(p) = {}
  <2>1. m = 0
    BY <1>1, <1>2 DEF HeldIn, Failing, Leaving, Gone
  <2> QED
    BY <1>1, <2>1, FirstIs
<1>3. ASSUME NEW e \in InForce(p), NEW n \in 1..(e.n - 1)
      PROVE  Effect(p, e.load, n) \in InForce(p)
  <2>1. PICK k \in 1..m : e = Effect(p, l, k)
    BY <1>1 DEF FirstOf
  <2>2. e.load = l /\ e.n = k
    BY <2>1 DEF Effect
  <2>3. n \in 1..m
    BY <2>1, <2>2
  <2> QED
    BY <1>1, <2>2, <2>3 DEF FirstOf
<1> QED
  BY <1>2, <1>3

LEMMA TypesOf ==
  ASSUME PluginTypes
  PROVE  /\ record \in [Plugins -> {"absent", "loading", "active", "failed", "disposing"}]
         /\ disposers \in [Names -> Seq(EffectSet)] /\ unwinds \in [Owners -> Seq(EffectSet)]
         /\ loadOrder \in Seq(Plugins) /\ stack \in Seq(Plugins) /\ closing \in Seq(Plugins)
         /\ applying \in [Plugins -> [load : Nat, effects : Nat, threw : BOOLEAN]]
         /\ live \subseteq EffectSet /\ loads \in Nat
BY DEF PluginTypes

\* Nobody is at anything.
LEMMA NobodyBusy ==
  ASSUME ~Busy
  PROVE  /\ disposal \notin {"plugins", "global"}
         /\ \A p \in Plugins : ~Loading(p) /\ record[p] # "disposing" /\ ~Astir(p)
         /\ \A o \in Owners : unwinds[o] = <<>>
BY DEF Busy, Astir

\* A load begins.
LEMMA TurnStarts ==
  ASSUME Basic, InTurn, NEW p \in Plugins, StartLoad(p)
  PROVE  InTurn'
<1>1. /\ record[p] \in {"absent", "failed"} /\ record' = [record EXCEPT ![p] = "loading"]
      /\ disposers' = [disposers EXCEPT ![p] = <<>>] /\ disposal' = disposal
      /\ unwinds' = unwinds /\ live' = live /\ missed' = missed /\ stack' = Append(stack, p)
      /\ overlapped' = (overlapped \/ Busy) /\ loadOrder' = Append(loadOrder, p)
      /\ closing' = closing
  BY DEF StartLoad
<1>2. /\ Loading(p)' /\ \A q \in Plugins : q # p => applying'[q] = applying[q]
      /\ applying'[p].load = loads + 1 /\ applying'[p].effects = 0 /\ ~applying'[p].threw
  BY BasicStarts
<1>3. PluginTypes
  BY DEF Basic
<1> SUFFICES ASSUME ~overlapped'
             PROVE  (\A q \in Plugins : InPlace(q)') /\ Alone' /\ Reached'
  BY DEF InTurn
<1>4. ~Busy /\ (\A q \in Plugins : InPlace(q)) /\ Alone /\ Reached
  BY <1>1 DEF InTurn
<1>5. /\ disposal \notin {"plugins", "global"}
      /\ \A q \in Plugins : ~Loading(q) /\ record[q] # "disposing" /\ ~Astir(q)
      /\ \A o \in Owners : unwinds[o] = <<>>
  BY <1>4, NobodyBusy
<1>6. /\ record'[p] = "loading" /\ disposers'[p] = <<>>
      /\ \A n \in Names : n # p => disposers'[n] = disposers[n]
      /\ \A q \in Plugins : q # p => record'[q] = record[q]
  BY <1>1, <1>3, TypesOf, OwnersAre
<1>7. InPlace(p)'
  <2>1. PICK l \in Nat, m \in Nat :
          /\ InForce(p) = FirstOf(p, l, m)
          /\ HeldIn(p, l, m) \/ Failing(p, l, m) \/ Leaving(p, l, m) \/ Gone(p, m)
    BY <1>4 DEF InPlace
  <2>2. m = 0
    BY <1>1, <1>5, <2>1 DEF HeldIn, Failing, Leaving, Gone
  <2>3. InForce(p)' = {}
    <3>1. InForce(p) = {}
      BY <2>1, <2>2, FirstIs
    <3> QED
      BY <1>1, <3>1 DEF InForce
  <2>4. \E k \in Nat : k = loads + 1
    BY <1>3, TypesOf
  <2>5. PICK k \in Nat : k = loads + 1
    BY <2>4
  <2>6. Upwards(disposers'[p], p, k, 0)
    BY <1>6 DEF Upwards
  <2>7. unwinds'[<<p, "failure">>] = <<>> /\ unwinds'[<<p, "unload">>] = <<>>
    BY <1>1, <1>5, OwnersAre
  <2>8. HeldIn(p, k, 0)'
    BY <1>2, <1>6, <2>5, <2>6, <2>7 DEF HeldIn
  <2>9. InForce(p)' = FirstOf(p, k, 0)
    BY <2>3, FirstIs
  <2> QED
    BY <2>8, <2>9 DEF InPlace
<1>8. ASSUME NEW q \in Plugins, q # p
      PROVE  InPlace(q)'
  <2>1. InForce(q)' = InForce(q)
    BY <1>1 DEF InForce
  <2> QED
    BY <1>1, <1>2, <1>4, <1>6, <1>8, <2>1, OwnersAre, PlaceKept
<1>9. Alone'
  <2>1. stack' = <<p>>
    <3>1. {q \in Plugins : Loading(q)} = {}
      BY <1>5
    <3>2. Len(stack) = 0
      BY <3>1, FS_EmptySet DEF Basic, Stacked
    <3>3. stack = <<>>
      BY <1>3, <3>2, TypesOf
    <3> QED
      BY <1>1, <3>3
  <2>2. \A q \in Plugins : Astir(q)' => q = p
    BY <1>2, <1>5, <1>6 DEF Astir, Loading
  <2>3. disposal' \in {"open", "closed"}
    BY <1>1, <1>3, <1>5 DEF PluginTypes
  <2>4. disposers'["global"] = <<>> /\ unwinds'[<<"global", "unload">>] = <<>>
    BY <1>1, <1>4, <1>6, OwnersAre DEF Alone
  <2> QED
    BY <1>2, <1>6, <2>1, <2>2, <2>3, <2>4 DEF Alone, Astir
<1>10. Reached'
  <2>1. ASSUME NEW q \in Plugins, record'[q] # "absent"
        PROVE  \E i \in 1..Len(loadOrder') : loadOrder'[i] = q
    <3>1. /\ Len(loadOrder') = Len(loadOrder) + 1 /\ loadOrder'[Len(loadOrder) + 1] = p
          /\ Len(loadOrder) \in Nat /\ \A i \in 1..Len(loadOrder) : loadOrder'[i] = loadOrder[i]
      BY <1>1, <1>3, TypesOf
    <3>2. CASE q = p
      BY <3>1, <3>2
    <3>3. CASE q # p
      <4>1. PICK i \in 1..Len(loadOrder) : loadOrder[i] = q
        BY <1>4, <1>6, <2>1, <3>3 DEF Reached
      <4> QED
        BY <3>1, <4>1
    <3> QED
      BY <3>2, <3>3
  <2> QED
    BY <1>1, <1>5, <2>1 DEF Reached
<1> QED
  BY <1>7, <1>8, <1>9, <1>10

\* A registration comes to the plugin that is loading.
LEMMA TurnRegisters ==
  ASSUME Basic, InTurn, NEW p \in Plugins, Register(p)
  PROVE  InTurn'
<1> DEFINE e == Effect(p, applying[p].load, applying[p].effects + 1)
<1>1. /\ Loading(p) /\ ~applying[p].threw /\ e \in EffectSet /\ e \notin live \cup missed
      /\ e.by = p /\ live' = live \cup {e}
      /\ disposers' = [disposers EXCEPT ![Tracker(p)] = Append(@, e)]
      /\ \A q \in Plugins : /\ q # p => applying'[q] = applying[q]
                            /\ applying'[q].load = applying[q].load
                            /\ applying'[q].threw = applying[q].threw
                            /\ Loading(q)' <=> Loading(q)
      /\ applying'[p].effects = applying[p].effects + 1
  BY BasicRegisters
<1>2. /\ record' = record /\ stack' = stack /\ unwinds' = unwinds /\ disposal' = disposal
      /\ missed' = missed /\ overlapped' = overlapped /\ loadOrder' = loadOrder
      /\ closing' = closing
  BY DEF Register
<1>3. /\ PluginTypes /\ applying[p].load \in Nat /\ applying[p].effects \in Nat
  <2>1. applying \in [Plugins -> [load : Nat, effects : Nat, threw : BOOLEAN]]
    BY DEF Basic, PluginTypes
  <2> QED
    BY <2>1 DEF Basic
<1> SUFFICES ASSUME ~overlapped'
             PROVE  (\A q \in Plugins : InPlace(q)') /\ Alone' /\ Reached'
  BY DEF InTurn
<1>4. (\A q \in Plugins : InPlace(q)) /\ Alone /\ Reached
  BY <1>2 DEF InTurn
<1>5. stack = <<p>> /\ record[p] = "loading"
  BY <1>1, <1>4 DEF Alone
<1>6. Tracker(p) = p
  <2>1. stack # <<>> /\ Last(stack) = p
    BY <1>5 DEF Last
  <2> QED
    BY <1>5, <2>1 DEF Tracker
<1> HIDE DEF e
<1>7. /\ disposers'[p] = Append(disposers[p], e)
      /\ \A n \in Names : n # p => disposers'[n] = disposers[n]
  BY <1>1, <1>3, <1>6, TypesOf, OwnersAre
<1>8. InPlace(p)'
  <2>1. PICK l \in Nat, m \in Nat :
          /\ InForce(p) = FirstOf(p, l, m)
          /\ HeldIn(p, l, m) \/ Failing(p, l, m) \/ Leaving(p, l, m) \/ Gone(p, m)
    BY <1>4 DEF InPlace
  <2>2. HeldIn(p, l, m)
    BY <1>5, <2>1 DEF Failing, Leaving, Gone
  <2>3. l = applying[p].load /\ m = applying[p].effects
    BY <1>1, <2>2 DEF HeldIn
  <2>4. e = Effect(p, l, m + 1)
    BY <2>3 DEF e
  <2>5. InForce(p)' = InForce(p) \cup {e}
    BY <1>1, <1>2 DEF InForce
  <2>6. InForce(p)' = FirstOf(p, l, m + 1)
    BY <2>1, <2>4, <2>5, FirstIs
  <2>7. Upwards(disposers'[p], p, l, m + 1)
    <3>1. disposers[p] \in Seq(EffectSet) /\ Upwards(disposers[p], p, l, m)
      BY <1>3, <2>2, TypesOf, OwnersAre DEF HeldIn
    <3>2. Upwards(Append(disposers[p], Effect(p, l, m + 1)), p, l, m + 1)
      BY <3>1, UpMore
    <3> QED
      BY <1>7, <2>4, <3>2
  <2>8. /\ unwinds[<<p, "failure">>] = <<>> /\ unwinds[<<p, "unload">>] = <<>>
    BY <2>2 DEF HeldIn
  <2>9. HeldIn(p, l, m + 1)'
    <3>1. l = applying'[p].load /\ m + 1 = applying'[p].effects
      BY <1>1, <2>3
    <3>2. record'[p] \in {"loading", "active"}
      BY <1>2, <1>5
    <3> QED
      BY <1>2, <2>7, <2>8, <3>1, <3>2 DEF HeldIn
  <2>10. m + 1 \in Nat
    OBVIOUS
  <2> QED
    BY <2>6, <2>9, <2>10 DEF InPlace
<1>9. ASSUME NEW q \in Plugins, q # p
      PROVE  InPlace(q)'
  <2>1. InForce(q)' = InForce(q)
    BY <1>1, <1>2, <1>9 DEF InForce
  <2> QED
    BY <1>1, <1>2, <1>4, <1>7, <1>9, <2>1, OwnersAre, PlaceKept
<1>10. Alone'
  <2>1. \A q \in Plugins : Astir(q)' <=> Astir(q)
    BY <1>1, <1>2 DEF Astir
  <2>2. disposers'["global"] = disposers["global"]
    BY <1>7, OwnersAre
  <2> QED
    BY <1>1, <1>2, <1>4, <2>1, <2>2 DEF Alone
<1>11. Reached'
  BY <1>2, <1>4 DEF Reached
<1> QED
  BY <1>8, <1>9, <1>10, <1>11

\* A load ends well.
LEMMA TurnLoaded ==
  ASSUME Basic, InTurn, NEW p \in Plugins, Loaded(p)
  PROVE  InTurn'
<1>1. /\ Loading(p) /\ ~applying[p].threw /\ PopLoad(p)
      /\ record' = [record EXCEPT ![p] = IF @ = "loading" THEN "active" ELSE @]
      /\ disposers' = disposers /\ unwinds' = unwinds /\ live' = live /\ missed' = missed
      /\ disposal' = disposal /\ overlapped' = overlapped /\ loadOrder' = loadOrder
      /\ closing' = closing
  BY DEF Loaded
<1>2. applying'[p] = NotLoading /\ \A q \in Plugins : q # p => applying'[q] = applying[q]
  BY <1>1, PopIs DEF Basic
<1>3. PluginTypes
  BY DEF Basic
<1> SUFFICES ASSUME ~overlapped'
             PROVE  (\A q \in Plugins : InPlace(q)') /\ Alone' /\ Reached'
  BY DEF InTurn
<1>4. (\A q \in Plugins : InPlace(q)) /\ Alone /\ Reached
  BY <1>1 DEF InTurn
<1>5. record[p] = "loading"
  BY <1>1, <1>4 DEF Alone
<1>6. record'[p] = "active" /\ \A q \in Plugins : q # p => record'[q] = record[q]
  BY <1>1, <1>3, <1>5, TypesOf
<1>7. InPlace(p)'
  <2>1. PICK l \in Nat, m \in Nat :
          /\ InForce(p) = FirstOf(p, l, m)
          /\ HeldIn(p, l, m) \/ Failing(p, l, m) \/ Leaving(p, l, m) \/ Gone(p, m)
    BY <1>4 DEF InPlace
  <2>2. HeldIn(p, l, m)
    BY <1>5, <2>1 DEF Failing, Leaving, Gone
  <2>3. HeldIn(p, l, m)'
    BY <1>1, <1>2, <1>6, <2>2 DEF HeldIn, Loading
  <2>4. InForce(p)' = FirstOf(p, l, m)
    BY <1>1, <2>1 DEF InForce
  <2> QED
    BY <2>3, <2>4 DEF InPlace
<1>8. ASSUME NEW q \in Plugins, q # p
      PROVE  InPlace(q)'
  <2>1. InForce(q)' = InForce(q)
    BY <1>1 DEF InForce
  <2> QED
    BY <1>1, <1>2, <1>4, <1>6, <1>8, <2>1, PlaceKept
<1>9. Alone'
  <2>1. \A q \in Plugins : ~Loading(q)'
    BY <1>1, <1>2, <1>4 DEF Alone, Astir, Loading
  <2>2. \A q \in Plugins : ~Astir(q)'
    BY <1>1, <1>4, <1>6, <2>1 DEF Alone, Astir
  <2> QED
    BY <1>1, <1>4, <2>1, <2>2 DEF Alone
<1>10. Reached'
  BY <1>1, <1>4, <1>5, <1>6 DEF Reached
<1> QED
  BY <1>7, <1>8, <1>9, <1>10

\* A load fails: what it registered begins to go.
LEMMA TurnFails ==
  ASSUME Basic, InTurn, NEW p \in Plugins, LoadFails(p)
  PROVE  InTurn'
<1>1. /\ Loading(p) /\ ~applying[p].threw /\ stack' = stack /\ live' = live /\ missed' = missed
      /\ disposal' = disposal /\ overlapped' = overlapped /\ loadOrder' = loadOrder
      /\ closing' = closing
  BY DEF LoadFails
<1>2. /\ applying'[p].threw
      /\ \A q \in Plugins : (q # p => applying'[q] = applying[q]) /\ (Loading(q)' <=> Loading(q))
  BY BasicFails
<1>3. PluginTypes
  BY DEF Basic
<1> SUFFICES ASSUME ~overlapped'
             PROVE  (\A q \in Plugins : InPlace(q)') /\ Alone' /\ Reached'
  BY DEF InTurn
<1>4. (\A q \in Plugins : InPlace(q)) /\ Alone /\ Reached
  BY <1>1 DEF InTurn
<1>5. record[p] = "loading"
  BY <1>1, <1>4 DEF Alone
<1>6. /\ record' = [record EXCEPT ![p] = IF @ = "loading" THEN "failed" ELSE @]
      /\ unwinds' = [unwinds EXCEPT ![<<p, "failure">>] = Unwinding(disposers[p])]
      /\ disposers' = [disposers EXCEPT ![p] = <<>>]
  BY <1>5 DEF LoadFails
<1>7. /\ record'[p] = "failed" /\ \A q \in Plugins : q # p => record'[q] = record[q]
      /\ disposers'[p] = <<>> /\ \A n \in Names : n # p => disposers'[n] = disposers[n]
  BY <1>3, <1>5, <1>6, TypesOf, OwnersAre
<1>8. /\ unwinds'[<<p, "failure">>] = Unwinding(disposers[p])
      /\ \A o \in Owners : o # <<p, "failure">> => unwinds'[o] = unwinds[o]
  BY <1>3, <1>6, TypesOf, OwnersAre
<1>9. InPlace(p)'
  <2>1. PICK l \in Nat, m \in Nat :
          /\ InForce(p) = FirstOf(p, l, m)
          /\ HeldIn(p, l, m) \/ Failing(p, l, m) \/ Leaving(p, l, m) \/ Gone(p, m)
    BY <1>4 DEF InPlace
  <2>2. HeldIn(p, l, m)
    BY <1>5, <2>1 DEF Failing, Leaving, Gone
  <2>3. Downwards(unwinds'[<<p, "failure">>], p, l, m)
    <3>1. disposers[p] \in Seq(EffectSet) /\ Upwards(disposers[p], p, l, m)
      BY <1>3, <2>2, TypesOf, OwnersAre DEF HeldIn
    <3> QED
      BY <1>8, <3>1, UpDown
  <2>4. unwinds'[<<p, "unload">>] = <<>>
    <3>1. <<p, "unload">> \in Owners /\ <<p, "unload">> # <<p, "failure">>
      BY OwnersAre
    <3> QED
      BY <1>8, <2>2, <3>1 DEF HeldIn
  <2>5. Failing(p, l, m)'
    BY <1>1, <1>2, <1>7, <2>3, <2>4 DEF Failing
  <2>6. InForce(p)' = FirstOf(p, l, m)
    BY <1>1, <2>1 DEF InForce
  <2> QED
    BY <2>5, <2>6 DEF InPlace
<1>10. ASSUME NEW q \in Plugins, q # p
       PROVE  InPlace(q)'
  <2>1. InForce(q)' = InForce(q)
    BY <1>1 DEF InForce
  <2>2. /\ unwinds'[<<q, "failure">>] = unwinds[<<q, "failure">>]
        /\ unwinds'[<<q, "unload">>] = unwinds[<<q, "unload">>]
    <3>1. /\ <<q, "failure">> \in Owners /\ <<q, "failure">> # <<p, "failure">>
          /\ <<q, "unload">> \in Owners /\ <<q, "unload">> # <<p, "failure">>
      BY <1>10, OwnersAre
    <3> QED
      BY <1>8, <3>1
  <2> QED
    BY <1>2, <1>4, <1>7, <1>10, <2>1, <2>2, OwnersAre, PlaceKept
<1>11. Alone'
  <2>1. \A q \in Plugins : Astir(q)' => Astir(q)
    BY <1>2, <1>7 DEF Astir
  <2>2. disposers'["global"] = disposers["global"]
        /\ unwinds'[<<"global", "unload">>] = unwinds[<<"global", "unload">>]
    <3>1. <<"global", "unload">> \in Owners /\ <<"global", "unload">> # <<p, "failure">>
          /\ "global" \in Names /\ p # "global"
      BY OwnersAre
    <3> QED
      BY <1>7, <1>8, <3>1
  <2>3. \A q \in Plugins : Loading(q)' =>
          /\ stack' = <<q>> /\ disposal' \in {"open", "closed"}
          /\ record'[q] = IF applying'[q].threw THEN "failed" ELSE "loading"
    BY <1>1, <1>2, <1>4, <1>7 DEF Alone
  <2> QED
    BY <1>4, <2>1, <2>2, <2>3 DEF Alone
<1>12. Reached'
  BY <1>1, <1>4, <1>5, <1>7 DEF Reached
<1> QED
  BY <1>9, <1>10, <1>11, <1>12

\* All it registered is gone, and the load over.
LEMMA TurnFailed ==
  ASSUME Basic, InTurn, NEW p \in Plugins, LoadFailed(p)
  PROVE  InTurn'
<1>1. /\ applying[p].threw /\ unwinds[<<p, "failure">>] = <<>> /\ PopLoad(p)
      /\ disposers' = disposers /\ unwinds' = unwinds /\ live' = live /\ missed' = missed
      /\ disposal' = disposal /\ overlapped' = overlapped /\ loadOrder' = loadOrder
      /\ closing' = closing /\ record' = record
  BY DEF LoadFailed
<1>2. Loading(p)
  BY <1>1 DEF Basic, Numbered, Loading, NotLoading
<1>3. applying'[p] = NotLoading /\ \A q \in Plugins : q # p => applying'[q] = applying[q]
  BY <1>1, <1>2, PopIs DEF Basic
<1> SUFFICES ASSUME ~overlapped'
             PROVE  (\A q \in Plugins : InPlace(q)') /\ Alone' /\ Reached'
  BY DEF InTurn
<1>4. (\A q \in Plugins : InPlace(q)) /\ Alone /\ Reached
  BY <1>1 DEF InTurn
<1>5. record[p] = "failed"
  BY <1>1, <1>2, <1>4 DEF Alone
<1>6. InPlace(p)'
  <2>1. PICK l \in Nat, m \in Nat :
          /\ InForce(p) = FirstOf(p, l, m)
          /\ HeldIn(p, l, m) \/ Failing(p, l, m) \/ Leaving(p, l, m) \/ Gone(p, m)
    BY <1>4 DEF InPlace
  <2>2. Failing(p, l, m)
    BY <1>2, <1>5, <2>1 DEF HeldIn, Leaving, Gone
  <2>3. m = 0
    <3>1. Len(unwinds[<<p, "failure">>]) = m
      BY <2>2 DEF Failing, Downwards
    <3> QED
      BY <1>1, <3>1
  <2>4. Gone(p, m)'
    BY <1>1, <1>3, <1>5, <2>2, <2>3 DEF Failing, Gone, Loading
  <2>5. InForce(p)' = FirstOf(p, l, m)
    BY <1>1, <2>1 DEF InForce
  <2> QED
    BY <2>4, <2>5 DEF InPlace
<1>7. ASSUME NEW q \in Plugins, q # p
      PROVE  InPlace(q)'
  <2>1. InForce(q)' = InForce(q)
    BY <1>1 DEF InForce
  <2> QED
    BY <1>1, <1>3, <1>4, <1>7, <2>1, PlaceKept
<1>8. Alone'
  <2>1. \A q \in Plugins : ~Loading(q)'
    BY <1>2, <1>3, <1>4 DEF Alone, Astir, Loading
  <2>2. \A q \in Plugins : ~Astir(q)'
    BY <1>1, <1>2, <1>4, <1>5, <2>1 DEF Alone, Astir
  <2> QED
    BY <1>1, <1>4, <2>1, <2>2 DEF Alone
<1>9. Reached'
  BY <1>1, <1>4 DEF Reached
<1> QED
  BY <1>6, <1>7, <1>8, <1>9

\* A plugin that is not loading is unloaded: what it has in force begins to go.
LEMMA Departs ==
  ASSUME PluginTypes, \A q \in Plugins : InPlace(q), NEW p \in Plugins, BeginUnload(p),
         ~Loading(p), record[p] \notin {"absent", "disposing"},
         live' = live, missed' = missed, applying' = applying
  PROVE  /\ \A q \in Plugins : InPlace(q)'
         /\ record'[p] = "disposing" /\ \A q \in Plugins : q # p => record'[q] = record[q]
         /\ disposers'["global"] = disposers["global"]
         /\ unwinds'[<<"global", "unload">>] = unwinds[<<"global", "unload">>]
<1>1. /\ record' = [record EXCEPT ![p] = "disposing"]
      /\ unwinds' = [unwinds EXCEPT ![<<p, "unload">>] = @ \o Unwinding(disposers[p])]
      /\ disposers' = [disposers EXCEPT ![p] = <<>>]
  BY DEF BeginUnload
<1>2. /\ record'[p] = "disposing" /\ \A q \in Plugins : q # p => record'[q] = record[q]
      /\ disposers'[p] = <<>> /\ \A n \in Names : n # p => disposers'[n] = disposers[n]
  BY <1>1, TypesOf, OwnersAre
<1>3. /\ unwinds'[<<p, "unload">>] = unwinds[<<p, "unload">>] \o Unwinding(disposers[p])
      /\ \A o \in Owners : o # <<p, "unload">> => unwinds'[o] = unwinds[o]
  BY <1>1, TypesOf, OwnersAre
<1>4. disposers[p] \in Seq(EffectSet)
  BY TypesOf, OwnersAre
<1>5. unwinds'[<<p, "failure">>] = unwinds[<<p, "failure">>]
  <2>1. <<p, "failure">> \in Owners /\ <<p, "failure">> # <<p, "unload">>
    BY OwnersAre
  <2> QED
    BY <1>3, <2>1
<1>6. InPlace(p)'
  <2>1. PICK l \in Nat, m \in Nat :
          /\ InForce(p) = FirstOf(p, l, m)
          /\ HeldIn(p, l, m) \/ Failing(p, l, m) \/ Leaving(p, l, m) \/ Gone(p, m)
    BY DEF InPlace
  <2>2. HeldIn(p, l, m) \/ Gone(p, m)
    BY <2>1 DEF Failing, Leaving
  <2>3. Upwards(disposers[p], p, l, m)
    <3>1. CASE HeldIn(p, l, m)
      BY <3>1 DEF HeldIn
    <3>2. CASE Gone(p, m)
      <4>1. disposers[p] = <<>> /\ m = 0
        BY <3>2 DEF Gone
      <4> QED
        BY <4>1 DEF Upwards
    <3> QED
      BY <2>2, <3>1, <3>2
  <2>4. unwinds[<<p, "failure">>] = <<>> /\ unwinds[<<p, "unload">>] = <<>>
    BY <2>2 DEF HeldIn, Gone
  <2>5. Downwards(unwinds'[<<p, "unload">>], p, l, m)
    <3>1. Downwards(Unwinding(disposers[p]), p, l, m)
      BY <1>4, <2>3, UpDown
    <3>2. Unwinding(disposers[p]) \in Seq(EffectSet)
      BY <1>4, UnwindingIs
    <3>3. <<>> \o Unwinding(disposers[p]) = Unwinding(disposers[p])
      BY <3>2
    <3> QED
      BY <1>3, <2>4, <3>1, <3>3
  <2>6. Leaving(p, l, m)'
    BY <1>2, <1>5, <2>4, <2>5 DEF Leaving
  <2>7. InForce(p)' = FirstOf(p, l, m)
    BY <2>1 DEF InForce
  <2> QED
    BY <2>6, <2>7 DEF InPlace
<1>7. ASSUME NEW q \in Plugins, q # p
      PROVE  InPlace(q)'
  <2>1. InForce(q)' = InForce(q)
    BY DEF InForce
  <2>2. /\ unwinds'[<<q, "failure">>] = unwinds[<<q, "failure">>]
        /\ unwinds'[<<q, "unload">>] = unwinds[<<q, "unload">>]
    <3>1. /\ <<q, "failure">> \in Owners /\ <<q, "failure">> # <<p, "unload">>
          /\ <<q, "unload">> \in Owners /\ <<q, "unload">> # <<p, "unload">>
      BY <1>7, OwnersAre
    <3> QED
      BY <1>3, <3>1
  <2> QED
    BY <1>2, <1>7, <2>1, <2>2, OwnersAre, PlaceKept
<1>8. /\ disposers'["global"] = disposers["global"]
      /\ unwinds'[<<"global", "unload">>] = unwinds[<<"global", "unload">>]
  <2>1. <<"global", "unload">> \in Owners /\ <<"global", "unload">> # <<p, "unload">>
        /\ "global" \in Names /\ p # "global"
    BY OwnersAre
  <2> QED
    BY <1>2, <1>3, <2>1
<1> QED
  BY <1>2, <1>6, <1>7, <1>8

LEMMA TurnUnloads ==
  ASSUME Basic, InTurn, NEW p \in Plugins, Unload(p)
  PROVE  InTurn'
<1>1. /\ record[p] # "absent" /\ BeginUnload(p) /\ overlapped' = (overlapped \/ Busy)
      /\ loadOrder' = loadOrder /\ stack' = stack /\ applying' = applying /\ closing' = closing
      /\ disposal' = disposal /\ live' = live /\ missed' = missed
  BY DEF Unload
<1> SUFFICES ASSUME ~overlapped'
             PROVE  (\A q \in Plugins : InPlace(q)') /\ Alone' /\ Reached'
  BY DEF InTurn
<1>2. ~Busy /\ (\A q \in Plugins : InPlace(q)) /\ Alone /\ Reached /\ PluginTypes
  BY <1>1 DEF InTurn, Basic
<1>3. /\ disposal \notin {"plugins", "global"}
      /\ \A q \in Plugins : ~Loading(q) /\ record[q] # "disposing" /\ ~Astir(q)
  BY <1>2, NobodyBusy
<1>4. /\ \A q \in Plugins : InPlace(q)'
      /\ record'[p] = "disposing" /\ \A q \in Plugins : q # p => record'[q] = record[q]
      /\ disposers'["global"] = disposers["global"]
      /\ unwinds'[<<"global", "unload">>] = unwinds[<<"global", "unload">>]
  BY <1>1, <1>2, <1>3, Departs
<1>5. \A q \in Plugins : ~Loading(q)'
  BY <1>1, <1>3 DEF Loading
<1>6. Alone'
  <2>1. \A q \in Plugins : Astir(q)' => q = p
    BY <1>3, <1>4, <1>5 DEF Astir
  <2> QED
    BY <1>2, <1>4, <1>5, <2>1 DEF Alone
<1>7. Reached'
  BY <1>1, <1>2, <1>3, <1>4 DEF Reached
<1> QED
  BY <1>4, <1>6, <1>7

\* A disposer has run: what is in force is one less.
LEMMA TurnDisposes ==
  ASSUME Basic, InTurn, NEW o \in Owners, RunDisposer(o)
  PROVE  InTurn'
<1> DEFINE e == Head(unwinds[o])
<1>1. /\ unwinds[o] # <<>> /\ unwinds' = [unwinds EXCEPT ![o] = Tail(@)]
      /\ \/ missed' = missed \cup {e} /\ live' = live
         \/ live' = live \ {e} /\ missed' = missed
      /\ record' = record /\ disposers' = disposers /\ stack' = stack /\ loadOrder' = loadOrder
      /\ disposal' = disposal /\ applying' = applying /\ closing' = closing
      /\ overlapped' = overlapped
  BY DEF RunDisposer
<1> HIDE DEF e
<1> SUFFICES ASSUME ~overlapped'
             PROVE  (\A q \in Plugins : InPlace(q)') /\ Alone' /\ Reached'
  BY DEF InTurn
<1>2. (\A q \in Plugins : InPlace(q)) /\ Alone /\ Reached /\ PluginTypes
  BY <1>1 DEF InTurn, Basic
<1>3. /\ unwinds'[o] = Tail(unwinds[o]) /\ unwinds[o] \in Seq(EffectSet)
      /\ \A x \in Owners : x # o => unwinds'[x] = unwinds[x]
  BY <1>1, <1>2, TypesOf
<1>4. \E p \in Plugins : o = <<p, "failure">> \/ o = <<p, "unload">>
  <2>1. o # <<"global", "unload">>
    BY <1>1, <1>2 DEF Alone
  <2> QED
    BY <2>1 DEF Owners, Names
<1>5. PICK p \in Plugins : o = <<p, "failure">> \/ o = <<p, "unload">>
  BY <1>4
<1>6. PICK l \in Nat, m \in Nat :
        /\ InForce(p) = FirstOf(p, l, m)
        /\ HeldIn(p, l, m) \/ Failing(p, l, m) \/ Leaving(p, l, m) \/ Gone(p, m)
  BY <1>2 DEF InPlace
<1>7. \/ Failing(p, l, m) /\ o = <<p, "failure">>
      \/ Leaving(p, l, m) /\ o = <<p, "unload">>
  <2>1. CASE o = <<p, "failure">>
    BY <1>1, <1>6, <2>1 DEF HeldIn, Leaving, Gone
  <2>2. CASE o = <<p, "unload">>
    BY <1>1, <1>6, <2>2 DEF HeldIn, Failing, Gone
  <2> QED
    BY <1>5, <2>1, <2>2
<1>8. Downwards(unwinds[o], p, l, m)
  BY <1>7 DEF Failing, Leaving
<1>9. m > 0 /\ e = Effect(p, l, m) /\ Downwards(unwinds'[o], p, l, m - 1)
  BY <1>1, <1>3, <1>8, DownLess DEF e
<1>10. e.by = p
  BY <1>9 DEF Effect
<1>11. live' \ missed' = (live \ missed) \ {e}
  BY <1>1
<1>12. InPlace(p)'
  <2>1. PICK k \in Nat : k = m - 1
    BY <1>9
  <2>2. InForce(p)' = InForce(p) \ {e}
    BY <1>11 DEF InForce
  <2>3. InForce(p)' = FirstOf(p, l, k)
    BY <1>6, <1>9, <2>1, <2>2, FirstIs
  <2>4. <<p, "failure">> # <<p, "unload">> /\ <<p, "failure">> \in Owners /\ <<p, "unload">> \in Owners
    BY OwnersAre
  <2>5. CASE Failing(p, l, m) /\ o = <<p, "failure">>
    <3>1. unwinds'[<<p, "unload">>] = <<>>
      BY <1>3, <2>4, <2>5 DEF Failing
    <3>2. Failing(p, l, k)'
      BY <1>1, <1>9, <2>1, <2>5, <3>1 DEF Failing, Loading
    <3> QED
      BY <2>3, <3>2 DEF InPlace
  <2>6. CASE Leaving(p, l, m) /\ o = <<p, "unload">>
    <3>1. unwinds'[<<p, "failure">>] = <<>>
      BY <1>3, <2>4, <2>6 DEF Leaving
    <3>2. Leaving(p, l, k)'
      BY <1>1, <1>9, <2>1, <2>6, <3>1 DEF Leaving
    <3> QED
      BY <2>3, <3>2 DEF InPlace
  <2> QED
    BY <1>7, <2>5, <2>6
<1>13. ASSUME NEW q \in Plugins, q # p
       PROVE  InPlace(q)'
  <2>1. InForce(q)' = InForce(q)
    BY <1>10, <1>11, <1>13 DEF InForce
  <2>2. /\ unwinds'[<<q, "failure">>] = unwinds[<<q, "failure">>]
        /\ unwinds'[<<q, "unload">>] = unwinds[<<q, "unload">>]
    <3>1. /\ <<q, "failure">> \in Owners /\ <<q, "failure">> # o
          /\ <<q, "unload">> \in Owners /\ <<q, "unload">> # o
      BY <1>5, <1>13, OwnersAre
    <3> QED
      BY <1>3, <3>1
  <2> QED
    BY <1>1, <1>2, <2>1, <2>2, PlaceKept
<1>14. Alone'
  <2>1. unwinds'[<<"global", "unload">>] = unwinds[<<"global", "unload">>]
    <3>1. <<"global", "unload">> \in Owners /\ <<"global", "unload">> # o
      <4>1. p # "global" /\ <<"global", "unload">> \in Owners
        BY OwnersAre
      <4> QED
        BY <1>5, <4>1
    <3> QED
      BY <1>3, <3>1
  <2>2. \A q \in Plugins : (Loading(q)' <=> Loading(q)) /\ (Astir(q)' <=> Astir(q))
    BY <1>1 DEF Astir, Loading
  <2> QED
    BY <1>1, <1>2, <2>1, <2>2 DEF Alone
<1>15. Reached'
  BY <1>1, <1>2 DEF Reached
<1> QED
  BY <1>12, <1>13, <1>14, <1>15

\* All it had is gone, and the plugin is no longer there.
LEMMA TurnUnloaded ==
  ASSUME Basic, InTurn, NEW p \in Plugins, Unloaded(p)
  PROVE  InTurn'
<1>1. /\ record[p] = "disposing" /\ unwinds[<<p, "unload">>] = <<>>
      /\ record' = [record EXCEPT ![p] = "absent"]
      /\ disposers' = Without({p})
      /\ stack' = stack /\ applying' = applying /\ unwinds' = unwinds /\ closing' = closing
      /\ disposal' = disposal /\ live' = live /\ missed' = missed /\ overlapped' = overlapped
  BY DEF Unloaded
<1> SUFFICES ASSUME ~overlapped'
             PROVE  (\A q \in Plugins : InPlace(q)') /\ Alone' /\ Reached'
  BY DEF InTurn
<1>2. (\A q \in Plugins : InPlace(q)) /\ Alone /\ Reached /\ PluginTypes
  BY <1>1 DEF InTurn, Basic
<1>4. ~Loading(p)
  <2>1. Loading(p) => record[p] \in {"failed", "loading"}
    BY <1>2 DEF Alone
  <2> QED
    BY <1>1, <2>1
<1>3. /\ record'[p] = "absent" /\ \A q \in Plugins : q # p => record'[q] = record[q]
      /\ disposers'[p] = <<>> /\ \A n \in Names : n # p => disposers'[n] = disposers[n]
  BY <1>1, <1>2, <1>4, TypesOf, OwnersAre DEF Without
<1>5. InPlace(p)'
  <2>1. PICK l \in Nat, m \in Nat :
          /\ InForce(p) = FirstOf(p, l, m)
          /\ HeldIn(p, l, m) \/ Failing(p, l, m) \/ Leaving(p, l, m) \/ Gone(p, m)
    BY <1>2 DEF InPlace
  <2>2. Leaving(p, l, m)
    BY <1>1, <2>1 DEF HeldIn, Failing, Gone
  <2>3. m = 0
    <3>1. Len(unwinds[<<p, "unload">>]) = m
      BY <2>2 DEF Leaving, Downwards
    <3> QED
      BY <1>1, <3>1
  <2>4. Gone(p, m)'
    BY <1>1, <1>3, <1>4, <2>2, <2>3 DEF Leaving, Gone, Loading
  <2>5. InForce(p)' = FirstOf(p, l, m)
    BY <1>1, <2>1 DEF InForce
  <2> QED
    BY <2>4, <2>5 DEF InPlace
<1>6. ASSUME NEW q \in Plugins, q # p
      PROVE  InPlace(q)'
  <2>1. InForce(q)' = InForce(q)
    BY <1>1 DEF InForce
  <2> QED
    BY <1>1, <1>2, <1>3, <1>6, <2>1, OwnersAre, PlaceKept
<1>7. Alone'
  <2>1. \A q \in Plugins : /\ Loading(q)' <=> Loading(q)
                           /\ Astir(q)' => Astir(q)
    BY <1>1, <1>3 DEF Astir, Loading
  <2>2. disposers'["global"] = disposers["global"]
    BY <1>3, OwnersAre
  <2>3. \A q \in Plugins : Loading(q)' => q # p /\ record'[q] = record[q]
    BY <1>3, <1>4, <2>1
  <2> QED
    BY <1>1, <1>2, <2>1, <2>2, <2>3 DEF Alone
<1>8. Reached'
  <2>1. ASSUME NEW q \in Plugins, record'[q] # "absent"
        PROVE  \E i \in 1..Len(loadOrder') : loadOrder'[i] = q
    <3>1. q # p /\ record[q] # "absent"
      BY <1>3, <2>1
    <3>2. PICK i \in 1..Len(loadOrder) : loadOrder[i] = q
      BY <1>2, <3>1 DEF Reached
    <3> DEFINE k == SelectInSeq(loadOrder, LAMBDA x : x = p)
    <3>3. loadOrder' = IF k = 0 THEN loadOrder ELSE RemoveAt(loadOrder, k)
      BY <1>1 DEF Unloaded
    <3>4. loadOrder \in Seq(Plugins)
      BY <1>2, TypesOf
    <3>5. k = 0 \/ (k \in 1..Len(loadOrder) /\ loadOrder[k] = p)
      BY <3>4, FirstIn
    <3> HIDE DEF k
    <3>6. CASE k = 0
      BY <3>2, <3>3, <3>6
    <3>7. CASE k # 0
      <4>1. k \in 1..Len(loadOrder) /\ i # k
        BY <3>1, <3>2, <3>5, <3>7
      <4>2. \E j \in 1..Len(RemoveAt(loadOrder, k)) : RemoveAt(loadOrder, k)[j] = loadOrder[i]
        BY <3>4, <4>1, RemoveIs
      <4> QED
        BY <3>2, <3>3, <3>7, <4>2
    <3> QED
      BY <3>6, <3>7
  <2>2. \A q \in Plugins : record'[q] # "absent" => record'[q] = record[q]
    BY <1>3
  <2> QED
    BY <1>1, <1>2, <1>3, <2>1, <2>2 DEF Reached
<1> QED
  BY <1>5, <1>6, <1>7, <1>8

LEMMA TurnDispose ==
  ASSUME Basic, InTurn, Dispose
  PROVE  InTurn'
<1>1. /\ disposal' = "plugins" /\ closing' = Reverse(loadOrder)
      /\ overlapped' = (overlapped \/ Busy) /\ record' = record /\ disposers' = disposers
      /\ loadOrder' = loadOrder /\ stack' = stack /\ applying' = applying
      /\ unwinds' = unwinds /\ live' = live /\ missed' = missed
  BY DEF Dispose
<1> SUFFICES ASSUME ~overlapped'
             PROVE  (\A q \in Plugins : InPlace(q)') /\ Alone' /\ Reached'
  BY DEF InTurn
<1>2. ~Busy /\ (\A q \in Plugins : InPlace(q)) /\ Alone /\ Reached /\ PluginTypes
  BY <1>1 DEF InTurn, Basic
<1>3. \A q \in Plugins : ~Loading(q) /\ record[q] # "disposing" /\ ~Astir(q)
  BY <1>2, NobodyBusy
<1>4. ASSUME NEW q \in Plugins
      PROVE  InPlace(q)'
  <2>1. InForce(q)' = InForce(q)
    BY <1>1 DEF InForce
  <2> QED
    BY <1>1, <1>2, <2>1, PlaceKept
<1>5. \A q \in Plugins : ~Loading(q)' /\ ~Astir(q)'
  BY <1>1, <1>3 DEF Loading, Astir
<1>6. Alone'
  BY <1>1, <1>2, <1>5 DEF Alone
<1>7. ASSUME NEW q \in Plugins, record[q] # "absent"
      PROVE  \E i \in 1..Len(closing') : closing'[i] = q
  <2>1. PICK i \in 1..Len(loadOrder) : loadOrder[i] = q
    BY <1>2, <1>7 DEF Reached
  <2>2. /\ Len(Reverse(loadOrder)) = Len(loadOrder)
        /\ \A j \in 1..Len(loadOrder) : Reverse(loadOrder)[j] = loadOrder[Len(loadOrder) - j + 1]
    BY <1>2, TypesOf, ReverseIs
  <2>3. Len(loadOrder) \in Nat
    BY <1>2, TypesOf
  <2> DEFINE j == Len(loadOrder) - i + 1
  <2>4. j \in 1..Len(loadOrder) /\ Len(loadOrder) - j + 1 = i
    BY <2>3
  <2> HIDE DEF j
  <2>5. closing'[j] = q /\ j \in 1..Len(closing')
    BY <1>1, <2>1, <2>2, <2>4
  <2> QED
    BY <2>5
<1>8. Reached'
  BY <1>1, <1>2, <1>3, <1>7 DEF Reached
<1> QED
  BY <1>4, <1>6, <1>8

LEMMA TurnDisposeNext ==
  ASSUME Basic, InTurn, DisposeNext
  PROVE  InTurn'
<1> DEFINE p == Head(closing)
<1>1. /\ disposal = "plugins" /\ closing # <<>> /\ disposal' = disposal
      /\ overlapped' = overlapped /\ loadOrder' = loadOrder /\ stack' = stack
      /\ applying' = applying /\ live' = live /\ missed' = missed
  BY DEF DisposeNext
<1> SUFFICES ASSUME ~overlapped'
             PROVE  (\A q \in Plugins : InPlace(q)') /\ Alone' /\ Reached'
  BY DEF InTurn
<1>2. (\A q \in Plugins : InPlace(q)) /\ Alone /\ Reached /\ PluginTypes
  BY <1>1 DEF InTurn, Basic
<1>3. /\ closing \in Seq(Plugins) /\ p = closing[1] /\ p \in Plugins /\ Len(closing) \in Nat
      /\ Len(Tail(closing)) = Len(closing) - 1
      /\ \A i \in 1..(Len(closing) - 1) : Tail(closing)[i] = closing[i + 1]
  <2>1. closing \in Seq(Plugins)
    BY <1>2, TypesOf
  <2> QED
    BY <1>1, <2>1, TailIs
<1>4. \A q \in Plugins : ~Loading(q) /\ ~Loading(q)'
  BY <1>1, <1>2 DEF Alone, Loading
<1>5. CASE record[p] = "absent"
  <2>1. /\ closing' = Tail(closing) /\ record' = record /\ unwinds' = unwinds
        /\ disposers' = disposers
    BY <1>5 DEF DisposeNext
  <2>2. ASSUME NEW q \in Plugins
        PROVE  InPlace(q)'
    <3>1. InForce(q)' = InForce(q)
      BY <1>1 DEF InForce
    <3> QED
      BY <1>1, <1>2, <2>1, <3>1, PlaceKept
  <2>3. Alone'
    <3>1. \A q \in Plugins : Astir(q)' <=> Astir(q)
      BY <1>1, <2>1 DEF Astir, Loading
    <3> QED
      BY <1>2, <1>4, <2>1, <3>1 DEF Alone
  <2>4. \A q \in Plugins : record[q] # "disposing"
    BY <1>1, <1>2, <1>5 DEF Reached
  <2> HIDE DEF p
  <2>5. ASSUME NEW q \in Plugins, record[q] # "absent"
        PROVE  \E i \in 1..Len(closing') : closing'[i] = q
    <3>1. PICK i \in 1..Len(closing) : closing[i] = q
      BY <1>1, <1>2, <2>5 DEF Reached
    <3>2. i # 1
      BY <1>3, <1>5, <2>5, <3>1
    <3>3. PICK j \in 1..(Len(closing) - 1) : i = j + 1
      BY <3>1, <3>2, <1>3
    <3>4. j \in 1..Len(closing') /\ closing'[j] = q
      BY <1>3, <2>1, <3>1, <3>3
    <3> QED
      BY <3>4
  <2>6. Reached'
    BY <1>1, <1>2, <2>1, <2>4, <2>5 DEF Reached
  <2> QED
    BY <2>2, <2>3, <2>6
<1>6. CASE record[p] # "absent"
  <2>1. record[p] # "disposing" /\ BeginUnload(p) /\ closing' = closing
    BY <1>6 DEF DisposeNext
  <2> HIDE DEF p
  <2>2. /\ \A q \in Plugins : InPlace(q)'
        /\ record'[p] = "disposing" /\ \A q \in Plugins : q # p => record'[q] = record[q]
        /\ disposers'["global"] = disposers["global"]
        /\ unwinds'[<<"global", "unload">>] = unwinds[<<"global", "unload">>]
    BY <1>1, <1>2, <1>3, <1>4, <1>6, <2>1, Departs
  <2>3. \A q \in Plugins : record[q] # "disposing"
    BY <1>1, <1>2, <1>6, <2>1 DEF Reached, p
  <2>4. Alone'
    <3>1. \A q \in Plugins : Astir(q)' => q = p
      BY <1>4, <2>2, <2>3 DEF Astir
    <3> QED
      BY <1>2, <1>4, <2>2, <3>1 DEF Alone
  <2>5. Reached'
    <3>1. \A q \in Plugins : /\ record'[q] # "absent" => record[q] # "absent"
                             /\ record'[q] = "disposing" => q = p
      BY <1>6, <2>2, <2>3
    <3>2. Head(closing') = p
      BY <2>1 DEF p
    <3> QED
      BY <1>1, <1>2, <2>1, <3>1, <3>2 DEF Reached
  <2> QED
    BY <2>2, <2>4, <2>5
<1> QED
  BY <1>5, <1>6

LEMMA TurnDisposeEnds ==
  ASSUME Basic, InTurn, DisposeGlobal \/ DisposeEnds
  PROVE  InTurn'
<1> SUFFICES ASSUME ~overlapped'
             PROVE  (\A q \in Plugins : InPlace(q)') /\ Alone' /\ Reached'
  BY DEF InTurn
<1>1. /\ overlapped' = overlapped /\ stack' = stack /\ applying' = applying
      /\ live' = live /\ missed' = missed /\ closing' = closing
      /\ disposal \in {"plugins", "global"} /\ disposal' # "plugins"
  BY DEF DisposeGlobal, DisposeEnds
<1>2. (\A q \in Plugins : InPlace(q)) /\ Alone /\ Reached /\ PluginTypes
  BY <1>1 DEF InTurn, Basic
<1>3. \A q \in Plugins : ~Loading(q) /\ ~Loading(q)'
  BY <1>1, <1>2 DEF Alone, Loading
<1>4. \A q \in Plugins : record[q] = "absent"
  <2>1. CASE disposal = "global"
    BY <1>2, <2>1 DEF Reached
  <2>2. CASE disposal = "plugins"
    <3>1. closing = <<>>
      BY <2>2 DEF DisposeGlobal, DisposeEnds
    <3>2. Len(closing) = 0
      BY <3>1
    <3> QED
      BY <1>2, <2>2, <3>2 DEF Reached
  <2> QED
    BY <1>1, <2>1, <2>2
<1>5. \A q \in Plugins : /\ disposers[q] = <<>> /\ unwinds[<<q, "failure">>] = <<>>
                         /\ unwinds[<<q, "unload">>] = <<>>
  BY <1>2, <1>4 DEF InPlace, HeldIn, Failing, Leaving, Gone
<1>6. /\ disposers["global"] = <<>> /\ unwinds[<<"global", "unload">>] = <<>>
  BY <1>2 DEF Alone
<1>7. /\ \A q \in Plugins : record'[q] = "absent"
      /\ \A n \in Names : disposers'[n] = <<>> /\ \A o \in Owners : unwinds'[o] = unwinds[o]
  <2>1. \A n \in Names : disposers[n] = <<>>
    BY <1>5, <1>6 DEF Names
  <2>2. CASE DisposeGlobal
    <3>1. /\ record' = record /\ disposers' = [disposers EXCEPT !["global"] = <<>>]
          /\ unwinds' = [unwinds EXCEPT ![<<"global", "unload">>] = Unwinding(disposers["global"])]
      BY <2>2 DEF DisposeGlobal
    <3>2. Unwinding(disposers["global"]) = <<>>
      <4>1. disposers["global"] \in Seq(EffectSet) /\ Len(disposers["global"]) = 0
        BY <1>2, <1>6, TypesOf, OwnersAre
      <4>2. Unwinding(disposers["global"]) \in Seq(EffectSet)
            /\ Len(Unwinding(disposers["global"])) = 0
        BY <4>1, UnwindingIs
      <4> QED
        BY <4>2
    <3>3. \A n \in Names : disposers'[n] = <<>>
      BY <1>2, <2>1, <3>1, TypesOf
    <3>4. \A o \in Owners : unwinds'[o] = unwinds[o]
      BY <1>2, <1>6, <3>1, <3>2, TypesOf
    <3> QED
      BY <1>4, <3>1, <3>3, <3>4
  <2>3. CASE DisposeEnds
    <3>1. /\ record' = [p \in Plugins |-> "absent"] /\ unwinds' = unwinds
          /\ disposers' = Without(Plugins)
      BY <2>3 DEF DisposeEnds
    <3> QED
      BY <2>1, <3>1 DEF Without
  <2> QED
    BY <2>2, <2>3
<1>8. ASSUME NEW q \in Plugins
      PROVE  InPlace(q)'
  <2>1. InForce(q)' = InForce(q)
    BY <1>1 DEF InForce
  <2>2. /\ record'[q] = record[q] /\ disposers'[q] = disposers[q] /\ applying'[q] = applying[q]
        /\ unwinds'[<<q, "failure">>] = unwinds[<<q, "failure">>]
        /\ unwinds'[<<q, "unload">>] = unwinds[<<q, "unload">>]
    BY <1>1, <1>4, <1>5, <1>7, OwnersAre
  <2> QED
    BY <1>2, <2>1, <2>2, PlaceKept
<1>9. Alone'
  <2>1. \A q \in Plugins : ~Astir(q)'
    BY <1>3, <1>7 DEF Astir
  <2>2. disposers'["global"] = <<>> /\ unwinds'[<<"global", "unload">>] = <<>>
    BY <1>6, <1>7, OwnersAre
  <2> QED
    BY <1>3, <2>1, <2>2 DEF Alone
<1>10. Reached'
  BY <1>1, <1>7 DEF Reached
<1> QED
  BY <1>8, <1>9, <1>10

LEMMA TurnStep == Basic /\ InTurn /\ [PluginNext]_pluginVars => InTurn'
<1> SUFFICES ASSUME Basic, InTurn, [PluginNext]_pluginVars PROVE InTurn'
  OBVIOUS
<1>1. ASSUME /\ record' = record /\ disposers' = disposers /\ loadOrder' = loadOrder
             /\ stack' = stack /\ applying' = applying /\ unwinds' = unwinds
             /\ closing' = closing /\ disposal' = disposal /\ live' = live
             /\ missed' = missed /\ overlapped' = overlapped
      PROVE  InTurn'
  <2> SUFFICES ASSUME ~overlapped'
               PROVE  (\A q \in Plugins : InPlace(q)') /\ Alone' /\ Reached'
    BY DEF InTurn
  <2>1. (\A q \in Plugins : InPlace(q)) /\ Alone /\ Reached
    BY <1>1 DEF InTurn
  <2>2. ASSUME NEW q \in Plugins
        PROVE  InPlace(q)'
    <3>1. InForce(q)' = InForce(q)
      BY <1>1 DEF InForce
    <3> QED
      BY <1>1, <2>1, <3>1, PlaceKept
  <2>3. \A q \in Plugins : (Loading(q)' <=> Loading(q)) /\ (Astir(q)' <=> Astir(q))
    BY <1>1 DEF Loading, Astir
  <2>4. Alone'
    BY <1>1, <2>1, <2>3 DEF Alone
  <2>5. Reached'
    BY <1>1, <2>1 DEF Reached
  <2> QED
    BY <2>2, <2>4, <2>5
<1>2. CASE UNCHANGED pluginVars
  BY <1>1, <1>2 DEF pluginVars
<1>3. CASE \E e \in setups : SetupResolves(e)
  BY <1>1, <1>3 DEF SetupResolves
<1>4. ASSUME NEW p \in Plugins,
             \/ StartLoad(p) \/ Loaded(p) \/ LoadFails(p) \/ LoadFailed(p)
             \/ Register(p) \/ Unload(p) \/ Unloaded(p)
      PROVE  InTurn'
  BY <1>4, TurnStarts, TurnLoaded, TurnFails, TurnFailed, TurnRegisters, TurnUnloads, TurnUnloaded
<1>5. CASE \E o \in Owners : RunDisposer(o)
  BY <1>5, TurnDisposes
<1>6. CASE Dispose \/ DisposeNext \/ DisposeGlobal \/ DisposeEnds
  BY <1>6, TurnDispose, TurnDisposeNext, TurnDisposeEnds
<1> QED
  BY <1>2, <1>3, <1>4, <1>5, <1>6 DEF PluginNext

\* Loading and unloading of plugins (context.ts): up to dispose(), as long as
\* nobody forgets one, each effect in force has one disposer still to run; and
\* as long as nothing overlaps a plugin's effects go in the reverse order and
\* none is left of a plugin that is not there or has failed.
THEOREM PluginsCorrect == PluginSpec => []PluginsUnwind
<1> DEFINE Inv == Basic /\ Tracked /\ InTurn
<1>1. PluginInit => Inv
  BY PluginsStart, TrackedAtFirst, InTurnAtFirst DEF Basic
<1>2. Inv /\ [PluginNext]_pluginVars => Inv'
  BY BasicStep, TrackedStep, TurnStep
<1>3. Inv => PluginsUnwind
  BY TrackedIsTracked, InTurnIsInOrder DEF Basic, PluginsUnwind
<1> HIDE DEF Inv
<1> QED
  BY <1>1, <1>2, <1>3, PTL DEF PluginSpec
-----------------------------------------------------------------------------
\* Plugins and registries together

\* In every part each of the three is as it was or moves by its own rules
\* (PluginsHold of MCToolExecution).
BringingInv == Basic /\ Tracked /\ InTurn /\ SkillsInv /\ SyncsInv

LEMMA BringingStays == BringingInv /\ [AllNext]_all => BringingInv'
<1> SUFFICES ASSUME BringingInv, [AllNext]_all PROVE BringingInv'
  OBVIOUS
<1>1. [PluginNext]_pluginVars /\ [SkillsNext]_skillVars /\ [SyncsNext]_syncVars
  <2>1. CASE UNCHANGED bringing
    BY <2>1 DEF bringing
  <2>2. CASE PluginPart
    BY <2>2 DEF PluginPart
  <2>3. CASE WiringPart
    BY <2>3 DEF WiringPart
  <2>4. CASE SkillPart
    BY <2>4 DEF SkillPart
  <2>5. CASE SyncPart
    BY <2>5 DEF SyncPart
  <2> QED
    BY <2>1, <2>2, <2>3, <2>4, <2>5
    DEF AllNext, ToolPart, ExchangePart, ParserPart, TurnPart, GitPart, all
<1> QED
  BY <1>1, BasicStep, TrackedStep, TurnStep, SkillsStep, SyncsStep DEF BringingInv

\* What is brought into an agent is taken out again as it was put in, plugins
\* with their effects, and skills and a server's tools with what registered them,
\* and what is registered stays what was given, whatever else the agent does
\* meanwhile (PluginContext, SkillRegistry, ToolRegistry, SyncedMCPManager).
THEOREM PluginsHoldCorrect == AllSpec => []PluginsHold
<1>1. AllInit => BringingInv
  BY PluginsStart, TrackedAtFirst, InTurnAtFirst, SkillsStart, SyncsStart
  DEF AllInit, Basic, BringingInv
<1>2. BringingInv => PluginsHold
  <2> SUFFICES ASSUME BringingInv PROVE PluginsHold
    OBVIOUS
  <2>1. PluginsUnwind
    BY TrackedIsTracked, InTurnIsInOrder DEF BringingInv, Basic, PluginsUnwind
  <2>2. RegistriesHold
    BY DEF BringingInv, SkillsInv, SyncsInv, RegistriesHold
  <2> QED
    BY <2>1, <2>2 DEF PluginsHold
<1> QED
  BY <1>1, <1>2, BringingStays, PTL DEF AllSpec
=============================================================================
