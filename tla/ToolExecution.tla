--------------------------- MODULE ToolExecution ---------------------------
(***************************************************************************)
(* Batches of tool calls, run one after the other by the model's turn, on  *)
(* one of the two parallel executors:                                      *)
(*   grouped  ParallelToolExecutor.execute of core/tools, which runs the   *)
(*            tools themselves, in groups with exclusive barriers;         *)
(*   batch    executeBatch (core/tools, and infra/tools), which runs every *)
(*            call through DefaultToolExecutor: policy, result cache,      *)
(*            timeout.                                                     *)
(* A tool runs in the world whether or not somebody still waits for it: a  *)
(* timeout gives up waiting, and stops nothing.                            *)
(***************************************************************************)
EXTENDS Naturals, FiniteSets, Sequences

CONSTANTS Tools,       \* tool, with its one input
          Mutating,    \* tools whose definition says mutating
          Idempotent,
          Classified,  \* tools with an isConcurrencySafe classifier,
          Safe,        \* and those it returns true for
          MaxParallel, \* maxParallelToolCalls; 1 is the same as not enabled
          Batches, MaxBatches, \* bounds: the batches tried, how many of them
          MaxTimeOuts          \* bound: calls that time out

\* No tool that mutates is called safe by its own classifier.
ASSUME ToolConstants ==
  /\ Mutating \subseteq Tools /\ Idempotent \subseteq Tools
  /\ Safe \subseteq Classified \ Mutating /\ Classified \subseteq Tools
  /\ MaxParallel \in Nat \ {0}
  /\ Batches \subseteq Seq(Tools) \ {<<>>}
  /\ MaxBatches \in Nat /\ MaxTimeOuts \in Nat

VARIABLES executor, \* "grouped" or "batch", fixed for the run
          batch,    \* number of the batch that is run, or was run last
          calls,    \* its calls; <<>> when it has returned or thrown
          started,  \* those of its calls that have been started
          runs,     \* the calls in progress, those nobody awaits included
          results,  \* of the batch that is run, by index
          world,    \* what tools read; every effect of a tool changes it
          cache,    \* resultCache: what each tool read, or Nothing
          base,     \* history: the world when the batch began
          timeOuts, \* calls that timed out so far
          slipped,  \* history: some tool's outcome was not waited for
          thrown    \* history: the world as the last tool left it that changed it
                    \* and then threw

vars == <<executor, batch, calls, started, runs, results, world, cache, base,
          timeOuts, slipped, thrown>>

Nothing == [none |-> TRUE]
Runs == [batch: 1..MaxBatches, index: Nat \ {0}, tool: Tools,
         at: {"queued", "running", "acted"}, held: BOOLEAN, saw: Nat]
Results == [ok: BOOLEAN, acted: BOOLEAN, saw: Nat]

Idle == calls = <<>>
Current(r) == ~Idle /\ r.batch = batch
-----------------------------------------------------------------------------
\* Grouping.

\* classifyCall.
Parallel(tool) == IF tool \in Classified THEN tool \in Safe
                                         ELSE tool \notin Mutating

Left == DOMAIN calls \ started
Foremost == CHOOSE i \in Left : \A j \in Left : i <= j

\* classifyAndGroup, as the groups are come to: calls in a row that may run in
\* parallel, up to the limit, or one that may not.
GroupMixed == \* mutant of NextGroup: the first of the row is not looked at
  {j \in Left : j < Foremost + MaxParallel /\ \A i \in (Foremost + 1)..j : Parallel(calls[i])}
NextGroup ==
  IF Parallel(calls[Foremost])
  THEN {j \in Left : j < Foremost + MaxParallel /\ \A i \in Foremost..j : Parallel(calls[i])}
  ELSE {Foremost}

\* executeBatch: what does not mutate at once, then the rest one by one.
NextSplit ==
  LET safe == {i \in Left : calls[i] \notin Mutating}
  IN  IF safe # {} THEN safe ELSE {Foremost}

AlwaysSplit == NextSplit \* mutant of NextWave: calls are reordered
NextWave == IF executor = "grouped" THEN NextGroup ELSE NextSplit

Exclusive(r) == IF executor = "grouped" THEN ~Parallel(r.tool)
                                        ELSE r.tool \in Mutating

WaveSettled == \A i \in started : results[i] # Nothing
-----------------------------------------------------------------------------
\* A batch begins; its groups are started; it returns.

BeginBatch(cs) ==
  /\ Idle
  /\ batch < MaxBatches
  /\ batch' = batch + 1
  /\ calls' = cs
  /\ started' = {}
  /\ results' = [i \in DOMAIN cs |-> Nothing]
  /\ base' = world
  /\ UNCHANGED <<executor, runs, world, cache, timeOuts, slipped, thrown>>

\* In the batch executor a call first awaits the policy engine.
StartWave ==
  /\ Left # {}
  /\ WaveSettled
  /\ started' = started \cup NextWave
  /\ runs' = runs \cup
       {[batch |-> batch, index |-> i, tool |-> calls[i],
         at |-> IF executor = "grouped" THEN "running" ELSE "queued",
         held |-> TRUE, saw |-> 0] : i \in NextWave}
  /\ UNCHANGED <<executor, batch, calls, results, world, cache, base, timeOuts,
                 slipped, thrown>>

ReturnBatch ==
  /\ ~Idle
  /\ Left = {}
  /\ WaveSettled
  /\ calls' = <<>>
  /\ started' = {}
  /\ results' = <<>>
  /\ UNCHANGED <<executor, batch, runs, world, cache, base, timeOuts,
                 slipped, thrown>>

\* A result goes where the caller reads it, if the batch still wants it.
Resolve(r, result) ==
  /\ results' = IF Current(r) THEN [results EXCEPT ![r.index] = result] ELSE results
  /\ UNCHANGED <<calls, started>>

\* DefaultToolExecutor.execute throws: executeBatch rejects at once, and what
\* it started goes on by itself.
Reject(r) ==
  IF Current(r) THEN calls' = <<>> /\ started' = {} /\ results' = <<>>
                ELSE UNCHANGED <<calls, started, results>>
LeavesOthers(r) == Current(r) /\ \E q \in runs \ {r} : q.batch = batch
-----------------------------------------------------------------------------
\* One call.

Cacheable(tool) == tool \in Idempotent /\ tool \notin Mutating

\* The policy has answered: the call is refused, or is taken from the cache,
\* or the tool starts.
Admit(r) ==
  /\ r.at = "queued"
  /\ \/ /\ Resolve(r, [ok |-> FALSE, acted |-> FALSE, saw |-> 0])
        /\ runs' = runs \ {r}
     \/ /\ Cacheable(r.tool) /\ cache[r.tool] # Nothing
        /\ Resolve(r, [ok |-> TRUE, acted |-> TRUE, saw |-> cache[r.tool].saw])
        /\ runs' = runs \ {r}
     \/ /\ Cacheable(r.tool) => cache[r.tool] = Nothing
        /\ runs' = (runs \ {r}) \cup {[r EXCEPT !.at = "running"]}
        /\ UNCHANGED <<calls, started, results>>
  /\ UNCHANGED <<executor, batch, world, cache, base, timeOuts,
                 slipped, thrown>>

\* No such tool, its input does not fit the schema, or the policy engine
\* throws: so does execute.
Unknown(r) ==
  /\ r.at = "queued"
  /\ Reject(r)
  /\ runs' = runs \ {r}
  /\ slipped' = (slipped \/ LeavesOthers(r))
  /\ UNCHANGED <<executor, batch, world, cache, base, timeOuts, thrown>>

\* The moment at which the tool reads or changes the world.
Act(r) ==
  /\ r.at = "running"
  /\ runs' = (runs \ {r}) \cup {[r EXCEPT !.at = "acted", !.saw = world]}
  /\ world' = IF r.tool \in Mutating THEN world + 1 ELSE world
  /\ UNCHANGED <<executor, batch, calls, started, results, cache, base, timeOuts,
                 slipped, thrown>>

ClearedBySuccess(r, outcome) == \* mutant of Cached
  CASE r.tool \in Mutating /\ outcome = "ok" -> [t \in Tools |-> Nothing]
    [] Cacheable(r.tool) /\ outcome = "ok" ->
         [cache EXCEPT ![r.tool] = [saw |-> r.saw]]
    [] OTHER -> cache
\* A tool that returned, well or not, is cached or invalidates the cache; one
\* that threw is neither.
Cached(r, outcome) ==
  CASE r.tool \in Mutating /\ outcome # "throws" -> [t \in Tools |-> Nothing]
    [] Cacheable(r.tool) /\ outcome = "ok" ->
         [cache EXCEPT ![r.tool] = [saw |-> r.saw]]
    [] OTHER -> cache

\* A tool that mutates has acted, and then throws: its effect stays.
ThrownBy(r) ==
  IF executor = "batch" /\ r.at = "acted" /\ r.tool \in Mutating THEN r.saw + 1 ELSE thrown

\* The tool returns success or failure, or throws, and the executor that
\* still waits for it makes a result of that.
Settle(r, outcome) ==
  /\ r.at \in {"running", "acted"}
  /\ outcome = "ok" => r.at = "acted"
  /\ runs' = runs \ {r}
  /\ IF r.held
     THEN /\ Resolve(r, [ok |-> outcome = "ok", acted |-> r.at = "acted",
                         saw |-> r.saw])
          /\ cache' = IF executor = "batch" THEN Cached(r, outcome) ELSE cache
          /\ thrown' = IF outcome = "throws" THEN ThrownBy(r) ELSE thrown
     ELSE UNCHANGED <<calls, started, results, cache, thrown>>
  /\ UNCHANGED <<executor, batch, world, base, timeOuts, slipped>>

\* A HarnessError that a tool throws is no result in the batch executor:
\* execute throws it again.
Rethrow(r) ==
  /\ executor = "batch" /\ r.held
  /\ r.at \in {"running", "acted"}
  /\ Reject(r)
  /\ runs' = runs \ {r}
  /\ slipped' = (slipped \/ LeavesOthers(r))
  /\ thrown' = ThrownBy(r)
  /\ UNCHANGED <<executor, batch, world, cache, base, timeOuts>>

StillHeld(r) == r \* mutant of GivenUp: the late result is not ignored
GivenUp(r) == [r EXCEPT !.held = FALSE]

\* The timer, or for the batch executor the caller's abort, comes first.  The
\* grouped executor makes a failure of it, the other one throws.
TimeOut(r) ==
  /\ r.held
  /\ timeOuts < MaxTimeOuts
  /\ timeOuts' = timeOuts + 1
  /\ r.at \in {"running", "acted"}
  /\ runs' = (runs \ {r}) \cup {GivenUp(r)}
  /\ IF executor = "grouped"
     THEN Resolve(r, [ok |-> FALSE, acted |-> r.at = "acted", saw |-> r.saw])
     ELSE Reject(r)
  /\ slipped' = TRUE
  /\ UNCHANGED <<executor, batch, world, cache, base, thrown>>
-----------------------------------------------------------------------------
Init ==
  /\ executor \in {"grouped", "batch"}
  /\ batch = 0
  /\ calls = <<>>
  /\ started = {}
  /\ runs = {}
  /\ results = <<>>
  /\ world = 0
  /\ cache = [t \in Tools |-> Nothing]
  /\ base = 0
  /\ timeOuts = 0
  /\ slipped = FALSE
  /\ thrown = 0

CallStep(r) ==
  \/ Admit(r) \/ Unknown(r) \/ Act(r) \/ TimeOut(r) \/ Rethrow(r)
  \/ \E outcome \in {"ok", "failed", "throws"} : Settle(r, outcome)

Next ==
  \/ \E cs \in Batches : BeginBatch(cs)
  \/ StartWave
  \/ ReturnBatch
  \/ \E r \in runs : CallStep(r)

Spec == Init /\ [][Next]_vars
-----------------------------------------------------------------------------
\* Properties

\* Besides the types: a call of a started group is either awaited or has its
\* one result.
TypeOK ==
  /\ executor \in {"grouped", "batch"}
  /\ batch \in 0..MaxBatches
  /\ calls \in Batches \cup {<<>>}
  /\ started \subseteq DOMAIN calls
  /\ runs \subseteq Runs
  /\ results \in [DOMAIN calls -> Results \cup {Nothing}]
  /\ world \in Nat /\ base \in Nat /\ thrown \in Nat
  /\ timeOuts \in 0..MaxTimeOuts /\ slipped \in BOOLEAN
  /\ cache \in [Tools -> [saw: Nat] \cup {Nothing}]
  /\ \A i \in started : results[i] = Nothing <=>
       \E r \in runs : r.batch = batch /\ r.index = i /\ r.held

\* README.md, "Exclusive Barriers": while a tool that is not safe to run in
\* parallel runs, no other tool does, but for those nobody waits for any more:
\* it or they timed out, or were left behind by a batch that threw.
BarrierHolds ==
  \A r, q \in {x \in runs : x.held /\ Current(x) /\ x.at # "queued"} :
     Exclusive(r) => q = r

\* What a call of the grouped executor reads is what the calls before it in
\* the batch have left, those that threw included, as if they had been run one
\* by one, as long as every tool's outcome was waited for.
ReadsInOrder ==
  executor = "grouped" /\ ~slipped =>
    \A i \in DOMAIN results :
       results[i] # Nothing /\ results[i].acted =>
         results[i].saw = base + Cardinality({j \in 1..(i-1) :
                            calls[j] \in Mutating /\ results[j] # Nothing /\ results[j].acted})

\* tests/unit/optimization/tool-result-caching.test.ts: "Mutating tools
\* invalidate cache to preserve correctness".  The code keeps that for tools
\* that return, also those that changed something and then reported a failure;
\* one that throws after its effect leaves the cache as it is (execute clears it
\* only past the await).  So, as long as every tool's outcome was waited for,
\* what is cached is what the tool would read now, unless the last tool that
\* changed anything threw: then it may have been read before that change.
CacheIsFresh ==
  ~slipped => \A t \in Tools : cache[t] # Nothing =>
     \/ cache[t].saw = world
     \/ thrown = world
     \/ \E r \in runs : r.tool \in Mutating /\ r.at = "acted"
=============================================================================
