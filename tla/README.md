# TLA+ specifications of Vi-Harness

Vi-Harness is a harness for coding agents: a runtime that asks a language model
for the next step, runs the tools the model calls, verifies the result, and
decides when to stop.  This directory holds TLA+ modules of the parts whose
correctness depends on the order in which things happen, the TLC configurations
that check them, and proofs that hold for every value of their constants.
`PROJECT.json` relates every definition to the source lines it models, lists the
runs with their properties, and the hazards the properties are for.

Run a configuration with `tlc -config MCAgentRuntime.cfg MCAgentRuntime`, a
proof with `tlapm StateMachineProofs.tla`.

## 1. The system

| Component | Source (under `src/src`) | State it keeps | Operations | Hard parts |
|---|---|---|---|---|
| State machine | `core/state-machine/state-machine.ts`, `transition-*.ts` | phase, iteration and repair counts, transition history | `apply`, `toSnapshot`, `fromSnapshot` | long legal histories; counters and history across restores; who may end a task |
| Loop control | `core/state-machine/loop-control.ts` | none | `evaluateLoopControl` | ten stop conditions in a fixed order, each with a boundary |
| Agent runtime | `runtime/default-agent-runtime.ts`, `iteration-executor.ts` | executions: status, machine, iterations, cost, abort controller | `execute`, `resume`, `pause`, `cancel`, `abort` | a loop that awaits while callers pause, resume and cancel; two loops on one execution; the calls of an iteration |
| Goal lifecycle | `core/goal/*` | goals with a revision, budgets and a phase; the set of armed goals | `create`, `edit`, `pause`, `block`, `resume`, `complete`, `clear`, `recordUsage`, `admitRound`, `arm` | clients with stale references; budgets changed while they are used; replay of the event log |
| State and event stores | `infra/persistence/default-state-store.ts`, `*-event-store.ts` | one machine and one log per task | `transition`, `append`, `getEvents` | interleaved calls; failed and torn writes; restarts |
| Journal and recovery | `infra/persistence/default-execution-journal.ts`, `default-recovery-manager.ts` | one entry per action | the `log…` calls, `analyzeCrash` | crashes between any two steps, also during recovery; actions that must not be repeated |
| Tool executors | `core/tools/parallel-executor.ts`, `infra/tools/*executor.ts` | the result cache; calls in flight | `execute`, `executeBatch` | time-outs that stop nothing; one failing call of several; a cache that must not be stale |
| Model router, provider resilience, architect mode | `infra/router`, `infra/model/provider-resilience.ts`, `runtime/architect-executor.ts` | health of providers, cost spent, attempts, timers | `route`, `executeResiliently`, plan and edit | ties; a retry while the timed-out request is in flight; abort during back-off; a shared budget |
| Model providers | `infra/model/*-provider.ts`, `streaming-tool-parser.ts` | a request, a half-read stream | `complete`, `stream`, `feed` | streams cut anywhere; pairing of calls and results |
| Sessions | `core/session/*` | append-only logs, in memory and in JSONL files; fork links | `append`, `fork`, `resume`, `get`, `deriveMessages` | repair of interrupted turns; forks of repaired logs; torn files |
| Subagents | `infra/subagent` | running subagents | `spawn`, `executeDependentGraph`, `cancelAll` | dependency order; time-outs that stop nothing |
| Plugins | `core/plugin`, `bundles` | services, plugin records with disposers, waterfalls | `loadPlugin`, `unloadPlugin`, `hotReload`, `dispose`, `resolve`, `dispatch` | loads that overlap; reverse-order teardown; handlers that change the list they are called from |
| Registries | `infra/skills`, `infra/tools/default-tool-registry.ts`, `infra/mcp/mcp-client-adapter.ts` | skills, mounted skills, tools by name | `register`, `mount`, `discover`, `syncTools` | lists that arrive late; names that clash; a registration that throws half way |
| Escalation and budgets | `infra/escalation`, `infra/cost` | requests with expiry; costs | `resolveEscalation`, `checkBudget`, `recordUsage` | expiry against resolution; a check before a charge |
| Git and rollback | `infra/git`, `infra/checkpoint` | owners of changes, checkpoints | `commit`, `createCheckpoint`, `safeRollback` | a user who writes during a rollback |
| Verification | `infra/verification`, `infra/evidence` | evidence, cached findings | `verify`, `aggregate`, `evaluate`, `resolve` | files that change between checks |
| Context store, compiler | `infra/context`, `infra/compiler`, `infra/optimization` | versions, relation graph; tombstones | `addObject`, `subsume`, `compile`, `collapse`, `reconstruct` | two indexes of one relation; what a budget omits; history that must come back |
| Memory and storage | `infra/memory`, `infra/storage` | records, sessions, keys, notes, traces | `set`, `recordUsage`, `consolidate`, `save`, `prune` | read, await, write back; a transaction after an await |
| Servers | `infra/mcp`, `infra/acp` | input buffer, requests at work, buckets, sessions | lines, HTTP requests, `send`, `cancel`, `stop` | chunks; several requests at once; stop with requests at work |
| Guards, telemetry, experience | `core/guards`, `infra/model/circuit-breaker.ts`, `infra/telemetry/*store.ts`, `otlp-*` | breaker, windows, queues, index | `execute`, `record`, `flush`, `recordRun` | late answers; batches under way at shutdown; an index two callers extend |
| The rest | `infra/security`, `eval`, `syntax`, `profile`, `logging`, `cli`, `config` … | rules, text, reports | | formatting and I/O (section 5) |

How they interact.  `DefaultAgentRuntime.execute` builds a `StateMachine` and
runs `runLoop`; each turn `IterationExecutor` asks the router for a provider,
calls the model through `executeResiliently`, runs the tool calls, runs the
verification engine, derives a state-machine event from the results, applies it,
and asks loop control whether to stop.  `resume` starts one more `runLoop` on
the same execution and nothing stops the previous one.  All of it is one
JavaScript thread: what runs between two awaits is atomic, and everything
interleaves at the awaits.  The goal service, the state store, the journal, the
stores and the session files are libraries beside the runtime, driven by the
command line, the servers and the tests.  The state store drives the same state
machine: evidence gate and whitelist are shared.

What makes each correct, in a sentence:

- a task is DONE only on evidence or by a human, and its log reproduces its state;
- every call of `execute` and `resume` returns, inside its budgets, and says what happened;
- of several clients that read one revision of a goal one wins, and what is over stays over;
- nothing is applied that was not persisted, and a torn write costs at most one record;
- a destructive action is never repeated without a human, however often things crash;
- exclusive tools run alone, tools read what the calls before them left, the cache is fresh;
- a model call sends a bounded number of requests and ends; every tool call the model
  made is answered once, in order, and nothing is shown to it without its cause;
- what is registered is taken away again, in reverse, by whoever put it there;
- a rollback leaves the user's uncommitted work alone and takes the agent's back;
- what is stored is found again, except where two calls overlap: each property
  below says exactly what an overlap may cost.

## 2. Modules

```
AgentPhases ── StateMachine ── StateMachineProofs     CrashRecovery ── CrashRecoveryProofs
     │  └───── LoopControl ── AgentRuntime ── AgentRuntimeProofs
     └──────── DurableState ── DurableStateProofs ── MemoryRecords, SqliteStores
ModelRouting ─┐                                       ToolExecution ── ToolExecutionProofs
ModelCall ────┴ ModelTurn ── ModelCallProofs          ModelTurn implements BoundedCall
Guards ── StateMachineProofs                          TelemetryExport ── ComponentProofs
PluginContext, Registries, GitRollback ── MCToolExecution ── ToolExecutionProofs
Oversight, Subagents, GitRollback, Verification, ContextStore ── ComponentProofs ─┐
GoalLifecycle, AcpSessions, HttpTransport, StdioTransport ── MCOversight ── ClientProofs
```

The other modules stand alone.  Each names its state as one or a few records, its
initial predicate, one action per operation or handler, cut at the awaits, its
next-state relation and its properties.

**The core.**

*AgentPhases* is the static part of the state machine, used by the three modules
that drive one: phases, events, the whitelist (`TransitionRule`, the 48 rows of
`TRANSITION_RULES` grouped by event), `ValidTransition`, `EvidenceGate`, and
`Advance`, the state record after a transition.  *StateMachine* is one
`StateMachine` object: `Apply` is `apply()` with all it does; a rejected event
throws and changes nothing, so it is no action.

*LoopControl* holds `EvaluateLoopControl`, the conditions in the code's order.
An iteration is seen through its fingerprint, reduced to what
`fingerprintsMatch` can tell apart.

*AgentRuntime* is one execution.  `pc[i]` is the await that loop `i` is in:
`starting`, `running` (model, tools and verifier), `returned`, `saving` (the
automatic checkpoint), `done`.  `FinishIteration` is everything from the
derivation of the event to the return of `executeIteration`, which has no await:
it works on the machine and the iterations as they are then, with the phase,
sequence number and cost captured when the iteration started.  Model, tools and
verifier are inputs (`Turns`).

*TurnTools* is what `AgentRuntime` takes as an input: the tools' part of an
iteration.  Pre-step interceptors, the model's answer, reads begun at once and
the other calls one by one, policy, evidence, automatic checks after a write, and
the messages the next iteration begins with.

*GoalLifecycle* is `GoalService` and the continuation driver.  The calls are
synchronous, so the interleaving is that of the calls of clients that hold
references, stale or not.  *DurableState* is `DefaultStateStore.transition` cut
at its awaits, with failed and torn writes and restarts.  *CrashRecovery* is the
journal and `analyzeCrash`, entry by entry, with an executor that crashes
anywhere and a human, who are external and make the calls that
`tests/unit/infra/crash-safe-execution.test.ts` makes.  *ToolExecution* is both
ways to run a batch: `started` are the calls begun so far, `NextWave` is the group
that is begun next, when nothing of the batch is awaited any more; a tool runs in
the world (`Act`) whether or not somebody still waits for it.

**Asking a model.**  *ModelRouting* is `route()`: filters, scores in one integer
unit, ties, and the order in which providers are consulted.  *ModelCall* is
`executeResiliently`: attempts, back-off, abort, fallbacks, and requests that fly
on after they were given up.  *ModelTurn* composes them into the model's part of
an iteration, in single and in architect mode.  *BoundedCall* is what a caller
may rely on; `CallStatus` in *ModelTurn* is the refinement mapping.
*ProviderAdapters* is what the three HTTP adapters send, read and yield, and the
incremental tool parser, token by token.

**Bringing tools and plugins.**  *PluginContext* (loads, unloads and disposals
that overlap), *PluginWiring* (composition of bundles and patches, load order,
waterfalls), *Registries* (skills and their discovery; tools that MCP servers
list), *Subagents* (dependency graphs, time-outs, containment of tools; no id is
the name of a role, `IdsAreNoRoles`, since a spec without an id goes by its role).

**Overseeing.**  *Oversight* (escalations, budgets), *Verification* (runs of a
suite, two judges of evidence, the cache), *GitRollback* (ownership, checkpoints,
`safeRollback` name by name, what the status names before what only the checkpoint
does), *Guards* (circuit breaker, tool deadline, two windows that look
for repetition).

**Knowing.**  *ContextStore* (versions, relation graph with both indexes),
*ContextCompiler* (the pipeline under a budget, collapse and reconstruction),
*MemoryRecords* (records each operation reads, awaits and writes back),
*SqliteStores* (sessions, keys, notes, and the traces of tasks), *ExperienceIndex*
(files and index of runs), *SessionLog* (logs, forks, repair,
the messages derived from them).

**Serving.**  *StdioTransport* (lines from chunks, back-pressure, stop),
*HttpTransport* (order of checks, token buckets, bodies, event streams),
*AcpSessions* (sessions driven by several clients), *TelemetryExport* (queues,
batches, requests under way, shutdown).

**For TLC.**  The `MC…` modules give the constants values.  Five of them host
several components that share no state: a variable `part`, chosen initially,
says which component the behaviour is of, and the others stay in their initial
states, so the state space is the sum of theirs and never the product.  In
`MCStateMachine` and `MCOversight`, `Rest` lets the parts whose bounds are used up
stutter, so that deadlock is checked for the part that must not stop.  A conjunction such as `RecordsHold` or `CallsHold`
names the properties of several parts; each conjunct is stated and explained in
the module of its part.

A definition marked *mutant of* another is a plausible mistake in it; replacing
the one by the other must break the property `PROJECT.json` names.

## 3. Runs

| Run | Parts and properties | Bounds, and why they are enough |
|---|---|---|
| `StateMachine` (739 k states) | machine: `HistoryIsAWalk`, `CountersMatchHistory`, `DoneNeedsEvidenceOrHuman`, `VerifyFollowsWork` | 8 transitions: the shortest way to DONE takes 4, a repair round 2, a human's reset 2; the theorems remove the bound |
| | verification: `VerificationHolds` | 2 files of which one check reads one, 2 runs, 2 edits: an edit between any two checks and a repeated run; each with and without a test environment, where all checks of the profiles and one of a caller's are stubbed |
| | context: `ContextHolds` | 2 objects, 2 versions each, 2 relations: both ends of a relation change |
| | helpers, `HelpersHold`: compiler; breaker, deadline, windows; export | 3 of 5 objects, every kind of them, and 2 collapses, the second over what the first made; 4 calls at thresholds of 2; a window of 3 or 4 and 5 records; a queue with and without room for a batch, 3 batches |
| `AgentRuntime` (123 k) | `DoneIsVerified`, `NothingRefused`, `RepairsBounded`, `AbortedIsNotRunning`, `EveryLoopReturns`, with callers that wait for a call before they resume | 3 iterations, cost 4, 1 repair, 2 outside events, 2 loops, all four goals: every stop condition is reached, and pause–resume, restore and a deadline in the middle fit into two events |
| `AgentRuntimeRaced` (180 k) | `IterationsBounded`, `StatusIsTrue`, with `resume` while a loop is alive | 2 loops; a third repeats the second |
| `AgentRuntimeCancel`, `AgentRuntimeResume` | findings 1 and 2 | one cancel; pause and resume |
| `GoalLifecycle` (on `MCOversight`, 376 k) | goals: `OneWriterPerRevision`, `RoundsBounded`, `BlockerMatchesPhase`, `OverIsOver`, `LogRebuilds` | 3 clients on one goal (goals share no state), 6 revisions, budgets of 1–2: used up, raised, and used up again; usage with and without a round, so that recorded rounds take a goal past its limit |
| | escalations, budgets: `OversightHolds` | 2 requests, 3 decisions, 3 times around the expiry; 2 tasks and 2 models of which one each is limited, prices of 3 and 5 against 10 |
| | stdio, acp, http: `ServersHold`, `StopEnds` | 5 lines cut anywhere, a buffer limit one of them reaches, 2 starts; 2 messages, 2 waits, 2 cancels; 3 requests of 2 clients over 3 times with a burst of 1 |
| `GoalLifecycleReuse` (on `MCOversight`) | finding 3 | 2 clients, ids reused |
| `DurableState` (on `MCPersistence`, 1.37 M) | state: `NothingAppliedUnlogged`, `LogTellsHistory`, `LossBounded` | 2 callers, 5 appends: DONE takes four, and two torn lines with a record between them fit |
| | sessions, memory, stores (tree, notes, traces), runs: `RecordsHold` | a parent and a child, 5 events, 2 breaks; 2 memories, 3 calls of 2 callers and 3 drafts, one with a status its creator names and no topic; 4 saves; 3 notes and 4 days; 3 traces of 2 tasks over 2 days; 2 runs, 3 recordings and a death |
| `DurableStateReplay`, `RollbackBaseline` | findings 4 and 5 | one caller; the bounds of the git part |
| `CrashRecovery` | recovery: `NoSilentRepeat`, `EscalatedUntilReviewed`, `FinishedIsFinal`, `EveryActionSettles` | an irreversible and an ordinary action in parallel, 3 crashes (executor, recovery, and the retry), 2 reviews |
| | turn: `RoutingHolds`, `CallKeepsItsPromise`, `TurnsAndGraphsEnd` | 2 providers that tie as editors, 1 retry, 1 fallback: a late answer of an attempt meets the retry and the fallback |
| | agents: `GraphRunsInOrder`, `TurnsAndGraphsEnd` | graphs with a chain, a cycle, a missing id, shared roles and forbidden tools |
| `ToolExecution` (1.17 M) | tools: `BarrierHolds`, `ReadsInOrder`, `CacheIsFresh` | 2 batches of up to 3 calls with a reader, a probe and a writer, 2 time-outs, groups of at most 2: leftovers of the first batch meet the second |
| | plugins, skills, sync: `PluginsHold` | 2 plugins, 3 effects, 2 loads (what a failed plugin collects is only forgotten at a third load: 3 loads were run apart, and `PluginsCorrect` has no bound); 2 skills in every combination of sources; 3 synchronisations of 2 servers whose names clash |
| | exchange, parser, turn, wiring: `CallsHold` | 2 conversations, 3 answers cut anywhere, texts with nested and escaped braces fed in pieces of up to 5; 2 iterations of up to 3 calls; a bundle with an id twice under two patches, every dependency relation of 3 plugins, 3 changes during a dispatch |
| | git: `RollbackHolds` | a file at top level and two in a directory, 3 writes, the initial commit and one more, one checkpoint: a user's and an agent's write to one path and a commit in between, a checkpoint of either commit, and a rollback to the one that is not head |

`MaxHistory`, `MaxEvents`, `MaxLoops`, `TurnCosts`, `MaxRevision`, `MaxRecords`,
`MaxCrashes`, `MaxReviews`, `Batches`, `MaxBatches`, `MaxTimeOuts`, `MaxRuns`,
`MaxEdits`, `MaxVersions`, `MaxRelations`, `MaxObjects`, `MaxCollapses`,
`MaxLoads`, `MaxChanges`, `MaxPiece`, `MaxTurns`, `MaxWrites`, `MaxCommits`,
`MaxPoints`, `MaxCalls`, `MaxSaves`, `MaxNotes`, `MaxRecordings`, `MaxDeaths`,
`MaxRequests`, `MaxDecisions`, `MaxCharged`, `MaxStarts`, `MaxSends`, `MaxWaits`,
`MaxCancels`, `MaxAsked`, `MaxItems`, `MaxTraceUses` and the last days and ticks are
bounds of the models.  `MaxIterations`, `MaxCost`, `MaxRepairs`, the windows of
loop control, `CheckpointEvery`, `MaxParallel`, `MaxRetries`, the back-offs,
thresholds, budgets and buffer sizes are parameters of the program, given small
values.

Deadlock checking is off where every part may stop: an execution that returned,
a journal whose actions are settled, tools that all returned after the last
batch, a tree whose writes are used up, stores nobody calls any more (the state store
itself cannot be stuck: it may always restart).

Clients and callers are symmetric in `MCOversight` and `MCPersistence`: no
definition singles one out.  `MCOversight` also checks temporal properties.
`OverIsOver` and `LogRebuilds` are safety and quantify over goals, not clients;
`StopEnds` is liveness of the stdio part, which has no clients at all, so
permuting them permutes nothing there.

### Fairness

`AgentRuntime`: a loop that is alive moves.  The runtime gives model and tool calls
a time-out, so each await settles, and JavaScript schedules the continuation.
Nothing obliges the caller to pause, resume or cancel.  `CrashRecovery`: the
executor's steps and the recovery's steps are weakly fair, the human's are not,
and crashes are bounded.  `ModelTurn` (`TurnFairness`): timers fire, so an attempt
is answered or given up, a back-off ends, and the turn goes on; no provider is
obliged to reply.  `Subagents`: timers fire; no subagent is obliged to finish.
`StdioTransport` (`StopReturns`): `stop()` waits for requests at work no longer
than its own deadline; no reader is obliged to read.  The other modules state
safety only.

### Refinement

`BoundedCall` says what a caller of `executeResiliently` may rely on: at most
`Bound` requests, an answer only after a request, an end whether or not anybody
replies, and nothing sent once it has ended.  `CallKeepsItsPromise` is its whole
specification, fairness included, under the mapping `CallStatus`; the run checks
it, and `CallImplementsPromise` proves the safety part for every number of
retries and fallbacks.

### Where the code and its documents differ

1. `cancel()` does not stick: an iteration in flight overwrites CANCELLED with
   what it decides (`AgentRuntimeCancel`; `docs/architecture/AGENT_LOOP.md:45`).
2. `resume()` of an execution whose machine is terminal leaves it RUNNING with
   no loop (`AgentRuntimeResume`; `AGENT_LOOP.md:34`).
3. `create()` with an id in use restarts the revision that should be monotonic
   (`GoalLifecycleReuse`; `core/goal/goal-state.ts:45`).
4. `transition()` persists an event before the evidence gate refuses it
   (`DurableStateReplay`; `core/interfaces/event-store.ts:4`).
5. A rollback ends with a checkout that takes back what the user had changed
   before the agent began, once it was committed (`RollbackBaseline`;
   PERSISTENCE.md, "Pre-existing user files are never touched by rollback").

Properties are stated with the limits the code really has.  `IterationsBounded` allows
a resumed execution one iteration over its budget per resume, two when loops overlap.
`LossBounded` allows a torn line to take the next acknowledged record with it.
`LogTellsHistory` is about calls that take turns. `ReadsInOrder` and `CacheIsFresh`
hold as long as every tool's outcome was waited for, and `CacheIsFresh` excepts one
case by name: the last tool that changed anything threw (`thrown`).  `RoundsBounded`
is about rounds the driver admits, not about those clients record.
`VerdictsTellEvidence` and `CacheTellsNow` except the checks that a test environment
stubs (`Stubbed`), and `OnlyEarned` the memories whose creator names an active status
or a lasting tier (`Asserts`).  `HistoryComesBack` excepts milestones whose ids clash
(`clashed`). `SpendingIsBounded` excepts model limits that a task's warning hid
(`masked`); `SelectionIgnoresOrder` excepts near ties that go round in a circle.
`NoSilentContradiction`, `CountsTogether`, `FoundAgain` and `SyncsSound` name the
overlaps they except.

### What else the models show about the code

Facts met while modelling that contradict no document, or one no run is spent
on.  The models contain them; the properties are stated around them.

- *Verification.*  With NODE_ENV=test, VITEST=true or a working directory with
  "bench-" in its name, the commands of every profile, and those of a caller that run
  npm scripts or tsc, are replaced by `process.exit(0)`: they pass whatever the code is, and
  are recorded and cached like other passes (`default-verification-engine.ts:392`, `:503`,
  against line 10 of its header, "NEVER synthetic PASS").  `testEnvironment` and
  `Stubbed` model it; `Scripted` are the caller's checks it concerns.
- *Goals.*  `recordUsage` adds `roundsIncrement` in any phase and checks no limit, so
  `roundsStarted` can pass `maxRounds` and grow on a completed or cleared goal
  (`goal-service.ts:324`).  The rounds it adds count when `admitRound` and `resume`
  compare.
- *Runtime and tools.*  A tool that changes something and then throws leaves the read
  cache as it was, and a read cached before is served until the next change
  (`default-tool-executor.ts:244`), against the test's "Mutating tools invalidate
  cache to preserve correctness", which tries a tool that returns.  A HarnessError
  that a tool throws is no result but rejects the whole batch (line 254).  With
  `maxRepairAttempts` 0 one repair still takes place: `VERIFICATION_FAILED` does not
  look at the budget.  A model argument named `input` replaces all the others; the
  validation in the executor's adapter always says valid.  A policy engine that throws
  fails the iteration while sibling reads go on unrecorded.  Without a tool executor,
  calls stay without results.  A refused pre-step counts as stopping without tools.
  Error signatures hold the sequence number and so never repeat.  INCONCLUSIVE counts
  as failing in one place and not in another.
- *Model calls.*  `provider-resilience.ts:45` says unrecoverable errors do not
  fall back, but only the abort is looked at; ECONNRESET is retried, 500 is not.
  The circuit breaker, the fingerprinter, the repeat guard and the time-out policy
  have no callers; half-open lets any number of probes through.  Architect mode
  sends the configured model ids also to another provider, takes a remaining
  budget of 0 for unknown, and loses the cost of a plan when the edit throws.
  The router's comparator counts utilities within 0.0001 as ties, which is not
  transitive: three near ties can go round in a circle, and then the order of
  registration shows in deterministic mode too (`utility-model-router.ts:246`).
  That mode selects by utility, not the first registered provider
  (`docs/architecture/MODEL_ROUTING.md:180`).
- *Providers.*  The native adapters drop assistant tool calls and the system
  prompt of the request; their streams carry no tool calls.  A cut stream ends
  silently, a last line without newline is lost.  One abort is three different
  errors.  The tool parser reports a completed call again with every later feed.
- *Plugins, registries.*  An unload during any load loses later registrations.  A
  plugin whose load has failed can still be on top of the stack of overlapping loads
  and is then given others' disposers, which its next load (a new record) forgets.  A
  load that fails while its plugin is being unloaded unwinds what its record holds by
  then, beside the unload.  An asynchronous effect disposed before its setup ends is
  never disposed; a handler that removes itself makes the dispatch skip one.  A stale
  disposer deletes another's skill of that name.  MCP tool names of two servers can
  clash; overlapping synchronisations may leave the older list, and tools no longer
  listed stay.
- *Oversight.*  A resolved request is decided again.  A task's warning hides the
  model's limit.  A WARNING is below the minimum confidence and never acceptable;
  a FAIL once recorded blocks acceptance for ever.  A direct result and a command
  check of one target type share a check id, so a warning after a pass is a
  regression to the engine and none to the aggregator.
- *Context.*  Ids of two milestones of one call can clash, and reconstruction then
  loses a batch (`context-collapse.ts:102`, against line 9, "Full original history
  is completely retrievable").  A mandatory object given twice makes `compile`
  throw.  `addObject` with a known id overwrites version 1 and keeps later ones.
- *Storage and memory.*  Only two event types of a session survive SQLite
  (`docs/operations/runbook.md:61`); copies saved in turn mix their logs; a note set
  during `consolidate()`, or a stale one that `get` makes active again, is deleted
  unread (`memory-curator.ts:156`): the transaction deletes what is active by then,
  not what was listed.  Every memory operation writes back a stale record; who creates
  one may name any tier and status, so that something a tool returned can be active,
  or promoted in the short-term tier, from the start (`in-memory-memory-store.ts:59`);
  a use revives an invalidated one.  `recordUsage` of the skill extractor writes an
  importance computed from an older reading, so a record promoted for its importance
  can be active with less (`skill-extractor.ts:112`). `resolveConflict` with a winner
  outside the conflict invalidates the existing record and takes the conflict off
  file; a late write can bring that record back, and nothing tells that it contradicts
  the new one (`in-memory-memory-store.ts:254`).  A torn run index reads as empty and
  is written over.
- *Servers, telemetry.*  `session/cancel` never reaches the run under way, whose
  result then overwrites CANCELLED; statuses of overlapping sends are those of the
  last to end.  The line limit is applied to the whole buffer; the end of
  `stop()` can erase input of a later start.  A failed export loses its batch; with
  a queue smaller than a batch nothing leaves but by the timer.

## 4. Proofs

TLAPS checks eight modules, for every value of the constants that satisfies the
named assumptions of the modules they extend (`OffersAreCalls`, `MaxHistoryNat`;
`GoalConstants`, `NoGoalIsNone`, `NoRefIsNone`; `LoopLimits` and `RuntimeLimits`;
`RecoveryConstants`; `DurableConstants`; `ToolConstants`; `CallConstants`,
`RoutingConstants` and `TurnConstants`; `OversightConstants`, `IdsAreNoRoles`,
`GitConstants`, `VerificationConstants` and `ContextConstants`; `HttpConstants` and
`StdioConstants`; `GuardConstants` and `ExportConstants`; `RegistryConstants` and
`GlobalIsNoPlugin`; `MemoryConstants` and `StoresConstants`; `RunsHaveNames`).  The
bounds are constants like the others, so executions of every length are covered.

**StateMachineProofs.**  `Invariance`: `Spec => []IInv`, where `IInv` says that the
history and the saved history are `Sound`.  The properties are not inductive one
by one: that nothing follows a terminal phase needs the walk to end in the current
phase; that VERIFY follows work needs to know that work was done whenever the
machine is in a phase VERIFY can be entered from; and `FromSnapshot` puts the
saved history in place of the current one, so both carry the whole invariant.
`EvidenceGated`, `LogReplays`, `VerifiedWork` and `TerminalIsLast` follow.
`WhitelistIsFunctional` shows that phase and event determine the target, which
`buildTransitionIndex` takes for granted.  `CountersCorrect` relates two counters
to the cardinalities of sets of positions in the history (`Counted`): one more row
moves the set as `Advance` moves the counter, and it needs to know that a row that
is a fresh start leaves no REPAIR entry behind it.  `GuardsCorrect` is the three
parts of `GuardsHold`: the breaker needs that no time it noted is still to come
(`CircuitInv`), the deadline that a limited call that runs either hears the abort or
has told it on (`DeadlineInv`), and the windows that they are the last entries of
the history (`PushedIsLast`), by which what they count is what the history counts
(`SameTimes`).  It assumes that the window of prints holds at least the four entries
an oscillation needs.

**AgentRuntimeProofs.**  `DoneCorrect`, `AbortedStops` and `TypeCorrect`, for any
number of loops on one execution.  The heart is `Merits`: whatever phase an
iteration started in and whatever phase its machine is in by the time it ends, the
events `Derive` applies lead to DONE only with evidence that is `Good`.  So
`ApplyKeeps` (one event), the lemmas on `NextEvent` and `FollowUp`, and
`DeriveKeeps` (up to five events) carry the invariant without any assumption on
who else moved the machine.  `LoopsTyped` is needed because a loop keeps its
record, phase and machine over several awaits.  `RepairsCorrect` needs to know
that the budget is not yet spent in any phase from which a derived event may lead
on to VERIFY (`Spared`), since `VERIFICATION_FAILED` does not look at it:
`REPAIR_COMPLETE` is only derived within the budget, or on evidence that takes the
machine on to DONE (`EventsPlain`).  It assumes `MaxRepairs` > 0.  `AllAccepted`
needs that, with callers that wait, only the latest loop is alive and its machine
stays in the phase it noted when the iteration began (`Orderly`); `DeriveAccepted`
then follows each event to the rule that accepts it.  `StatusCorrect` rests on the
last loop (`Truthful`): only `resume()` makes an execution RUNNING, and it starts a
loop, so it is enough that the last loop is alive or the machine had ended; and a
loop that has decided for SUCCESS keeps a machine that no event leads out of DONE.
`IterationsCorrect` counts the loops that may still push: once the budget is all
but used up every further decision ends its loop, so each loop records one more
iteration at most, and a second one if it was told to go on before.

**DurableStateProofs.**  For any number of callers, records, failed writes and
restarts.  `AppliedCorrect` needs a count of what is on its way: acknowledged events
are applied or held by a call between its append and its `apply` (`AcksCover`).
`LossCorrect` needs that ids are given out once (`IdsAreOwn`) and charges each lost
record to a torn line (`TearsPayForLoss`).  `LogCorrect`, for calls that take turns,
needs that what a call read before its awaits is still so after them
(`ReadIsStillSo`).

`MemoryCorrect` is `MemoryHolds` of any number of memories, callers and calls, with
nothing that keeps two calls apart.  A call that has read a record writes back what
it made of it, so the invariant says of every reading what it says of what is stored
(`CallFine`, `RowFine`): its counts fit, it was active for a reason, and what it is
about still is what is stored (`ReadStands`).  A contradiction is on file or excused
from the moment it is noted, before the second record is stored (`Known`).  The
attempt found two properties that only the bounds of their run had made true, both
shown by TLC on larger instances: an important record that was promoted need not be
important still (four calls), and a conflict settled in favour of a third memory
leaves a pair that a late write makes active again (three memories).  `OnlyEarned`
and `NoSilentContradiction` now say so.

`StoresCorrect` is `StoresHold`, store by store.  `TreeCorrect`: a session may be in
the hands of several holders, in a row, and in a branch under way.  `TreeInv` says,
of a session nobody shares or abandoned, that one copy is current, that the row and
the copy a branch loaded are beginnings of it, and that whatever was branched off it
begins with it (`InOneHand`); an append or a save goes to the current copy, and so
keeps that.  `NotesCorrect`: while a consolidation waits, each fact that counts is
among what it has listed or in a note that is not active, which it will not delete
(`KeptSomewhere`); a note consolidated earlier on the same day is active still, so
that writing the new one under its key overwrites nothing (`NoteFine`).  The attempt
failed on a stale note that is read while the consolidation waits: it is active
again and deleted unread.  The run had hidden it, because a consolidation needed one
note more than its writes allowed; its threshold is 0 now, and `NothingForgotten`
excuses just these notes.  `TableCorrect` is about one step at a time: a limit on
the rows of a query takes exactly the surplus (`TracesPruned`).

**ToolExecutionProofs.**  `BarrierCorrect` is about every call that is awaited, also
one that still waits for the policy engine (`Barrier`); it rests on `NextWaveFacts`,
that a tool that must run alone is a group of its own and that groups take calls
from the front.  `ReadsCorrect` needs, as long as no outcome slipped (`Attended`),
that calls start from the front (`FromTheFront`) and that the world is what the
calls in front have made of it (`Sequential`).  `CacheCorrect` needs the same of what
has been read but not cached yet (`ReadsAreFresh`), and that a mutating tool
runs alone (`MutatingAlone`): what is stale while it has acted and not returned is
gone when it returns, and excused by `thrown` when it throws.

The module also has what brings tools and plugins.  `RegistriesCorrect` needs of
discovery what each source consulted so far has left (`SkillsInv`), and of
synchronisations that do not overlap that at most one of a server is under way and
that lists arrive with growing versions (`SyncsInv`).  `PluginsCorrect` says
`PluginsUnwind` of any number of plugins, loads and effects:

- each effect in force has its place in exactly one list, also when its list is
  taken over by an unwinding, and is in it once (`Tracked`); that needs effects to
  be numbered, and as many places on the stack as loads in progress (`Basic`);
- while nothing overlaps at most one plugin is astir (`Alone`), the effects of a
  plugin in force are the first ones of its last load, upward in its list and
  downward while they are unwound (`InPlace`), and `dispose()` reaches every plugin
  there is (`Reached`).

The first attempt failed on the plugin that collects others' disposers after its own
load has failed, which two loads never show; `cut` now marks the load that forgets
them.  `PluginsHoldCorrect` puts plugins and registries together as the run does.

**ComponentProofs.**  Six components, and what is needed of finite sets and sums.
The induction theorems of the library take a predicate as an argument, which no
installed prover can instantiate; stated of a set instead of a predicate, induction
follows from the existence of minimal elements (`Naturals`, `Subsets`), and with it
that the recursion behind `MapThenSumSet` has a solution (`PartialExists`) and how a
sum moves with one of its terms or is bounded by them (`SumMoves`, `SumBelow`,
`SumAbove`).

- `OversightCorrect`: an escalation decided in time was begun in time
  (`BegunInTime`); a model's spending is bounded together with what the calls under
  way will still be charged (`Due`), where a call that passes the check meets at
  most one call of each other task (`Slack`).
- `GraphsCorrect`: what is no longer pending has a settled spec of its key, and the
  ids in progress are within `Closure` (`GraphInv`); when a graph ends with nothing
  left to run, the settled ids are a closed set (`AllReached`).  The proof failed
  for a graph that uses the name of a role as an id: there a spec without an id is
  taken for the dependency.  `IdsAreNoRoles` excludes it.
- `RollbackCorrect`: a status names a directory or files in it, never both
  (`OneNaming`); the user's change stays dirty in git's eyes until the checkout, so
  git keeps it or refuses (`SurvivesInv`); and each file a restored name covers is
  settled, or has a name to come of those the status gave (`RevertInv`).  The last
  needs the order of the code: with names of the checkpoint first, the restoration
  of a directory could leave a file of it untouched and report it as reverted.
- `VerificationCorrect`: between two checks a run's status is what its records say so
  far, and, if nobody touched the code, the checks before the next one pass or were
  stubbed (`RunTold`); what is cached is what the hashes with it say (`Cached`).  The
  judges agree because a warning comes from a direct result, whose confidence is below
  the minimum, or from a human (`Plain`), and by `SumAbove` for the mean confidence.
- `ContextCorrect`: both indexes are those of the relations, each of which has an id
  of its own that was given out (`Indexed`): a subsumption puts relations back under
  their old ids, so neither its order nor a repetition can double one.  Ancestors
  and descendants are least closed sets, one per direction; what is left out of a set
  closed forwards is closed backwards, so each is seen from both ends (`BothWays`).
  What a query found at the end of an earlier tick stays, since a version is written
  with the time of its tick (`PastStays`).
- `ExportCorrect`: what waits are the newest records, in order, and all older ones
  are in exactly one of a request, the sent and the dropped (`Waiting`, `Placed`).
  Taking a batch and recording one more keep that (`TakingIsGood`, `ExportedIsGood`);
  the points of one call are recorded one after the other (`AftersExist`).

**CrashRecoveryProofs.**  `RepeatsApproved`, `RecoveryEscalates` and `FinishedStays`
for any number of actions and crashes.  `NoSilentRepeat` counts effects, so the
invariant has to say what the counters are while an executor or the recovery is
half way through an entry: `Entitled` (who may still execute), `Busy` (an
executing step has an entry that says so) and `Pending` (what recovery has not
looked at yet is still in one of the interrupted statuses).

The module also has the store of runs, for any runs and recorders, which writes files
that a death can tear.  `ExperienceCorrect` rests on who has a file open: as long as a
shared file is safe, at most one recorder has read it (`OneReader`) and it is broken
only while that one has it open (`BrokenIsOpen`), so that what it is about to write is
still what the file held and one entry more (`SharedMatch`).  A file that a call has
left behind holds what the call wrote (`RunFilesFine`), and so an entry comes after
the files of its run (`EntryBacked`), even where two recorders overwrite each other's
index.

**ModelCallProofs.**  `RequestsBounded` needs the requests sent so far written as
a product: providers used up times (`MaxRetries` + 1), plus the attempts at the
current one (`Multiples`, `RoomLeft` do that arithmetic).
`CallImplementsPromise` then maps each step of a turn to a step of `BoundedCall`
or a stutter.  `RoutingCorrect` needs that the comparator, in deterministic mode, is
total on different providers (`BeforeIsTotal`), so that who comes before all others
is one provider whatever the order (`RouteIgnoresOrder`); and, for the shared
budget, that something of it is left when a turn starts (`RoutingInv`).  The first
attempt failed for near ties in a circle, which the property now excepts.

**ClientProofs.**  What clients do: change a goal, and reach an agent through a
server.  For goals, `StepKinds` reduces the actions to three kinds of step:
goals stay, a creation, and a mutation accepted under one reference.
Each theorem then has three cases.  `RoundsCorrect` counts the rounds the
driver admits (`admitted`), since clients may record others: it needs that the limit in
force is no larger than the largest one given (`LimitBelowCeiling`) and that what was
admitted is among the rounds counted as started (`AdmittedAreCounted`), which recorded
rounds only add to.
`FenceCorrect` needs `UsedIsPast`: a reference some mutation was accepted
under is strictly below its goal's revision.  That fails when an id is reused,
which is why `FenceCorrect`, `OverCorrect`, `RevisionsCorrect` and `LogCorrect`
assume `IdsAreFresh`, and why run `GoalLifecycleReuse` exists.

`ServersCorrect` is `ServersHold` for every rate, burst, input, buffer limit and
number of clients, and rests on one theorem per server:

- `AcpCorrect`: whoever waits for a session is in the list that the next end of a run
  empties (`WaitersListed`), and while all runs began alone there is at most one
  (`OneAtATime`); the tokens of a session are a sum over its runs, of which each end
  of a run moves one term.
- `HttpCorrect`: what was let through since any moment and what the bucket still
  holds are together at most a full bucket and the refills since (`BucketFits`), so
  that taking a token moves it from the one to the other.  A client that is turned
  away had a request within the time of one token because the bucket is as old as
  the last request it was asked about.
- `StdioCorrect`: the buffer is the end of what was read, all of one line
  (`BufferIsLast`), and all of that line unless something was thrown away
  (`BufferIsWhole`); so what a newline takes out is the line that was written, and
  each line that was read to its end is at work or answered (`AllAnswered`, with the
  replies that carry no id counted against the lines that have none).  A chunk is
  taken as its characters one after the other (`TakesStep`), and `CharFacts` is what
  the lines written one after the other come to.  The first attempt failed on a
  request without an id that arrives before a handler is registered: it is answered
  under `null`, like a line that is no request, not under 0.

**Only model-checked.**  All liveness, and the fairness part of the refinement,
which TLAPS does not do.  `HelpersHold` but for its guards and export
(`GuardsCorrect`, `ExportCorrect`), `CallsHold`, and `RecordsHold` but for
`MemoryHolds`, `StoresHold` and `ExperienceHolds` (`MemoryCorrect`, `StoresCorrect`,
`ExperienceCorrect`): what is left of them is mostly about what folds, recursion and
selections over sequences of any length compute (`PluginWiring`, `TurnTools`,
`ContextCompiler`, `SessionLog`, the parsers), where each would need an induction of
its own, as the one over the characters of a chunk in `StdioCorrect`.

## 5. What is not modelled

- In the modelled parts: wording, logging, observers and metadata; the arguments of
  tool calls beyond the file they name; time as a number (a deadline or a time-out
  is an event that may come; days and ticks are small counters); the spill store;
  mutating tools whose `isConcurrencySafe` says true (`ToolConstants` excludes
  them); checkpoints of the runtime other than by the phase they restore; the goal
  budgets in loop control; waiting for a service and the directory loader of
  plugins; `executeSequential` of the subagents; the choice of impacted tests;
  ranking of memories for a query, and the tier `promote` may be given, which only a test
  gives; the compaction lock, which brackets a
  synchronous call and which nobody can contend for.
- The resume manager, the state validator and token attribution: pure reads of one
  state, a predicate, and sums over a tree on request.  No step of theirs can
  interleave with another.
- `infra/security` (policy rules, sanitizer, path rules): pattern rules on text and
  paths.  In `ToolExecution` and `TurnTools` a policy allows, refuses or throws.
- `infra/syntax`, `profile`: parsers and static descriptions.  `infra/eval`,
  `logging`, `tui` and the rest of `telemetry`: reports nothing reads back.
  The command line, configuration and type declarations.

## 6. Plan

Next, in this order:

1. Theorems for the session files of `RecordsHold` and for the order of `PluginWiring`;
   an abstract execution (status graph and results) that `AgentRuntime` implements
   with callers that wait.
2. `AgentRuntime` with `TurnTools` in place of its `Turns`, on a smaller instance:
   the inputs as the composition produces them.
3. The goal budgets in `LoopControl`, so that goal lifecycle and runtime compose.
4. The resume manager next to `DurableState`: a resume from a checkpoint that is
   older than the log.
