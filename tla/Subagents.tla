----------------------------- MODULE Subagents ------------------------------
(***************************************************************************)
(* DefaultSubagentManager: a graph of subagents run in batches, each raced *)
(* against its timer and the caller's signal.  What loses the race is not  *)
(* stopped: the core of a subagent reported as timed out still records its *)
(* evidence.  The signal a controller gives is listened to by nobody.      *)
(***************************************************************************)
EXTENDS Naturals, SequencesExt

CONSTANTS Graphs,       \* bound: the lists of specs callers give
          ParentTools,  \* parentAllowedTools; "*" and nothing allow all
          Registered,   \* the tools toolExecutor.getTool finds
          Depth, MaxDepth

VARIABLES specs,     \* what executeDependentGraph was given
          pending,   \* pendingSpecs, as positions in specs
          settled,   \* resultsMap, as positions in specs
          agents,    \* the spawned ones: see NewAgent
          active,    \* activeControllers
          recorded,  \* evidence in the evidence store
          cancelled, \* signal.aborted
          graphEnded

agentVars == <<specs, pending, settled, agents, active, recorded, cancelled, graphEnded>>

\* A spec has an id or NoId, a role, the ids it depends on, and its tools.
NoId == "no id"
Id(i) == specs[i].id
\* Ids are a type of their own: none is the name of a role.
ASSUME IdsAreNoRoles ==
  \A graph \in Graphs : \A i \in DOMAIN graph :
    /\ NoId \notin graph[i].deps
    /\ \A j \in DOMAIN graph : graph[i].id = NoId => graph[j].id # graph[i].role
\* spawned: where runSubagentCore is; race: what settled first; says: the result
NewAgent == [core |-> "tick", race |-> "open", says |-> "nothing"]
Verdicts == {"nothing", "success", "failure"}
AgentStates == [core: {"none", "tick", "recording", "done"},
                race: {"open", "success", "failure"}, says: Verdicts]
Reported(i) == i \in DOMAIN agents /\ agents[i].says # "nothing"
Batch == DOMAIN agents \ settled

\* Only specs have agents, only agents have results (executeDependentGraph).
AgentTypeOK ==
  /\ specs \in Graphs /\ pending \subseteq DOMAIN specs
  /\ DOMAIN agents \subseteq DOMAIN specs /\ settled \subseteq DOMAIN agents
  /\ agents \in [DOMAIN agents -> AgentStates]
  /\ active \subseteq DOMAIN agents /\ recorded \subseteq DOMAIN agents
  /\ cancelled \in BOOLEAN /\ graphEnded \in BOOLEAN

AgentInit ==
  /\ specs \in Graphs /\ pending = DOMAIN specs
  /\ settled = {} /\ agents = <<>> /\ active = {} /\ recorded = {}
  /\ cancelled = FALSE /\ graphEnded = FALSE
-----------------------------------------------------------------------------
\* executeDependentGraph.

AllSettled(ids) == ids \subseteq {Id(i) : i \in settled}
AnyKnown(i) == \* mutant of IsReady: one dependency is enough
  specs[i].deps = {} \/ specs[i].deps \cap {Id(j) : j \in settled} # {}
IsReady(i) == AllSettled(specs[i].deps)
Ready == {i \in pending : IsReady(i)}

\* Specs without an id are told apart by their role alone.
Key(i) == IF Id(i) = NoId THEN specs[i].role ELSE Id(i)

Contained(tools) == ParentTools = {} \/ "*" \in ParentTools \/ tools \subseteq ParentTools
Spawned(i) ==
  IF Depth >= MaxDepth \/ ~Contained(specs[i].tools)
  THEN [NewAgent EXCEPT !.core = "none", !.says = "failure"]
  ELSE NewAgent

\* All ready specs are spawned before anything else runs.
StartBatch ==
  /\ ~graphEnded /\ Batch = {}
  /\ IF cancelled \/ Ready = {}
     THEN graphEnded' = TRUE /\ UNCHANGED <<agents, active>>
     ELSE /\ agents' = [i \in DOMAIN agents \cup Ready |->
                          IF i \in Ready THEN Spawned(i) ELSE agents[i]]
          /\ active' = active \cup {i \in Ready : Spawned(i) = NewAgent}
          /\ UNCHANGED graphEnded
  /\ UNCHANGED <<specs, pending, settled, recorded, cancelled>>

EndBatch ==
  /\ Batch # {} /\ \A i \in Batch : Reported(i)
  /\ settled' = settled \cup Batch
  /\ pending' = {i \in pending : Key(i) \notin {Key(j) : j \in Batch}}
  /\ UNCHANGED <<specs, agents, active, recorded, cancelled, graphEnded>>
-----------------------------------------------------------------------------
\* spawn and runSubagentCore.

Raced(i, outcome) ==
  [agents[i] EXCEPT !.race = IF @ = "open" THEN outcome ELSE @]

Scoped(i) == specs[i].tools \subseteq Registered \cup {"*", "read_file", "write_file"}

\* Ten milliseconds on: the tools are looked up, the role plays its part, and
\* a tester asks for its evidence to be recorded.
Unrecorded(i) == \* mutant of CoreRuns: the evidence is not waited for
  /\ i \in DOMAIN agents /\ agents[i].core = "tick"
  /\ agents' = [agents EXCEPT ![i] = [Raced(i, "success") EXCEPT !.core = "done"]]
  /\ UNCHANGED <<specs, pending, settled, active, recorded, cancelled, graphEnded>>
CoreRuns(i) ==
  /\ i \in DOMAIN agents /\ agents[i].core = "tick"
  /\ agents' = [agents EXCEPT ![i] =
       IF ~Scoped(i) THEN [Raced(i, "failure") EXCEPT !.core = "done"]
       ELSE IF specs[i].role = "TESTER" THEN [@ EXCEPT !.core = "recording"]
       ELSE [Raced(i, "success") EXCEPT !.core = "done"]]
  /\ UNCHANGED <<specs, pending, settled, active, recorded, cancelled, graphEnded>>

CoreRecords(i) ==
  /\ i \in DOMAIN agents /\ agents[i].core = "recording"
  /\ recorded' = recorded \cup {i}
  /\ agents' = [agents EXCEPT ![i] = [Raced(i, "success") EXCEPT !.core = "done"]]
  /\ UNCHANGED <<specs, pending, settled, active, cancelled, graphEnded>>

AgentTimesOut(i) ==
  /\ i \in DOMAIN agents /\ agents[i].core # "none" /\ agents[i].race = "open"
  /\ agents' = [agents EXCEPT ![i] = Raced(i, "failure")]
  /\ UNCHANGED <<specs, pending, settled, active, recorded, cancelled, graphEnded>>

Return(i) ==
  /\ i \in DOMAIN agents /\ agents[i].race # "open" /\ ~Reported(i)
  /\ agents' = [agents EXCEPT ![i].says = agents[i].race]
  /\ active' = active \ {i}
  /\ UNCHANGED <<specs, pending, settled, recorded, cancelled, graphEnded>>

\* The caller's signal rejects every race that is open.
Cancel ==
  /\ ~cancelled /\ cancelled' = TRUE
  /\ agents' = [i \in DOMAIN agents |->
       IF agents[i].core = "none" THEN agents[i] ELSE Raced(i, "failure")]
  /\ UNCHANGED <<specs, pending, settled, active, recorded, graphEnded>>

\* It aborts controllers whose signals the cores do not look at.
CancelAll ==
  /\ active # {} /\ active' = {}
  /\ UNCHANGED <<specs, pending, settled, agents, recorded, cancelled, graphEnded>>

AgentMoves ==
  \/ StartBatch \/ EndBatch
  \/ \E i \in DOMAIN specs : CoreRuns(i) \/ CoreRecords(i) \/ AgentTimesOut(i) \/ Return(i)
AgentNext == AgentMoves \/ Cancel \/ CancelAll

AgentSpec == AgentInit /\ [][AgentNext]_agentVars
AgentFairness == WF_agentVars(AgentMoves)
-----------------------------------------------------------------------------
\* The ids that can be run: those in every set that has the id of each spec
\* which depends on nothing outside of it.
Ids == {Id(i) : i \in DOMAIN specs} \ {NoId}
Closed(ids) ==
  \A i \in DOMAIN specs : specs[i].deps \subseteq ids /\ Id(i) # NoId => Id(i) \in ids
Closure == {id \in Ids : \A ids \in SUBSET Ids : Closed(ids) => id \in ids}

\* A subagent starts only after all it depends on has been reported; a graph
\* that was not cancelled ends with a result for exactly the ids that can be
\* reached, whatever timed out; a success a tester reports has its evidence
\* in the store; and no controller outlives its subagent.
GraphRunsInOrder ==
  /\ \A i \in DOMAIN agents : \A id \in specs[i].deps : \E j \in DOMAIN specs :
       Id(j) = id /\ Reported(j)
  /\ graphEnded /\ ~cancelled =>
       {Id(i) : i \in settled} \ {NoId} = Closure
  /\ \A i \in DOMAIN agents :
       agents[i].says = "success" /\ specs[i].role = "TESTER" => i \in recorded
  /\ \A i \in active : ~Reported(i)

\* A graph that was begun ends, whatever its subagents do: their timers do.
GraphEnds == agents # <<>> ~> graphEnded
=============================================================================
