--------------------------- MODULE MCCrashRecovery ---------------------------
(* What must come to an end, in one run with three independent parts: a      *)
(* behaviour is one of CrashRecovery, of ModelTurn or of Subagents, and the  *)
(* other two stay in their initial states.                                   *)
EXTENDS CrashRecovery, ModelTurn, Subagents

CONSTANTS delete, run

VARIABLE part

all == <<vars, modelVars, agentVars, part>>

BothActions == {delete, run}
OnlyDelete == {delete}

\* Two coding models of one price, of which one reasons: as editors they tie.
Two == {"plain", "smart"}
RankOf == [p \in Two |-> IF p = "plain" THEN 1 ELSE 2]
Descriptors == [p \in Two |->
  [window |-> 100, output |-> 4, costIn |-> 10, costOut |-> 60,
   caps |-> {"CODING"} \cup IF p = "smart" THEN {"REASONING"} ELSE {}]]
DualConfig == [set |-> TRUE, architect |-> "smart", editor |-> NoProvider]
OneFallback == <<"plain">>
Earlier == {60000}
SomePhases == {"PLAN"}
Costs == {0, 40000}
Errs == {"econnreset", "500"}

\* Graphs with a chain, a cycle and a missing id, shared roles without ids,
\* and tools that the parent may not use or that do not exist.
Spec4(id, role, deps, tools) == [id |-> id, role |-> role, deps |-> deps, tools |-> tools]
SomeGraphs ==
  {<<Spec4("a", "TESTER", {}, {"read_file"}), Spec4("b", "CODER", {"a"}, {}),
     Spec4("c", "CODER", {"a", "b"}, {"odd"})>>,
   <<Spec4("a", "CODER", {"x"}, {}), Spec4("b", "CODER", {"b"}, {}), Spec4("c", "TESTER", {}, {})>>,
   <<Spec4(NoId, "CODER", {}, {}), Spec4("b", "TESTER", {}, {}), Spec4(NoId, "CODER", {"b"}, {}),
     Spec4("d", "CODER", {"b"}, {"write_file"})>>,
   <<Spec4("a", "TESTER", {}, {"net"}), Spec4("b", "TESTER", {"a"}, {})>>}
ToolsOfParent == {"read_file", "odd", "write_file"}

AllInit ==
  /\ Init /\ TurnInit /\ AgentInit
  /\ part \in {"recovery", "turn", "agents"}
  /\ part # "turn" => order = <<"plain", "smart">>
  /\ part # "agents" => specs = <<Spec4("a", "TESTER", {}, {"net"}), Spec4("b", "TESTER", {"a"}, {})>>
RecoveryPart == part = "recovery" /\ Next /\ UNCHANGED <<modelVars, agentVars, part>>
TurnPart == part = "turn" /\ TurnNext /\ UNCHANGED <<vars, agentVars, part>>
AgentPart == part = "agents" /\ AgentNext /\ UNCHANGED <<vars, modelVars, part>>

\* The fairness of each component, for the part that runs; what TurnFairness
\* is about is enabled only in a turn that was begun.
AllFairness ==
  /\ \A a \in Actions : WF_vars(part = "recovery" /\ Execute(a))
  /\ WF_vars(part = "recovery" /\ Recover)
  /\ WF_agentVars(part = "agents" /\ AgentMoves)
  /\ TurnFairness

AllSpec == AllInit /\ [][RecoveryPart \/ TurnPart \/ AgentPart]_all /\ AllFairness

\* Whatever providers and agents do, a turn and a graph of agents come to an end.
TurnsAndGraphsEnd == TurnEnds /\ GraphEnds
=============================================================================
