--------------------------- MODULE MCAgentRuntime ---------------------------
(* AgentRuntime on small constants.  Several configurations share it: one    *)
(* for callers that wait for a call to return before they resume, and one    *)
(* for callers that do not.                                                  *)
EXTENDS AgentRuntime

AllGoals  == [requireVerification: BOOLEAN, engine: BOOLEAN]
ShortGoal == {[requireVerification |-> FALSE, engine |-> TRUE]}
EngineGoals == [requireVerification: BOOLEAN, engine: {TRUE}]
=============================================================================
