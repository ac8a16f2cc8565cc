----------------------------- MODULE AgentPhases -----------------------------
(***************************************************************************)
(* The static part of the agent's state machine: phases, events, the       *)
(* transition whitelist, the validator, the DONE evidence gate, and the    *)
(* effect of one accepted event on the state record.  Every module that    *)
(* drives a machine (StateMachine, AgentRuntime, DurableState) uses these. *)
(***************************************************************************)
EXTENDS Naturals

TerminalPhases == {"DONE", "BUDGET_EXCEEDED", "REGRESSION_DETECTED",
                   "OSCILLATION_DETECTED", "CANCELLED", "FAILED"}

LivePhases == {"INIT", "EXPLORE", "PLAN", "IMPLEMENT", "VERIFY", "REPAIR",
               "BLOCKED", "HUMAN_REQUIRED"}

Phases == LivePhases \cup TerminalPhases

RuntimeOnlyEvents ==
  {"BUDGET_EXHAUSTED", "REGRESSION_FOUND", "OSCILLATION_FOUND", "NO_PROGRESS",
   "MAX_REPAIRS_EXCEEDED", "CANCEL", "BLOCK", "MARK_DONE",
   "VERIFICATION_PASSED"}

StateEvents == RuntimeOnlyEvents \cup
  {"START", "EXPLORE_COMPLETE", "PLAN_READY", "IMPLEMENTATION_COMPLETE",
   "VERIFICATION_FAILED", "REPAIR_COMPLETE", "ESCALATE", "HUMAN_RESPONDED",
   "UNBLOCK", "MARK_FAILED", "RETRY", "RESET_TO_EXPLORE"}

Working == LivePhases \ {"INIT", "HUMAN_REQUIRED"}

\* The whitelist, grouped by event: <<from, ev, to>> is one of its rows.
TransitionRule(from, ev, to) ==
  \/ ev = "START"             /\ from = "INIT"        /\ to = "EXPLORE"
  \/ ev = "EXPLORE_COMPLETE"  /\ from = "EXPLORE"     /\ to = "PLAN"
  \/ ev = "PLAN_READY" /\ from \in {"EXPLORE", "PLAN"} /\ to = "IMPLEMENT"
  \/ ev = "IMPLEMENTATION_COMPLETE" /\ from = "IMPLEMENT" /\ to = "VERIFY"
  \/ ev = "VERIFICATION_PASSED"  /\ from = "VERIFY"   /\ to = "DONE"
  \/ ev = "VERIFICATION_FAILED"  /\ from = "VERIFY"   /\ to = "REPAIR"
  \/ ev = "REPAIR_COMPLETE"      /\ from = "REPAIR"   /\ to = "VERIFY"
  \/ ev = "MAX_REPAIRS_EXCEEDED" /\ from = "REPAIR"   /\ to = "HUMAN_REQUIRED"
  \/ ev = "OSCILLATION_FOUND"    /\ from = "REPAIR"
                                 /\ to = "OSCILLATION_DETECTED"
  \/ ev = "NO_PROGRESS" /\ from \in {"VERIFY", "REPAIR"}
                        /\ to = "HUMAN_REQUIRED"
  \/ ev = "REGRESSION_FOUND" /\ from \in {"IMPLEMENT", "VERIFY", "REPAIR"}
                             /\ to = "REGRESSION_DETECTED"
  \/ ev = "BLOCK"   /\ from \in {"IMPLEMENT", "VERIFY"} /\ to = "BLOCKED"
  \/ ev = "UNBLOCK" /\ from = "BLOCKED"                 /\ to = "IMPLEMENT"
  \/ ev = "ESCALATE"         /\ from \in Working /\ to = "HUMAN_REQUIRED"
  \/ ev = "BUDGET_EXHAUSTED" /\ from \in Working /\ to = "BUDGET_EXCEEDED"
  \/ ev = "CANCEL"           /\ from \in LivePhases /\ to = "CANCELLED"
  \/ ev = "HUMAN_RESPONDED"  /\ from = "HUMAN_REQUIRED" /\ to = "PLAN"
  \/ ev = "RETRY"            /\ from = "HUMAN_REQUIRED" /\ to = "REPAIR"
  \/ ev = "RESET_TO_EXPLORE" /\ from \in {"PLAN", "REPAIR", "HUMAN_REQUIRED"}
                             /\ to = "EXPLORE"
  \/ ev = "MARK_DONE"   /\ from \in {"VERIFY", "HUMAN_REQUIRED"} /\ to = "DONE"
  \/ ev = "MARK_FAILED" /\ from \in {"IMPLEMENT", "REPAIR", "HUMAN_REQUIRED"}
                        /\ to = "FAILED"

\* validateTransition: terminal phases are closed, runtime-only events are
\* refused to the model, and the row must be on the whitelist.
AnyRowOfEvent(from, ev, llm, to) == \* mutant of ValidTransition
  /\ from \notin TerminalPhases
  /\ ~(llm /\ ev \in RuntimeOnlyEvents)
  /\ \E phase \in Phases : TransitionRule(phase, ev, to)
ValidTransition(from, ev, llm, to) ==
  /\ from \notin TerminalPhases
  /\ ~(llm /\ ev \in RuntimeOnlyEvents)
  /\ TransitionRule(from, ev, to)

\* The evidence gate of apply(): an automated DONE carries evidence; only a
\* human's MARK_DONE out of HUMAN_REQUIRED may come without.
GateOfMarkDone(from, ev, to, evidence) == \* mutant of EvidenceGate
  (to = "DONE" /\ ev = "MARK_DONE" /\ from # "HUMAN_REQUIRED") => evidence # {}
EvidenceGate(from, ev, to, evidence) ==
  (/\ to = "DONE"
   /\ \/ ev = "VERIFICATION_PASSED"
      \/ ev = "MARK_DONE" /\ from # "HUMAN_REQUIRED") => evidence # {}

Machine == [phase: Phases, iterationCount: Nat, repairCount: Nat]

NewMachine(initialPhase) ==
  [phase |-> initialPhase, iterationCount |-> 0, repairCount |-> 0]

\* The state record after an accepted transition to phase "to".
RepairsKept(m, to) == \* mutant of Advance: replanning keeps the repair count
  [phase |-> to,
   iterationCount |-> IF to = "VERIFY" THEN m.iterationCount + 1
                                       ELSE m.iterationCount,
   repairCount |-> IF to = "REPAIR" THEN m.repairCount + 1
                   ELSE IF to = "IMPLEMENT" THEN 0
                   ELSE m.repairCount]
Advance(m, to) ==
  [phase |-> to,
   iterationCount |-> IF to = "VERIFY" THEN m.iterationCount + 1
                                       ELSE m.iterationCount,
   repairCount |-> IF to = "REPAIR" THEN m.repairCount + 1
                   ELSE IF to \in {"IMPLEMENT", "PLAN"} THEN 0
                   ELSE m.repairCount]
=============================================================================
