----------------------------- MODULE LoopControl -----------------------------
(***************************************************************************)
(* evaluateLoopControl (core/state-machine/loop-control.ts): the stop      *)
(* conditions the runtime evaluates after every iteration, in their order. *)
(* An iteration is seen through its fingerprint                            *)
(*   fresh      - it carries a proposal id or a non-passing evidence id;   *)
(*                ids are created anew, so such a fingerprint is unique    *)
(*   toolError  - toolFailureSignature, or NoError                         *)
(*   trajectory - the phases it started and ended in                       *)
(* A machine's transition log is a sequence of pairs <<from, to>>.         *)
(***************************************************************************)
EXTENDS AgentPhases, Sequences, FiniteSets, SequencesExt

CONSTANTS ToolErrors,          \* tool failure signatures
          NoError,             \* toolFailureSignature = null
          MaxIterations,       \* goal.constraints.maxIterations
          MaxCost,             \* goal.constraints.maxCostDollars
          MaxRepairs,          \* goal.constraints.maxRepairAttempts
          OscillationWindow, OscillationThreshold, NoProgressWindow,
          ToolFailureLimit, CycleLength   \* DEFAULT_LOOP_CONTROL_CONFIG

ASSUME LoopLimits ==
  /\ MaxIterations \in Nat \ {0}
  /\ {MaxCost, MaxRepairs} \subseteq Nat
  /\ {OscillationWindow, OscillationThreshold, NoProgressWindow,
      ToolFailureLimit, CycleLength} \subseteq Nat \ {0}
  /\ NoError \notin ToolErrors

\* The last n elements of s, JavaScript's s.slice(-n).
LastN(s, n) == IF Len(s) <= n THEN s ELSE SubSeq(s, Len(s) - n + 1, Len(s))

FingerprintsMatch(a, b) ==
  ~a.fresh /\ ~b.fresh /\ a.toolError = b.toolError /\ a.trajectory = b.trajectory

\* Hypothesis ids are proposal ids, created anew each time: two iterations
\* never share one, and checkRepeatedHypotheses needs three that do.
ExactRepetition(its) ==
  \E i, j \in DOMAIN its : i < j /\ FingerprintsMatch(its[i], its[j])

RepeatedToolFailure(its) ==
  \E e \in ToolErrors :
     Cardinality({i \in DOMAIN its : its[i].toolError = e}) >= ToolFailureLimit

\* The scan stops one short of the window's end: the newest transition is
\* not counted (i < window.length - 1).
Oscillating(log) ==
  LET window == LastN(log, OscillationWindow)
      counted == 1..(Len(window) - 1)
  IN  \E i \in counted :
        Cardinality({j \in counted : window[j] = window[i]}) >= OscillationThreshold

TrajectoryCycles(its) ==
  LET all  == FlattenSeq([i \in DOMAIN its |-> its[i].trajectory])
      tail == LastN(all, CycleLength)
      both == LastN(all, 2 * CycleLength)
  IN  /\ Len(all) >= 2 * CycleLength
      /\ Cardinality(Range(tail)) >= 2
      /\ both = tail \o tail

NoProgress(its) ==
  /\ Len(its) >= NoProgressWindow
  /\ LET recent == LastN(its, NoProgressWindow)
     IN  \A i \in DOMAIN recent : FingerprintsMatch(recent[i], recent[1])

Continue == "CONTINUE"
BudgetReasons == {"MAX_ITERATIONS", "MAX_COST", "MAX_DURATION"}
HumanReasons  == {"MAX_REPAIRS", "EXACT_REPETITION", "REPEATED_TOOL_FAILURE",
                  "OSCILLATION", "TRAJECTORY_OSCILLATION", "NO_PROGRESS"}
Decisions == {Continue, "SUCCESS"} \cup BudgetReasons \cup HumanReasons

SucceededEarly(m) == m.phase \in {"VERIFY", "DONE"} \* mutant of Succeeded
Succeeded(m) == m.phase = "DONE"

\* checkMaxIterations, on the larger of the two counts.
OneIterationMore(m, its) == \* mutant of CheckMaxIterations
  m.iterationCount > MaxIterations \/ Len(its) > MaxIterations
CheckMaxIterations(m, its) ==
  m.iterationCount >= MaxIterations \/ Len(its) >= MaxIterations

\* evaluateLoopControl: the first check that fires decides.  The runtime
\* passes no LifecycleGoal, so the goal budgets are never consulted here.
EvaluateLoopControl(m, log, its, cost, late) ==
  IF Succeeded(m) THEN "SUCCESS"
  ELSE IF CheckMaxIterations(m, its) THEN "MAX_ITERATIONS"
  ELSE IF cost >= MaxCost THEN "MAX_COST"
  ELSE IF late THEN "MAX_DURATION"
  ELSE IF m.repairCount >= MaxRepairs THEN "MAX_REPAIRS"
  ELSE IF ExactRepetition(its) THEN "EXACT_REPETITION"
  ELSE IF RepeatedToolFailure(its) THEN "REPEATED_TOOL_FAILURE"
  ELSE IF Oscillating(log) THEN "OSCILLATION"
  ELSE IF TrajectoryCycles(its) THEN "TRAJECTORY_OSCILLATION"
  ELSE IF NoProgress(its) THEN "NO_PROGRESS"
  ELSE Continue
=============================================================================
