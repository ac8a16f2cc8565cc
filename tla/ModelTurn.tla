----------------------------- MODULE ModelTurn -----------------------------
(***************************************************************************)
(* The model's part of an iteration: the router chooses a provider, and    *)
(* either one call is made, or, in architect mode, the plan is asked of    *)
(* one provider and the tool calls of another, each routed anew.           *)
(***************************************************************************)
EXTENDS ModelRouting, ModelCall

CONSTANTS Deterministic, Dual,    \* the router's mode and DualModelConfig
          ContextSize,            \* contextTokenCount, in thousands
          MaxCost,                \* goal.constraints.maxCostDollars
          CallCosts,              \* what a call may cost
          Fallbacks,              \* options.fallbacks; the runtime gives none
          EarlierCosts,           \* what earlier iterations may have cost
          CallErrors,             \* bound: the errors providers reject with
          Phases,                 \* bound: phases a turn starts in
          MaxTurns, MaxChanges    \* bounds: turns, and what befalls the router

ASSUME TurnConstants ==
  /\ Deterministic \in BOOLEAN /\ ContextSize \in Nat
  /\ Fallbacks \in Seq(Providers)
  /\ MaxCost \in Nat \ {0} /\ CallCosts \subseteq Nat /\ EarlierCosts \subseteq Nat
  /\ CallErrors \subseteq Errors /\ MaxTurns \in Nat /\ MaxChanges \in Nat

VARIABLES order,  \* the router's providers, in Map order
          health, \* the health registry's cache: "none", "good" or "bad"
          turn,   \* the iteration's model part: see NoTurn
          spent,  \* totalCostDollars of the execution
          turns,  \* turns begun
          changes \* changes of the registry and of recorded health

turnVars == <<order, health, turn, spent, turns, changes>>
modelVars == <<callVars, turnVars>>

NoTurn == [at |-> "idle", architect |-> FALSE, phase |-> "INIT",
           remaining |-> 0, cost |-> 0]
TurnStates == {"idle", "routed", "planning", "planned", "calling", "done", "failed"}

TurnTypeOK ==
  /\ CallTypeOK
  /\ Len(order) <= Cardinality(Providers) /\ ToSet(order) \subseteq Providers
  /\ health \in [Providers -> {"none", "good", "bad"}]
  /\ turn.at \in TurnStates
  /\ spent \in Nat /\ turns \in 0..MaxTurns
  /\ changes \in 0..MaxChanges

Request(phase, role, category, complexity, remaining) ==
  [phase |-> phase, role |-> role, category |-> category,
   complexity |-> complexity, risk |-> "LOW", context |-> ContextSize,
   required |-> {}, remaining |-> remaining, latency |-> Unknown,
   repetitive |-> FALSE, preferred |-> NoProvider,
   dual |-> Dual, deterministic |-> Deterministic]

\* executeIteration's own routing.
IterationRequest(phase, remaining) ==
  LET role == CASE phase = "PLAN" -> "ARCHITECT"
                [] phase \in {"IMPLEMENT", "REPAIR"} -> "EDITOR"
                [] OTHER -> "NONE"
  IN  Request(phase, role,
              IF phase = "PLAN" THEN "ARCHITECTURE" ELSE "CODE_GEN",
              IF role = "ARCHITECT" THEN "HIGH" ELSE "MEDIUM", {remaining})

\* executePlanAndExecute's two.
PlanRequest == Request(turn.phase, "ARCHITECT", "ARCHITECTURE", "HIGH", {turn.remaining})

\* The budget of the second is what the first left; 0 counts as not known.
WhatIsLeft == \* mutant of EditBudget: a budget used up counts as not known
  IF turn.cost >= turn.remaining THEN Unknown ELSE {turn.remaining - turn.cost}
EditBudget == IF turn.remaining = 0 THEN Unknown ELSE {turn.remaining - turn.cost}
EditRequest == Request("IMPLEMENT", "EDITOR", "CODE_GEN", "MEDIUM", EditBudget)

\* isHealthy asks a provider when nothing fresh is cached: bad are those
\* that answer UNHEALTHY or throw.
RouteVia(request, Then(_)) ==
  \E bad \in SUBSET {p \in Providers : health[p] = "none"} :
    LET healthy == {p \in Providers : health[p] = "good"
                                      \/ (health[p] = "none" /\ p \notin bad)}
        asked   == Consulted(order, healthy, request)
    IN  /\ health' = [p \in Providers |->
              IF p \notin asked THEN health[p]
              ELSE IF p \in healthy THEN "good" ELSE "bad"]
        /\ Then(Route(order, healthy, request))

\* Nobody to route to throws, like a call that failed: the iteration fails.
CallOn(p, at) ==
  IF p = NoProvider
  THEN turn' = [turn EXCEPT !.at = "failed"] /\ UNCHANGED callVars
  ELSE turn' = [turn EXCEPT !.at = at] /\ Begin(<<p>> \o Fallbacks)
-----------------------------------------------------------------------------
\* The iteration.

InTurn == turn.at \notin {"idle", "done", "failed"}

\* Loop control ends an execution that has spent its budget.
StartTurn(phase, architect) ==
  LET remaining == MaxCost - spent
      start == [NoTurn EXCEPT !.at = "routed", !.architect = architect,
                              !.phase = phase, !.remaining = remaining]
  IN  /\ ~InTurn /\ turns < MaxTurns
      /\ remaining > 0
      /\ turns' = turns + 1
      /\ RouteVia(IterationRequest(phase, remaining),
                  LAMBDA p :
                    IF p = NoProvider
                    THEN turn' = [start EXCEPT !.at = "failed"] /\ UNCHANGED callVars
                    ELSE IF architect
                    THEN turn' = start /\ UNCHANGED callVars
                    ELSE turn' = [start EXCEPT !.at = "calling"] /\ Begin(<<p>> \o Fallbacks))
      /\ UNCHANGED <<order, spent, changes>>

AskForPlan ==
  /\ turn.at = "routed"
  /\ RouteVia(PlanRequest, LAMBDA p : CallOn(p, "planning"))
  /\ UNCHANGED <<order, spent, turns, changes>>

PlanAnswered ==
  /\ turn.at = "planning" /\ call.at = "answered"
  /\ \E cost \in CallCosts :
       turn' = [turn EXCEPT !.at = "planned", !.cost = cost]
  /\ UNCHANGED <<callVars, order, health, spent, turns, changes>>

AskForEdits ==
  /\ turn.at = "planned"
  /\ RouteVia(EditRequest, LAMBDA p : CallOn(p, "calling"))
  /\ UNCHANGED <<order, spent, turns, changes>>

\* The combined response costs what both calls cost.
TurnAnswered ==
  /\ turn.at = "calling" /\ call.at = "answered"
  /\ \E cost \in CallCosts :
       /\ turn' = [turn EXCEPT !.at = "done", !.cost = @ + cost]
       /\ spent' = spent + turn.cost + cost
  /\ UNCHANGED <<callVars, order, health, turns, changes>>

\* A call that throws ends the turn, and what a plan cost is not counted.
TurnFailed ==
  /\ turn.at \in {"planning", "calling"} /\ call.at = "failed"
  /\ turn' = [turn EXCEPT !.at = "failed"]
  /\ UNCHANGED <<callVars, order, health, spent, turns, changes>>
-----------------------------------------------------------------------------
\* The router's other callers, and time.

Change ==
  /\ changes < MaxChanges
  /\ changes' = changes + 1
  /\ UNCHANGED <<callVars, turn, spent, turns>>

\* Setting a key that a Map has keeps its place.
RegisterProvider(p) ==
  /\ Change
  /\ order' = IF p \in ToSet(order) THEN order ELSE Append(order, p)
  /\ UNCHANGED health

UnregisterProvider(p) ==
  /\ Change
  /\ \/ p \notin ToSet(order) /\ UNCHANGED order
     \/ \E i \in DOMAIN order : order[i] = p /\ order' = RemoveAt(order, i)
  /\ UNCHANGED health

RecordHealth(p, status) ==
  /\ Change
  /\ health' = [health EXCEPT ![p] = status]
  /\ UNCHANGED order

\* "none": cacheTtlMs has passed, or clear().
HealthStatuses == {"none", "good", "bad"}

TurnInit ==
  /\ CallInit
  /\ order \in SetToSeqs(Providers)
  /\ health = [p \in Providers |-> "none"]
  /\ turn = NoTurn
  /\ spent \in EarlierCosts
  /\ turns = 0
  /\ changes = 0

CallMoves == CallStep(CallErrors) /\ UNCHANGED turnVars

TurnNext ==
  \/ \E phase \in Phases, architect \in BOOLEAN :
       StartTurn(phase, architect)
  \/ AskForPlan \/ PlanAnswered \/ AskForEdits \/ TurnAnswered \/ TurnFailed
  \/ CallMoves
  \/ \E p \in Providers : \/ RegisterProvider(p) \/ UnregisterProvider(p)
                          \/ \E status \in HealthStatuses : RecordHealth(p, status)

TurnFairness ==
  /\ CallFairness
  /\ WF_modelVars(AskForPlan) /\ WF_modelVars(PlanAnswered)
  /\ WF_modelVars(AskForEdits) /\ WF_modelVars(TurnAnswered) /\ WF_modelVars(TurnFailed)

TurnSpec == TurnInit /\ [][TurnNext]_modelVars
-----------------------------------------------------------------------------
\* In deterministic mode the order in which providers were registered does
\* not show: every order of the same providers leads each of the runtime's
\* requests to the same one, whatever their health, as long as near ties do
\* not go round in a circle (route, step 4).
SelectionIgnoresOrder ==
  Deterministic /\ InTurn /\ ~Active =>
    \A request \in {IterationRequest("VERIFY", MaxCost - spent), PlanRequest, EditRequest},
       healthy \in SUBSET ToSet(order) :
      LET candidates == Candidates(order, healthy, request)
      IN  candidates = {} \/ First(candidates, order, request) # {} =>
            \A other \in SetToSeqs(ToSet(order)) :
              Route(other, healthy, request) = Route(order, healthy, request)

\* A turn whose plan was routed on a critical budget routes its edits on one
\* as well, although a remaining budget of 0 would count as not known: the
\* loop starts no iteration with nothing left.
EditsShareTheBudget ==
  turn.at = "planned" /\ BudgetCritical(PlanRequest) => BudgetCritical(EditRequest)

RoutingHolds == SelectionIgnoresOrder /\ EditsShareTheBudget

\* executeResiliently keeps the promise of BoundedCall, however its request,
\* the timers, late replies and an abort interleave.
CallStatus == CASE call.at = "idle" -> "none"
                [] call.at \in {"waiting", "pausing"} -> "open"
                [] OTHER -> call.at
Promise == INSTANCE BoundedCall
  WITH Bound  <- (MaxRetries + 1) * (1 + Len(Fallbacks)),
       status <- CallStatus,
       tries  <- sent
CallKeepsItsPromise == Promise!Spec

\* A turn that was begun ends, with an answer or without, even when no
\* provider ever replies.
TurnEnds == InTurn ~> ~InTurn
=============================================================================
