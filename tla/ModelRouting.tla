---------------------------- MODULE ModelRouting ----------------------------
(***************************************************************************)
(* UtilityModelRouter.route: which provider a request goes to, given the   *)
(* order the providers were registered in and what the health registry     *)
(* says of them.  Amounts are in units of 0.00001 dollars, and utilities   *)
(* in the same unit, so that all sums are over integers; context sizes     *)
(* and window sizes are in thousands of tokens.                            *)
(***************************************************************************)
EXTENDS Integers, FiniteSets, SequencesExt

CONSTANTS Providers,  \* provider ids; an id is also the id of its one model
          Rank,       \* the lexicographic order of the ids
          Descriptor  \* of each provider: window, output, caps, costIn, costOut

NoProvider == "none"

ASSUME RoutingConstants ==
  /\ NoProvider \notin Providers /\ IsFiniteSet(Providers)
  /\ Rank \in [Providers -> Nat]
  /\ \A p, q \in Providers : Rank[p] = Rank[q] => p = q
  /\ Descriptor \in [Providers ->
       [window : Nat, output : Nat, caps : SUBSET STRING,
        costIn : Nat, costOut : Nat]]

\* DualModelConfig; NoDual when there is none.
NoDual == [set |-> FALSE, architect |-> NoProvider, editor |-> NoProvider]

\* TASK_VALUES, in tenths.
TaskValue(category) ==
  CASE category = "ARCHITECTURE"    -> 100
    [] category = "SECURITY_REVIEW" -> 90
    [] category = "CODE_GEN"        -> 80
    [] category = "BUG_FIX"         -> 70
    [] category \in {"REFACTOR", "FINAL_REVIEW"} -> 60
    [] category = "TEST_REPAIR"     -> 55
    [] category = "TEST_GEN"        -> 50
    [] category = "EXPLORE"         -> 30
    [] category = "SUMMARIZATION"   -> 20
    [] category = "CLASSIFICATION"  -> 15

\* ESTIMATED_OUTPUT_TOKENS, in hundreds.
EstimatedOutput(category) ==
  CASE category = "ARCHITECTURE"    -> 25
    [] category = "CODE_GEN"        -> 20
    [] category = "REFACTOR"        -> 18
    [] category \in {"BUG_FIX", "SECURITY_REVIEW"} -> 15
    [] category = "TEST_GEN"        -> 12
    [] category \in {"TEST_REPAIR", "FINAL_REVIEW"} -> 10
    [] category = "EXPLORE"         -> 6
    [] category = "SUMMARIZATION"   -> 4
    [] category = "CLASSIFICATION"  -> 1

EstimateCost(p, request) ==
  request.context * Descriptor[p].costIn
    + (EstimatedOutput(request.category) * Descriptor[p].costOut) \div 10

\* CapabilityMatcher.match.
Matches(p, request) ==
  /\ Descriptor[p].window >= request.context
  /\ request.required \subseteq Descriptor[p].caps

\* A role that is given or mapped to the phase comes first; else the phase,
\* then the category.
TargetRole(request) ==
  CASE request.role # "NONE" -> request.role
    [] request.role = "NONE" /\ (\/ request.phase \in {"INIT", "EXPLORE", "PLAN"}
                                 \/ request.category = "ARCHITECTURE") -> "ARCHITECT"
    [] OTHER ->
         IF \/ request.phase \in {"IMPLEMENT", "VERIFY", "REPAIR"}
            \/ request.category \in {"CODE_GEN", "BUG_FIX", "REFACTOR"}
         THEN "EDITOR" ELSE "GENERALIST"

\* The remaining budget and the wanted latency of a request are sets of one
\* amount, or of none when nothing is known of them.
Unknown == {}
BudgetCritical(request) == \E left \in request.remaining : left <= 50000
-----------------------------------------------------------------------------
\* calculateUtility.

Complex(request) == request.complexity \in {"HIGH", "VERY_HIGH"}
Reasons(p) == "REASONING" \in Descriptor[p].caps
Codes(p) == "CODING" \in Descriptor[p].caps
FullTier(p) == Descriptor[p].output >= 4
Frontier(p) == Descriptor[p].output >= 16 \/ Descriptor[p].costOut >= 3000

\* successProbability, in hundredths.
SuccessProbability(p, request) ==
  LET role == TargetRole(request)
      low  == request.complexity = "LOW"
  IN  CASE role = "ARCHITECT" -> IF Reasons(p) THEN 98 ELSE 50
        [] role = "EDITOR" ->
             IF Codes(p) THEN IF FullTier(p) \/ low THEN 95 ELSE 65 ELSE 40
        [] OTHER ->
             IF Complex(request)
             THEN IF ~Reasons(p) THEN 40 ELSE IF Codes(p) THEN 95 ELSE 75
             ELSE IF /\ request.complexity = "MEDIUM"
                     /\ request.category \in {"CODE_GEN", "BUG_FIX"}
                  THEN IF Codes(p) /\ FullTier(p) THEN 90 ELSE 65
                  ELSE IF low THEN 98 ELSE 75

ReasoningBonus(p, request) ==
  LET role == TargetRole(request)
  IN  IF role = "ARCHITECT" /\ Reasons(p)
      THEN IF Frontier(p) THEN 3000000 ELSE 2000000
      ELSE IF /\ role = "GENERALIST" /\ Complex(request)
              /\ Reasons(p) /\ Codes(p)
      THEN IF request.complexity = "HIGH" THEN 800000
           ELSE IF Frontier(p) THEN 2500000 ELSE 1000000
      ELSE 0

CostWeight(request) ==
  IF BudgetCritical(request) THEN 500
  ELSE IF request.complexity = "LOW" THEN 150
  ELSE IF TargetRole(request) = "ARCHITECT" THEN 2
  ELSE IF TargetRole(request) = "EDITOR" THEN 12 ELSE 10

LatencyPenalty(p, request) ==
  LET ms == IF Descriptor[p].costOut > 500 THEN 1200 ELSE 400
  IN  IF \E wanted \in request.latency : wanted > 0 /\ ms > wanted
      THEN ms * 1000 ELSE ms * 100

RiskPenalty(p, request) ==
  IF /\ request.risk \in {"HIGH", "CRITICAL"}
     /\ ~Reasons(p) \/ Descriptor[p].costOut < 100
  THEN 800000 ELSE 0

Utility(p, request) ==
  SuccessProbability(p, request) * TaskValue(request.category) * 100
    + ReasoningBonus(p, request)
    - EstimateCost(p, request) * CostWeight(request)
    - LatencyPenalty(p, request)
    - RiskPenalty(p, request)
    + (IF request.repetitive /\ Descriptor[p].costOut < 300 THEN 200000 ELSE 0)
-----------------------------------------------------------------------------
\* route.

\* The comparator of the sort, as "p comes before q".
BeforeByUtility(p, q, request) == \* mutant of Before: no tie-break by id
  Utility(p, request) > Utility(q, request)
Before(p, q, request) ==
  LET diff == Utility(p, request) - Utility(q, request)
  IN  IF diff \in -10..10 /\ request.deterministic
      THEN Rank[p] < Rank[q] ELSE diff > 0

\* The dedicated provider of the role, then the preferred one.  The sets
\* hold one provider or none.
Dedicated(request) ==
  LET role == TargetRole(request)
  IN  IF role = "ARCHITECT" THEN {request.dual.architect}
      ELSE IF role = "EDITOR" THEN {request.dual.editor} ELSE {}

Candidates(order, healthy, request) ==
  {p \in ToSet(order) \cap healthy : Matches(p, request)}

\* The candidate that nobody comes before; the sort is stable, so the place in
\* the order decides between those that tie.  Three near ties may go round in a
\* circle: then nobody is first, and who stands there is left to the sort.
RegisteredBefore(p, q, order) ==
  \E i, j \in DOMAIN order : i < j /\ order[i] = p /\ order[j] = q
First(candidates, order, request) ==
  {p \in candidates : \A q \in candidates \ {p} :
     \/ Before(p, q, request)
     \/ ~Before(q, p, request) /\ RegisteredBefore(p, q, order)}

Route(order, healthy, request) ==
  LET candidates == Candidates(order, healthy, request)
      dedicated  == Dedicated(request) \cap candidates
      preferred  == {request.preferred} \cap candidates
      first      == First(candidates, order, request)
      One(s)     == CHOOSE p \in s : TRUE
  IN  CASE candidates = {} -> NoProvider
        [] dedicated # {} -> One(dedicated)
        [] dedicated = {} /\ preferred # {} -> One(preferred)
        [] OTHER -> One(IF first # {} THEN first ELSE candidates)

\* The providers whose health one route() looks at: it stops at the first
\* that it can use.
Consulted(order, healthy, request) ==
  LET chosen == Route(order, healthy, request)
      known(ps) == ps \cap ToSet(order)
  IN  IF chosen \in Dedicated(request) THEN known(Dedicated(request))
      ELSE IF chosen # NoProvider /\ chosen = request.preferred
      THEN known(Dedicated(request) \cup {chosen})
      ELSE ToSet(order)
=============================================================================
