----------------------------- MODULE Oversight ------------------------------
(***************************************************************************)
(* What people and money have to say: escalation requests that expire      *)
(* unless somebody decides them, and budgets that are checked before a     *)
(* model call and charged after it.                                        *)
(***************************************************************************)
EXTENDS Integers, FiniteSets, FiniteSetsExt, SequencesExt

CONSTANTS Tasks, Models,
          TaskBudget, ModelBudget, \* in cents; NoLimit when not set
          Prices,                  \* bound: what calls cost
          Ttl, MaxTime,            \* bound: the clock's last tick
          MaxRequests,             \* bound: escalation requests
          MaxDecisions,            \* bound: calls of resolveEscalation
          MaxCharged               \* bound: what is charged in all

VARIABLES now,       \* the clock
          requests,  \* status and expiry of the requests
          deciding,  \* resolveEscalation calls that await checkExpiration
          trail,     \* auditTrail: the decisions, in order
          feedback,  \* HUMAN_FEEDBACK evidence in the store
          taskCosts, modelCosts, \* DefaultBudgetTracker's
          total,     \* DefaultCostTracker.totalCostAcrossTasks
          calls,     \* the model call of each task between check and charge
          masked     \* history: a warning for the task hid the model's limit

oversightVars == <<now, requests, deciding, trail, feedback, taskCosts, modelCosts,
                   total, calls, masked>>
moneyVars == <<taskCosts, modelCosts, total, calls, masked>>

NoLimit == -1
ASSUME OversightConstants ==
  /\ IsFiniteSet(Tasks) /\ Tasks # {} /\ IsFiniteSet(Models)
  /\ Prices \subseteq Nat /\ IsFiniteSet(Prices) /\ Prices # {}
  /\ TaskBudget \in [Tasks -> Nat \cup {NoLimit}]
  /\ ModelBudget \in [Models -> Nat \cup {NoLimit}]
  /\ Ttl \in Nat /\ MaxTime \in Nat

NoCall == [model |-> "none", cost |-> 0]
Decisions == {"APPROVE", "REJECT", "MODIFY", "CANCEL"}

OversightInit ==
  /\ now = 0 /\ requests = <<>> /\ deciding = {} /\ trail = <<>> /\ feedback = {}
  /\ taskCosts = [t \in Tasks |-> 0] /\ modelCosts = [m \in Models |-> 0]
  /\ total = 0
  /\ calls = [t \in Tasks |-> NoCall]
  /\ masked = FALSE
-----------------------------------------------------------------------------
\* Escalations.

RequestEscalation ==
  /\ Len(requests) < MaxRequests
  /\ requests' = Append(requests, [status |-> "PENDING", expires |-> now + Ttl])
  /\ UNCHANGED <<now, deciding, trail, feedback, moneyVars>>

AfterExpiry(r) == now > r.expires \* mutant of HasExpired: off by one
HasExpired(r) == now >= r.expires
Checked(r) ==
  IF r.status = "PENDING" /\ HasExpired(r) THEN [r EXCEPT !.status = "EXPIRED"] ELSE r

\* checkExpiration, also as getPendingEscalation and listPending call it.
CheckExpiration(id) ==
  /\ requests' = [requests EXCEPT ![id] = Checked(@)]
  /\ UNCHANGED <<now, deciding, trail, feedback, moneyVars>>

BeginResolve(id, decision) ==
  /\ Len(trail) + Cardinality(deciding) < MaxDecisions
  /\ requests' = [requests EXCEPT ![id] = Checked(@)]
  /\ deciding' = deciding \cup {[id |-> id, decision |-> decision, since |-> now]}
  /\ UNCHANGED <<now, trail, feedback, moneyVars>>

\* Only EXPIRED is refused: a request that is RESOLVED is decided again.
Anyway(id) == TRUE \* mutant of Decidable: the status is not read again
Decidable(id) == requests[id].status # "EXPIRED"
Outcome(decision) == CASE decision = "APPROVE" -> "PASS"
                       [] decision = "REJECT" -> "FAIL"
                       [] OTHER -> "WARNING"
FinishResolve(call) ==
  /\ deciding' = deciding \ {call}
  /\ IF Decidable(call.id)
     THEN /\ requests' = [requests EXCEPT ![call.id].status = "RESOLVED"]
          /\ trail' = Append(trail, call)
          /\ feedback' = feedback \cup {[id |-> call.id, outcome |-> Outcome(call.decision)]}
     ELSE UNCHANGED <<requests, trail, feedback>>
  /\ UNCHANGED <<now, moneyVars>>

\* Date.now().
Tick ==
  /\ now < MaxTime /\ now' = now + 1
  /\ UNCHANGED <<requests, deciding, trail, feedback, moneyVars>>
-----------------------------------------------------------------------------
\* Budgets.

\* checkBudget with the default warningThreshold of 0.8: the first limit that
\* has something to say says all.
Affordable(cost, budget) == budget = NoLimit \/ cost <= budget
Warned(cost, budget) == budget # NoLimit /\ 5 * cost >= 4 * budget
CheckBudget(task, model, additional) ==
  LET byTask  == taskCosts[task] + additional
      byModel == modelCosts[model] + additional
  IN  CASE ~Affordable(byTask, TaskBudget[task]) -> "refused"
        [] Warned(byTask, TaskBudget[task]) /\ Affordable(byTask, TaskBudget[task]) -> "warned"
        [] OTHER -> IF Affordable(byModel, ModelBudget[model]) THEN "allowed" ELSE "refused"

\* What the calls of other tasks on the model will still be charged.
Beside(task, model) ==
  MapThenSumSet(LAMBDA t : IF calls[t].model = model THEN calls[t].cost ELSE 0, Tasks \ {task})

\* A task has one call at a time; the tracker does not know of those of others.
Call(task, model, cost) ==
  /\ calls[task] = NoCall
  /\ total + Beside(task, model) + cost <= MaxCharged
  /\ CheckBudget(task, model, cost) # "refused"
  /\ calls' = [calls EXCEPT ![task] = [model |-> model, cost |-> cost]]
  /\ masked' = (masked \/ ~Affordable(modelCosts[model] + cost, ModelBudget[model]))
  /\ UNCHANGED <<now, requests, deciding, trail, feedback, taskCosts, modelCosts, total>>

ByModelOnly(costs, task, cost) == costs \* mutant of Charged: a cost is lost
Charged(costs, key, cost) == [costs EXCEPT ![key] = @ + cost]

\* recordUsage and recordCost, with what the call was estimated to cost.
Charge(task) ==
  /\ calls[task] # NoCall
  /\ taskCosts' = Charged(taskCosts, task, calls[task].cost)
  /\ modelCosts' = [modelCosts EXCEPT ![calls[task].model] = @ + calls[task].cost]
  /\ total' = total + calls[task].cost
  /\ calls' = [calls EXCEPT ![task] = NoCall]
  /\ UNCHANGED <<now, requests, deciding, trail, feedback, masked>>

EscalationNext ==
  \/ RequestEscalation \/ Tick
  \/ \E id \in DOMAIN requests : \/ CheckExpiration(id)
                                 \/ \E d \in Decisions : BeginResolve(id, d)
  \/ \E call \in deciding : FinishResolve(call)
BudgetNext ==
  \E task \in Tasks : \/ Charge(task)
                      \/ \E model \in Models, cost \in Prices : Call(task, model, cost)
OversightSpec == OversightInit /\ [][EscalationNext \/ BudgetNext]_oversightVars
-----------------------------------------------------------------------------
\* Decisions are about requests there are, and costs are sums of prices.
OversightTypeOK ==
  /\ now \in Nat
  /\ requests \in Seq([status: {"PENDING", "EXPIRED", "RESOLVED"}, expires: Nat])
  /\ deciding \subseteq [id: DOMAIN requests, decision: Decisions, since: Nat]
  /\ trail \in Seq([id: DOMAIN requests, decision: Decisions, since: Nat])
  /\ taskCosts \in [Tasks -> Nat] /\ modelCosts \in [Models -> Nat] /\ total \in Nat
  /\ calls \in [Tasks -> [model: Models, cost: Prices] \cup {NoCall}]
  /\ masked \in BOOLEAN

\* A request is resolved when it has a decision, each decision has its
\* evidence, and who begins to decide when the time is up is heard only about
\* a request that somebody else had decided in time (resolveEscalation).
DecisionsAreTimely ==
  \A id \in DOMAIN requests :
    LET decided == {i \in DOMAIN trail : trail[i].id = id}
    IN  /\ requests[id].status = "RESOLVED" <=> decided # {}
        /\ \A i \in decided :
             /\ \E j \in decided : trail[j].since < requests[id].expires /\ j <= i
             /\ [id |-> id, outcome |-> Outcome(trail[i].decision)] \in feedback

\* A task never spends more than its budget; a model is overspent by no more
\* than was under way when a call was checked, unless a task's warning hid
\* the model's limit; and no cost is lost between the two trackers.
SpendingIsBounded ==
  /\ \A t \in Tasks : Affordable(taskCosts[t] + calls[t].cost, TaskBudget[t])
  /\ ~masked => \A m \in Models :
       ModelBudget[m] # NoLimit =>
         modelCosts[m] <= ModelBudget[m] + (Cardinality(Tasks) - 1) * Max(Prices)
  /\ total = MapThenSumSet(LAMBDA t : taskCosts[t], Tasks)
  /\ total = MapThenSumSet(LAMBDA m : modelCosts[m], Models)

OversightHolds == DecisionsAreTimely /\ SpendingIsBounded

\* "Check if incurring additional cost violates task or model budgets": a call
\* that is not refused keeps its model's budget (budget-tracker.ts).
ModelBudgetsEnforced ==
  \A t \in Tasks, m \in Models, cost \in Prices :
    CheckBudget(t, m, cost) # "refused" => Affordable(modelCosts[m] + cost, ModelBudget[m])
=============================================================================
