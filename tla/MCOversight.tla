----------------------------- MODULE MCOversight -----------------------------
(* Who directs an agent and what bounds it: the lifecycle of its goal and,   *)
(* as parts of their own, the escalations people decide, the budgets of      *)
(* tasks and models, and the servers that clients reach it through.          *)
EXTENDS GoalLifecycle, Oversight, StdioTransport, AcpSessions, HttpTransport, TLC

VARIABLE part

serverVars == <<stdio, acpVars, http>>
all == <<vars, oversightVars, serverVars, part>>

\* Budgets of one or two units, so that every budget is used up and raised again
\* within a few revisions.
AnyBlocker == {Exhausted, "human-input-needed"}
OneRound == {[maxRounds |-> 1, tokenBudget |-> 1, costBudget |-> Unlimited]}
Raises == {[maxRounds |-> 2, tokenBudget |-> Keep, costBudget |-> Keep],
           [maxRounds |-> 0, tokenBudget |-> Keep, costBudget |-> 1]}
OneUnit == {[tokens |-> 1, cost |-> 0, rounds |-> 0],
            [tokens |-> 0, cost |-> 1, rounds |-> 1]}
ClientSymmetry == Permutations(Clients)

\* One task and one model have a limit.
LimitOfT == [t \in {"t", "u"} |-> IF t = "t" THEN 10 ELSE NoLimit]
LimitOfM == [m \in {"m", "n"} |-> IF m = "m" THEN 10 ELSE NoLimit]

\* A request, an empty line, one that is no JSON, another request and one
\* without an id; the size of a line counts its newline.
Lines == <<[method |-> "tools/call", size |-> 3], [method |-> "blank", size |-> 1],
           [method |-> "garbage", size |-> 2], [method |-> "initialize", size |-> 2],
           [method |-> "no id", size |-> 2]>>

AllInit ==
  /\ Init /\ OversightInit /\ StdioInit /\ AcpInit /\ HttpInit
  /\ part \in {"goals", "escalations", "budgets", "stdio", "acp", "http"}
GoalPart == part = "goals" /\ Next /\ UNCHANGED <<oversightVars, serverVars, part>>
EscalationPart == part = "escalations" /\ EscalationNext /\ UNCHANGED <<vars, serverVars, part>>
BudgetPart == part = "budgets" /\ BudgetNext /\ UNCHANGED <<vars, serverVars, part>>
StdioPart == part = "stdio" /\ StdioNext /\ UNCHANGED <<vars, oversightVars, acpVars, http, part>>
AcpPart == part = "acp" /\ AcpNext /\ UNCHANGED <<vars, oversightVars, stdio, http, part>>
HttpPart == part = "http" /\ HttpNext /\ UNCHANGED <<vars, oversightVars, stdio, acpVars, part>>
\* The parts whose bounds let them stop.
Rest == part # "goals" /\ UNCHANGED all

AllNext == GoalPart \/ EscalationPart \/ BudgetPart \/ StdioPart \/ AcpPart \/ HttpPart \/ Rest
AllSpec == AllInit /\ [][AllNext]_all /\ WF_all(StdioPart /\ StopReturns)

\* What each of the servers promises its clients, in the behaviours of its part
\* (in the others its state never changes).
ServersHold == /\ part = "stdio" => StdioHolds
               /\ part = "acp" => AcpHolds
               /\ part = "http" => HttpHolds
=============================================================================
