---------------------------- MODULE GoalLifecycle ----------------------------
(***************************************************************************)
(* GoalService and DefaultGoalContinuationDriver (core/goal): goals with a *)
(* revision that fences every mutation (compare-and-set), a process-local  *)
(* set of armed goals, and budgets that admitRound consults.  Clients hold *)
(* the GoalRef they read last, stale or not.  Every call is synchronous;   *)
(* the interleaving is that of the calls.                                  *)
(***************************************************************************)
EXTENDS Naturals

CONSTANTS Clients, GoalIds,
          NoGoal, NoRef, NoBlocker, Unlimited, Keep,
          BlockerCodes,  \* what block() is given
          Openings,      \* the budgets goals are created with
          Edits,         \* the budget changes made
          Usages,        \* the usage recorded
          IdsAreFresh,   \* create() is given no id that is already in use
          MaxRevision    \* bound: revisions of one goal

Exhausted == "budget-exhausted"
Budgets == [maxRounds: Nat, tokenBudget: Nat \cup {Unlimited},
            costBudget: Nat \cup {Unlimited}]

ASSUME GoalConstants ==
  /\ Openings \subseteq Budgets
  /\ Edits \subseteq [maxRounds: Nat \cup {Keep}, tokenBudget: Nat \cup {Keep},
                      costBudget: Nat \cup {Keep}]
  /\ Usages \subseteq [tokens: Nat, cost: Nat, rounds: Nat]
  /\ Exhausted \in BlockerCodes /\ NoBlocker \notin BlockerCodes
  /\ {Unlimited, Keep} \cap Nat = {} /\ Unlimited # Keep
  /\ IdsAreFresh \in BOOLEAN
  /\ MaxRevision \in Nat

GoalPhases == {"active", "paused", "blocked", "completed", "cleared"}

LifecycleGoal ==
  [revision: Nat \ {0}, phase: GoalPhases, budgets: Budgets, rounds: Nat,
   tokens: Nat, cost: Nat, blocker: BlockerCodes \cup {NoBlocker}]
GoalRef == [id: GoalIds, revision: Nat]

ASSUME NoGoalIsNone == NoGoal \notin LifecycleGoal
ASSUME NoRefIsNone == NoRef \notin GoalRef

VARIABLES goals,   \* id -> LifecycleGoal or NoGoal
          armed,   \* activatedGoals
          refs,    \* client -> the GoalRef it holds
          used,    \* history: the refs some mutation was accepted under
          twice,   \* history: two mutations were accepted under one ref
          ceiling, \* history: id -> the largest maxRounds it had
          admitted \* history: id -> the rounds admitRound let it start

vars == <<goals, armed, refs, used, twice, ceiling, admitted>>

LegalOrReopened(from, to) == \* mutant of LegalTransition
  \/ from = to \/ from = "active"
  \/ /\ from \in {"paused", "blocked", "completed"}
     /\ to \in {"active", "completed", "cleared"}
LegalTransition(from, to) ==
  \/ from = to
  \/ from = "active"
  \/ from \in {"paused", "blocked"} /\ to \in {"active", "completed", "cleared"}
  \/ from = "completed" /\ to = "cleared"

\* create(): revision 1, active, armed; an id in use is overwritten.
UnnumberedGoal(budgets) == \* mutant of NewGoal
  [revision |-> 0, phase |-> "active", budgets |-> budgets, rounds |-> 0,
   tokens |-> 0, cost |-> 0, blocker |-> NoBlocker]
NewGoal(budgets) ==
  [revision |-> 1, phase |-> "active", budgets |-> budgets, rounds |-> 0,
   tokens |-> 0, cost |-> 0, blocker |-> NoBlocker]

RaiseCeiling(id, budgets) ==
  ceiling' = [ceiling EXCEPT ![id] = IF @ < budgets.maxRounds
                                     THEN budgets.maxRounds ELSE @]

Create(id, budgets) ==
  /\ IdsAreFresh => goals[id] = NoGoal
  /\ goals' = [goals EXCEPT ![id] = NewGoal(budgets)]
  /\ armed' = armed \cup {id}
  /\ RaiseCeiling(id, budgets)
  /\ admitted' = [admitted EXCEPT ![id] = 0]
  /\ UNCHANGED <<refs, used, twice>>

\* get()/getById(): the client takes the ref of the goal as it is.
Read(c, id) ==
  /\ goals[id] # NoGoal
  /\ refs' = [refs EXCEPT ![c] = [id |-> id, revision |-> goals[id].revision]]
  /\ UNCHANGED <<goals, armed, used, twice, ceiling, admitted>>
-----------------------------------------------------------------------------
\* getAndValidateCas.
CasNotOlder(ref) == \* mutant of Cas: a stale ref passes
  ref # NoRef /\ goals[ref.id] # NoGoal /\ ref.revision <= goals[ref.id].revision
Cas(ref) ==
  ref # NoRef /\ goals[ref.id] # NoGoal /\ ref.revision = goals[ref.id].revision

\* Every accepted mutation stores the goal under the next revision.
Commit(ref, goal) ==
  /\ goal.revision < MaxRevision
  /\ goals' = [goals EXCEPT ![ref.id] =
                  [goal EXCEPT !.revision = goal.revision + 1]]
  /\ used' = used \cup {ref}
  /\ twice' = (twice \/ ref \in used)
  /\ UNCHANGED refs

Edited(old, new) == IF new = Keep THEN old ELSE new
EditedBudgets(b, e) ==
  [maxRounds   |-> Edited(b.maxRounds, e.maxRounds),
   tokenBudget |-> Edited(b.tokenBudget, e.tokenBudget),
   costBudget  |-> Edited(b.costBudget, e.costBudget)]

Edit(c, e) ==
  LET ref  == refs[c]
      goal == goals[ref.id]
      new  == EditedBudgets(goal.budgets, e)
  IN  /\ Cas(ref)
      /\ Commit(ref, [goal EXCEPT !.budgets = new])
      /\ RaiseCeiling(ref.id, new)
      /\ UNCHANGED <<armed, admitted>>

\* pause, complete and clear.
Park(c, phase) ==
  LET ref  == refs[c]
      goal == goals[ref.id]
  IN  /\ Cas(ref)
      /\ LegalTransition(goal.phase, phase)
      /\ Commit(ref, [goal EXCEPT !.phase = phase])
      /\ armed' = armed \ {ref.id}
      /\ UNCHANGED <<ceiling, admitted>>

Pause(c)    == Park(c, "paused")
Complete(c) == Park(c, "completed")
Clear(c)    == Park(c, "cleared")

BlockGoal(ref, code) ==
  /\ Cas(ref)
  /\ LegalTransition(goals[ref.id].phase, "blocked")
  /\ Commit(ref, [goals[ref.id] EXCEPT !.phase = "blocked", !.blocker = code])
  /\ armed' = armed \ {ref.id}
  /\ UNCHANGED <<ceiling, admitted>>

Block(c, code) == BlockGoal(refs[c], code)

\* A budget of 0 is falsy: only rounds can be used up from the start.
RoundsLeft(goal) == goal.rounds < goal.budgets.maxRounds
Within(amount, budget) == budget \notin {0, Unlimited} => amount < budget

Unblocked(goal) == goal.blocker \* mutant of BlockerAfterResume
BlockerAfterResume(goal) == NoBlocker

Resume(c) ==
  LET ref  == refs[c]
      goal == goals[ref.id]
  IN  /\ Cas(ref)
      /\ LegalTransition(goal.phase, "active")
      /\ RoundsLeft(goal)
      /\ Within(goal.tokens, goal.budgets.tokenBudget)
      /\ Commit(ref, [goal EXCEPT !.phase = "active",
                                  !.blocker = BlockerAfterResume(goal)])
      /\ armed' = armed \cup {ref.id}
      /\ UNCHANGED <<ceiling, admitted>>

Latest(before, now) == now \* mutant of Accrued
Accrued(before, now) == before + now

\* recordUsage() is open to every client, in every phase: the rounds it adds
\* (roundsIncrement) count, though no admission started them.
RecordUsage(c, usage) ==
  LET ref  == refs[c]
      goal == goals[ref.id]
  IN  /\ Cas(ref)
      /\ Commit(ref, [goal EXCEPT !.tokens = Accrued(goal.tokens, usage.tokens),
                                  !.cost = Accrued(goal.cost, usage.cost),
                                  !.rounds = Accrued(goal.rounds, usage.rounds)])
      /\ UNCHANGED <<armed, ceiling, admitted>>
-----------------------------------------------------------------------------
\* DefaultGoalContinuationDriver.admitRound: a goal that is active and armed
\* is admitted to one more round, or blocked when a budget is used up.
Admissible(ref) ==
  /\ Cas(ref)
  /\ goals[ref.id].phase = "active"
  /\ ref.id \in armed

RoundsAllowed(goal) == \* mutant of BudgetLeft: the last round twice
  goal.rounds <= goal.budgets.maxRounds
BudgetLeft(goal) ==
  /\ RoundsLeft(goal)
  /\ Within(goal.tokens, goal.budgets.tokenBudget)
  /\ Within(goal.cost, goal.budgets.costBudget)

AdmitRound(c) ==
  LET ref  == refs[c]
      goal == goals[ref.id]
  IN  /\ Admissible(ref)
      /\ BudgetLeft(goal)
      /\ Commit(ref, [goal EXCEPT !.rounds = goal.rounds + 1])
      /\ admitted' = [admitted EXCEPT ![ref.id] = @ + 1]
      /\ UNCHANGED <<armed, ceiling>>

RefuseRound(c) ==
  /\ Admissible(refs[c])
  /\ ~BudgetLeft(goals[refs[c].id])
  /\ BlockGoal(refs[c], Exhausted)

\* arm(), disarm(), and disarmAll(), the restart of the process: none of them
\* looks at the phase, and none is fenced.
Arm(id) ==
  /\ goals[id] # NoGoal
  /\ armed' = armed \cup {id}
  /\ UNCHANGED <<goals, refs, used, twice, ceiling, admitted>>

Disarm(ids) ==
  /\ armed' = armed \ ids
  /\ UNCHANGED <<goals, refs, used, twice, ceiling, admitted>>
-----------------------------------------------------------------------------
\* reconstructGoalFromEvents, on the snapshots two consecutive events carry:
\* what it asks of the first event of a log and of every later one.
ReplayStarts(goal) == goal.revision = 1

ReplayAccepts(old, new) ==
  /\ new.revision = old.revision + 1
  /\ LegalTransition(old.phase, new.phase)
  /\ new.tokens >= old.tokens /\ new.cost >= old.cost
-----------------------------------------------------------------------------
Init ==
  /\ goals = [id \in GoalIds |-> NoGoal]
  /\ armed = {}
  /\ refs = [c \in Clients |-> NoRef]
  /\ used = {}
  /\ twice = FALSE
  /\ ceiling = [id \in GoalIds |-> 0]
  /\ admitted = [id \in GoalIds |-> 0]

ClientStep(c) ==
  \/ \E id \in GoalIds : Read(c, id)
  \/ \E e \in Edits : Edit(c, e)
  \/ \E usage \in Usages : RecordUsage(c, usage)
  \/ \E code \in BlockerCodes : Block(c, code)
  \/ Pause(c) \/ Complete(c) \/ Clear(c) \/ Resume(c)
  \/ AdmitRound(c) \/ RefuseRound(c)

Next ==
  \/ \E id \in GoalIds, b \in Openings : Create(id, b)
  \/ \E c \in Clients : ClientStep(c)
  \/ \E id \in GoalIds : Arm(id) \/ Disarm({id})
  \/ Disarm(GoalIds)

Spec == Init /\ [][Next]_vars
-----------------------------------------------------------------------------
\* Properties

TypeOK ==
  /\ goals \in [GoalIds -> LifecycleGoal \cup {NoGoal}]
  /\ armed \subseteq {id \in GoalIds : goals[id] # NoGoal}
  /\ refs \in [Clients -> GoalRef \cup {NoRef}]
  /\ used \subseteq GoalRef
  /\ twice \in BOOLEAN
  /\ ceiling \in [GoalIds -> Nat]
  /\ admitted \in [GoalIds -> Nat]

\* The fence: of all the clients that read a goal at one revision, one gets a
\* mutation accepted; the others lose and must read again.
OneWriterPerRevision == ~twice

\* A goal is admitted to no more rounds than the largest maxRounds it was
\* given, however admissions, edits, blocks, resumes and recorded usage of
\* several clients interleave.  Rounds that clients record count as used, so
\* they bring the limit nearer; the counter itself they may push past it.
RoundsBounded ==
  \A id \in GoalIds : goals[id] # NoGoal => admitted[id] <= ceiling[id]

\* A goal carries a blocker while it is blocked, and neither when it is
\* active again nor while it is paused.
BlockerMatchesPhase ==
  \A id \in GoalIds : goals[id] # NoGoal =>
     /\ goals[id].phase = "blocked" => goals[id].blocker # NoBlocker
     /\ goals[id].phase \in {"active", "paused"} => goals[id].blocker = NoBlocker

\* What is over stays over: a cleared goal keeps its phase, a completed one can
\* only be cleared, and neither is admitted to another round, also when it is
\* armed.  (Usage that comes in late is still added up, rounds included.)
OverIsOver ==
  [][\A id \in GoalIds :
       goals[id] # NoGoal /\ goals[id].phase \in {"completed", "cleared"} =>
          /\ goals'[id].phase \in {goals[id].phase, "cleared"}
          /\ admitted'[id] = admitted[id]]_vars

\* Every mutation emits a goal/change event with the goal as it then is, and
\* the log of these events is one that reconstructGoalFromEvents accepts: no
\* sequence of calls leaves a goal that cannot be rebuilt from its log.
LogRebuilds ==
  [][\A id \in GoalIds : goals'[id] # goals[id] =>
       IF goals[id] = NoGoal THEN ReplayStarts(goals'[id])
                             ELSE ReplayAccepts(goals[id], goals'[id])]_vars

\* core/goal/goal-state.ts:45 "Monotonic, for compare-and-set".
RevisionsGrow ==
  [][\A id \in GoalIds : goals[id] # NoGoal =>
       goals'[id].revision >= goals[id].revision]_vars
=============================================================================
