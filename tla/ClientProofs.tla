---------------------------- MODULE ClientProofs ----------------------------
(***************************************************************************)
(* Proofs about what clients of an agent do to it: set and change its goal *)
(* (GoalLifecycle), and reach it through a server (AcpSessions,            *)
(* HttpTransport, StdioTransport), each for any number of clients.         *)
(*                                                                         *)
(* Goals.  StepKinds reduces the actions to three kinds: a step that       *)
(* leaves the goals alone, a creation, and a mutation accepted under one   *)
(* ref that evolves one goal.  Every theorem then needs three cases.  The  *)
(* fence needs a strengthening: a ref some mutation was accepted under is  *)
(* strictly below its goal's revision, so it never passes the              *)
(* compare-and-set again.  That holds only when create() is not given an   *)
(* id in use, the hypothesis of the theorems that compare two revisions.   *)
(*                                                                         *)
(* Servers.  Each has an invariant that says more than its promises: who   *)
(* waits is listed (AcpInv), what was let through and what a bucket holds  *)
(* add up (HttpInv), and the buffer is the end of what was read, each line *)
(* of which is answered or at work (StdioInv).                             *)
(***************************************************************************)
EXTENDS MCOversight, ComponentProofs, SequenceTheorems

\* Every ref a mutation was accepted under is below its goal's revision.
UsedIsPast ==
  \A r \in used : /\ goals[r.id] # NoGoal
                  /\ r.revision < goals[r.id].revision

\* The round limit in force never exceeds the largest one given so far.
LimitBelowCeiling ==
  \A id \in GoalIds :
     goals[id] # NoGoal => goals[id].budgets.maxRounds <= ceiling[id]

\* How an accepted mutation may change a goal, its revision apart.
Evolves(old, new, top) ==
  /\ LegalTransition(old.phase, new.phase)
  /\ new.budgets = old.budgets \/ new.budgets.maxRounds <= top
  /\ new.tokens >= old.tokens /\ new.cost >= old.cost
  /\ new.rounds >= old.rounds
  /\ \/ new.blocker = old.blocker /\ new.phase = old.phase
     \/ new.blocker = old.blocker /\ new.phase \in {"paused", "completed", "cleared"}
     \/ new.blocker \in BlockerCodes /\ new.phase = "blocked"
     \/ new.blocker = NoBlocker /\ new.phase = "active"

\* Only a goal that is active and below its limit is admitted to a round.
Admits(old, new, count, next) ==
  \/ next = count
  \/ /\ next = count + 1
     /\ old.phase = "active"
     /\ old.rounds < old.budgets.maxRounds
     /\ new.budgets = old.budgets
     /\ new.rounds = old.rounds + 1

AdmittedGrows(r, goal) ==
  /\ admitted' \in [GoalIds -> Nat]
  /\ Admits(goals[r.id], goal, admitted[r.id], admitted'[r.id])
  /\ \A other \in GoalIds : other # r.id => admitted'[other] = admitted[other]

CeilingGrows(id) ==
  /\ ceiling' \in [GoalIds -> Nat]
  /\ ceiling[id] <= ceiling'[id]
  /\ \A other \in GoalIds : other # id => ceiling'[other] = ceiling[other]

\* A mutation accepted under r that stores "goal" under the next revision.
Mutation(r, goal) ==
  /\ Cas(r)
  /\ goal.revision = goals[r.id].revision
  /\ Commit(r, goal)
  /\ armed' \subseteq armed \cup {r.id}
  /\ CeilingGrows(r.id)
  /\ Evolves(goals[r.id], goal, ceiling'[r.id])
  /\ AdmittedGrows(r, goal)

\* A step of Arm, Disarm or Read, or a stuttering one.
GoalsStay ==
  /\ UNCHANGED <<goals, used, twice, ceiling, admitted>>
  /\ armed' \subseteq {id \in GoalIds : goals[id] # NoGoal}
  /\ refs' \in [Clients -> GoalRef \cup {NoRef}]

\* A creation, seen like the other two.
Creation(id, budgets) ==
  /\ Create(id, budgets)
  /\ CeilingGrows(id)
  /\ budgets.maxRounds <= ceiling'[id]
  /\ admitted' = [admitted EXCEPT ![id] = 0]
-----------------------------------------------------------------------------
\* What Cas says of a ref, when the types are right.
LEMMA CasFacts ==
  ASSUME TypeOK, NEW c \in Clients, Cas(refs[c])
  PROVE  /\ refs[c] \in GoalRef /\ refs[c].id \in GoalIds
         /\ goals[refs[c].id] \in LifecycleGoal
         /\ goals[refs[c].id].revision = refs[c].revision
  BY DEF TypeOK, Cas, GoalRef

\* RaiseCeiling raises one goal's ceiling to the limit it was given, at least.
LEMMA CeilingRaised ==
  ASSUME TypeOK, NEW id \in GoalIds, NEW b \in Budgets, RaiseCeiling(id, b)
  PROVE  CeilingGrows(id) /\ b.maxRounds <= ceiling'[id]
  BY DEF TypeOK, RaiseCeiling, CeilingGrows, Budgets

\* A mutation that raises no ceiling leaves it where CeilingGrows allows.
LEMMA CeilingStays ==
  ASSUME TypeOK, NEW id \in GoalIds, ceiling' = ceiling
  PROVE  CeilingGrows(id)
  BY DEF TypeOK, CeilingGrows

\* Nor does one that admits no round add to what was admitted.
LEMMA AdmittedStays ==
  ASSUME TypeOK, NEW r \in GoalRef, NEW goal \in LifecycleGoal, admitted' = admitted
  PROVE  AdmittedGrows(r, goal)
  BY DEF TypeOK, AdmittedGrows, Admits

\* Edits keep budgets well-typed.
LEMMA EditTypes ==
  ASSUME NEW b \in Budgets, NEW e \in Edits
  PROVE  EditedBudgets(b, e) \in Budgets
  BY GoalConstants DEF EditedBudgets, Edited, Budgets

\* The kinds of steps.
Step ==
  \/ GoalsStay
  \/ \E id \in GoalIds, b \in Openings : Creation(id, b)
  \/ /\ refs' = refs
     /\ \E r \in GoalRef, goal \in LifecycleGoal : Mutation(r, goal)

LEMMA StepKinds ==
  ASSUME TypeOK, [Next]_vars
  PROVE  Step
<1> DEFINE held(c) == goals[refs[c].id]
<1>1. CASE UNCHANGED vars
  BY <1>1 DEF Step, GoalsStay, TypeOK, vars
<1>2. ASSUME NEW id \in GoalIds, NEW b \in Openings, Create(id, b)
      PROVE  Step
  BY <1>2, CeilingRaised, GoalConstants DEF Step, Creation, Create
<1>3. ASSUME NEW id \in GoalIds, Arm(id)
      PROVE  Step
  BY <1>3 DEF Step, GoalsStay, Arm, TypeOK
<1>4. ASSUME NEW ids, Disarm(ids)
      PROVE  Step
  BY <1>4 DEF Step, GoalsStay, Disarm, TypeOK
<1>5. ASSUME NEW c \in Clients, NEW id \in GoalIds, Read(c, id)
      PROVE  Step
  BY <1>5 DEF Step, GoalsStay, Read, TypeOK, GoalRef, LifecycleGoal
<1>6. ASSUME NEW c \in Clients, NEW e \in Edits, Edit(c, e)
      PROVE  Step
  <2> DEFINE new == EditedBudgets(held(c).budgets, e)
             goal == [held(c) EXCEPT !.budgets = new]
  <2>1. Cas(refs[c]) /\ Commit(refs[c], goal) /\ RaiseCeiling(refs[c].id, new)
        /\ armed' = armed /\ refs' = refs /\ admitted' = admitted
    BY <1>6 DEF Edit, Commit
  <2>2. refs[c] \in GoalRef /\ refs[c].id \in GoalIds /\ held(c) \in LifecycleGoal
    BY <2>1, CasFacts
  <2>3. new \in Budgets
    BY <2>2, EditTypes DEF LifecycleGoal
  <2>4. CeilingGrows(refs[c].id) /\ new.maxRounds <= ceiling'[refs[c].id]
    BY <2>1, <2>2, <2>3, CeilingRaised
  <2> HIDE DEF new
  <2>5. /\ goal \in LifecycleGoal
        /\ goal.revision = held(c).revision
        /\ goal.phase = held(c).phase
        /\ goal.blocker = held(c).blocker
        /\ goal.tokens = held(c).tokens /\ goal.cost = held(c).cost
        /\ goal.rounds = held(c).rounds
        /\ goal.budgets = new
    BY <2>2, <2>3 DEF LifecycleGoal
  <2> HIDE DEF goal
  <2>6. Evolves(held(c), goal, ceiling'[refs[c].id])
    BY <2>2, <2>4, <2>5 DEF Evolves, LegalTransition, LifecycleGoal
  <2>7. Mutation(refs[c], goal)
    BY <2>1, <2>2, <2>4, <2>5, <2>6, AdmittedStays DEF Mutation
  <2> QED BY <2>1, <2>2, <2>5, <2>7 DEF Step
<1>7. ASSUME NEW c \in Clients, NEW phase \in {"paused", "completed", "cleared"},
             Park(c, phase)
      PROVE  Step
  <2> DEFINE goal == [held(c) EXCEPT !.phase = phase]
  <2>1. /\ Cas(refs[c]) /\ Commit(refs[c], goal) /\ ceiling' = ceiling /\ admitted' = admitted
        /\ armed' = armed \ {refs[c].id} /\ refs' = refs
        /\ LegalTransition(held(c).phase, phase)
    BY <1>7 DEF Park, Commit
  <2>2. refs[c] \in GoalRef /\ refs[c].id \in GoalIds /\ held(c) \in LifecycleGoal
    BY <2>1, CasFacts
  <2>3. CeilingGrows(refs[c].id)
    BY <2>1, <2>2, CeilingStays
  <2>4. /\ goal \in LifecycleGoal
        /\ goal.revision = held(c).revision
        /\ goal.phase = phase
        /\ goal.blocker = held(c).blocker
        /\ goal.tokens = held(c).tokens /\ goal.cost = held(c).cost
        /\ goal.rounds = held(c).rounds
        /\ goal.budgets = held(c).budgets
    BY <2>2 DEF LifecycleGoal, GoalPhases
  <2> HIDE DEF goal
  <2>5. Evolves(held(c), goal, ceiling'[refs[c].id])
    BY <2>1, <2>2, <2>4 DEF Evolves, LifecycleGoal
  <2>6. Mutation(refs[c], goal)
    BY <2>1, <2>2, <2>3, <2>4, <2>5, AdmittedStays DEF Mutation
  <2> QED BY <2>1, <2>2, <2>4, <2>6 DEF Step
<1>8. ASSUME NEW c \in Clients, NEW reason \in BlockerCodes, BlockGoal(refs[c], reason)
      PROVE  Step
  <2> DEFINE goal == [held(c) EXCEPT !.phase = "blocked", !.blocker = reason]
  <2>1. /\ Cas(refs[c]) /\ Commit(refs[c], goal) /\ ceiling' = ceiling /\ admitted' = admitted
        /\ armed' = armed \ {refs[c].id} /\ refs' = refs
        /\ LegalTransition(held(c).phase, "blocked")
    BY <1>8 DEF BlockGoal, Commit
  <2>2. refs[c] \in GoalRef /\ refs[c].id \in GoalIds /\ held(c) \in LifecycleGoal
    BY <2>1, CasFacts
  <2>3. CeilingGrows(refs[c].id)
    BY <2>1, <2>2, CeilingStays
  <2>4. /\ goal \in LifecycleGoal
        /\ goal.revision = held(c).revision
        /\ goal.phase = "blocked"
        /\ goal.blocker = reason
        /\ goal.tokens = held(c).tokens /\ goal.cost = held(c).cost
        /\ goal.rounds = held(c).rounds
        /\ goal.budgets = held(c).budgets
    BY <2>2 DEF LifecycleGoal, GoalPhases
  <2> HIDE DEF goal
  <2>5. Evolves(held(c), goal, ceiling'[refs[c].id])
    BY <2>1, <2>2, <2>4 DEF Evolves, LifecycleGoal
  <2>6. Mutation(refs[c], goal)
    BY <2>1, <2>2, <2>3, <2>4, <2>5, AdmittedStays DEF Mutation
  <2> QED BY <2>1, <2>2, <2>4, <2>6 DEF Step
<1>9. ASSUME NEW c \in Clients, Resume(c)
      PROVE  Step
  <2> DEFINE goal == [held(c) EXCEPT !.phase = "active", !.blocker = NoBlocker]
  <2>1. /\ Cas(refs[c]) /\ Commit(refs[c], goal) /\ ceiling' = ceiling /\ admitted' = admitted
        /\ armed' = armed \cup {refs[c].id} /\ refs' = refs
        /\ LegalTransition(held(c).phase, "active")
    BY <1>9 DEF Resume, BlockerAfterResume, Commit
  <2>2. refs[c] \in GoalRef /\ refs[c].id \in GoalIds /\ held(c) \in LifecycleGoal
    BY <2>1, CasFacts
  <2>3. CeilingGrows(refs[c].id)
    BY <2>1, <2>2, CeilingStays
  <2>4. /\ goal \in LifecycleGoal
        /\ goal.revision = held(c).revision
        /\ goal.phase = "active"
        /\ goal.blocker = NoBlocker
        /\ goal.tokens = held(c).tokens /\ goal.cost = held(c).cost
        /\ goal.rounds = held(c).rounds
        /\ goal.budgets = held(c).budgets
    BY <2>2 DEF LifecycleGoal, GoalPhases
  <2> HIDE DEF goal
  <2>5. Evolves(held(c), goal, ceiling'[refs[c].id])
    BY <2>1, <2>2, <2>4 DEF Evolves, LifecycleGoal
  <2>6. Mutation(refs[c], goal)
    BY <2>1, <2>2, <2>3, <2>4, <2>5, AdmittedStays DEF Mutation
  <2> QED BY <2>1, <2>2, <2>4, <2>6 DEF Step
<1>10. ASSUME NEW c \in Clients, NEW usage \in Usages, RecordUsage(c, usage)
       PROVE  Step
  <2> DEFINE tokens == Accrued(held(c).tokens, usage.tokens)
             cost == Accrued(held(c).cost, usage.cost)
             rounds == Accrued(held(c).rounds, usage.rounds)
             goal == [held(c) EXCEPT !.tokens = tokens, !.cost = cost, !.rounds = rounds]
  <2>1. /\ Cas(refs[c]) /\ Commit(refs[c], goal) /\ ceiling' = ceiling /\ admitted' = admitted
        /\ armed' = armed /\ refs' = refs
    BY <1>10 DEF RecordUsage, Commit
  <2>2. refs[c] \in GoalRef /\ refs[c].id \in GoalIds /\ held(c) \in LifecycleGoal
    BY <2>1, CasFacts
  <2>7. /\ tokens \in Nat /\ cost \in Nat /\ rounds \in Nat
        /\ tokens >= held(c).tokens /\ cost >= held(c).cost /\ rounds >= held(c).rounds
    BY <2>2, GoalConstants DEF LifecycleGoal, Accrued
  <2> HIDE DEF tokens, cost, rounds
  <2>3. CeilingGrows(refs[c].id)
    BY <2>1, <2>2, CeilingStays
  <2>4. /\ goal \in LifecycleGoal
        /\ goal.revision = held(c).revision
        /\ goal.phase = held(c).phase
        /\ goal.blocker = held(c).blocker
        /\ goal.tokens = tokens /\ goal.cost = cost
        /\ goal.rounds = rounds
        /\ goal.budgets = held(c).budgets
    BY <2>2, <2>7 DEF LifecycleGoal
  <2> HIDE DEF goal
  <2>5. Evolves(held(c), goal, ceiling'[refs[c].id])
    BY <2>1, <2>4, <2>7 DEF Evolves, LegalTransition
  <2>6. Mutation(refs[c], goal)
    BY <2>1, <2>2, <2>3, <2>4, <2>5, AdmittedStays DEF Mutation
  <2> QED BY <2>1, <2>2, <2>4, <2>6 DEF Step
<1>11. ASSUME NEW c \in Clients, AdmitRound(c)
       PROVE  Step
  <2> DEFINE goal == [held(c) EXCEPT !.rounds = held(c).rounds + 1]
  <2>1. /\ Cas(refs[c]) /\ Commit(refs[c], goal) /\ ceiling' = ceiling
        /\ armed' = armed /\ refs' = refs
        /\ admitted' = [admitted EXCEPT ![refs[c].id] = @ + 1]
        /\ held(c).phase = "active" /\ held(c).rounds < held(c).budgets.maxRounds
    BY <1>11 DEF AdmitRound, Admissible, BudgetLeft, RoundsLeft, Commit
  <2>2. refs[c] \in GoalRef /\ refs[c].id \in GoalIds /\ held(c) \in LifecycleGoal
    BY <2>1, CasFacts
  <2>3. CeilingGrows(refs[c].id)
    BY <2>1, <2>2, CeilingStays
  <2>4. /\ goal \in LifecycleGoal
        /\ goal.revision = held(c).revision
        /\ goal.phase = held(c).phase
        /\ goal.blocker = held(c).blocker
        /\ goal.tokens = held(c).tokens /\ goal.cost = held(c).cost
        /\ goal.rounds = held(c).rounds + 1
        /\ goal.budgets = held(c).budgets
    BY <2>2 DEF LifecycleGoal
  <2> HIDE DEF goal
  <2>5. Evolves(held(c), goal, ceiling'[refs[c].id])
    BY <2>1, <2>2, <2>4 DEF Evolves, LegalTransition, LifecycleGoal
  <2>6. Mutation(refs[c], goal)
    <3>1. admitted \in [GoalIds -> Nat]
      BY DEF TypeOK
    <3>2. AdmittedGrows(refs[c], goal)
      BY <2>1, <2>2, <2>4, <3>1 DEF AdmittedGrows, Admits
    <3> QED BY <2>1, <2>3, <2>4, <2>5, <3>2 DEF Mutation
  <2> QED BY <2>1, <2>2, <2>4, <2>6 DEF Step
<1> QED
  BY <1>1, <1>2, <1>3, <1>4, <1>5, <1>6, <1>7, <1>8, <1>9, <1>10, <1>11, GoalConstants
  DEF Next, ClientStep, Pause, Complete, Clear, Block, RefuseRound
-----------------------------------------------------------------------------
\* Each kind of step, spelled out as what it does to the goals.
LEMMA MutationFacts ==
  ASSUME TypeOK, NEW r \in GoalRef, NEW goal \in LifecycleGoal, Mutation(r, goal)
  PROVE  /\ r.id \in GoalIds /\ r.revision \in Nat
         /\ goals[r.id] \in LifecycleGoal
         /\ goals[r.id].revision = r.revision
         /\ goals'[r.id] \in LifecycleGoal
         /\ goals'[r.id].revision = r.revision + 1
         /\ goals'[r.id].phase = goal.phase
         /\ goals'[r.id].blocker = goal.blocker
         /\ goals'[r.id].rounds = goal.rounds
         /\ goals'[r.id].budgets = goal.budgets
         /\ goals'[r.id].tokens = goal.tokens
         /\ goals'[r.id].cost = goal.cost
         /\ \A id \in GoalIds : id # r.id => goals'[id] = goals[id]
         /\ goals' \in [GoalIds -> LifecycleGoal \cup {NoGoal}]
<1> DEFINE next == [goal EXCEPT !.revision = goal.revision + 1]
<1>1. r.id \in GoalIds /\ r.revision \in Nat
  BY DEF GoalRef
<1>2. /\ goals[r.id] \in LifecycleGoal
      /\ goals[r.id].revision = r.revision
      /\ goal.revision = r.revision
  BY <1>1 DEF Mutation, Cas, TypeOK
<1>3. /\ next \in LifecycleGoal
      /\ next.revision = r.revision + 1
      /\ next.phase = goal.phase /\ next.blocker = goal.blocker
      /\ next.rounds = goal.rounds /\ next.budgets = goal.budgets
      /\ next.tokens = goal.tokens /\ next.cost = goal.cost
  BY <1>1, <1>2 DEF LifecycleGoal
<1>4. goals' = [goals EXCEPT ![r.id] = next]
  BY DEF Mutation, Commit
<1> HIDE DEF next
<1> QED BY <1>1, <1>2, <1>3, <1>4 DEF TypeOK

LEMMA CreationFacts ==
  ASSUME TypeOK, NEW id \in GoalIds, NEW b \in Openings, Creation(id, b)
  PROVE  /\ goals'[id] = NewGoal(b)
         /\ NewGoal(b) \in LifecycleGoal
         /\ \A other \in GoalIds : other # id => goals'[other] = goals[other]
         /\ goals' \in [GoalIds -> LifecycleGoal \cup {NoGoal}]
<1>1. NewGoal(b) \in LifecycleGoal
  BY GoalConstants DEF NewGoal, LifecycleGoal, GoalPhases
<1>2. goals' = [goals EXCEPT ![id] = NewGoal(b)]
  BY DEF Creation, Create
<1> QED BY <1>1, <1>2 DEF TypeOK
-----------------------------------------------------------------------------
\* Goals, refs and budgets keep their types, and only goals that exist are
\* armed: what get() and admitRound rely on when they index the goals.
THEOREM TypeCorrect == Spec => []TypeOK
<1>1. Init => TypeOK
  <2> SUFFICES ASSUME Init PROVE TypeOK
    OBVIOUS
  <2>1. /\ goals \in [GoalIds -> LifecycleGoal \cup {NoGoal}]
        /\ refs \in [Clients -> GoalRef \cup {NoRef}]
        /\ ceiling \in [GoalIds -> Nat] /\ admitted \in [GoalIds -> Nat]
        /\ armed \subseteq {id \in GoalIds : goals[id] # NoGoal}
        /\ used \subseteq GoalRef
    BY DEF Init
  <2>2. twice \in BOOLEAN
    BY DEF Init
  <2> QED BY <2>1, <2>2 DEF TypeOK
<1>2. TypeOK /\ [Next]_vars => TypeOK'
  <2> SUFFICES ASSUME TypeOK, [Next]_vars
               PROVE  TypeOK'
    OBVIOUS
  <2>1. CASE GoalsStay
    BY <2>1 DEF GoalsStay, TypeOK
  <2>2. ASSUME NEW id \in GoalIds, NEW b \in Openings, Creation(id, b)
        PROVE  TypeOK'
    <3>1. /\ refs' = refs /\ used' = used /\ twice' = twice
          /\ armed' = armed \cup {id} /\ ceiling' \in [GoalIds -> Nat]
          /\ admitted' \in [GoalIds -> Nat]
      BY <2>2 DEF Creation, Create, CeilingGrows, TypeOK
    <3> QED BY <2>2, <3>1, CreationFacts, NoGoalIsNone DEF TypeOK
  <2>3. ASSUME NEW r \in GoalRef, NEW goal \in LifecycleGoal, Mutation(r, goal),
               refs' = refs
        PROVE  TypeOK'
    <3>1. /\ used' = used \cup {r} /\ twice' = (twice \/ r \in used)
          /\ armed' \subseteq armed \cup {r.id} /\ ceiling' \in [GoalIds -> Nat]
          /\ admitted' \in [GoalIds -> Nat]
      BY <2>3 DEF Mutation, Commit, CeilingGrows, AdmittedGrows
    <3>2. twice' \in BOOLEAN
      BY <3>1 DEF TypeOK
    <3> QED BY <2>3, <3>1, <3>2, MutationFacts, NoGoalIsNone DEF TypeOK
  <2> QED BY <2>1, <2>2, <2>3, StepKinds DEF Step
<1> QED BY <1>1, <1>2, PTL DEF Spec

\* However clients interleave, a goal is admitted to no more rounds than the
\* largest limit it was given, whatever usage clients record.  Inductive with
\* two facts: the limit in force, with which admitRound compares, is not above
\* the largest one; and every round admitted was counted, so that a counter
\* below the limit has let in fewer rounds than the limit.
AdmittedAreCounted ==
  \A id \in GoalIds : goals[id] # NoGoal => admitted[id] <= goals[id].rounds

THEOREM RoundsCorrect == Spec => []RoundsBounded
<1> DEFINE Inv == LimitBelowCeiling /\ AdmittedAreCounted /\ RoundsBounded
<1>1. Init => Inv
  BY DEF Init, LimitBelowCeiling, AdmittedAreCounted, RoundsBounded
<1>2. TypeOK /\ Inv /\ [Next]_vars => Inv'
  <2> DEFINE bounded(goal, top, count) ==
        goal.budgets.maxRounds <= top /\ count <= goal.rounds /\ count <= top
  <2> SUFFICES ASSUME TypeOK, LimitBelowCeiling, AdmittedAreCounted, RoundsBounded,
                      [Next]_vars, NEW id \in GoalIds, goals'[id] # NoGoal
               PROVE  bounded(goals'[id], ceiling'[id], admitted'[id])
    BY DEF LimitBelowCeiling, AdmittedAreCounted, RoundsBounded
  <2>1. /\ ceiling[id] \in Nat /\ admitted[id] \in Nat
        /\ goals[id] # NoGoal => bounded(goals[id], ceiling[id], admitted[id])
    BY DEF TypeOK, LimitBelowCeiling, AdmittedAreCounted, RoundsBounded
  <2>2. CASE GoalsStay
    <3>1. goals'[id] = goals[id] /\ ceiling'[id] = ceiling[id] /\ admitted'[id] = admitted[id]
      BY <2>2 DEF GoalsStay
    <3> QED BY <2>1, <3>1
  <2>3. ASSUME NEW other \in GoalIds, NEW b \in Openings, Creation(other, b)
        PROVE  bounded(goals'[id], ceiling'[id], admitted'[id])
    <3>1. CASE other = id
      <4>1. /\ goals'[id] = NewGoal(b) /\ ceiling'[id] \in Nat /\ b.maxRounds <= ceiling'[id]
            /\ admitted'[id] = 0
        BY <2>3, <3>1, CreationFacts DEF Creation, CeilingGrows, TypeOK
      <4>2. NewGoal(b).rounds = 0 /\ NewGoal(b).budgets = b
        BY DEF NewGoal
      <4> QED BY <4>1, <4>2
    <3>2. CASE other # id
      <4>1. goals'[id] = goals[id] /\ ceiling'[id] = ceiling[id] /\ admitted'[id] = admitted[id]
        BY <2>3, <3>2, CreationFacts DEF Creation, CeilingGrows, TypeOK
      <4> QED BY <2>1, <4>1
    <3> QED BY <3>1, <3>2
  <2>4. ASSUME NEW r \in GoalRef, NEW goal \in LifecycleGoal, Mutation(r, goal)
        PROVE  bounded(goals'[id], ceiling'[id], admitted'[id])
    <3>1. /\ CeilingGrows(r.id) /\ Evolves(goals[r.id], goal, ceiling'[r.id])
          /\ AdmittedGrows(r, goal)
      BY <2>4 DEF Mutation
    <3>2. CASE r.id = id
      <4>1. /\ goals[id] \in LifecycleGoal /\ goals[id] # NoGoal
            /\ goals'[id].rounds = goal.rounds
            /\ goals'[id].budgets = goal.budgets
        BY <2>4, <3>2, MutationFacts, NoGoalIsNone
      <4>2. /\ goals[id].rounds \in Nat /\ goals[id].budgets.maxRounds \in Nat
            /\ goal.rounds \in Nat /\ goal.budgets.maxRounds \in Nat
        BY <4>1, <2>4 DEF LifecycleGoal, Budgets
      <4>3. ceiling'[id] \in Nat /\ ceiling[id] <= ceiling'[id]
        BY <3>1, <3>2 DEF CeilingGrows
      <4>4. goal.budgets.maxRounds <= ceiling'[id] /\ goal.rounds >= goals[id].rounds
        BY <2>1, <3>1, <3>2, <4>1, <4>2, <4>3 DEF Evolves
      <4>5. Admits(goals[id], goal, admitted[id], admitted'[id])
        BY <3>1, <3>2 DEF AdmittedGrows
      <4>6. admitted'[id] <= goal.rounds /\ admitted'[id] <= ceiling'[id]
        BY <2>1, <4>1, <4>2, <4>3, <4>4, <4>5 DEF Admits
      <4> QED BY <4>1, <4>4, <4>6
    <3>3. CASE r.id # id
      <4>1. goals'[id] = goals[id] /\ ceiling'[id] = ceiling[id] /\ admitted'[id] = admitted[id]
        BY <2>4, <3>1, <3>3, MutationFacts DEF CeilingGrows, AdmittedGrows
      <4> QED BY <2>1, <4>1
    <3> QED BY <3>2, <3>3
  <2> QED BY <2>2, <2>3, <2>4, StepKinds DEF Step
<1>3. Inv => RoundsBounded
  OBVIOUS
<1> QED BY <1>1, <1>2, <1>3, TypeCorrect, PTL DEF Spec

\* A blocked goal carries its blocker, an active or paused one carries none:
\* what the operator sees of a goal after any sequence of calls.
THEOREM BlockerCorrect == Spec => []BlockerMatchesPhase
<1> DEFINE fits(goal) ==
      /\ goal.phase = "blocked" => goal.blocker # NoBlocker
      /\ goal.phase \in {"active", "paused"} => goal.blocker = NoBlocker
<1>1. Init => BlockerMatchesPhase
  BY DEF Init, BlockerMatchesPhase
<1>2. TypeOK /\ BlockerMatchesPhase /\ [Next]_vars => BlockerMatchesPhase'
  <2> SUFFICES ASSUME TypeOK, BlockerMatchesPhase, [Next]_vars,
                      NEW id \in GoalIds, goals'[id] # NoGoal
               PROVE  fits(goals'[id])
    BY DEF BlockerMatchesPhase
  <2>1. goals[id] # NoGoal => fits(goals[id])
    BY DEF BlockerMatchesPhase
  <2>2. CASE GoalsStay
    <3>1. goals'[id] = goals[id]
      BY <2>2 DEF GoalsStay
    <3> QED BY <2>1, <3>1
  <2>3. ASSUME NEW other \in GoalIds, NEW b \in Openings, Creation(other, b)
        PROVE  fits(goals'[id])
    <3>1. fits(NewGoal(b))
      BY DEF NewGoal
    <3>2. goals'[id] = NewGoal(b) \/ goals'[id] = goals[id]
      BY <2>3, CreationFacts
    <3> QED BY <2>1, <3>1, <3>2
  <2>4. ASSUME NEW r \in GoalRef, NEW goal \in LifecycleGoal, Mutation(r, goal)
        PROVE  fits(goals'[id])
    <3>1. CASE r.id = id
      <4>1. Evolves(goals[id], goal, ceiling'[id])
        BY <2>4, <3>1 DEF Mutation
      <4>2. /\ goals[id] # NoGoal
            /\ goals'[id].phase = goal.phase /\ goals'[id].blocker = goal.blocker
        BY <2>4, <3>1, MutationFacts, NoGoalIsNone
      <4>3. fits(goals[id])
        BY <2>1, <4>2
      <4>4. fits(goal)
        BY <4>1, <4>3, GoalConstants DEF Evolves, LegalTransition
      <4> QED BY <4>2, <4>4
    <3>2. CASE r.id # id
      <4>1. goals'[id] = goals[id]
        BY <2>4, <3>2, MutationFacts
      <4> QED BY <2>1, <4>1
    <3> QED BY <3>1, <3>2
  <2> QED BY <2>2, <2>3, <2>4, StepKinds DEF Step
<1> QED BY <1>1, <1>2, TypeCorrect, PTL DEF Spec

\* A cleared goal keeps its phase, a completed one can only be cleared, and
\* neither is admitted to another round.  With ids that are not reused: a
\* create() over a completed goal starts a new one in its place.
THEOREM OverCorrect == IdsAreFresh /\ Spec => OverIsOver
<1> SUFFICES ASSUME IdsAreFresh
             PROVE  Spec => OverIsOver
  OBVIOUS
<1> DEFINE kept(id) == goals[id] # NoGoal /\ goals[id].phase \in {"completed", "cleared"} =>
             /\ goals'[id].phase \in {goals[id].phase, "cleared"}
             /\ admitted'[id] = admitted[id]
<1>1. ASSUME TypeOK, [Next]_vars, NEW id \in GoalIds
      PROVE  kept(id)
  <2>1. CASE GoalsStay
    BY <2>1 DEF GoalsStay
  <2>2. ASSUME NEW other \in GoalIds, NEW b \in Openings, Creation(other, b)
        PROVE  kept(id)
    <3>1. goals[other] = NoGoal
      BY <2>2 DEF Creation, Create
    <3>2. other # id => goals'[id] = goals[id] /\ admitted'[id] = admitted[id]
      BY <1>1, <2>2, CreationFacts DEF Creation, TypeOK
    <3> QED BY <3>1, <3>2
  <2>3. ASSUME NEW r \in GoalRef, NEW goal \in LifecycleGoal, Mutation(r, goal)
        PROVE  kept(id)
    <3>1. CASE r.id = id
      <4>1. /\ Evolves(goals[id], goal, ceiling'[id])
            /\ Admits(goals[id], goal, admitted[id], admitted'[id])
        BY <2>3, <3>1 DEF Mutation, AdmittedGrows
      <4>2. goals'[id].phase = goal.phase
        BY <1>1, <2>3, <3>1, MutationFacts
      <4> QED BY <4>1, <4>2 DEF Evolves, LegalTransition, Admits
    <3>2. CASE r.id # id
      <4>1. goals'[id] = goals[id] /\ admitted'[id] = admitted[id]
        BY <1>1, <2>3, <3>2, MutationFacts DEF Mutation, AdmittedGrows
      <4> QED BY <4>1
    <3> QED BY <3>1, <3>2
  <2> QED BY <1>1, <2>1, <2>2, <2>3, StepKinds DEF Step
<1>2. TypeOK /\ [Next]_vars => [\A id \in GoalIds : kept(id)]_vars
  BY <1>1
<1> QED BY <1>2, TypeCorrect, PTL DEF Spec, OverIsOver
-----------------------------------------------------------------------------
\* The fence as an inductive invariant: a ref that a mutation was accepted
\* under has fallen behind its goal for good, so no mutation is accepted
\* under it again.
LEMMA FencePreserved ==
  ASSUME TypeOK, UsedIsPast, OneWriterPerRevision, IdsAreFresh, [Next]_vars
  PROVE  UsedIsPast' /\ OneWriterPerRevision'
<1>1. CASE GoalsStay
  BY <1>1 DEF GoalsStay, UsedIsPast, OneWriterPerRevision
<1>2. ASSUME NEW id \in GoalIds, NEW b \in Openings, Creation(id, b)
      PROVE  UsedIsPast' /\ OneWriterPerRevision'
  <2>1. goals[id] = NoGoal /\ used' = used /\ twice' = twice
    BY <1>2 DEF Creation, Create
  <2>2. ASSUME NEW s \in used
        PROVE  goals'[s.id] # NoGoal /\ s.revision < goals'[s.id].revision
    <3>1. s.id \in GoalIds /\ goals[s.id] # NoGoal
      BY DEF UsedIsPast, TypeOK, GoalRef
    <3>2. goals'[s.id] = goals[s.id]
      BY <1>2, <2>1, <3>1, CreationFacts
    <3> QED BY <3>1, <3>2 DEF UsedIsPast
  <2> QED BY <2>1, <2>2 DEF UsedIsPast, OneWriterPerRevision
<1>3. ASSUME NEW r \in GoalRef, NEW goal \in LifecycleGoal, Mutation(r, goal)
      PROVE  UsedIsPast' /\ OneWriterPerRevision'
  <2>1. used' = used \cup {r} /\ twice' = (twice \/ r \in used)
    BY <1>3 DEF Mutation, Commit
  <2>2. r.revision \in Nat /\ goals[r.id].revision = r.revision
    BY <1>3, MutationFacts
  <2>3. r \notin used
    BY <2>2 DEF UsedIsPast
  <2>4. ASSUME NEW s \in used \cup {r}
        PROVE  goals'[s.id] # NoGoal /\ s.revision < goals'[s.id].revision
    <3>1. s.id \in GoalIds /\ s.revision \in Nat
      BY DEF TypeOK, GoalRef
    <3>2. CASE s.id = r.id
      <4>1. goals'[s.id] # NoGoal /\ goals'[s.id].revision = r.revision + 1
        BY <1>3, <3>2, MutationFacts, NoGoalIsNone
      <4>2. s.revision <= r.revision
        BY <2>2, <3>1, <3>2 DEF UsedIsPast
      <4> QED BY <2>2, <3>1, <4>1, <4>2
    <3>3. CASE s.id # r.id
      <4>1. goals'[s.id] = goals[s.id] /\ s \in used
        BY <1>3, <3>1, <3>3, MutationFacts
      <4> QED BY <4>1 DEF UsedIsPast
    <3> QED BY <3>2, <3>3
  <2> QED BY <2>1, <2>3, <2>4 DEF UsedIsPast, OneWriterPerRevision
<1> QED BY <1>1, <1>2, <1>3, StepKinds DEF Step

\* The compare-and-set: of all the clients that hold one ref, one gets a
\* mutation accepted, however many clients there are and whatever they call.
THEOREM FenceCorrect == IdsAreFresh /\ Spec => []OneWriterPerRevision
<1> SUFFICES ASSUME IdsAreFresh
             PROVE  Spec => []OneWriterPerRevision
  OBVIOUS
<1>1. Init => UsedIsPast /\ OneWriterPerRevision
  BY DEF Init, UsedIsPast, OneWriterPerRevision
<1>2. TypeOK /\ UsedIsPast /\ OneWriterPerRevision /\ [Next]_vars
        => UsedIsPast' /\ OneWriterPerRevision'
  BY FencePreserved
<1> QED BY <1>1, <1>2, TypeCorrect, PTL DEF Spec

\* The revision of a goal never decreases (goal-state.ts: "Monotonic, for
\* compare-and-set").  True of ids that are not reused, and only of those: the
\* run GoalLifecycleReuse shows the other case.
THEOREM RevisionsCorrect == IdsAreFresh /\ Spec => RevisionsGrow
<1> SUFFICES ASSUME IdsAreFresh
             PROVE  Spec => RevisionsGrow
  OBVIOUS
<1> DEFINE grows(id) == goals[id] # NoGoal => goals'[id].revision >= goals[id].revision
<1>1. ASSUME TypeOK, [Next]_vars, NEW id \in GoalIds
      PROVE  grows(id)
  <2>0. goals[id] # NoGoal => goals[id].revision \in Nat
    BY <1>1 DEF TypeOK, LifecycleGoal
  <2>1. CASE GoalsStay
    BY <2>0, <2>1 DEF GoalsStay
  <2>2. ASSUME NEW other \in GoalIds, NEW b \in Openings, Creation(other, b)
        PROVE  grows(id)
    <3>1. goals[other] = NoGoal
      BY <2>2 DEF Creation, Create
    <3>2. other # id => goals'[id] = goals[id]
      BY <1>1, <2>2, CreationFacts
    <3> QED BY <2>0, <3>1, <3>2
  <2>3. ASSUME NEW r \in GoalRef, NEW goal \in LifecycleGoal, Mutation(r, goal)
        PROVE  grows(id)
    <3>1. CASE r.id = id
      <4>1. /\ goals[id].revision = r.revision /\ r.revision \in Nat
            /\ goals'[id].revision = r.revision + 1
        BY <1>1, <2>3, <3>1, MutationFacts
      <4> QED BY <4>1
    <3>2. CASE r.id # id
      <4>1. goals'[id] = goals[id]
        BY <1>1, <2>3, <3>2, MutationFacts
      <4> QED BY <2>0, <4>1
    <3> QED BY <3>1, <3>2
  <2> QED BY <1>1, <2>1, <2>2, <2>3, StepKinds DEF Step
<1>2. TypeOK /\ [Next]_vars => [\A id \in GoalIds : grows(id)]_vars
  BY <1>1
<1> QED BY <1>2, TypeCorrect, PTL DEF Spec, RevisionsGrow

\* The log of the goal's events always rebuilds the goal: what mutations store
\* is what reconstructGoalFromEvents accepts next, for every goal and client.
THEOREM LogCorrect == IdsAreFresh /\ Spec => LogRebuilds
<1> SUFFICES ASSUME IdsAreFresh
             PROVE  Spec => LogRebuilds
  OBVIOUS
<1> DEFINE rebuilds(id) == goals'[id] # goals[id] =>
             IF goals[id] = NoGoal THEN ReplayStarts(goals'[id])
                                   ELSE ReplayAccepts(goals[id], goals'[id])
<1>1. ASSUME TypeOK, [Next]_vars, NEW id \in GoalIds
      PROVE  rebuilds(id)
  <2>1. CASE GoalsStay
    BY <2>1 DEF GoalsStay
  <2>2. ASSUME NEW other \in GoalIds, NEW b \in Openings, Creation(other, b)
        PROVE  rebuilds(id)
    <3>1. goals[other] = NoGoal
      BY <2>2 DEF Creation, Create
    <3>2. /\ goals'[other] = NewGoal(b)
          /\ other # id => goals'[id] = goals[id]
      BY <1>1, <2>2, CreationFacts
    <3>3. ReplayStarts(NewGoal(b))
      BY DEF ReplayStarts, NewGoal
    <3> QED BY <3>1, <3>2, <3>3
  <2>3. ASSUME NEW r \in GoalRef, NEW goal \in LifecycleGoal, Mutation(r, goal)
        PROVE  rebuilds(id)
    <3>1. CASE r.id = id
      <4>1. Evolves(goals[id], goal, ceiling'[id])
        BY <2>3, <3>1 DEF Mutation
      <4>2. /\ goals[id] # NoGoal
            /\ goals'[id].revision = goals[id].revision + 1
            /\ goals'[id].phase = goal.phase
            /\ goals'[id].tokens = goal.tokens /\ goals'[id].cost = goal.cost
        BY <1>1, <2>3, <3>1, MutationFacts, NoGoalIsNone
      <4>3. ReplayAccepts(goals[id], goals'[id])
        BY <4>1, <4>2 DEF Evolves, ReplayAccepts
      <4> QED BY <4>2, <4>3
    <3>2. CASE r.id # id
      <4>1. goals'[id] = goals[id]
        BY <1>1, <2>3, <3>2, MutationFacts
      <4> QED BY <4>1
    <3> QED BY <3>1, <3>2
  <2> QED BY <1>1, <2>1, <2>2, <2>3, StepKinds DEF Step
<1>2. TypeOK /\ [Next]_vars => [\A id \in GoalIds : rebuilds(id)]_vars
  BY <1>1
<1> QED BY <1>2, TypeCorrect, PTL DEF Spec, LogRebuilds
-----------------------------------------------------------------------------
\* Sequences

\* A sequence with one element replaced, and with one more.
LEMMA OneReplaced ==
  ASSUME NEW T, NEW s \in Seq(T), NEW i \in DOMAIN s, NEW x \in T, NEW t, t = [s EXCEPT ![i] = x]
  PROVE  /\ t \in Seq(T) /\ DOMAIN t = DOMAIN s /\ Len(t) = Len(s)
         /\ t[i] = x /\ \A j \in DOMAIN s \ {i} : t[j] = s[j]
<1>1. DOMAIN s = 1..Len(s) /\ Len(s) \in Nat
  OBVIOUS
<1>2. t \in Seq(T) /\ Len(t) = Len(s) /\ \A j \in 1..Len(s) : t[j] = IF j = i THEN x ELSE s[j]
  BY <1>1, ExceptSeq
<1> QED
  BY <1>1, <1>2

LEMMA OneMore ==
  ASSUME NEW T, NEW s \in Seq(T), NEW x \in T, NEW t, t = Append(s, x)
  PROVE  /\ t \in Seq(T) /\ Len(t) = Len(s) + 1 /\ Len(s) \in Nat
         /\ DOMAIN s = 1..Len(s) /\ DOMAIN t = 1..(Len(s) + 1)
         /\ DOMAIN t = DOMAIN s \cup {Len(t)} /\ Len(t) \notin DOMAIN s
         /\ t[Len(t)] = x /\ \A j \in DOMAIN s : t[j] = s[j]
OBVIOUS

LEMMA SeqAppends ==
  ASSUME NEW T, NEW s \in Seq(T), NEW x \in T
  PROVE  Append(s, x) \in Seq(T)
OBVIOUS

\* Sequences put one after the other, and of more values.
LEMMA SeqWider ==
  ASSUME NEW S, NEW T, S \subseteq T, NEW s \in Seq(S)
  PROVE  s \in Seq(T)
OBVIOUS

LEMMA SeqJoins ==
  ASSUME NEW T, NEW s \in Seq(T), NEW t \in Seq(T), NEW d, d = s \o t,
         NEW m, m = Len(s), NEW z, z = Len(t)
  PROVE  /\ d \in Seq(T) /\ m \in Nat /\ z \in Nat /\ Len(d) = m + z
         /\ \A j \in 1..m : d[j] = s[j]
         /\ \A j \in (m + 1)..(m + z) : d[j] = t[j - m] /\ j - m \in 1..z
OBVIOUS
-----------------------------------------------------------------------------
\* Sessions of the ACP server

Executions == [at: {"running", "returned", "threw"}, tokens: Nat, alone: BOOLEAN]
Standings == {"IDLE", "RUNNING", "COMPLETED", "FAILED", "CANCELLED"}
Waits == [at: {"waiting", "told", "timed out"}, status: Standings]
Entries == {"user_message", "agent_message", "custom"}
SessionRecords ==
  [status: Standings, active: Nat, tokens: Nat, iterations: Nat, idleWaiters: Seq(Nat),
   log: Seq(Entries)]
AcpTypeOK ==
  /\ session \in SessionRecords
  /\ executions \in Seq(Executions)
  /\ waits \in Seq(Waits)
  /\ cancels \in Seq([at: {"open", "done"}, execution: Nat])

\* Who waits is in the list that the next end of a run empties.
WaitersListed ==
  \A w \in DOMAIN waits : waits[w].at = "waiting" => w \in ToSet(session.idleWaiters)
\* A run that is under way and one that was alone at its start are the same, as
\* long as all were.
OneAtATime ==
  (\A e \in DOMAIN executions : executions[e].alone) => \A e, f \in Live : e = f
AcpInv ==
  /\ AcpTypeOK /\ WaitersListed /\ OneAtATime
  /\ \A e \in Live : executions[e].tokens = 0
  /\ NoForgottenWaiter /\ StatusTellsTheRun
  /\ session.tokens = Sum(Used, DOMAIN executions)

\* What logging and notifying change of a session.
LEMMA LogTypes ==
  ASSUME NEW s \in SessionRecords, NEW entry \in Entries, NEW t, t = Logged(s, entry)
  PROVE  /\ t \in SessionRecords
         /\ t.status = s.status /\ t.tokens = s.tokens /\ t.idleWaiters = s.idleWaiters
<1> DEFINE l == Append(s.log, entry)
<1>1. l \in Seq(Entries)
  BY DEF SessionRecords
<1>2. t = [s EXCEPT !.log = l]
  BY DEF Logged
<1> HIDE DEF l
<1> QED
  BY <1>1, <1>2 DEF SessionRecords

LEMMA NotifiedTypes ==
  ASSUME NEW s \in SessionRecords, NEW t, t = Notified(s)
  PROVE  t \in SessionRecords /\ t.status = s.status /\ t.tokens = s.tokens
<1> DEFINE l == <<>>
<1>1. l \in Seq(Nat)
  OBVIOUS
<1>2. t = [s EXCEPT !.idleWaiters = l]
  BY DEF Notified
<1> HIDE DEF l
<1> QED
  BY <1>1, <1>2 DEF SessionRecords

\* After a notification nobody waits.
LEMMA NobodyWaits ==
  ASSUME AcpTypeOK, WaitersListed, NEW status \in Standings
  PROVE  /\ Told(status) \in Seq(Waits)
         /\ \A w \in DOMAIN Told(status) : Told(status)[w].at # "waiting"
<1>1. waits \in Seq(Waits)
  BY DEF AcpTypeOK
<1>2. \A w \in DOMAIN waits : waits[w] \in Waits
  BY <1>1
<1>3. [at |-> "told", status |-> status] \in Waits
  BY DEF Waits
<1>4. /\ DOMAIN Told(status) = DOMAIN waits
      /\ \A w \in DOMAIN waits : Told(status)[w] \in Waits /\ Told(status)[w].at # "waiting"
  BY <1>2, <1>3 DEF Told, WaitersListed
<1>5. Told(status) \in [1..Len(waits) -> Waits]
  BY <1>1, <1>4 DEF Told
<1> QED
  BY <1>1, <1>4, <1>5

LEMMA AcpStarts == AcpInit => AcpInv
<1> SUFFICES ASSUME AcpInit PROVE AcpInv
  OBVIOUS
<1>1. /\ session.status = "IDLE" /\ session.tokens = 0
      /\ executions = <<>> /\ waits = <<>> /\ cancels = <<>>
  BY DEF AcpInit
<1>2. AcpTypeOK
  BY DEF AcpInit, AcpTypeOK, NoExecution, SessionRecords, Standings
<1>3. DOMAIN executions = {} /\ Live = {}
  BY <1>1 DEF Live
<1>4. Sum(Used, DOMAIN executions) = 0
  BY <1>3, SumOfNone, FS_EmptySet
<1> QED
  BY <1>1, <1>2, <1>3, <1>4
  DEF AcpInv, WaitersListed, OneAtATime, NoForgottenWaiter, StatusTellsTheRun

\* What a run that returns or throws changes of the executions.
LEMMA RunEnds ==
  ASSUME AcpInv, NEW e \in DOMAIN executions, executions[e].at = "running",
         NEW at \in {"returned", "threw"}, NEW tokens \in Nat,
         executions' = [executions EXCEPT ![e].at = at, ![e].tokens = tokens]
  PROVE  /\ executions' \in Seq(Executions)
         /\ DOMAIN executions' = DOMAIN executions
         /\ \A f \in DOMAIN executions : executions'[f].alone = executions[f].alone
         /\ Live' = Live \ {e} /\ e \in Live
         /\ \A f \in Live' : executions'[f].tokens = 0
         /\ Sum(Used, DOMAIN executions)' = Sum(Used, DOMAIN executions) + tokens
<1>1. /\ executions \in Seq(Executions)
      /\ \A f \in DOMAIN executions : executions[f] \in Executions
      /\ \A f \in Live : executions[f].tokens = 0
  BY DEF AcpInv, AcpTypeOK
<1> DEFINE x == [executions[e] EXCEPT !.at = at, !.tokens = tokens]
<1>2. x \in Executions /\ x.at = at /\ x.tokens = tokens /\ x.alone = executions[e].alone
  BY <1>1 DEF Executions
<1>3. executions' = [executions EXCEPT ![e] = x]
  BY <1>1
<1> HIDE DEF x
<1>4. /\ executions' \in Seq(Executions) /\ DOMAIN executions' = DOMAIN executions
      /\ executions'[e] = x
      /\ \A f \in DOMAIN executions \ {e} : executions'[f] = executions[f]
  <2> DEFINE t == executions'
  <2>1. executions \in Seq(Executions) /\ t = [executions EXCEPT ![e] = x]
    BY <1>1, <1>3
  <2> HIDE DEF t
  <2>2. /\ t \in Seq(Executions) /\ DOMAIN t = DOMAIN executions /\ t[e] = x
        /\ \A f \in DOMAIN executions \ {e} : t[f] = executions[f]
    BY <1>2, <2>1, OneReplaced
  <2> QED
    BY <2>2 DEF t
<1>5. Live' = Live \ {e} /\ e \in Live
  BY <1>2, <1>4 DEF Live
<1>6. Sum(Used, DOMAIN executions)' = Sum(Used, DOMAIN executions) + tokens
  <2> DEFINE old == Used
             new == Used'
             D == DOMAIN executions
  <2>1. IsFiniteSet(D)
    <3>1. D = 1..Len(executions) /\ Len(executions) \in Nat
      BY <1>1
    <3> QED
      BY <3>1, FS_Interval
  <2>2. old \in [D -> Int] /\ old[e] = 0
    BY <1>1, <1>5 DEF Used, Executions
  <2>3. new \in [D -> Int] /\ new[e] = tokens /\ \A f \in D \ {e} : new[f] = old[f]
    BY <1>1, <1>2, <1>4 DEF Used, Executions
  <2> HIDE DEF old, new
  <2>4. Sum(new, D) = Sum(old, D) + new[e] - old[e] /\ Sum(old, D) \in Int
    <3>1. Sum(old, D) \in Int
      BY <2>1, <2>2, PartialIsInt, SumIsPartial
    <3> QED
      BY <2>1, <2>2, <2>3, <3>1, SumMoves
  <2>5. Sum(new, D) = Sum(old, D) + tokens
    BY <2>2, <2>3, <2>4
  <2> QED
    BY <1>4, <2>5 DEF old, new
<1>7. \A f \in Live' : executions'[f].tokens = 0
  <2>1. Live \subseteq DOMAIN executions
    BY DEF Live
  <2> QED
    BY <1>1, <1>4, <1>5, <2>1
<1>8. \A f \in DOMAIN executions : executions'[f].alone = executions[f].alone
  BY <1>2, <1>4
<1> QED
  BY <1>4, <1>5, <1>6, <1>7, <1>8

\* The end of a run tells those who wait and adds what the run used.
LEMMA ReturnKeeps ==
  ASSUME AcpInv, NEW e \in DOMAIN executions, NEW success \in BOOLEAN, NEW tokens \in 1..MaxTokens,
         ExecutionReturns(e, success, tokens)
  PROVE  AcpInv'
<1> DEFINE status == IF success THEN "COMPLETED" ELSE "FAILED"
<1>0. AcpTypeOK /\ WaitersListed /\ OneAtATime /\ tokens \in Nat
  BY DEF AcpInv
<1>1. /\ waits' = Told(status) /\ cancels' = cancels
      /\ executions' = [executions EXCEPT ![e].at = "returned", ![e].tokens = tokens]
      /\ executions[e].at = "running"
  BY DEF ExecutionReturns
<1>2. /\ session' \in SessionRecords
      /\ session'.status = status /\ session'.tokens = session.tokens + tokens
  <2>1. e \in Nat
    BY <1>0 DEF AcpTypeOK
  <2> DEFINE a == Added(session, e, tokens)
             s == [a EXCEPT !.status = status]
             l == Logged(s, "agent_message")
  <2>2. session \in SessionRecords /\ status \in Standings
    BY <1>0 DEF AcpTypeOK, Standings
  <2>3. a \in SessionRecords /\ a.tokens = session.tokens + tokens
    <3> DEFINE spent == session.tokens + tokens
               rounds == session.iterations + 1
    <3>1. a = [session EXCEPT !.active = e, !.tokens = spent, !.iterations = rounds]
      BY DEF Added
    <3>2. spent \in Nat /\ rounds \in Nat
      BY <1>0, <2>2 DEF SessionRecords
    <3> HIDE DEF spent, rounds, a
    <3>3. a \in SessionRecords /\ a.tokens = spent
      BY <2>1, <2>2, <3>1, <3>2 DEF SessionRecords
    <3> QED
      BY <3>3 DEF spent
  <2> HIDE DEF a
  <2>4. s \in SessionRecords /\ s.tokens = a.tokens /\ s.status = status
    BY <2>2, <2>3 DEF SessionRecords
  <2> HIDE DEF s
  <2>5. l \in SessionRecords /\ l.tokens = a.tokens /\ l.status = status
    BY <2>4, LogTypes DEF Entries
  <2>6. session' = Notified(l)
    BY DEF ExecutionReturns, l, s, a
  <2> HIDE DEF l
  <2> QED
    BY <2>3, <2>5, <2>6, NotifiedTypes
<1>3. /\ executions' \in Seq(Executions)
      /\ DOMAIN executions' = DOMAIN executions
      /\ \A f \in DOMAIN executions : executions'[f].alone = executions[f].alone
      /\ Live' = Live \ {e} /\ e \in Live
      /\ \A f \in Live' : executions'[f].tokens = 0
      /\ Sum(Used, DOMAIN executions)' = Sum(Used, DOMAIN executions) + tokens
  BY <1>0, <1>1, RunEnds
<1>4. status \in Standings /\ status # "RUNNING"
  BY DEF Standings
<1> HIDE DEF status
<1>5. waits' \in Seq(Waits) /\ \A w \in DOMAIN waits' : waits'[w].at # "waiting"
  BY <1>0, <1>1, <1>4, NobodyWaits
<1>6. AcpTypeOK'
  BY <1>0, <1>1, <1>2, <1>3, <1>5 DEF AcpTypeOK
<1>7. OneAtATime'
  BY <1>0, <1>3 DEF OneAtATime
<1>8. StatusTellsTheRun'
  <2>1. (\A f \in DOMAIN executions' : executions'[f].alone) => Live' = {}
    BY <1>0, <1>3 DEF OneAtATime
  <2> QED
    BY <1>2, <1>4, <2>1 DEF StatusTellsTheRun
<1>9. session'.tokens = Sum(Used, DOMAIN executions)'
  BY <1>2, <1>3 DEF AcpInv
<1> QED
  BY <1>3, <1>5, <1>6, <1>7, <1>8, <1>9 DEF AcpInv, WaitersListed, NoForgottenWaiter

LEMMA ThrowKeeps ==
  ASSUME AcpInv, NEW e \in DOMAIN executions, ExecutionThrows(e)
  PROVE  AcpInv'
<1>0. AcpTypeOK /\ WaitersListed /\ OneAtATime /\ executions[e] \in Executions
  BY DEF AcpInv, AcpTypeOK
<1>1. /\ waits' = Told("FAILED") /\ cancels' = cancels
      /\ executions[e].at = "running" /\ e \in Live
  BY DEF ExecutionThrows, Live
<1>2. /\ session' \in SessionRecords
      /\ session'.status = "FAILED" /\ session'.tokens = session.tokens
  <2> DEFINE s == [session EXCEPT !.status = "FAILED"]
  <2>1. s \in SessionRecords /\ s.tokens = session.tokens /\ s.status = "FAILED"
    BY <1>0 DEF AcpTypeOK, SessionRecords, Standings
  <2>2. session' = Notified(s)
    BY DEF ExecutionThrows
  <2> HIDE DEF s
  <2> QED
    BY <2>1, <2>2, NotifiedTypes
<1>3. executions' = [executions EXCEPT ![e].at = "threw", ![e].tokens = 0]
  <2>1. [executions[e] EXCEPT !.at = "threw"] = [executions[e] EXCEPT !.at = "threw", !.tokens = 0]
    BY <1>0, <1>1 DEF AcpInv, Executions
  <2> QED
    BY <1>0, <2>1 DEF ExecutionThrows, AcpTypeOK
<1>4. /\ executions' \in Seq(Executions)
      /\ DOMAIN executions' = DOMAIN executions
      /\ \A f \in DOMAIN executions : executions'[f].alone = executions[f].alone
      /\ Live' = Live \ {e} /\ e \in Live
      /\ \A f \in Live' : executions'[f].tokens = 0
      /\ Sum(Used, DOMAIN executions)' = Sum(Used, DOMAIN executions) + 0
  BY <1>1, <1>3, RunEnds
<1>5. waits' \in Seq(Waits) /\ \A w \in DOMAIN waits' : waits'[w].at # "waiting"
  BY <1>0, <1>1, NobodyWaits DEF Standings
<1>6. AcpTypeOK'
  BY <1>0, <1>1, <1>2, <1>4, <1>5 DEF AcpTypeOK
<1>7. OneAtATime'
  BY <1>0, <1>4 DEF OneAtATime
<1>8. StatusTellsTheRun'
  <2>1. (\A f \in DOMAIN executions' : executions'[f].alone) => Live' = {}
    BY <1>0, <1>4 DEF OneAtATime
  <2> QED
    BY <1>2, <2>1 DEF StatusTellsTheRun
<1>9. session'.tokens = Sum(Used, DOMAIN executions)'
  <2>1. session.tokens \in Nat /\ session.tokens = Sum(Used, DOMAIN executions)
    BY <1>0 DEF AcpInv, AcpTypeOK, SessionRecords
  <2> QED
    BY <1>2, <1>4, <2>1
<1> QED
  BY <1>4, <1>5, <1>6, <1>7, <1>8, <1>9 DEF AcpInv, WaitersListed, NoForgottenWaiter

\* A message begins a run, beside the ones under way if they are.
LEMMA SendKeeps ==
  ASSUME AcpInv, SendMessage
  PROVE  AcpInv'
<1>0. AcpTypeOK /\ WaitersListed /\ OneAtATime
  BY DEF AcpInv
<1> DEFINE n == Len(executions)
           x == [at |-> "running", tokens |-> 0, alone |-> Live = {}]
<1>1. /\ executions' = Append(executions, x) /\ waits' = waits /\ cancels' = cancels
      /\ executions \in Seq(Executions)
  BY <1>0 DEF SendMessage, AcpTypeOK
<1>2. x \in Executions /\ x.at = "running" /\ x.tokens = 0 /\ x.alone = (Live = {})
  BY DEF Executions
<1> HIDE DEF x
<1>3. /\ n \in Nat /\ DOMAIN executions = 1..n /\ DOMAIN executions' = 1..(n + 1)
      /\ executions' \in Seq(Executions) /\ executions'[n + 1] = x
      /\ \A f \in 1..n : executions'[f] = executions[f] /\ executions[f] \in Executions
  BY <1>1, <1>2
<1> HIDE DEF n
<1>4. Live \subseteq 1..n /\ Live' = Live \cup {n + 1} /\ n + 1 \notin 1..n
  BY <1>2, <1>3 DEF Live
<1>5. /\ session' \in SessionRecords /\ session'.status = "RUNNING"
      /\ session'.tokens = session.tokens /\ session'.idleWaiters = session.idleWaiters
  <2> DEFINE s == [session EXCEPT !.status = "RUNNING"]
  <2>1. /\ s \in SessionRecords /\ s.tokens = session.tokens /\ s.status = "RUNNING"
        /\ s.idleWaiters = session.idleWaiters
    BY <1>0 DEF AcpTypeOK, SessionRecords, Standings
  <2>2. session' = Logged(s, "user_message")
    BY DEF SendMessage
  <2> HIDE DEF s
  <2> QED
    BY <2>1, <2>2, LogTypes DEF Entries
<1>6. AcpTypeOK'
  BY <1>0, <1>1, <1>3, <1>5 DEF AcpTypeOK
<1>7. OneAtATime'
  <2>1. SUFFICES ASSUME \A e \in 1..(n + 1) : executions'[e].alone
                 PROVE  \A e, f \in Live' : e = f
    BY <1>3 DEF OneAtATime
  <2>2. n + 1 \in 1..(n + 1)
    BY <1>3
  <2>3. Live = {}
    BY <1>2, <1>3, <2>1, <2>2
  <2> QED
    BY <1>4, <2>3
<1>8. StatusTellsTheRun'
  BY <1>4, <1>5 DEF StatusTellsTheRun
<1>9. \A e \in Live' : executions'[e].tokens = 0
  BY <1>2, <1>3, <1>4 DEF AcpInv
<1>10. session'.tokens = Sum(Used, DOMAIN executions)'
  <2> DEFINE old == Used
             new == Used'
  <2>1. IsFiniteSet(1..n) /\ (1..n) \cup {n + 1} = 1..(n + 1)
    <3>1. IsFiniteSet(1..n)
      BY <1>3, FS_Interval
    <3> QED
      BY <1>3, <3>1
  <2>2. \A e \in 1..n : old[e] = new[e] /\ new[e] \in Int
    BY <1>3 DEF Used, Executions
  <2>3. new[n + 1] = 0
    BY <1>2, <1>3 DEF Used
  <2> HIDE DEF old, new
  <2>4. Sum(new, 1..(n + 1)) = Sum(old, 1..n) + new[n + 1] /\ Sum(old, 1..n) \in Int
    <3> DEFINE S == 1..n
               a == n + 1
    <3>1. IsFiniteSet(S) /\ a \notin S /\ new[a] \in Int /\ S \cup {a} = 1..(n + 1)
      BY <1>4, <2>1, <2>3
    <3>2. \A e \in S : old[e] = new[e] /\ new[e] \in Int
      BY <2>2
    <3> HIDE DEF S, a
    <3>3. Sum(new, S \cup {a}) = Sum(old, S) + new[a] /\ Sum(old, S) \in Int
      BY <3>1, <3>2, SumGrows
    <3> QED
      BY <3>1, <3>3 DEF S, a
  <2>5. Sum(new, 1..(n + 1)) = Sum(old, 1..n)
    BY <2>3, <2>4
  <2> QED
    BY <1>3, <1>5, <2>5 DEF AcpInv, old, new
<1>11. WaitersListed' /\ NoForgottenWaiter'
  BY <1>0, <1>1, <1>5 DEF WaitersListed, NoForgottenWaiter
<1> QED
  BY <1>6, <1>7, <1>8, <1>9, <1>10, <1>11 DEF AcpInv

\* What an action that leaves the runs alone keeps of the invariant.
LEMMA RunsKeep ==
  ASSUME AcpInv, executions' = executions, session'.tokens = session.tokens
  PROVE  /\ Live' = Live /\ OneAtATime'
         /\ \A e \in Live' : executions'[e].tokens = 0
         /\ session'.tokens = Sum(Used, DOMAIN executions)'
<1>1. Live' = Live
  BY DEF Live
<1>2. Sum(Used, DOMAIN executions)' = Sum(Used, DOMAIN executions)
  BY DEF Used
<1> QED
  BY <1>1, <1>2 DEF AcpInv, OneAtATime

LEMMA BeginCancelKeeps ==
  ASSUME AcpInv, BeginCancel
  PROVE  AcpInv'
<1> DEFINE x == [at |-> "open", execution |-> IF session.status = "RUNNING" THEN session.active
                                              ELSE NoExecution]
<1>1. /\ cancels' = Append(cancels, x) /\ UNCHANGED <<session, executions, waits>>
      /\ AcpTypeOK
  BY DEF BeginCancel, AcpInv
<1>2. x \in [at: {"open", "done"}, execution: Nat]
  BY <1>1 DEF AcpTypeOK, SessionRecords, NoExecution
<1> HIDE DEF x
<1>3. AcpTypeOK' /\ cancels' # <<>>
  BY <1>1, <1>2 DEF AcpTypeOK
<1>4. /\ OneAtATime' /\ \A e \in Live' : executions'[e].tokens = 0
      /\ session'.tokens = Sum(Used, DOMAIN executions)'
  BY <1>1, RunsKeep
<1> QED
  BY <1>1, <1>3, <1>4 DEF AcpInv, WaitersListed, NoForgottenWaiter, StatusTellsTheRun

LEMMA EndCancelKeeps ==
  ASSUME AcpInv, NEW c \in DOMAIN cancels, EndCancel(c)
  PROVE  AcpInv'
<1>0. AcpTypeOK /\ WaitersListed
  BY DEF AcpInv
<1>1. /\ waits' = Told("CANCELLED") /\ executions' = executions
      /\ cancels' = [cancels EXCEPT ![c].at = "done"]
  BY DEF EndCancel
<1>2. /\ session' \in SessionRecords /\ session'.tokens = session.tokens
      /\ session'.status = "CANCELLED"
  <2> DEFINE s == [session EXCEPT !.status = "CANCELLED"]
             l == Logged(s, "custom")
  <2>1. s \in SessionRecords /\ s.tokens = session.tokens /\ s.status = "CANCELLED"
    BY <1>0 DEF AcpTypeOK, SessionRecords, Standings
  <2> HIDE DEF s
  <2>2. l \in SessionRecords /\ l.tokens = session.tokens /\ l.status = "CANCELLED"
    BY <2>1, LogTypes DEF Entries
  <2>3. session' = Notified(l)
    BY DEF EndCancel, s, l
  <2> HIDE DEF l
  <2> QED
    BY <2>2, <2>3, NotifiedTypes
<1>3. waits' \in Seq(Waits) /\ \A w \in DOMAIN waits' : waits'[w].at # "waiting"
  BY <1>0, <1>1, NobodyWaits DEF Standings
<1>4. cancels' \in Seq([at: {"open", "done"}, execution: Nat]) /\ cancels' # <<>>
  <2> DEFINE R == [at: {"open", "done"}, execution: Nat]
             x == [cancels[c] EXCEPT !.at = "done"]
  <2>1. cancels \in Seq(R) /\ cancels[c] \in R
    <3>1. cancels \in Seq(R)
      BY <1>0 DEF AcpTypeOK
    <3> HIDE DEF R
    <3> QED
      BY <3>1
  <2>2. x \in R /\ cancels' = [cancels EXCEPT ![c] = x]
    BY <1>1, <2>1
  <2> HIDE DEF x, R
  <2>3. cancels' \in Seq(R) /\ c \in DOMAIN cancels'
    BY <2>1, <2>2, OneReplaced
  <2> QED
    BY <2>3 DEF R
<1>5. AcpTypeOK'
  BY <1>0, <1>1, <1>2, <1>3, <1>4 DEF AcpTypeOK
<1>6. /\ OneAtATime' /\ \A e \in Live' : executions'[e].tokens = 0
      /\ session'.tokens = Sum(Used, DOMAIN executions)'
  BY <1>1, <1>2, RunsKeep
<1> QED
  BY <1>3, <1>4, <1>5, <1>6 DEF AcpInv, WaitersListed, NoForgottenWaiter, StatusTellsTheRun

\* Who waits joins the list or is told at once.
LEMMA AgentIdleKeeps ==
  ASSUME AcpInv, AgentIdle
  PROVE  AcpInv'
<1>0. AcpTypeOK /\ WaitersListed /\ waits \in Seq(Waits) /\ Len(waits) \in Nat
  BY DEF AcpInv, AcpTypeOK
<1>1. executions' = executions /\ cancels' = cancels
  BY DEF AgentIdle
<1>2. CASE session.status # "RUNNING"
  <2> DEFINE x == [at |-> "told", status |-> session.status]
  <2>1. waits' = Append(waits, x) /\ session' = session
    BY <1>2 DEF AgentIdle
  <2>2. x \in Waits /\ x.at # "waiting"
    BY <1>0 DEF AcpTypeOK, SessionRecords, Waits
  <2> HIDE DEF x
  <2>3. /\ waits' \in Seq(Waits)
        /\ \A w \in DOMAIN waits' :
             waits'[w].at = "waiting" => w \in DOMAIN waits /\ waits[w].at = "waiting"
    BY <1>0, <2>1, <2>2
  <2>4. AcpTypeOK'
    BY <1>0, <1>1, <2>1, <2>3 DEF AcpTypeOK
  <2>5. /\ OneAtATime' /\ \A e \in Live' : executions'[e].tokens = 0 /\ Live' = Live
        /\ session'.tokens = Sum(Used, DOMAIN executions)'
    BY <1>1, <2>1, RunsKeep
  <2>6. Live' = Live
    BY <1>1, <2>1, RunsKeep
  <2> QED
    BY <1>0, <1>1, <2>1, <2>3, <2>4, <2>5, <2>6
    DEF AcpInv, WaitersListed, NoForgottenWaiter, StatusTellsTheRun
<1>3. CASE session.status = "RUNNING"
  <2> DEFINE x == [at |-> "waiting", status |-> "RUNNING"]
             n == Len(waits) + 1
  <2>1. waits' = Append(waits, x) /\ session' = [session EXCEPT !.idleWaiters = Append(@, n)]
    BY <1>3 DEF AgentIdle
  <2>2. x \in Waits
    BY DEF Waits, Standings
  <2> HIDE DEF x
  <2>3. /\ session' \in SessionRecords /\ session'.tokens = session.tokens
        /\ session'.status = session.status /\ session'.idleWaiters = Append(session.idleWaiters, n)
        /\ session.idleWaiters \in Seq(Nat) /\ n \in Nat
    <3> DEFINE l == Append(session.idleWaiters, n)
    <3>1. session' = [session EXCEPT !.idleWaiters = l]
      BY <2>1
    <3>2. /\ l \in Seq(Nat) /\ session \in SessionRecords
          /\ session.idleWaiters \in Seq(Nat) /\ n \in Nat
      BY <1>0 DEF AcpTypeOK, SessionRecords
    <3> HIDE DEF l
    <3>3. /\ session' \in SessionRecords /\ session'.tokens = session.tokens
          /\ session'.status = session.status /\ session'.idleWaiters = l
      BY <3>1, <3>2 DEF SessionRecords
    <3> QED
      BY <3>2, <3>3 DEF l
  <2>4. /\ waits' \in Seq(Waits) /\ DOMAIN waits' = DOMAIN waits \cup {n}
        /\ \A w \in DOMAIN waits : waits'[w] = waits[w]
    BY <1>0, <2>1, <2>2
  <2>5. ToSet(session'.idleWaiters) = ToSet(session.idleWaiters) \cup {n}
    <3> DEFINE l == session.idleWaiters
               k == Append(l, n)
    <3>1. /\ DOMAIN k = DOMAIN l \cup {Len(k)} /\ Len(k) \notin DOMAIN l /\ k[Len(k)] = n
          /\ \A j \in DOMAIN l : k[j] = l[j]
      BY <2>3, OneMore
    <3>2. ToSet(k) = {k[j] : j \in DOMAIN k} /\ ToSet(l) = {l[j] : j \in DOMAIN l}
      BY DEF ToSet
    <3> HIDE DEF k, l
    <3>3. ToSet(k) = ToSet(l) \cup {n}
      BY <3>1, <3>2
    <3> QED
      BY <2>3, <3>3 DEF k, l
  <2>6. WaitersListed'
    BY <1>0, <2>4, <2>5 DEF WaitersListed
  <2>7. AcpTypeOK'
    BY <1>0, <1>1, <2>3, <2>4 DEF AcpTypeOK
  <2>8. /\ OneAtATime' /\ \A e \in Live' : executions'[e].tokens = 0
        /\ session'.tokens = Sum(Used, DOMAIN executions)' /\ Live' = Live
    BY <1>1, <2>3, RunsKeep
  <2> QED
    BY <1>1, <1>3, <2>3, <2>6, <2>7, <2>8 DEF AcpInv, NoForgottenWaiter, StatusTellsTheRun
<1> QED
  BY <1>2, <1>3

LEMMA IdleTimeoutKeeps ==
  ASSUME AcpInv, NEW w \in DOMAIN waits, IdleTimeout(w)
  PROVE  AcpInv'
<1> DEFINE x == [at |-> "timed out", status |-> session.status]
<1>0. AcpTypeOK /\ WaitersListed /\ waits \in Seq(Waits)
  BY DEF AcpInv, AcpTypeOK
<1>1. waits' = [waits EXCEPT ![w] = x] /\ UNCHANGED <<session, executions, cancels>>
  BY DEF IdleTimeout
<1>2. x \in Waits /\ x.at # "waiting"
  BY <1>0 DEF AcpTypeOK, SessionRecords, Waits
<1> HIDE DEF x
<1>3. /\ waits' \in Seq(Waits) /\ DOMAIN waits' = DOMAIN waits
      /\ \A v \in DOMAIN waits : waits'[v].at = "waiting" => waits[v].at = "waiting"
  <2>1. waits \in [1..Len(waits) -> Waits] /\ Len(waits) \in Nat
    BY <1>0
  <2>2. waits' \in [1..Len(waits) -> Waits]
    BY <1>1, <1>2, <2>1
  <2> QED
    BY <1>1, <1>2, <2>1, <2>2
<1>4. AcpTypeOK'
  BY <1>0, <1>1, <1>3 DEF AcpTypeOK
<1>5. /\ OneAtATime' /\ \A e \in Live' : executions'[e].tokens = 0
      /\ session'.tokens = Sum(Used, DOMAIN executions)' /\ Live' = Live
  BY <1>1, RunsKeep
<1> QED
  BY <1>0, <1>1, <1>3, <1>4, <1>5 DEF AcpInv, WaitersListed, NoForgottenWaiter, StatusTellsTheRun

LEMMA AcpStays == AcpInv /\ [AcpNext]_acpVars => AcpInv'
<1> SUFFICES ASSUME AcpInv, [AcpNext]_acpVars PROVE AcpInv'
  OBVIOUS
<1>1. CASE UNCHANGED acpVars
  <2>1. UNCHANGED <<session, executions, waits, cancels>>
    BY <1>1 DEF acpVars
  <2>2. /\ Live' = Live /\ OneAtATime' /\ \A e \in Live' : executions'[e].tokens = 0
        /\ session'.tokens = Sum(Used, DOMAIN executions)'
    BY <2>1, RunsKeep
  <2> QED
    BY <2>1, <2>2 DEF AcpInv, AcpTypeOK, WaitersListed, NoForgottenWaiter, StatusTellsTheRun
<1>2. ASSUME NEW e \in DOMAIN executions, NEW success \in BOOLEAN, NEW tokens \in 1..MaxTokens,
             ExecutionReturns(e, success, tokens)
      PROVE  AcpInv'
  BY <1>2, ReturnKeeps
<1>3. ASSUME NEW e \in DOMAIN executions, ExecutionThrows(e)
      PROVE  AcpInv'
  BY <1>3, ThrowKeeps
<1>4. ASSUME NEW c \in DOMAIN cancels, EndCancel(c)
      PROVE  AcpInv'
  BY <1>4, EndCancelKeeps
<1>5. ASSUME NEW w \in DOMAIN waits, IdleTimeout(w)
      PROVE  AcpInv'
  BY <1>5, IdleTimeoutKeeps
<1> QED
  BY <1>1, <1>2, <1>3, <1>4, <1>5, SendKeeps, BeginCancelKeeps, AgentIdleKeeps DEF AcpNext

LEMMA AcpPromises == AcpInv => AcpHolds
<1>1. ASSUME AcpInv
      PROVE  AcpHolds
  <2>1. session.tokens = Sum(Used, DOMAIN executions)
    BY <1>1 DEF AcpInv
  <2> QED
    BY <1>1, <2>1 DEF AcpInv, AcpHolds, UsageAdds, Sum
<1> QED
  BY <1>1

\* However messages, cancellations and calls that wait overlap: nobody waits for
\* a session that does not run, its status tells of its one run while there is
\* one at a time, and its usage is what its runs used (AcpHandlers).
THEOREM AcpCorrect == AcpSpec => []AcpHolds
BY AcpPromises, AcpStarts, AcpStays, PTL DEF AcpSpec
-----------------------------------------------------------------------------
\* The HTTP transport: requests and buckets

Places == {"200", "204", "400", "401", "404", "413", "415", "429", "500", "503",
           "stream", "body", "handling", "closed"}
HttpRequests == [client: HttpClients, route: Routes, at: Places, time: Nat,
                 size: Nat, replies: Nat]
Buckets == [tokens: Int, last: Nat]
HttpStates == [running: BOOLEAN, handler: BOOLEAN, now: Nat,
               buckets: [HttpClients -> Buckets], requests: Seq(HttpRequests),
               streams: SUBSET Nat]

\* The requests of a client that its bucket was asked about, and those let through.
Counted(h, c) == {r \in DOMAIN h.requests : /\ h.requests[r].client = c
                                            /\ h.requests[r].route # "options"}
LetIn(h, c, from, to) ==
  {r \in Counted(h, c) : h.requests[r].time \in from..to /\ h.requests[r].at # "429"}

\* What was let through and what is still in the bucket together stay below
\* what a full bucket and its refills give.
BucketFits(h, c) ==
  LET b == h.buckets[c]
  IN  /\ b.last <= h.now
      /\ \A r \in Counted(h, c) : b.tokens >= 0 /\ h.requests[r].time <= b.last
      /\ b.tokens >= 0 =>
           /\ b.tokens <= Burst * Share
           /\ \E q \in Counted(h, c) : h.requests[q].time = b.last
           /\ \A from \in 0..b.last :
                Cardinality(LetIn(h, c, from, h.now)) * Share + b.tokens
                  <= Burst * Share + (b.last - from) * Refill

Limited(h) ==
  \A c \in HttpClients : \A from \in 0..h.now : \A to \in from..h.now :
    Cardinality(LetIn(h, c, from, to)) * Share <= Burst * Share + (to - from) * Refill
Fair(h) ==
  \A r \in DOMAIN h.requests :
    h.requests[r].at = "429" =>
      \E q \in 1..(r - 1) : /\ h.requests[q].client = h.requests[r].client
                            /\ h.requests[q].route # "options"
                            /\ (h.requests[r].time - h.requests[q].time) * Refill < Share
\* A request has its one answer unless somebody works at it.
Answers1(q) == q.replies = IF q.at \in AtWork \cup {"closed"} THEN 0 ELSE 1
AnsweredOnce(h) ==
  /\ \A r \in DOMAIN h.requests :
       /\ Answers1(h.requests[r])
       /\ h.requests[r].at = "stream" => h.requests[r].client \in Authorized
       /\ h.requests[r].time <= h.now
  /\ \A r \in h.streams : r \in DOMAIN h.requests /\ h.requests[r].at = "stream"

HttpTypeOK == http \in HttpStates
HttpInv ==
  /\ HttpTypeOK
  /\ \A c \in HttpClients : BucketFits(http, c)
  /\ Limited(http) /\ Fair(http) /\ AnsweredOnce(http)

LEMMA HttpStarts == HttpInit => HttpInv
<1> SUFFICES ASSUME HttpInit PROVE HttpInv
  OBVIOUS
<1>1. HttpTypeOK
  <2> DEFINE b == [c \in HttpClients |-> [tokens |-> -1, last |-> 0]]
  <2>1. b \in [HttpClients -> Buckets] /\ <<>> \in Seq(HttpRequests)
    BY DEF Buckets
  <2> HIDE DEF b
  <2> QED
    BY <2>1 DEF HttpInit, HttpTypeOK, HttpStates, b
<1>2. /\ DOMAIN http.requests = {} /\ http.streams = {} /\ http.now = 0
      /\ \A c \in HttpClients : http.buckets[c].tokens = -1 /\ http.buckets[c].last = 0
  BY DEF HttpInit
<1>3. \A c \in HttpClients : Counted(http, c) = {} /\ BucketFits(http, c)
  BY <1>2 DEF Counted, BucketFits
<1>4. Limited(http)
  <2>1. SUFFICES ASSUME NEW c \in HttpClients, NEW from \in 0..http.now, NEW to \in from..http.now
                 PROVE  Cardinality(LetIn(http, c, from, to)) * Share
                          <= Burst * Share + (to - from) * Refill
    BY DEF Limited
  <2>2. LetIn(http, c, from, to) = {}
    BY <1>3 DEF LetIn
  <2>3. Cardinality(LetIn(http, c, from, to)) = 0
    BY <2>2, FS_EmptySet
  <2>4. from = 0 /\ to = 0 /\ Burst * Share \in Nat /\ Share \in Nat /\ Refill \in Nat
    BY <1>2, HttpConstants
  <2> QED
    BY <2>3, <2>4
<1> QED
  BY <1>1, <1>2, <1>3, <1>4 DEF HttpInv, Fair, AnsweredOnce

LEMMA HttpTypes ==
  ASSUME HttpInv
  PROVE  /\ http.now \in Nat /\ http.running \in BOOLEAN /\ http.handler \in BOOLEAN
         /\ http.requests \in Seq(HttpRequests) /\ http.streams \subseteq Nat
         /\ http.buckets \in [HttpClients -> Buckets]
         /\ \A c \in HttpClients : http.buckets[c] \in Buckets
         /\ \A r \in DOMAIN http.requests :
              /\ http.requests[r] \in HttpRequests
              /\ r \in Nat /\ http.requests[r].time \in Nat
<1>1. /\ http.now \in Nat /\ http.running \in BOOLEAN /\ http.handler \in BOOLEAN
      /\ http.requests \in Seq(HttpRequests) /\ http.streams \subseteq Nat
      /\ http.buckets \in [HttpClients -> Buckets]
  BY DEF HttpInv, HttpTypeOK, HttpStates
<1>2. \A r \in DOMAIN http.requests : http.requests[r] \in HttpRequests /\ r \in Nat
  BY <1>1
<1> QED
  BY <1>1, <1>2 DEF HttpRequests

\* Those let through are finitely many.
LEMMA LetInFinite ==
  ASSUME HttpInv, NEW c, NEW from, NEW to
  PROVE  /\ IsFiniteSet(LetIn(http, c, from, to)) /\ Cardinality(LetIn(http, c, from, to)) \in Nat
<1>1. DOMAIN http.requests = 1..Len(http.requests) /\ Len(http.requests) \in Nat
  BY HttpTypes
<1>2. LetIn(http, c, from, to) \subseteq 1..Len(http.requests)
  BY <1>1 DEF LetIn, Counted
<1>3. IsFiniteSet(1..Len(http.requests))
  <2> DEFINE n == Len(http.requests)
  <2>1. n \in Int
    BY <1>1
  <2> HIDE DEF n
  <2>2. IsFiniteSet(1..n)
    BY <2>1, FS_Interval
  <2> QED
    BY <2>2 DEF n
<1>4. IsFiniteSet(LetIn(http, c, from, to))
  BY <1>2, <1>3, FS_Subset
<1> QED
  BY <1>4, FS_CardinalityType

\* A step that changes of the requests only where one stands that is let through.
LEMMA StandingsMove ==
  ASSUME HttpInv, http' \in HttpStates,
         http'.now = http.now, http'.buckets = http.buckets,
         DOMAIN http'.requests = DOMAIN http.requests,
         \A r \in DOMAIN http.requests :
           /\ http'.requests[r].client = http.requests[r].client
           /\ http'.requests[r].route = http.requests[r].route
           /\ http'.requests[r].time = http.requests[r].time
           /\ http'.requests[r].at = "429" <=> http.requests[r].at = "429",
         AnsweredOnce(http')
  PROVE  HttpInv'
<1>1. \A c : Counted(http', c) = Counted(http, c)
  BY DEF Counted
<1>2. \A c, from, to : LetIn(http', c, from, to) = LetIn(http, c, from, to)
  BY <1>1 DEF LetIn, Counted
<1>3. \A c \in HttpClients : BucketFits(http', c)
  <2>1. SUFFICES ASSUME NEW c \in HttpClients PROVE BucketFits(http', c)
    OBVIOUS
  <2>2. BucketFits(http, c)
    BY DEF HttpInv
  <2>3. \A r \in Counted(http, c) : http'.requests[r].time = http.requests[r].time
    BY DEF Counted
  <2> QED
    BY <1>1, <1>2, <2>2, <2>3 DEF BucketFits
<1>4. Limited(http')
  BY <1>2 DEF HttpInv, Limited
<1>5. Fair(http')
  <2>1. \A r \in DOMAIN http.requests : 1..(r - 1) \subseteq DOMAIN http.requests
    BY HttpTypes
  <2> QED
    BY <2>1 DEF HttpInv, Fair
<1> QED
  BY <1>3, <1>4, <1>5 DEF HttpInv, HttpTypeOK

LEMMA FirstAnswers ==
  ASSUME NEW c, NEW route
  PROVE  /\ FirstAnswer(c, route) \in Places \ {"closed"}
         /\ route = "options" => FirstAnswer(c, route) = "204"
         /\ route # "options" => (FirstAnswer(c, route) = "429" <=> ~Admitted(c))
         /\ FirstAnswer(c, route) = "stream" => c \in Authorized
BY DEF FirstAnswer, Places

\* What the bucket of a client holds when it is asked.
LEMMA RefillTypes ==
  ASSUME HttpInv, NEW c \in HttpClients
  PROVE  LET b == http.buckets[c]
             k == Refilled(c)
         IN  /\ k \in Int /\ k <= Burst * Share
             /\ b.tokens < 0 => k = Burst * Share
             /\ b.tokens >= 0 => /\ k >= 0
                                 /\ k <= b.tokens + (http.now - b.last) * Refill
                                 /\ \/ k = Burst * Share
                                    \/ k = b.tokens + (http.now - b.last) * Refill
<1> DEFINE b == http.buckets[c]
           full == Burst * Share
           back == (http.now - b.last) * Refill
<1>1. /\ b.tokens \in Int /\ b.last \in Nat /\ http.now \in Nat /\ b.last <= http.now
  BY HttpTypes DEF HttpInv, BucketFits, Buckets
<1>2. full \in Nat /\ back \in Nat
  BY <1>1, HttpConstants
<1>3. Refilled(c) = IF b.tokens < 0 THEN full ELSE Smaller(full, b.tokens + back)
  BY DEF Refilled
<1> HIDE DEF b, full, back
<1>4. LET k == Refilled(c)
      IN  /\ k \in Int /\ k <= full
          /\ b.tokens < 0 => k = full
          /\ b.tokens >= 0 => k >= 0 /\ k <= b.tokens + back /\ (k = full \/ k = b.tokens + back)
  BY <1>1, <1>2, <1>3 DEF Smaller
<1> QED
  BY <1>4 DEF b, full, back

\* A request takes its token or is turned away, and gets its first answer if it is
\* not at work then.
LEMMA AsksKeeps ==
  ASSUME HttpInv, NEW c \in HttpClients, NEW route \in Routes, Asks(c, route)
  PROVE  HttpInv'
<1> DEFINE to == FirstAnswer(c, route)
           n == Len(http.requests) + 1
           x == [client |-> c, route |-> route, at |-> to, time |-> http.now,
                 size |-> 0, replies |-> IF to \in AtWork THEN 0 ELSE 1]
           left == Refilled(c) - (IF Admitted(c) THEN Share ELSE 0)
           b == IF route = "options" THEN http.buckets[c] ELSE [tokens |-> left, last |-> http.now]
           q == Append(http.requests, x)
           open == IF to = "stream" THEN http.streams \cup {n} ELSE http.streams
           bs == [http.buckets EXCEPT ![c] = b]
<1>1. http' = [http EXCEPT !.requests = q, !.buckets = bs, !.streams = open]
  BY HttpTypes DEF Asks, HttpStates
<1>2. /\ http.now \in Nat /\ http.requests \in Seq(HttpRequests) /\ http.streams \subseteq Nat
      /\ http.buckets \in [HttpClients -> Buckets] /\ http \in HttpStates
  BY HttpTypes DEF HttpInv, HttpTypeOK
<1>3. /\ to \in Places \ {"closed"}
      /\ route = "options" => to = "204"
      /\ route # "options" => (to = "429" <=> ~Admitted(c))
      /\ to = "stream" => c \in Authorized
  BY FirstAnswers
<1>4. left \in Int
  BY RefillTypes, HttpConstants
<1>5. x \in HttpRequests
  BY <1>2, <1>3 DEF HttpRequests
<1>6. b \in Buckets
  BY <1>2, <1>4 DEF Buckets
<1>7. /\ bs \in [HttpClients -> Buckets] /\ bs[c] = b
      /\ \A d \in HttpClients \ {c} : bs[d] = http.buckets[d]
  BY <1>2, <1>6
<1>8. /\ x.client = c /\ x.route = route /\ x.at = to /\ x.time = http.now
      /\ x.replies = IF to \in AtWork THEN 0 ELSE 1
  OBVIOUS
<1>9. /\ route = "options" => b = http.buckets[c]
      /\ route # "options" => b.tokens = left /\ b.last = http.now
  OBVIOUS
<1>10. open \subseteq Nat /\ (\A r \in open : r \in http.streams \/ (r = n /\ to = "stream"))
  BY <1>2
<1> HIDE DEF x, b, bs, left, to, open
<1>11. /\ q \in Seq(HttpRequests) /\ n \in Nat /\ DOMAIN http.requests = 1..(n - 1)
       /\ DOMAIN q = 1..n /\ n \notin 1..(n - 1) /\ 1..n = 1..(n - 1) \cup {n}
       /\ q[n] = x
       /\ \A r \in 1..(n - 1) : q[r] = http.requests[r] /\ http.requests[r] \in HttpRequests
  BY <1>2, <1>5
<1> HIDE DEF q, n
<1>12. /\ http' \in HttpStates /\ http'.requests = q /\ http'.buckets = bs /\ http'.streams = open
       /\ http'.now = http.now
  BY <1>1, <1>2, <1>7, <1>10, <1>11 DEF HttpStates
<1>13. \A d \in HttpClients : Counted(http', d) =
         IF d = c /\ route # "options" THEN Counted(http, d) \cup {n} ELSE Counted(http, d)
  BY <1>8, <1>11, <1>12 DEF Counted
<1>14. ASSUME NEW d \in HttpClients, NEW from, NEW upto
       PROVE  LetIn(http', d, from, upto) =
                IF d = c /\ route # "options" /\ Admitted(c) /\ http.now \in from..upto
                THEN LetIn(http, d, from, upto) \cup {n} ELSE LetIn(http, d, from, upto)
  <2>1. Counted(http, d) \subseteq 1..(n - 1)
    BY <1>11 DEF Counted
  <2> QED
    BY <1>3, <1>8, <1>11, <1>12, <1>13, <2>1 DEF LetIn
<1> DEFINE full == Burst * Share
<1>15. full \in Nat /\ Share \in Nat /\ Share <= full /\ Refill \in Nat
  <2>1. Burst \in Nat /\ Burst >= 1 /\ Share \in Nat /\ Refill \in Nat
    BY HttpConstants
  <2> QED
    BY <2>1
<1> HIDE DEF full
<1>16. ASSUME NEW d \in HttpClients
       PROVE  BucketFits(http', d)
  <2>1. CASE d # c \/ route = "options"
    <3>1. Counted(http', d) = Counted(http, d) /\ http'.buckets[d] = http.buckets[d]
      BY <1>7, <1>9, <1>12, <1>13, <2>1
    <3>2. \A from, upto : LetIn(http', d, from, upto) = LetIn(http, d, from, upto)
      BY <1>14, <2>1
    <3>3. \A r \in Counted(http, d) : http'.requests[r].time = http.requests[r].time
      BY <1>11, <1>12 DEF Counted
    <3>4. BucketFits(http, d)
      BY DEF HttpInv
    <3> QED
      BY <1>12, <3>1, <3>2, <3>3, <3>4 DEF BucketFits
  <2>2. CASE d = c /\ route # "options"
    <3> DEFINE b0 == http.buckets[c]
               k == Refilled(c)
               gone == IF Admitted(c) THEN Share ELSE 0
    <3>1. /\ k \in Int /\ k <= full /\ k >= 0
          /\ b0.tokens < 0 => k = full
          /\ b0.tokens >= 0 => k <= b0.tokens + (http.now - b0.last) * Refill
      <4>1. /\ k \in Int /\ k <= full /\ (b0.tokens < 0 => k = full)
            /\ b0.tokens >= 0 => k >= 0 /\ k <= b0.tokens + (http.now - b0.last) * Refill
        BY RefillTypes DEF full
      <4>2. b0.tokens \in Int
        BY HttpTypes DEF Buckets
      <4> HIDE DEF b0, k
      <4> QED
        BY <1>15, <4>1, <4>2
    <3>2. left = k - gone /\ gone \in Nat /\ gone <= k /\ left >= 0 /\ left <= full
      BY <1>15, <3>1 DEF Admitted, left
    <3>3. b.tokens = left /\ b.last = http.now /\ http'.buckets[c] = b
      BY <1>7, <1>9, <1>12, <2>2
    <3>4. /\ b0 \in Buckets /\ b0.last <= http.now
          /\ \A r \in Counted(http, c) : b0.tokens >= 0 /\ http.requests[r].time <= b0.last
          /\ b0.tokens >= 0 => \A from \in 0..b0.last :
               Cardinality(LetIn(http, c, from, http.now)) * Share + b0.tokens
                  <= full + (b0.last - from) * Refill
      BY HttpTypes DEF HttpInv, BucketFits, full
    <3>5. Counted(http', c) = Counted(http, c) \cup {n}
      BY <1>13, <2>2
    <3>6. \A r \in Counted(http', c) : http'.requests[r].time <= http.now
      <4>1. \A r \in Counted(http, c) : r \in 1..(n - 1) /\ http.requests[r].time <= b0.last
        BY <1>11, <3>4 DEF Counted
      <4>2. \A r \in 1..(n - 1) : http.requests[r].time \in Nat
        BY <1>11 DEF HttpRequests
      <4> HIDE DEF b0
      <4> QED
        BY <1>2, <1>8, <1>11, <1>12, <3>4, <3>5, <4>1, <4>2 DEF Buckets
    <3>7. ASSUME NEW from \in 0..http.now
          PROVE  Cardinality(LetIn(http', c, from, http.now)) * Share + left
                   <= full + (http.now - from) * Refill
      <4> DEFINE old == LetIn(http, c, from, http.now)
                 new == LetIn(http', c, from, http.now)
                 N == Cardinality(old)
      <4>1. IsFiniteSet(old) /\ N \in Nat
        BY LetInFinite
      <4>2. new = IF Admitted(c) THEN old \cup {n} ELSE old
        <5>1. http.now \in from..http.now
          BY <1>2
        <5> QED
          BY <1>14, <2>2, <5>1
      <4>3. n \notin old
        BY <1>11 DEF LetIn, Counted
      <4>4. Cardinality(new) = IF Admitted(c) THEN N + 1 ELSE N
        BY <4>1, <4>2, <4>3, FS_AddElement
      <4> HIDE DEF new
      <4>5. Cardinality(new) * Share + left = N * Share + k
        <5>1. (N + 1) * Share = N * Share + Share
          BY <1>15, <4>1
        <5>2. N * Share \in Nat
          BY <1>15, <4>1
        <5> HIDE DEF N, k
        <5> QED
          BY <1>15, <3>1, <3>2, <4>4, <5>1, <5>2
      <4>6. N * Share + k <= full + (http.now - from) * Refill
        <5>1. CASE b0.tokens >= 0 /\ from <= b0.last
          <6>1. N * Share + b0.tokens <= full + (b0.last - from) * Refill
            BY <3>4, <5>1 DEF Buckets
          <6> DEFINE u == b0.last - from
                     v == http.now - b0.last
          <6>2. u \in Nat /\ v \in Nat /\ u + v = http.now - from
            BY <1>2, <3>4, <5>1 DEF Buckets
          <6>3. k <= b0.tokens + v * Refill
            BY <3>1, <5>1
          <6>4. N * Share + b0.tokens <= full + u * Refill
            BY <6>1
          <6>5. b0.tokens \in Int
            BY <3>4 DEF Buckets
          <6> HIDE DEF u, v, N, k, b0
          <6>6. (u + v) * Refill = u * Refill + v * Refill
            BY <1>15, <6>2
          <6>7. u * Refill \in Nat /\ v * Refill \in Nat /\ N * Share \in Nat
            BY <1>15, <4>1, <6>2 DEF N
          <6>8. N * Share + k <= full + (u + v) * Refill
            BY <1>15, <3>1, <6>3, <6>4, <6>5, <6>6, <6>7
          <6> QED
            BY <6>2, <6>8
        <5>2. CASE b0.tokens < 0 \/ ~(from <= b0.last)
          <6>1. old = {}
            <7>1. SUFFICES ASSUME NEW r \in old PROVE FALSE
              OBVIOUS
            <7>2. /\ r \in Counted(http, c) /\ http.requests[r].time >= from
                  /\ http.requests[r].time \in Nat
              BY HttpTypes DEF LetIn, Counted
            <7> QED
              BY <3>4, <5>2, <7>2 DEF Buckets
          <6>2. N = 0
            BY <6>1, FS_EmptySet
          <6>3. (http.now - from) * Refill \in Nat
            BY <1>2, <1>15
          <6> HIDE DEF N, k
          <6> QED
            BY <1>15, <3>1, <6>2, <6>3
        <5> QED
          BY <3>4, <5>1, <5>2 DEF Buckets
      <4> QED
        BY <4>5, <4>6 DEF new
    <3>8. \E r \in Counted(http', c) : http'.requests[r].time = http.now
      BY <1>8, <1>11, <1>12, <3>5
    <3> HIDE DEF b0, k, gone
    <3> QED
      BY <1>2, <1>12, <2>2, <3>2, <3>3, <3>6, <3>7, <3>8 DEF BucketFits, full
  <2> QED
    BY <2>1, <2>2
<1>17. ASSUME NEW d \in HttpClients, NEW from \in 0..http.now, NEW upto \in from..http.now
       PROVE  Cardinality(LetIn(http', d, from, upto)) * Share
                <= Burst * Share + (upto - from) * Refill
  <2>1. CASE d = c /\ route # "options" /\ upto = http.now
    <3> DEFINE b1 == http'.buckets[c]
    <3>1. /\ b1.last = http.now /\ b1.tokens >= 0 /\ b1.tokens \in Int
      <4>1. \E r \in Counted(http', c) : TRUE
        BY <1>13, <2>1
      <4>2. BucketFits(http', c)
        BY <1>16
      <4>3. b1.last = http.now /\ b1.tokens \in Int
        BY <1>6, <1>7, <1>9, <1>12, <2>1 DEF Buckets
      <4> QED
        BY <4>1, <4>2, <4>3 DEF BucketFits
    <3> DEFINE N == Cardinality(LetIn(http', c, from, http.now))
    <3>2. N * Share + b1.tokens <= full + (http.now - from) * Refill
      <4>1. BucketFits(http', c)
        BY <1>16
      <4> QED
        BY <1>2, <1>12, <3>1, <4>1 DEF BucketFits, full
    <3>3. N * Share \in Int /\ full + (http.now - from) * Refill \in Int
      <4>1. N \in Nat
        <5>1. IsFiniteSet(LetIn(http, c, from, http.now))
          BY LetInFinite
        <5>2. IsFiniteSet(LetIn(http', c, from, http.now))
          BY <1>14, <5>1, FS_AddElement
        <5> QED
          BY <5>2, FS_CardinalityType
      <4> QED
        BY <1>2, <1>15, <4>1
    <3> HIDE DEF N, b1
    <3>4. N * Share <= full + (http.now - from) * Refill
      BY <3>1, <3>2, <3>3
    <3> QED
      BY <2>1, <3>4 DEF N, full
  <2>2. CASE ~(d = c /\ route # "options" /\ upto = http.now)
    <3>1. LetIn(http', d, from, upto) = LetIn(http, d, from, upto)
      BY <1>2, <1>14, <2>2
    <3> QED
      BY <3>1 DEF HttpInv, Limited
  <2> QED
    BY <2>1, <2>2
<1>18. Fair(http')
  <2>1. SUFFICES ASSUME NEW r \in 1..n, q[r].at = "429"
                 PROVE  \E p \in 1..(r - 1) : /\ q[p].client = q[r].client /\ q[p].route # "options"
                                              /\ (q[r].time - q[p].time) * Refill < Share
    BY <1>11, <1>12 DEF Fair
  <2>2. CASE r # n
    <3>1. r \in 1..(n - 1) /\ 1..(r - 1) \subseteq 1..(n - 1)
      BY <1>11, <2>2
    <3> QED
      BY <1>11, <2>1, <3>1 DEF HttpInv, Fair
  <2>3. CASE r = n
    <3> DEFINE b0 == http.buckets[c]
    <3>1. route # "options" /\ ~Admitted(c)
      BY <1>3, <1>8, <1>11, <2>1, <2>3
    <3>2. /\ b0.tokens \in Int /\ b0.last \in Nat
          /\ Refilled(c) \in Int /\ Refilled(c) < Share
      BY <3>1, HttpTypes, RefillTypes, <1>15 DEF Admitted, Buckets
    <3>3. b0.tokens >= 0 /\ Refilled(c) = b0.tokens + (http.now - b0.last) * Refill
      BY <1>15, <3>2, RefillTypes DEF full
    <3>4. (http.now - b0.last) * Refill < Share
      <4> DEFINE back == (http.now - b0.last) * Refill
      <4>1. back \in Int
        BY <1>2, <1>15, <3>2
      <4> HIDE DEF back, b0
      <4>2. Refilled(c) = b0.tokens + back
        BY <3>3 DEF back
      <4>3. back < Share
        BY <1>15, <3>2, <3>3, <4>1, <4>2
      <4> QED
        BY <4>3 DEF back
    <3>5. PICK p \in Counted(http, c) : http.requests[p].time = b0.last
      BY <3>3 DEF HttpInv, BucketFits
    <3>6. p \in 1..(n - 1) /\ q[p] = http.requests[p] /\ q[p].client = c /\ q[p].route # "options"
      BY <1>11 DEF Counted
    <3> QED
      BY <1>8, <1>11, <2>3, <3>4, <3>5, <3>6
  <2> QED
    BY <2>2, <2>3
<1>19. AnsweredOnce(http')
  <2>1. to # "closed"
    BY <1>3
  <2>2. Answers1(x) /\ (x.at = "stream" => x.client \in Authorized) /\ x.time <= http.now
    BY <1>2, <1>3, <1>8 DEF Answers1
  <2>3. \A r \in 1..n : /\ Answers1(q[r]) /\ (q[r].at = "stream" => q[r].client \in Authorized)
                        /\ q[r].time <= http.now
    BY <1>11, <2>2 DEF HttpInv, AnsweredOnce
  <2>4. \A r \in open : r \in 1..n /\ q[r].at = "stream"
    BY <1>8, <1>10, <1>11 DEF HttpInv, AnsweredOnce
  <2> QED
    BY <1>11, <1>12, <2>3, <2>4 DEF AnsweredOnce
<1> QED
  BY <1>12, <1>16, <1>17, <1>18, <1>19 DEF HttpInv, HttpTypeOK, Limited

\* One request moves on, to an end or to its handler.
LEMMA RequestMoves ==
  ASSUME HttpInv, NEW r \in DOMAIN http.requests, NEW x \in HttpRequests,
         x.client = http.requests[r].client, x.route = http.requests[r].route,
         x.time = http.requests[r].time, http.requests[r].at # "429",
         x.at \notin {"429", "stream"}, Answers1(x),
         NEW open \in SUBSET (http.streams \ {r}),
         http' = [http EXCEPT !.requests = [http.requests EXCEPT ![r] = x], !.streams = open]
  PROVE  HttpInv'
<1> DEFINE q == [http.requests EXCEPT ![r] = x]
<1>1. /\ http.requests \in Seq(HttpRequests) /\ http.streams \subseteq Nat /\ http \in HttpStates
      /\ AnsweredOnce(http)
  BY HttpTypes DEF HttpInv, HttpTypeOK
<1>2. /\ q \in Seq(HttpRequests) /\ DOMAIN q = DOMAIN http.requests /\ q[r] = x
      /\ \A s \in DOMAIN http.requests \ {r} : q[s] = http.requests[s]
  <2> HIDE DEF q
  <2> QED
    BY <1>1, OneReplaced DEF q
<1>3. http' = [http EXCEPT !.requests = q, !.streams = open]
  OBVIOUS
<1> HIDE DEF q
<1>4. /\ http' \in HttpStates /\ http'.requests = q /\ http'.streams = open
      /\ http'.now = http.now /\ http'.buckets = http.buckets
  BY <1>1, <1>2, <1>3 DEF HttpStates
<1>5. AnsweredOnce(http')
  <2>1. \A s \in DOMAIN q : /\ Answers1(q[s]) /\ (q[s].at = "stream" => q[s].client \in Authorized)
                            /\ q[s].time <= http.now
    BY <1>1, <1>2 DEF AnsweredOnce
  <2>2. \A s \in open : s \in DOMAIN q /\ q[s].at = "stream"
    BY <1>1, <1>2 DEF AnsweredOnce
  <2> QED
    BY <1>4, <2>1, <2>2 DEF AnsweredOnce
<1>6. \A s \in DOMAIN http.requests :
        /\ q[s].client = http.requests[s].client /\ q[s].route = http.requests[s].route
        /\ q[s].time = http.requests[s].time /\ (q[s].at = "429" <=> http.requests[s].at = "429")
  BY <1>2
<1> QED
  BY <1>2, <1>4, <1>5, <1>6, StandingsMove

LEMMA RepliedKeeps ==
  ASSUME HttpInv, NEW r \in DOMAIN http.requests, http.requests[r].at \in {"body", "handling"},
         NEW at \in {"200", "400", "413", "500", "503"}, http' = Replied(r, at)
  PROVE  HttpInv'
<1> DEFINE old == http.requests[r]
           open == http.streams
<1>1. /\ old \in HttpRequests /\ http \in HttpStates /\ http.requests \in Seq(HttpRequests)
      /\ Answers1(old) /\ open \in SUBSET (http.streams \ {r})
  BY HttpTypes DEF HttpInv, HttpTypeOK, AnsweredOnce
<1>2. old.replies = 0
  BY <1>1 DEF Answers1, AtWork
<1> DEFINE x == [old EXCEPT !.at = at, !.replies = old.replies + 1]
<1>3. http' = [http EXCEPT !.requests = [http.requests EXCEPT ![r] = x], !.streams = open]
  BY <1>1 DEF Replied, HttpStates
<1>4. /\ x \in HttpRequests /\ x.client = old.client /\ x.route = old.route /\ x.time = old.time
      /\ x.at = at /\ x.replies = 1
  <2> DEFINE k == old.replies + 1
  <2>1. at \in Places /\ k = 1 /\ x = [old EXCEPT !.at = at, !.replies = k]
    BY <1>2 DEF Places
  <2> HIDE DEF old, x, k
  <2> QED
    BY <1>1, <2>1 DEF HttpRequests
<1> HIDE DEF x
<1>5. Answers1(x) /\ x.at \notin {"429", "stream"}
  BY <1>4 DEF Answers1, AtWork
<1> HIDE DEF open
<1> QED
  BY <1>1, <1>3, <1>4, <1>5, RequestMoves

LEMMA BodyChunkKeeps ==
  ASSUME HttpInv, NEW r \in DOMAIN http.requests, BodyChunk(r)
  PROVE  HttpInv'
<1> DEFINE old == http.requests[r]
           open == http.streams
<1>1. /\ old \in HttpRequests /\ http \in HttpStates /\ http.requests \in Seq(HttpRequests)
      /\ Answers1(old) /\ open \in SUBSET (http.streams \ {r}) /\ old.at = "body"
  BY HttpTypes DEF HttpInv, HttpTypeOK, AnsweredOnce, BodyChunk
<1>2. CASE old.size + 1 > MaxBody
  <2>1. http' = Replied(r, "413")
    BY <1>2 DEF BodyChunk
  <2> QED
    BY <1>1, <2>1, RepliedKeeps
<1>3. CASE ~(old.size + 1 > MaxBody)
  <2> DEFINE x == [old EXCEPT !.size = old.size + 1]
  <2>1. http' = [http EXCEPT !.requests = [http.requests EXCEPT ![r] = x], !.streams = open]
    BY <1>1, <1>3 DEF BodyChunk, HttpStates
  <2>2. /\ x \in HttpRequests /\ x.client = old.client /\ x.route = old.route /\ x.time = old.time
        /\ x.at = "body" /\ x.replies = old.replies
    <3> DEFINE k == old.size + 1
    <3>1. k \in Nat /\ x = [old EXCEPT !.size = k]
      BY <1>1 DEF HttpRequests
    <3> HIDE DEF old, x, k
    <3> QED
      BY <1>1, <3>1 DEF HttpRequests
  <2> HIDE DEF x
  <2>3. Answers1(x) /\ x.at \notin {"429", "stream"}
    BY <1>1, <2>2 DEF Answers1, AtWork
  <2> HIDE DEF open
  <2> QED
    BY <1>1, <2>1, <2>2, <2>3, RequestMoves
<1> QED
  BY <1>2, <1>3

LEMMA BodyEndsKeeps ==
  ASSUME HttpInv, NEW r \in DOMAIN http.requests, NEW valid \in BOOLEAN, BodyEnds(r, valid)
  PROVE  HttpInv'
<1> DEFINE old == http.requests[r]
           open == http.streams
<1>1. /\ old \in HttpRequests /\ http \in HttpStates /\ http.requests \in Seq(HttpRequests)
      /\ Answers1(old) /\ open \in SUBSET (http.streams \ {r}) /\ old.at = "body"
  BY HttpTypes DEF HttpInv, HttpTypeOK, AnsweredOnce, BodyEnds
<1>2. CASE ~valid \/ ~http.handler
  <2>1. http' = Replied(r, "400") \/ http' = Replied(r, "503")
    BY <1>2 DEF BodyEnds
  <2> QED
    BY <1>1, <2>1, RepliedKeeps
<1>3. CASE valid /\ http.handler
  <2> DEFINE x == [old EXCEPT !.at = "handling"]
  <2>1. http' = [http EXCEPT !.requests = [http.requests EXCEPT ![r] = x], !.streams = open]
    <3>1. http' = [http EXCEPT !.requests[r].at = "handling"]
      BY <1>3 DEF BodyEnds
    <3> QED
      BY <1>1, <3>1 DEF HttpStates
  <2>2. /\ x \in HttpRequests /\ x.client = old.client /\ x.route = old.route /\ x.time = old.time
        /\ x.at = "handling" /\ x.replies = old.replies
    <3>1. "handling" \in Places
      BY DEF Places
    <3> HIDE DEF old
    <3> QED
      BY <1>1, <3>1 DEF HttpRequests
  <2> HIDE DEF x
  <2>3. Answers1(x) /\ x.at \notin {"429", "stream"}
    BY <1>1, <2>2 DEF Answers1, AtWork
  <2> HIDE DEF open
  <2> QED
    BY <1>1, <2>1, <2>2, <2>3, RequestMoves
<1> QED
  BY <1>2, <1>3

LEMMA StreamClosesKeeps ==
  ASSUME HttpInv, NEW r \in DOMAIN http.requests, StreamCloses(r)
  PROVE  HttpInv'
<1> DEFINE old == http.requests[r]
           open == http.streams \ {r}
           x == [old EXCEPT !.at = "closed"]
<1>1. /\ old \in HttpRequests /\ http \in HttpStates /\ http.requests \in Seq(HttpRequests)
      /\ Answers1(old) /\ open \in SUBSET (http.streams \ {r}) /\ old.at = "stream"
  BY HttpTypes DEF HttpInv, HttpTypeOK, AnsweredOnce, StreamCloses
<1>2. http' = [http EXCEPT !.requests = [http.requests EXCEPT ![r] = x], !.streams = open]
  BY <1>1 DEF StreamCloses, HttpStates
<1>3. /\ x \in HttpRequests /\ x.client = old.client /\ x.route = old.route /\ x.time = old.time
      /\ x.at = "closed" /\ x.replies = old.replies
  <2>1. "closed" \in Places
    BY DEF Places
  <2> HIDE DEF old
  <2> QED
    BY <1>1, <2>1 DEF HttpRequests
<1> HIDE DEF x
<1>4. Answers1(x) /\ x.at \notin {"429", "stream"}
  BY <1>1, <1>3 DEF Answers1, AtWork
<1> HIDE DEF open
<1> QED
  BY <1>1, <1>2, <1>3, <1>4, RequestMoves

\* Nothing of the requests changes.
LEMMA RestMoves ==
  ASSUME HttpInv, http' \in HttpStates, http'.requests = http.requests, http'.now = http.now,
         http'.buckets = http.buckets, http'.streams \subseteq http.streams
  PROVE  HttpInv'
<1>1. AnsweredOnce(http')
  BY DEF HttpInv, AnsweredOnce
<1> QED
  BY <1>1, StandingsMove

LEMMA StopKeeps ==
  ASSUME HttpInv, StopServer
  PROVE  HttpInv'
<1> DEFINE old == http.requests
           q == [r \in DOMAIN old |-> IF r \in http.streams THEN [old[r] EXCEPT !.at = "closed"]
                                      ELSE old[r]]
<1>1. /\ old \in Seq(HttpRequests) /\ http \in HttpStates /\ AnsweredOnce(http)
      /\ \A r \in DOMAIN old : old[r] \in HttpRequests
  BY HttpTypes DEF HttpInv, HttpTypeOK
<1>2. http' = [http EXCEPT !.running = FALSE, !.streams = {}, !.requests = q]
  BY <1>1 DEF StopServer, HttpStates
<1>3. \A r \in DOMAIN old :
        /\ q[r] \in HttpRequests /\ q[r].client = old[r].client /\ q[r].route = old[r].route
        /\ q[r].time = old[r].time /\ q[r].replies = old[r].replies
        /\ q[r].at = IF r \in http.streams THEN "closed" ELSE old[r].at
  <2>1. ASSUME NEW y \in HttpRequests, NEW z, z = [y EXCEPT !.at = "closed"]
        PROVE  /\ z \in HttpRequests /\ z.client = y.client /\ z.route = y.route
               /\ z.time = y.time /\ z.replies = y.replies /\ z.at = "closed"
    BY <2>1 DEF HttpRequests, Places
  <2> QED
    BY <1>1, <2>1
<1>4. q \in Seq(HttpRequests) /\ DOMAIN q = DOMAIN old
  <2>1. DOMAIN old = 1..Len(old) /\ Len(old) \in Nat
    BY <1>1
  <2>2. q \in [1..Len(old) -> HttpRequests]
    BY <1>3, <2>1
  <2> QED
    BY <2>1, <2>2
<1> HIDE DEF q
<1>5. /\ http' \in HttpStates /\ http'.requests = q /\ http'.streams = {}
      /\ http'.now = http.now /\ http'.buckets = http.buckets
  <2> DEFINE none == {}
  <2>1. /\ none \subseteq Nat
        /\ http' = [http EXCEPT !.running = FALSE, !.streams = none, !.requests = q]
    BY <1>2
  <2> HIDE DEF none
  <2>2. /\ http' \in HttpStates /\ http'.requests = q /\ http'.streams = none
        /\ http'.now = http.now /\ http'.buckets = http.buckets
    BY <1>1, <1>4, <2>1 DEF HttpStates
  <2> QED
    BY <2>2 DEF none
<1>6. AnsweredOnce(http')
  <2>1. \A r \in DOMAIN old : Answers1(q[r])
    <3>1. SUFFICES ASSUME NEW r \in DOMAIN old PROVE Answers1(q[r])
      OBVIOUS
    <3>2. Answers1(old[r]) /\ (r \in http.streams => old[r].at = "stream")
      BY <1>1 DEF AnsweredOnce
    <3> QED
      BY <1>3, <3>2 DEF Answers1, AtWork
  <2>2. \A r \in DOMAIN old : /\ q[r].at = "stream" => q[r].client \in Authorized
                              /\ q[r].time <= http.now
    BY <1>1, <1>3 DEF AnsweredOnce
  <2> QED
    BY <1>4, <1>5, <2>1, <2>2 DEF AnsweredOnce
<1>7. \A r \in DOMAIN old :
        /\ q[r].client = old[r].client /\ q[r].route = old[r].route
        /\ q[r].time = old[r].time /\ (q[r].at = "429" <=> old[r].at = "429")
  BY <1>1, <1>3 DEF AnsweredOnce
<1> QED
  BY <1>4, <1>5, <1>6, <1>7, StandingsMove

\* Time lets the buckets be; what was let through by then was let through before.
LEMMA HttpClockKeeps ==
  ASSUME HttpInv, ClockTicks
  PROVE  HttpInv'
<1> DEFINE later == http.now + 1
<1>1. /\ http.now \in Nat /\ http \in HttpStates /\ AnsweredOnce(http) /\ later \in Nat
      /\ http' = [http EXCEPT !.now = later]
  BY HttpTypes DEF HttpInv, HttpTypeOK, ClockTicks
<1>2. /\ Burst \in Nat /\ Share \in Nat /\ Refill \in Nat /\ Burst * Share \in Nat
  BY HttpConstants
<1>3. http' \in HttpStates /\ http'.now = later /\ http'.requests = http.requests
      /\ http'.buckets = http.buckets /\ http'.streams = http.streams
  <2> HIDE DEF later
  <2> QED
    BY <1>1 DEF HttpStates
<1>4. \A r \in DOMAIN http.requests :
        http.requests[r].time \in Nat /\ http.requests[r].time <= http.now
  BY <1>1, HttpTypes DEF AnsweredOnce
<1>5. \A c : Counted(http', c) = Counted(http, c)
  BY <1>3 DEF Counted
<1>6. \A c, from, to : LetIn(http', c, from, to) = LetIn(http, c, from, to)
  BY <1>3, <1>5 DEF LetIn
<1>7. ASSUME NEW c, NEW from \in Nat
      PROVE  LetIn(http, c, from, later) = LetIn(http, c, from, http.now)
  <2>1. \A r \in DOMAIN http.requests :
          http.requests[r].time \in from..later <=> http.requests[r].time \in from..http.now
    BY <1>1, <1>4
  <2> QED
    BY <2>1 DEF LetIn, Counted
<1>8. ASSUME NEW c \in HttpClients
      PROVE  BucketFits(http', c)
  <2> DEFINE b == http.buckets[c]
  <2>1. BucketFits(http, c) /\ b \in Buckets
    BY HttpTypes DEF HttpInv
  <2>2. b.last <= later /\ b.last \in Nat
    BY <1>1, <2>1 DEF BucketFits, Buckets
  <2>3. \A from \in 0..b.last : LetIn(http', c, from, later) = LetIn(http, c, from, http.now)
    BY <1>6, <1>7, <2>2
  <2> HIDE DEF later
  <2> QED
    BY <1>3, <1>5, <2>1, <2>2, <2>3 DEF BucketFits
<1>9. ASSUME NEW c \in HttpClients, NEW from \in 0..later, NEW to \in from..later
      PROVE  Cardinality(LetIn(http', c, from, to)) * Share <= Burst * Share + (to - from) * Refill
  <2>1. LetIn(http', c, from, to) = LetIn(http, c, from, to) /\ from \in Nat /\ to \in Nat
    BY <1>1, <1>6
  <2>2. CASE to <= http.now
    <3>1. from \in 0..http.now /\ to \in from..http.now
      BY <1>1, <2>1, <2>2
    <3> QED
      BY <2>1, <3>1 DEF HttpInv, Limited
  <2>3. CASE to > http.now /\ from <= http.now
    <3> DEFINE N == Cardinality(LetIn(http, c, from, http.now))
               u == http.now - from
    <3>1. to = later /\ Cardinality(LetIn(http', c, from, to)) = N
      BY <1>1, <1>7, <2>1, <2>3
    <3>2. N * Share <= Burst * Share + u * Refill
      <4>1. from \in 0..http.now /\ http.now \in from..http.now
        BY <1>1, <2>1, <2>3
      <4> QED
        BY <4>1 DEF HttpInv, Limited
    <3>3. u \in Nat /\ to - from = u + 1
      BY <1>1, <2>1, <2>3, <3>1
    <3>4. N \in Nat
      BY LetInFinite
    <3> HIDE DEF N, u
    <3>5. (u + 1) * Refill = u * Refill + Refill /\ u * Refill \in Nat /\ N * Share \in Nat
      BY <1>2, <3>3, <3>4
    <3>6. N * Share <= Burst * Share + (u + 1) * Refill
      <4> DEFINE m == N * Share
                 k == u * Refill
                 l == Burst * Share
      <4>1. m \in Nat /\ k \in Nat /\ l \in Nat /\ m <= l + k /\ (u + 1) * Refill = k + Refill
        BY <1>2, <3>2, <3>5
      <4> HIDE DEF m, k, l
      <4>2. m <= l + (u + 1) * Refill
        BY <1>2, <4>1
      <4> QED
        BY <4>2 DEF m, l
    <3> QED
      BY <3>1, <3>3, <3>6
  <2>4. CASE to > http.now /\ from > http.now
    <3>1. LetIn(http, c, from, to) = {}
      BY <1>1, <1>4, <2>1, <2>4 DEF LetIn, Counted
    <3>2. Cardinality(LetIn(http', c, from, to)) = 0 /\ to - from = 0
      BY <1>1, <2>1, <2>4, <3>1, FS_EmptySet
    <3> QED
      BY <1>2, <3>2
  <2> QED
    BY <1>1, <2>1, <2>2, <2>3, <2>4
<1>10. Fair(http')
  BY <1>3 DEF HttpInv, Fair
<1>11. AnsweredOnce(http')
  BY <1>1, <1>3, <1>4 DEF AnsweredOnce
<1> QED
  BY <1>3, <1>8, <1>9, <1>10, <1>11 DEF HttpInv, HttpTypeOK, Limited

LEMMA HttpStays == HttpInv /\ [HttpNext]_http => HttpInv'
<1> SUFFICES ASSUME HttpInv, [HttpNext]_http PROVE HttpInv'
  OBVIOUS
<1>0. http \in HttpStates /\ http.handler \in BOOLEAN /\ http.streams \subseteq Nat
  BY HttpTypes DEF HttpInv, HttpTypeOK
<1>1. CASE UNCHANGED http
  BY <1>0, <1>1, RestMoves
<1>2. ASSUME NEW withHandler \in BOOLEAN, Listen(withHandler)
      PROVE  HttpInv'
  <2> DEFINE h == http.handler \/ withHandler
  <2>1. http' = [http EXCEPT !.running = TRUE, !.handler = h] /\ h \in BOOLEAN
    BY <1>0, <1>2 DEF Listen, HttpStates
  <2> HIDE DEF h
  <2>2. /\ http' \in HttpStates /\ http'.requests = http.requests /\ http'.now = http.now
        /\ http'.buckets = http.buckets /\ http'.streams = http.streams
    BY <1>0, <2>1 DEF HttpStates
  <2> QED
    BY <2>2, RestMoves
<1>3. ASSUME NEW failing \in SUBSET http.streams, SendNotification(failing)
      PROVE  HttpInv'
  <2> DEFINE open == http.streams \ failing
  <2>1. http' = [http EXCEPT !.streams = open] /\ open \subseteq Nat /\ open \subseteq http.streams
    BY <1>0, <1>3 DEF SendNotification, HttpStates
  <2> HIDE DEF open
  <2>2. /\ http' \in HttpStates /\ http'.requests = http.requests /\ http'.now = http.now
        /\ http'.buckets = http.buckets /\ http'.streams = open
    BY <1>0, <2>1 DEF HttpStates
  <2> QED
    BY <2>1, <2>2, RestMoves
<1>4. ASSUME NEW r \in DOMAIN http.requests, NEW throws \in BOOLEAN, HandlerReturns(r, throws)
      PROVE  HttpInv'
  <2>1. http.requests[r].at = "handling" /\ (http' = Replied(r, "500") \/ http' = Replied(r, "200"))
    BY <1>4 DEF HandlerReturns
  <2> QED
    BY <2>1, RepliedKeeps
<1>5. ASSUME NEW c \in HttpClients, NEW route \in Routes, Asks(c, route)
      PROVE  HttpInv'
  BY <1>5, AsksKeeps
<1>6. ASSUME NEW r \in DOMAIN http.requests, BodyChunk(r) \/ StreamCloses(r)
      PROVE  HttpInv'
  BY <1>6, BodyChunkKeeps, StreamClosesKeeps
<1>7. ASSUME NEW r \in DOMAIN http.requests, NEW valid \in BOOLEAN, BodyEnds(r, valid)
      PROVE  HttpInv'
  BY <1>7, BodyEndsKeeps
<1> QED
  BY <1>1, <1>2, <1>3, <1>4, <1>5, <1>6, <1>7, StopKeeps, HttpClockKeeps DEF HttpNext

LEMMA HttpPromises == HttpInv => HttpHolds
<1> SUFFICES ASSUME HttpInv PROVE HttpHolds
  OBVIOUS
<1>1. RateIsLimited
  <2>1. SUFFICES ASSUME NEW c \in HttpClients, NEW from \in 0..http.now, NEW to \in from..http.now
                 PROVE  LET through == {r \in DOMAIN http.requests :
                              /\ http.requests[r].client = c
                              /\ http.requests[r].time \in from..to
                              /\ http.requests[r].route # "options" /\ http.requests[r].at # "429"}
                        IN  Cardinality(through) * Share <= Burst * Share + (to - from) * Refill
    BY DEF RateIsLimited
  <2> DEFINE through == {r \in DOMAIN http.requests :
                           /\ http.requests[r].client = c
                           /\ http.requests[r].time \in from..to
                           /\ http.requests[r].route # "options" /\ http.requests[r].at # "429"}
  <2>2. through = LetIn(http, c, from, to)
    BY DEF LetIn, Counted
  <2>3. Cardinality(LetIn(http, c, from, to)) * Share <= Burst * Share + (to - from) * Refill
    BY DEF HttpInv, Limited
  <2> QED
    BY <2>2, <2>3
<1>2. RateIsFair
  BY DEF HttpInv, Fair, RateIsFair
<1>3. OneAnswerEach
  BY DEF HttpInv, AnsweredOnce, Answers1, OneAnswerEach
<1> QED
  BY <1>1, <1>2, <1>3 DEF HttpHolds

\* In every stretch of time a client gets through at most what a full bucket and
\* its refills give, it is never turned away after staying away for one token,
\* and every request has its one answer, also one that is at work while the
\* server stops (checkRateLimit, handleHttpRequest, stop).
THEOREM HttpCorrect == HttpSpec => []HttpHolds
BY HttpPromises, HttpStarts, HttpStays, PTL DEF HttpSpec
-----------------------------------------------------------------------------
\* The stdio transport: what the client writes, character by character

LineChars(i) == [n \in 1..Script[i].size |-> [line |-> i, at |-> n]]
AllLines == [i \in DOMAIN Script |-> LineChars(i)]
Joined(g, i) == IF i = 1 THEN AllLines[i] ELSE g[i - 1] \o AllLines[i]
Flat == CHOOSE g : g = [i \in 1..Len(AllLines) |-> Joined(g, i)]
Size(i) == Script[i].size

\* The lines 1..k one after the other.
WrittenLines(c, k) ==
  /\ c \in Seq([line: 1..k, at: Nat]) /\ Len(c) >= 1
  /\ c[1] = [line |-> 1, at |-> 1]
  /\ c[Len(c)] = [line |-> k, at |-> Size(k)]
  /\ \A j \in 1..Len(c) : c[j].at \in 1..Size(c[j].line)
  /\ \A j \in 1..(Len(c) - 1) :
       c[j + 1] = IF c[j].at = Size(c[j].line) THEN [line |-> c[j].line + 1, at |-> 1]
                  ELSE [line |-> c[j].line, at |-> c[j].at + 1]
  /\ \A j, m \in 1..Len(c) : (j < m /\ c[j].at = Size(c[j].line)) => c[j].line # c[m].line

LEMMA ScriptTypes ==
  /\ Len(Script) \in Nat /\ DOMAIN Script = 1..Len(Script) /\ Len(AllLines) = Len(Script)
  /\ \A i \in 1..Len(Script) :
       /\ Size(i) \in Nat /\ Size(i) >= 1 /\ AllLines[i] = LineChars(i)
       /\ LineChars(i) \in Seq([line: {i}, at: Nat]) /\ Len(LineChars(i)) = Size(i)
       /\ \A n \in 1..Size(i) : LineChars(i)[n] = [line |-> i, at |-> n]
<1>1. /\ Len(Script) \in Nat /\ DOMAIN Script = 1..Len(Script)
      /\ \A i \in 1..Len(Script) : Script[i] \in [method: STRING, size: Nat \ {0}]
  <2> DEFINE L == [method: STRING, size: Nat \ {0}]
  <2>1. Script \in Seq(L)
    BY StdioConstants
  <2> HIDE DEF L
  <2>2. /\ Len(Script) \in Nat /\ DOMAIN Script = 1..Len(Script)
        /\ \A i \in 1..Len(Script) : Script[i] \in L
    BY <2>1
  <2> QED
    BY <2>2 DEF L
<1>2. ASSUME NEW i \in 1..Len(Script)
      PROVE  /\ Size(i) \in Nat /\ Size(i) >= 1 /\ AllLines[i] = LineChars(i)
             /\ LineChars(i) \in Seq([line: {i}, at: Nat]) /\ Len(LineChars(i)) = Size(i)
             /\ \A n \in 1..Size(i) : LineChars(i)[n] = [line |-> i, at |-> n]
  <2>1. Size(i) \in Nat \ {0}
    BY <1>1 DEF Size
  <2>2. AllLines[i] = LineChars(i)
    BY <1>1 DEF AllLines
  <2>3. LineChars(i) = [n \in 1..Size(i) |-> [line |-> i, at |-> n]]
    BY DEF LineChars, Size
  <2> DEFINE z == Size(i)
             T == [line: {i}, at: Nat]
             x(n) == [line |-> i, at |-> n]
             l == [n \in 1..z |-> x(n)]
  <2>4. z \in Nat /\ \A n \in 1..z : x(n) \in T
    BY <2>1
  <2> HIDE DEF z, T, x
  <2>5. l \in Seq(T) /\ Len(l) = z /\ \A n \in 1..z : l[n] = x(n)
    BY <2>4
  <2> QED
    BY <2>1, <2>2, <2>3, <2>5 DEF z, T, x
<1>3. Len(AllLines) = Len(Script)
  <2>1. AllLines \in [1..Len(Script) -> {LineChars(i) : i \in DOMAIN Script}]
    BY <1>1 DEF AllLines
  <2> QED
    BY <1>1, <2>1
<1> QED
  BY <1>1, <1>2, <1>3

\* The function that joins the lines exists.
LEMMA FlatExists == Flat = [i \in 1..Len(AllLines) |-> Joined(Flat, i)]
<1> DEFINE Fits(g, n) == g = [i \in 1..n |-> Joined(g, i)]
           N == {n \in Nat : \E g : Fits(g, n)}
<1>1. 0 \in N
  <2> DEFINE g == [i \in 1..0 |-> 0]
  <2>1. Fits(g, 0)
    OBVIOUS
  <2> QED
    BY <2>1
<1>2. ASSUME NEW n \in Nat, n \in N
      PROVE  n + 1 \in N
  <2>1. PICK g : Fits(g, n)
    BY <1>2
  <2> DEFINE h == [i \in 1..(n + 1) |-> Joined(g, i)]
  <2>2. ASSUME NEW i \in 1..(n + 1)
        PROVE  h[i] = Joined(h, i)
    <3>1. CASE i = 1
      BY <3>1 DEF Joined
    <3>2. CASE i # 1
      <4>1. i - 1 \in 1..n /\ i - 1 \in 1..(n + 1)
        BY <3>2
      <4>2. h[i - 1] = Joined(g, i - 1) /\ g[i - 1] = Joined(g, i - 1)
        BY <2>1, <4>1
      <4>3. h[i] = Joined(g, i)
        OBVIOUS
      <4> HIDE DEF h
      <4> QED
        BY <3>2, <4>2, <4>3 DEF Joined
    <3> QED
      BY <3>1, <3>2
  <2>3. Fits(h, n + 1)
    <3> DEFINE k == [i \in 1..(n + 1) |-> Joined(h, i)]
    <3>1. \A i \in 1..(n + 1) : h[i] = k[i]
      BY <2>2
    <3> QED
      BY <3>1
  <2> HIDE DEF h, Fits
  <2> QED
    BY <2>3
<1> HIDE DEF N
<1>3. Nat \subseteq N
  BY <1>1, <1>2, Naturals
<1>4. \E g : Fits(g, Len(AllLines))
  BY <1>3, ScriptTypes DEF N
<1> QED
  BY <1>4 DEF Flat

\* One more line.
LEMMA LineMore ==
  ASSUME NEW k \in Nat, k >= 1, k + 1 \in 1..Len(Script), NEW c, WrittenLines(c, k)
  PROVE  WrittenLines(c \o LineChars(k + 1), k + 1)
<1> DEFINE l == LineChars(k + 1)
           d == c \o l
           m == Len(c)
           z == Size(k + 1)
           C == [line: 1..(k + 1), at: Nat]
<1>1. /\ l \in Seq([line: {k + 1}, at: Nat]) /\ Len(l) = z /\ z \in Nat /\ z >= 1
      /\ \A n \in 1..z : l[n] = [line |-> k + 1, at |-> n]
  BY ScriptTypes
<1>2. /\ c \in Seq([line: 1..k, at: Nat]) /\ m \in Nat /\ m >= 1
      /\ \A j \in 1..m : c[j].line \in 1..k
  <2> DEFINE T == [line: 1..k, at: Nat]
  <2>1. c \in Seq(T) /\ m >= 1
    BY DEF WrittenLines
  <2> HIDE DEF T
  <2>2. m \in Nat /\ \A j \in 1..m : c[j] \in T
    BY <2>1
  <2> QED
    BY <2>1, <2>2 DEF T
<1>3. c \in Seq(C) /\ l \in Seq(C)
  <2> DEFINE A == [line: 1..k, at: Nat]
             B == [line: {k + 1}, at: Nat]
  <2>1. A \subseteq C /\ B \subseteq C /\ c \in Seq(A) /\ l \in Seq(B)
    BY <1>1, <1>2
  <2> HIDE DEF A, B, C, l
  <2> QED
    BY <2>1, SeqWider
<1> HIDE DEF l
<1>4. /\ d \in Seq(C) /\ Len(d) = m + z
      /\ \A j \in 1..m : d[j] = c[j]
      /\ \A j \in (m + 1)..(m + z) : d[j] = [line |-> k + 1, at |-> j - m]
  <2> HIDE DEF C, d, m, z
  <2>1. m = Len(c) /\ d = c \o l /\ z = Len(l)
    BY <1>1 DEF m, d, z
  <2>2. /\ d \in Seq(C) /\ Len(d) = m + z
        /\ \A j \in 1..m : d[j] = c[j]
        /\ \A j \in (m + 1)..(m + z) : d[j] = l[j - m] /\ j - m \in 1..z
    BY <1>3, <2>1, SeqJoins
  <2> QED
    BY <1>1, <2>2
<1>5. /\ c[1] = [line |-> 1, at |-> 1] /\ c[m] = [line |-> k, at |-> Size(k)]
      /\ \A j \in 1..m : c[j].at \in 1..Size(c[j].line)
      /\ \A j \in 1..(m - 1) :
           c[j + 1] = IF c[j].at = Size(c[j].line) THEN [line |-> c[j].line + 1, at |-> 1]
                      ELSE [line |-> c[j].line, at |-> c[j].at + 1]
      /\ \A i, j \in 1..m : (i < j /\ c[i].at = Size(c[i].line)) => c[i].line # c[j].line
      /\ z = Size(k + 1)
  BY DEF WrittenLines
<1> HIDE DEF d, C, m, z
<1>6. d[1] = [line |-> 1, at |-> 1] /\ d[Len(d)] = [line |-> k + 1, at |-> z]
  <2>1. d[1] = c[1]
    BY <1>5, <1>2, <1>4
  <2>2. m + z \in (m + 1)..(m + z) /\ (m + z) - m = z
    BY <1>5, <1>1, <1>2
  <2> QED
    BY <1>5, <1>4, <2>1, <2>2
<1>a. m \in Nat /\ m >= 1 /\ z \in Nat /\ z >= 1 /\ Len(d) = m + z /\ k \in Nat /\ Size(k + 1) = z
  BY <1>5, <1>1, <1>2, <1>4
<1>b. \A j \in 1..m : /\ d[j] = c[j] /\ c[j].line \in 1..k /\ c[j].at \in 1..Size(c[j].line)
  BY <1>5, <1>2, <1>4
<1>c. \A j \in (m + 1)..(m + z) :
        d[j] = [line |-> k + 1, at |-> j - m] /\ d[j].line = k + 1 /\ d[j].at = j - m
  BY <1>4
<1>7. \A j \in 1..Len(d) : d[j].at \in 1..Size(d[j].line)
  <2> SUFFICES ASSUME NEW j \in 1..Len(d) PROVE d[j].at \in 1..Size(d[j].line)
    OBVIOUS
  <2>1. CASE j \in 1..m
    BY <1>b, <2>1
  <2>2. CASE j \notin 1..m
    <3>1. j \in (m + 1)..(m + z) /\ j - m \in 1..z
      BY <1>a, <2>2
    <3>2. d[j].line = k + 1 /\ d[j].at = j - m
      BY <1>c, <3>1
    <3> QED
      BY <1>a, <3>1, <3>2
  <2> QED
    BY <2>1, <2>2
<1>8. ASSUME NEW j \in 1..(Len(d) - 1)
      PROVE  d[j + 1] = IF d[j].at = Size(d[j].line) THEN [line |-> d[j].line + 1, at |-> 1]
                        ELSE [line |-> d[j].line, at |-> d[j].at + 1]
  <2>0. j \in Int
    BY <1>a
  <2>1. CASE j < m
    <3>1. j \in 1..(m - 1) /\ j \in 1..m /\ j + 1 \in 1..m
      BY <1>a, <2>1
    <3>2. d[j] = c[j] /\ d[j + 1] = c[j + 1]
      BY <1>b, <3>1
    <3> QED
      BY <1>5, <3>1, <3>2
  <2>2. CASE j = m
    <3>1. m \in 1..m /\ j + 1 \in (m + 1)..(m + z) /\ (j + 1) - m = 1
      BY <1>a, <2>2
    <3>2. d[j] = [line |-> k, at |-> Size(k)]
      BY <1>5, <1>b, <2>2, <3>1
    <3>3. d[j + 1] = [line |-> k + 1, at |-> 1]
      BY <1>c, <3>1
    <3> QED
      BY <3>2, <3>3
  <2>3. CASE j > m
    <3>1. /\ j \in (m + 1)..(m + z) /\ j + 1 \in (m + 1)..(m + z)
          /\ (j + 1) - m = (j - m) + 1 /\ j - m # z
      BY <1>a, <2>3
    <3>2. d[j].line = k + 1 /\ d[j].at = j - m /\ d[j + 1] = [line |-> k + 1, at |-> (j - m) + 1]
      BY <1>c, <3>1
    <3> QED
      BY <1>a, <3>1, <3>2
  <2> QED
    BY <1>a, <2>0, <2>1, <2>2, <2>3
<1>9. ASSUME NEW i \in 1..Len(d), NEW j \in 1..Len(d), i < j, d[i].at = Size(d[i].line)
      PROVE  d[i].line # d[j].line
  <2>1. CASE j \in 1..m
    <3>1. i \in 1..m
      BY <1>a, <1>9, <2>1
    <3>2. d[i] = c[i] /\ d[j] = c[j]
      BY <1>b, <2>1, <3>1
    <3> QED
      BY <1>5, <1>9, <2>1, <3>1, <3>2
  <2>2. CASE i \in 1..m /\ j \notin 1..m
    <3>1. j \in (m + 1)..(m + z)
      BY <1>a, <2>2
    <3>2. d[i].line \in 1..k /\ d[j].line = k + 1
      BY <1>b, <1>c, <2>2, <3>1
    <3> QED
      BY <1>a, <3>2
  <2>3. CASE i \notin 1..m
    <3>1. i \in (m + 1)..(m + z) /\ i - m # z
      BY <1>a, <1>9, <2>3
    <3>2. d[i].line = k + 1 /\ d[i].at = i - m
      BY <1>c, <3>1
    <3> QED
      BY <1>a, <1>9, <3>1, <3>2
  <2> QED
    BY <2>1, <2>2, <2>3
<1>10. Len(d) >= 1
  BY <1>1, <1>2, <1>4
<1>11. WrittenLines(d, k + 1)
  BY <1>5, <1>4, <1>6, <1>7, <1>8, <1>9, <1>10 DEF WrittenLines, C
<1> QED
  BY <1>11 DEF d, l

LEMMA FirstLine == Len(Script) >= 1 => WrittenLines(LineChars(1), 1)
<1> SUFFICES ASSUME Len(Script) >= 1 PROVE WrittenLines(LineChars(1), 1)
  OBVIOUS
<1> DEFINE l == LineChars(1)
<1>1. /\ l \in Seq([line: {1}, at: Nat]) /\ Len(l) = Size(1) /\ Size(1) \in Nat /\ Size(1) >= 1
      /\ \A n \in 1..Size(1) : l[n] = [line |-> 1, at |-> n]
  BY ScriptTypes
<1> HIDE DEF l
<1>2. {1} = 1..1
  OBVIOUS
<1>3. \A j \in 1..Len(l) : l[j].line = 1 /\ l[j].at = j
  BY <1>1
<1>4. \A j \in 1..(Len(l) - 1) : j \in 1..Len(l) /\ j + 1 \in 1..Len(l) /\ j # Size(1)
  BY <1>1
<1>5. l \in Seq([line: 1..1, at: Nat])
  BY <1>1, <1>2
<1>6. \A j \in 1..(Len(l) - 1) :
        l[j + 1] = IF l[j].at = Size(l[j].line) THEN [line |-> l[j].line + 1, at |-> 1]
                   ELSE [line |-> l[j].line, at |-> l[j].at + 1]
  BY <1>1, <1>3, <1>4
<1>7. WrittenLines(l, 1)
  BY <1>1, <1>3, <1>5, <1>6 DEF WrittenLines
<1> QED
  BY <1>7 DEF l

\* What the client writes: no character, or all lines one after the other.
LEMMA CharsWritten == IF Len(Script) = 0 THEN Chars = <<>> ELSE WrittenLines(Chars, Len(Script))
<1>1. /\ Len(AllLines) = Len(Script) /\ Len(Script) \in Nat
      /\ \A i \in 1..Len(Script) : AllLines[i] = LineChars(i)
  BY ScriptTypes
<1>2. Chars = FlattenSeq(AllLines)
  BY DEF Chars, AllLines, LineChars
<1>3. CASE Len(Script) = 0
  <2>1. AllLines = <<>>
    <3>1. DOMAIN Script = {}
      BY <1>3, ScriptTypes
    <3>2. AllLines = [i \in {} |-> LineChars(i)]
      BY <3>1 DEF AllLines
    <3> QED
      BY <3>2
  <2> QED
    BY <1>1, <1>2, <1>3, <2>1 DEF FlattenSeq
<1>4. CASE Len(Script) # 0
  <2>1. Chars = Flat[Len(AllLines)]
    BY <1>1, <1>2, <1>4 DEF FlattenSeq, Flat, Joined
  <2>2. \A i \in 1..Len(Script) : Flat[i] = Joined(Flat, i)
    BY <1>1, FlatExists
  <2> DEFINE N == {n \in Nat : n + 1 <= Len(Script) => WrittenLines(Flat[n + 1], n + 1)}
  <2>3. 0 \in N
    <3>1. Flat[1] = LineChars(1)
      BY <1>1, <1>4, <2>2 DEF Joined
    <3> QED
      BY <1>1, <1>4, <3>1, FirstLine
  <2>4. ASSUME NEW n \in Nat, n \in N
        PROVE  n + 1 \in N
    <3>1. SUFFICES ASSUME (n + 1) + 1 <= Len(Script)
                   PROVE  WrittenLines(Flat[(n + 1) + 1], (n + 1) + 1)
      OBVIOUS
    <3> DEFINE k == n + 1
    <3>2. k \in Nat /\ k >= 1 /\ k + 1 \in 1..Len(Script) /\ k <= Len(Script)
      BY <1>1, <3>1
    <3>3. WrittenLines(Flat[k], k)
      BY <2>4, <3>2
    <3> HIDE DEF k
    <3>4. k + 1 # 1 /\ (k + 1) - 1 = k
      BY <3>2
    <3>5. Flat[k + 1] = Flat[k] \o LineChars(k + 1)
      BY <1>1, <2>2, <3>2, <3>4 DEF Joined
    <3>6. WrittenLines(Flat[k + 1], k + 1)
      BY <3>2, <3>3, <3>5, LineMore
    <3> QED
      BY <3>6 DEF k
  <2> HIDE DEF N
  <2>5. Nat \subseteq N
    BY <2>3, <2>4, Naturals
  <2>6. Len(Script) - 1 \in Nat /\ (Len(Script) - 1) + 1 = Len(Script)
    BY <1>1, <1>4
  <2> QED
    BY <1>1, <1>4, <2>1, <2>5, <2>6 DEF N
<1> QED
  BY <1>3, <1>4

\* A chunk is taken character by character.
TakeStep(io, chunk, g, s) ==
  IF s = {} THEN io ELSE LET x == Max(s) IN TakeCharacter(g[s \ {x}], chunk[x])
Takes(io, chunk) == CHOOSE g : g = [s \in SUBSET DOMAIN chunk |-> TakeStep(io, chunk, g, s)]

LEMMA TakeLinesIsTakes ==
  ASSUME NEW io, NEW chunk
  PROVE  TakeLines(io, chunk) = Takes(io, chunk)[DOMAIN chunk]
BY DEF TakeLines, Takes, TakeStep, FoldLeft, MapThenFoldSet

LEMMA MaxOfUpTo == \A n \in Nat : \A s \in SUBSET (1..(n + 1)) : n + 1 \in s => Max(s) = n + 1
<1> SUFFICES ASSUME NEW n \in Nat, NEW s \in SUBSET (1..(n + 1)), n + 1 \in s PROVE Max(s) = n + 1
  OBVIOUS
<1> DEFINE m == n + 1
<1>1. m \in s /\ \A y \in s : y \in Int /\ m >= y
  OBVIOUS
<1>2. m \in Int
  OBVIOUS
<1> HIDE DEF m
<1>3. \A x \in s : (\A y \in s : x >= y) => x = m
  BY <1>1, <1>2
<1>4. Max(s) = m
  BY <1>1, <1>3 DEF Max
<1> QED
  BY <1>4 DEF m

\* The function that takes the characters of each part of a chunk exists.
LEMMA TakesExists ==
  ASSUME NEW io, NEW chunk, NEW l \in Nat, DOMAIN chunk = 1..l
  PROVE  Takes(io, chunk) = [s \in SUBSET DOMAIN chunk |-> TakeStep(io, chunk, Takes(io, chunk), s)]
<1> DEFINE Fits(g, n) == g = [s \in SUBSET (1..n) |-> TakeStep(io, chunk, g, s)]
           N == {n \in Nat : \E g : Fits(g, n)}
<1>1. 0 \in N
  <2> DEFINE g == [s \in SUBSET (1..0) |-> io]
  <2>1. \A s \in SUBSET (1..0) : TakeStep(io, chunk, g, s) = io
    BY DEF TakeStep
  <2>2. Fits(g, 0)
    BY <2>1
  <2> QED
    BY <2>2
<1>2. ASSUME NEW n \in Nat, n \in N
      PROVE  n + 1 \in N
  <2>1. PICK g : Fits(g, n)
    BY <1>2
  <2> DEFINE m == n + 1
             h == [s \in SUBSET (1..m) |->
                     IF m \in s THEN TakeCharacter(g[s \ {m}], chunk[m]) ELSE g[s]]
  <2>2. ASSUME NEW s \in SUBSET (1..m)
        PROVE  h[s] = TakeStep(io, chunk, h, s)
    <3>1. CASE m \in s
      <4>1. s # {} /\ Max(s) = m
        BY <3>1, MaxOfUpTo
      <4>2. s \ {m} \in SUBSET (1..m) /\ m \notin s \ {m}
        OBVIOUS
      <4>3. h[s \ {m}] = g[s \ {m}] /\ h[s] = TakeCharacter(g[s \ {m}], chunk[m])
        BY <3>1, <4>2
      <4> HIDE DEF h, m
      <4> QED
        BY <4>1, <4>3 DEF TakeStep
    <3>2. CASE m \notin s
      <4> DEFINE x == Max(s)
      <4>0. \A y \in 1..m : y # m => y \in 1..n
        OBVIOUS
      <4>1. s \in SUBSET (1..n) /\ s \ {x} \in SUBSET (1..n)
        <5> HIDE DEF m, x, h
        <5> QED
          BY <3>2, <4>0
      <4>2. s \ {x} \in SUBSET (1..m) /\ m \notin s \ {x}
        BY <3>2
      <4>3. h[s] = g[s] /\ h[s \ {x}] = g[s \ {x}]
        BY <3>2, <4>2
      <4>4. g[s] = TakeStep(io, chunk, g, s)
        BY <2>1, <4>1
      <4> HIDE DEF h, m
      <4> QED
        BY <4>3, <4>4 DEF TakeStep
    <3> QED
      BY <3>1, <3>2
  <2>3. Fits(h, n + 1)
    <3> DEFINE k == [s \in SUBSET (1..m) |-> TakeStep(io, chunk, h, s)]
    <3>1. \A s \in SUBSET (1..m) : h[s] = k[s]
      BY <2>2
    <3> QED
      BY <3>1
  <2> HIDE DEF h, Fits
  <2> QED
    BY <2>3
<1> HIDE DEF N
<1>3. Nat \subseteq N
  BY <1>1, <1>2, Naturals
<1>4. \E g : Fits(g, l)
  BY <1>3 DEF N
<1> QED
  BY <1>4 DEF Takes

\* The characters taken one after the other: what holds before the first one and
\* is kept by each holds after them.
LEMMA TakesStep ==
  ASSUME NEW io, NEW chunk, NEW l \in Nat, DOMAIN chunk = 1..l
  PROVE  /\ Takes(io, chunk)[1..0] = io
         /\ \A k \in 0..(l - 1) :
              Takes(io, chunk)[1..(k + 1)] = TakeCharacter(Takes(io, chunk)[1..k], chunk[k + 1])
<1> DEFINE T == Takes(io, chunk)
<1>1. \A s \in SUBSET (1..l) : T[s] = TakeStep(io, chunk, T, s)
  <2>1. T = [s \in SUBSET (1..l) |-> TakeStep(io, chunk, T, s)]
    BY TakesExists
  <2> HIDE DEF T
  <2> QED
    BY <2>1
<1> HIDE DEF T
<1>2. T[1..0] = io
  <2>1. 1..0 = {}
    OBVIOUS
  <2> QED
    BY <1>1, <2>1 DEF TakeStep
<1>3. ASSUME NEW k \in 0..(l - 1)
      PROVE  T[1..(k + 1)] = TakeCharacter(T[1..k], chunk[k + 1])
  <2>1. /\ k \in Nat /\ k + 1 \in 1..(k + 1) /\ 1..(k + 1) \in SUBSET (1..l)
        /\ (1..(k + 1)) \ {k + 1} = 1..k
    OBVIOUS
  <2>2. Max(1..(k + 1)) = k + 1
    BY <2>1, MaxOfUpTo
  <2>3. 1..(k + 1) # {}
    BY <2>1
  <2> QED
    BY <1>1, <2>1, <2>2, <2>3 DEF TakeStep
<1> QED
  BY <1>2, <1>3 DEF T

\* One character of them, by name.
LEMMA TakesOne ==
  ASSUME NEW io, NEW chunk, NEW l \in Nat, DOMAIN chunk = 1..l, NEW k \in 0..(l - 1)
  PROVE  Takes(io, chunk)[1..(k + 1)] = TakeCharacter(Takes(io, chunk)[1..k], chunk[k + 1])
BY TakesStep

\* The state of the transport, and what it owes its client

Codes == {"result", "isError", "-32600", "-32601", "-32602", "-32603", "-32700"}
Replies == [id: Int, code: Codes]
Characters == [line: 1..Len(Script), at: Nat]
StdioStates ==
  [running: BOOLEAN, starts: Nat, stops: Nat, handler: BOOLEAN, read: Nat,
   buffer: Seq(Characters), active: SUBSET (1..Len(Script)),
   waiting: SUBSET (1..Len(Script)), full: BOOLEAN, replies: Seq(Replies), dropped: BOOLEAN]

Method(i) == Script[i].method
Given(io, id) == {n \in DOMAIN io.replies : io.replies[n].id = id}
NumberGiven(io, id) == Cardinality(Given(io, id))
Seen(r) ==
  {i \in DOMAIN Script : \E n \in 1..r : Chars[n].line = i /\ IsNewline(Chars[n])}
OfMethod(method, S) == {i \in S : Method(i) = method}

\* The buffer holds the last of the r characters that were read, all of one line
\* of which the newline was not read yet.
BufferIsLast(io, r) ==
  io.buffer # <<>> =>
    /\ r >= 1 /\ ~IsNewline(Chars[r]) /\ Len(io.buffer) <= Chars[r].at
    /\ \A k \in 1..Len(io.buffer) :
         io.buffer[k] = [line |-> Chars[r].line, at |-> Chars[r].at - Len(io.buffer) + k]
\* ... and from its first character on when nothing was thrown away.
BufferIsWhole(io, r) ==
  IF r = 0 \/ IsNewline(Chars[r]) THEN io.buffer = <<>> ELSE Len(io.buffer) = Chars[r].at

\* A request is answered when its handler returned, not before and not twice.
AnsweredInTime(io, r) ==
  \A i \in Requests :
    /\ NumberGiven(io, i) <= 1
    /\ i \in io.active \ io.waiting => NumberGiven(io, i) = 0
    /\ i \in io.waiting => NumberGiven(io, i) = 1
    /\ NumberGiven(io, i) > 0 => i \in Seen(r)
AllAnswered(io, r) ==
  /\ \A i \in Requests \cap Seen(r) : i \in io.active \/ NumberGiven(io, i) = 1
  /\ NumberGiven(io, Null) >= Cardinality(OfMethod("garbage", Seen(r)))
  /\ NumberGiven(io, Null) + NumberGiven(io, 0)
       + Cardinality(OfMethod("no id", io.active \ io.waiting))
       = Cardinality(OfMethod("garbage", Seen(r))) + Cardinality(OfMethod("no id", Seen(r)))

Accounted(io, r) ==
  /\ io \in StdioStates
  /\ io.waiting \subseteq io.active /\ io.active \subseteq Seen(r)
  /\ \A i \in io.active : Method(i) \notin {"blank", "garbage"}
  /\ (io.running \/ ~io.dropped) => BufferIsLast(io, r)
  /\ ~io.dropped => BufferIsWhole(io, r)
  /\ AnsweredInTime(io, r)
  /\ ~io.dropped => AllAnswered(io, r)
StdioInv == Accounted(stdio, stdio.read) /\ stdio.read <= Len(Chars)

\* The characters that are written.
LEMMA CharFacts ==
  /\ Chars \in Seq(Characters) /\ Len(Chars) \in Nat /\ DOMAIN Chars = 1..Len(Chars)
  /\ \A n \in 1..Len(Chars) :
       /\ Chars[n] \in Characters /\ Chars[n].line \in 1..Len(Script)
       /\ Chars[n].at \in 1..Size(Chars[n].line) /\ Chars[n].at \in Nat /\ Chars[n].at >= 1
       /\ IsNewline(Chars[n]) <=> Chars[n].at = Size(Chars[n].line)
  /\ Len(Chars) > 0 => Chars[1].at = 1
  /\ \A n \in 1..(Len(Chars) - 1) :
       Chars[n + 1] = IF IsNewline(Chars[n]) THEN [line |-> Chars[n].line + 1, at |-> 1]
                      ELSE [line |-> Chars[n].line, at |-> Chars[n].at + 1]
  /\ \A n, m \in 1..Len(Chars) : (n < m /\ IsNewline(Chars[n])) => Chars[n].line # Chars[m].line
<1>0. Len(Script) \in Nat /\ \A i \in 1..Len(Script) : Size(i) \in Nat
  BY ScriptTypes
<1>1. CASE Len(Script) = 0
  <2>1. Chars = <<>>
    BY <1>1, CharsWritten
  <2>2. Len(Chars) = 0 /\ DOMAIN Chars = 1..0 /\ Chars \in Seq(Characters)
    BY <2>1
  <2> QED
    BY <2>2
<1>2. CASE Len(Script) # 0
  <2>1. WrittenLines(Chars, Len(Script))
    BY <1>2, CharsWritten
  <2>2. Chars \in Seq(Characters)
    BY <2>1 DEF WrittenLines, Characters
  <2>3. /\ Len(Chars) \in Nat /\ DOMAIN Chars = 1..Len(Chars)
        /\ \A n \in 1..Len(Chars) : Chars[n] \in Characters
    <3> HIDE DEF Chars, Characters
    <3> QED
      BY <2>2
  <2>4. \A n \in 1..Len(Chars) : Chars[n].line \in 1..Len(Script) /\ Chars[n].at \in Nat
    BY <2>3 DEF Characters
  <2>5. \A n \in 1..Len(Chars) : IsNewline(Chars[n]) <=> Chars[n].at = Size(Chars[n].line)
    BY DEF IsNewline, Size
  <2>6. /\ \A n \in 1..Len(Chars) : Chars[n].at \in 1..Size(Chars[n].line)
        /\ Len(Chars) > 0 => Chars[1].at = 1
    BY <2>1 DEF WrittenLines
  <2>7. \A n \in 1..(Len(Chars) - 1) : n \in 1..Len(Chars)
    BY <2>3
  <2>8. \A n \in 1..Len(Chars) : Chars[n].at >= 1
    BY <1>0, <2>4, <2>6
  <2> QED
    BY <2>1, <2>2, <2>3, <2>4, <2>5, <2>6, <2>7, <2>8 DEF WrittenLines
<1> QED
  BY <1>0, <1>1, <1>2

\* Who has seen what once one more character is read.
LEMMA SeenMore ==
  ASSUME NEW r \in Nat, r + 1 <= Len(Chars), NEW c, c = Chars[r + 1]
  PROVE  /\ Seen(r) \subseteq 1..Len(Script) /\ IsFiniteSet(Seen(r))
         /\ IsNewline(c) => Seen(r + 1) = Seen(r) \cup {c.line} /\ c.line \notin Seen(r)
         /\ ~IsNewline(c) => Seen(r + 1) = Seen(r)
         /\ r >= 1 /\ ~IsNewline(Chars[r]) => c = [line |-> Chars[r].line, at |-> Chars[r].at + 1]
         /\ (r = 0 \/ IsNewline(Chars[r])) => c.at = 1
<1>1. /\ 1..(r + 1) = 1..r \cup {r + 1} /\ 1..(r + 1) \subseteq 1..Len(Chars)
      /\ r + 1 \in 1..Len(Chars)
      /\ r >= 1 => r \in 1..(Len(Chars) - 1) /\ r \in 1..Len(Chars)
      /\ \A n \in 1..r : n \in 1..Len(Chars) /\ n < r + 1
  BY CharFacts
<1>2. Seen(r) \subseteq 1..Len(Script) /\ DOMAIN Script = 1..Len(Script)
  BY ScriptTypes DEF Seen
<1>3. IsFiniteSet(Seen(r))
  <2> DEFINE l == Len(Script)
  <2>1. l \in Int
    BY ScriptTypes
  <2> HIDE DEF l
  <2>2. IsFiniteSet(1..l)
    BY <2>1, FS_Interval
  <2> QED
    BY <1>2, <2>2, FS_Subset DEF l
<1>4. c.line \in 1..Len(Script)
  BY <1>1, CharFacts
<1>5. IsNewline(c) => Seen(r + 1) = Seen(r) \cup {c.line}
  BY <1>1, <1>2, <1>4 DEF Seen
<1>6. c.line \notin Seen(r)
  <2>1. \A n \in 1..r : IsNewline(Chars[n]) => Chars[n].line # c.line
    BY <1>1, CharFacts
  <2> QED
    BY <2>1 DEF Seen
<1>7. ~IsNewline(c) => Seen(r + 1) = Seen(r)
  BY <1>1 DEF Seen
<1>8. r >= 1 /\ ~IsNewline(Chars[r]) => c = [line |-> Chars[r].line, at |-> Chars[r].at + 1]
  BY <1>1, CharFacts
<1>9. (r = 0 \/ IsNewline(Chars[r])) => c.at = 1
  <2>1. CASE r = 0
    BY <1>1, <2>1, CharFacts
  <2>2. CASE r # 0 /\ IsNewline(Chars[r])
    <3>1. r \in 1..(Len(Chars) - 1)
      BY <1>1, <2>2
    <3>2. c = [line |-> Chars[r].line + 1, at |-> 1]
      BY <2>2, <3>1, CharFacts
    <3> QED
      BY <3>2
  <2> QED
    BY <2>1, <2>2
<1> QED
  BY <1>2, <1>3, <1>5, <1>6, <1>7, <1>8, <1>9

\* What one more reply adds.
LEMMA GivenMore ==
  ASSUME NEW io \in StdioStates, NEW x \in Replies, NEW jo, jo.replies = Append(io.replies, x)
  PROVE  \A id : /\ NumberGiven(io, id) \in Nat
                 /\ NumberGiven(jo, id) = NumberGiven(io, id) + (IF x.id = id THEN 1 ELSE 0)
<1> DEFINE s == io.replies
           t == jo.replies
           l == Len(s)
<1>1. s \in Seq(Replies) /\ t = Append(s, x)
  BY DEF StdioStates
<1>2. /\ l \in Nat /\ DOMAIN s = 1..l /\ DOMAIN t = DOMAIN s \cup {l + 1} /\ l + 1 \notin DOMAIN s
      /\ t[l + 1] = x /\ \A n \in DOMAIN s : t[n] = s[n]
  <2> HIDE DEF s, t
  <2> QED
    BY <1>1, OneMore
<1>3. IsFiniteSet(DOMAIN s)
  <2> HIDE DEF s, l
  <2> QED
    BY <1>2, FS_Interval
<1>4. SUFFICES ASSUME NEW id
               PROVE  /\ NumberGiven(io, id) \in Nat
                      /\ NumberGiven(jo, id) = NumberGiven(io, id) + (IF x.id = id THEN 1 ELSE 0)
  OBVIOUS
<1> DEFINE A == Given(io, id)
           B == Given(jo, id)
<1>5. A \subseteq DOMAIN s /\ B = IF x.id = id THEN A \cup {l + 1} ELSE A
  BY <1>2 DEF Given
<1> HIDE DEF s, t, A, B, l
<1>6. IsFiniteSet(A) /\ Cardinality(A) \in Nat /\ l + 1 \notin A
  BY <1>2, <1>3, <1>5, FS_Subset, FS_CardinalityType
<1>7. Cardinality(B) = Cardinality(A) + (IF x.id = id THEN 1 ELSE 0)
  <2>1. CASE x.id = id
    <3>1. B = A \cup {l + 1}
      BY <1>5, <2>1
    <3>2. Cardinality(B) = Cardinality(A) + 1
      BY <1>6, <3>1, FS_AddElement
    <3> QED
      BY <2>1, <3>2
  <2>2. CASE x.id # id
    BY <1>5, <1>6, <2>2
  <2> QED
    BY <2>1, <2>2
<1> QED
  BY <1>6, <1>7 DEF NumberGiven, A, B

\* Lines of one method, with one more line.
LEMMA OfMethodMore ==
  ASSUME NEW S, IsFiniteSet(S), NEW i, i \notin S, NEW m
  PROVE  /\ Cardinality(OfMethod(m, S)) \in Nat
         /\ Cardinality(OfMethod(m, S \cup {i}))
              = Cardinality(OfMethod(m, S)) + (IF Method(i) = m THEN 1 ELSE 0)
<1> DEFINE A == OfMethod(m, S)
           B == OfMethod(m, S \cup {i})
<1>1. A \subseteq S /\ B = IF Method(i) = m THEN A \cup {i} ELSE A
  BY DEF OfMethod
<1> HIDE DEF A, B
<1>2. IsFiniteSet(A) /\ Cardinality(A) \in Nat /\ i \notin A
  BY <1>1, FS_Subset, FS_CardinalityType
<1>3. CASE Method(i) = m
  <2>1. B = A \cup {i}
    BY <1>1, <1>3
  <2>2. Cardinality(B) = Cardinality(A) + 1
    BY <1>2, <2>1, FS_AddElement
  <2> QED
    BY <1>2, <1>3, <2>2 DEF A, B
<1>4. CASE Method(i) # m
  BY <1>1, <1>2, <1>4 DEF A, B
<1> QED
  BY <1>3, <1>4

LEMMA IoTypes ==
  ASSUME NEW io \in StdioStates
  PROVE  /\ io.running \in BOOLEAN /\ io.handler \in BOOLEAN /\ io.dropped \in BOOLEAN
         /\ io.read \in Nat /\ io.starts \in Nat /\ io.stops \in Nat
         /\ io.buffer \in Seq(Characters) /\ io.replies \in Seq(Replies)
         /\ io.active \subseteq 1..Len(Script) /\ io.waiting \subseteq 1..Len(Script)
BY DEF StdioStates

\* A request is named by its line, which no other reply names.
LEMMA RequestIds ==
  /\ Requests \subseteq 1..Len(Script)
  /\ \A i \in Requests : /\ i \in Nat /\ i >= 1 /\ i # 0 /\ i # Null
                         /\ Method(i) \notin {"blank", "garbage", "no id"}
  /\ \A i \in 1..Len(Script) : Method(i) \notin {"blank", "garbage", "no id"} => i \in Requests
  /\ Null \in Int /\ Null # 0
<1>1. DOMAIN Script = 1..Len(Script) /\ Len(Script) \in Nat
  BY ScriptTypes
<1>2. Requests \subseteq 1..Len(Script) /\ Null = -1
  BY <1>1 DEF Requests, Null
<1>3. \A i \in 1..Len(Script) : i \in Requests <=> Method(i) \notin {"blank", "garbage", "no id"}
  BY <1>1 DEF Requests, Method
<1>4. \A i \in 1..Len(Script) : i \in Nat /\ i >= 1 /\ i # 0 /\ i # -1
  BY <1>1
<1>5. -1 \in Int /\ -1 # 0
  OBVIOUS
<1> QED
  BY <1>2, <1>3, <1>4, <1>5

\* A character that ends no line goes into the buffer.
LEMMA BufferGrows ==
  ASSUME NEW r \in Nat, r + 1 <= Len(Chars), NEW io, Accounted(io, r), io.running,
         NEW c, c = Chars[r + 1], ~IsNewline(c),
         NEW jo, jo = [io EXCEPT !.buffer = Append(io.buffer, c)]
  PROVE  /\ Accounted(jo, r + 1) /\ jo.running /\ jo.read = io.read
<1> DEFINE s == io.buffer
           t == Append(s, c)
           l == Len(s)
<1>1. /\ io \in StdioStates /\ s \in Seq(Characters) /\ c \in Characters
      /\ Seen(r + 1) = Seen(r) /\ c.at \in Nat /\ c.at >= 1 /\ c = [line |-> c.line, at |-> c.at]
  <2>1. r + 1 \in 1..Len(Chars)
    BY CharFacts
  <2>2. c \in Characters /\ c.at \in Nat /\ c.at >= 1
    BY <2>1, CharFacts
  <2>3. c = [line |-> c.line, at |-> c.at]
    BY <2>2 DEF Characters
  <2> QED
    BY <2>2, <2>3, SeenMore, IoTypes DEF Accounted
<1>2. /\ l \in Nat /\ t \in Seq(Characters) /\ t # <<>> /\ Len(t) = l + 1 /\ t[l + 1] = c
      /\ \A k \in 1..l : t[k] = s[k]
      /\ s = <<>> <=> l = 0
  <2> HIDE DEF s
  <2> QED
    BY <1>1
<1> HIDE DEF t
<1>3. /\ jo \in StdioStates /\ jo.buffer = t /\ jo.running = io.running /\ jo.read = io.read
      /\ jo.active = io.active /\ jo.waiting = io.waiting /\ jo.replies = io.replies
      /\ jo.dropped = io.dropped
  BY <1>1, <1>2 DEF StdioStates, t
<1> DEFINE p == Chars[r]
<1>4. s # <<>> => /\ r >= 1 /\ c.line = p.line /\ c.at = p.at + 1 /\ l <= p.at /\ p.at \in Nat
                  /\ \A k \in 1..l : s[k] = [line |-> p.line, at |-> p.at - l + k]
  <2>1. SUFFICES ASSUME s # <<>>
                 PROVE  /\ r >= 1 /\ c.line = p.line /\ c.at = p.at + 1 /\ l <= p.at /\ p.at \in Nat
                        /\ \A k \in 1..l : s[k] = [line |-> p.line, at |-> p.at - l + k]
    OBVIOUS
  <2>2. /\ r >= 1 /\ ~IsNewline(p) /\ l <= p.at
        /\ \A k \in 1..l : s[k] = [line |-> p.line, at |-> p.at - l + k]
    BY <2>1 DEF Accounted, BufferIsLast
  <2>3. c = [line |-> p.line, at |-> p.at + 1]
    BY <2>2, SeenMore
  <2>4. r \in 1..Len(Chars)
    BY <2>2, CharFacts
  <2> QED
    BY <2>2, <2>3, <2>4, CharFacts
<1> HIDE DEF s, l, p
<1>5. BufferIsLast(jo, r + 1)
  <2>1. l + 1 <= c.at
    BY <1>1, <1>2, <1>4
  <2>2. ASSUME NEW k \in 1..(l + 1)
        PROVE  t[k] = [line |-> c.line, at |-> c.at - (l + 1) + k]
    <3>1. CASE k = l + 1
      <4>1. c.at - (l + 1) + k = c.at
        BY <1>1, <1>2, <3>1
      <4> QED
        BY <1>1, <1>2, <3>1, <4>1
    <3>2. CASE k # l + 1
      <4>1. k \in 1..l /\ s # <<>>
        BY <1>2, <3>2
      <4>2. c.at - (l + 1) + k = p.at - l + k
        BY <1>2, <1>4, <4>1
      <4> QED
        BY <1>2, <1>4, <4>1, <4>2
    <3> QED
      BY <3>1, <3>2
  <2>3. r + 1 >= 1
    OBVIOUS
  <2> QED
    BY <1>2, <1>3, <2>1, <2>2, <2>3 DEF BufferIsLast
<1>6. ~io.dropped => BufferIsWhole(jo, r + 1)
  <2>1. SUFFICES ASSUME ~io.dropped PROVE l + 1 = c.at
    BY <1>2, <1>3 DEF BufferIsWhole
  <2>2. IF r = 0 \/ IsNewline(p) THEN s = <<>> ELSE l = p.at
    BY <2>1 DEF Accounted, BufferIsWhole, s, l, p
  <2>3. (r = 0 \/ IsNewline(p)) => c.at = 1
    BY SeenMore DEF p
  <2>4. ~(r = 0 \/ IsNewline(p)) => c.at = p.at + 1
    <3>1. ~(r = 0 \/ IsNewline(p)) => c = [line |-> p.line, at |-> p.at + 1]
      BY SeenMore DEF p
    <3> QED
      BY <3>1
  <2> QED
    BY <1>2, <2>2, <2>3, <2>4
<1>7. \A id : NumberGiven(jo, id) = NumberGiven(io, id)
  BY <1>3 DEF NumberGiven, Given
<1> QED
  BY <1>1, <1>3, <1>5, <1>6, <1>7 DEF Accounted, AnsweredInTime, AllAnswered

\* What a newline makes of the line before it.
LEMMA LineOfBuffer ==
  ASSUME NEW r \in Nat, r + 1 <= Len(Chars), NEW io, Accounted(io, r), io.running,
         NEW c, c = Chars[r + 1], IsNewline(c)
  PROVE  LET line == io.buffer
             i == c.line
         IN  /\ i \in 1..Len(Script) /\ i \notin Seen(r) /\ Seen(r + 1) = Seen(r) \cup {i}
             /\ line # <<>> => line[1].line = i
             /\ IsRequest(line) /\ line # <<>> => Method(i) # "garbage"
             /\ ~io.dropped /\ line = <<>> => Method(i) = "blank"
             /\ ~io.dropped /\ line # <<>> /\ ~IsRequest(line) => Method(i) = "garbage"
<1> DEFINE line == io.buffer
           l == Len(line)
           i == c.line
           p == Chars[r]
<1>1. i \in 1..Len(Script) /\ c.at = Size(i) /\ Size(i) \in Nat /\ Size(i) >= 1
  <2>1. r + 1 \in 1..Len(Chars)
    BY CharFacts
  <2> QED
    BY <2>1, CharFacts, ScriptTypes
<1>2. i \notin Seen(r) /\ Seen(r + 1) = Seen(r) \cup {i}
  BY SeenMore
<1>3. line \in Seq(Characters) /\ l \in Nat /\ (line = <<>> <=> l = 0)
  <2>1. line \in Seq(Characters)
    BY IoTypes DEF Accounted
  <2> HIDE DEF line
  <2> QED
    BY <2>1
<1>4. (r = 0 \/ IsNewline(p)) => c.at = 1
  BY SeenMore
<1>5. (r # 0 /\ ~IsNewline(p)) => i = p.line /\ c.at = p.at + 1 /\ p.at \in Nat /\ p.at >= 1
  <2>1. SUFFICES ASSUME r # 0, ~IsNewline(p)
                 PROVE  i = p.line /\ c.at = p.at + 1 /\ p.at \in Nat /\ p.at >= 1
    OBVIOUS
  <2>2. r \in 1..Len(Chars) /\ r >= 1
    BY <2>1, CharFacts
  <2>3. c = [line |-> p.line, at |-> p.at + 1]
    BY <2>1, <2>2, SeenMore
  <2> QED
    BY <2>2, <2>3, CharFacts
<1>6. line # <<>> => /\ r >= 1 /\ ~IsNewline(p)
                     /\ \A k \in 1..l : line[k] = [line |-> p.line, at |-> p.at - l + k]
  BY DEF Accounted, BufferIsLast
<1>7. ~io.dropped => IF r = 0 \/ IsNewline(p) THEN line = <<>> ELSE l = p.at
  BY DEF Accounted, BufferIsWhole
<1> HIDE DEF line, l, p, i
<1>8. line # <<>> => line[1].line = i
  <2>1. SUFFICES ASSUME line # <<>> PROVE line[1].line = i
    OBVIOUS
  <2>2. 1 \in 1..l
    BY <1>3, <2>1
  <2>3. line[1] = [line |-> p.line, at |-> p.at - l + 1]
    BY <1>6, <2>1, <2>2
  <2> QED
    BY <1>5, <1>6, <2>1, <2>3
<1>9. line # <<>> /\ IsRequest(line) => Method(i) # "garbage"
  BY <1>8 DEF IsRequest, Method
<1>10. ~io.dropped /\ line = <<>> => Method(i) = "blank"
  <2>1. SUFFICES ASSUME ~io.dropped, line = <<>> PROVE Method(i) = "blank"
    OBVIOUS
  <2>2. Size(i) = 1
    BY <1>1, <1>3, <1>4, <1>5, <1>7, <2>1
  <2> QED
    BY <1>1, <2>2, StdioConstants, ScriptTypes DEF Size, Method
<1>11. ~io.dropped /\ line # <<>> /\ ~IsRequest(line) => Method(i) = "garbage"
  <2>1. SUFFICES ASSUME ~io.dropped, line # <<>>, Method(i) # "garbage" PROVE IsRequest(line)
    OBVIOUS
  <2>2. l = p.at /\ i = p.line /\ l = Size(i) - 1
    BY <1>1, <1>3, <1>5, <1>6, <1>7, <2>1
  <2>3. \A k \in 1..l : p.at - l + k = k
    BY <1>3, <2>2
  <2>4. \A k \in 1..l : line[k] = [line |-> i, at |-> k]
    BY <1>6, <2>1, <2>2, <2>3
  <2>5. DOMAIN line = 1..l /\ Len(line) = l
    BY <1>3 DEF l
  <2> QED
    BY <1>8, <2>1, <2>2, <2>4, <2>5 DEF IsRequest, Method, Size
<1> QED
  BY <1>1, <1>2, <1>8, <1>9, <1>10, <1>11 DEF line, i

\* What the end of a line i may do to what is owed.
LEMMA LineEnds ==
  ASSUME NEW r \in Nat, NEW io, Accounted(io, r), NEW i \in 1..Len(Script),
         IsFiniteSet(Seen(r)), i \notin Seen(r), Seen(r + 1) = Seen(r) \cup {i},
         IsNewline(Chars[r + 1]),
         NEW jo \in StdioStates, jo.buffer = <<>>, jo.dropped = io.dropped, jo.waiting = io.waiting,
         \/ /\ jo.active = io.active /\ jo.replies = io.replies
            /\ ~io.dropped => Method(i) = "blank"
         \/ /\ jo.active = io.active
            /\ \E x \in Replies : /\ x.id = Null /\ jo.replies = Append(io.replies, x)
            /\ ~io.dropped => Method(i) = "garbage"
         \/ /\ jo.active = io.active /\ Method(i) \notin {"blank", "garbage"}
            /\ \E x \in Replies : /\ x.id = IdOf(i, Null) /\ jo.replies = Append(io.replies, x)
         \/ /\ jo.active = io.active \cup {i} /\ jo.replies = io.replies
            /\ Method(i) \notin {"blank", "garbage"}
  PROVE  Accounted(jo, r + 1)
<1> DEFINE a == io.active \ io.waiting
           noid == Cardinality(OfMethod("no id", Seen(r)))
           bad == Cardinality(OfMethod("garbage", Seen(r)))
<1>1. /\ io \in StdioStates /\ io.waiting \subseteq io.active /\ io.active \subseteq Seen(r)
      /\ i \notin io.active /\ i \notin io.waiting /\ i \notin a
      /\ \A j \in io.active : Method(j) \notin {"blank", "garbage"}
      /\ AnsweredInTime(io, r) /\ (~io.dropped => AllAnswered(io, r))
  BY DEF Accounted
<1>2. IsFiniteSet(a)
  BY <1>1, FS_Subset
<1>3. /\ noid \in Nat /\ bad \in Nat /\ Cardinality(OfMethod("no id", a)) \in Nat
      /\ Cardinality(OfMethod("no id", Seen(r + 1))) = noid + (IF Method(i) = "no id" THEN 1 ELSE 0)
      /\ Cardinality(OfMethod("garbage", Seen(r + 1)))
           = bad + (IF Method(i) = "garbage" THEN 1 ELSE 0)
      /\ Cardinality(OfMethod("no id", a \cup {i}))
           = Cardinality(OfMethod("no id", a)) + (IF Method(i) = "no id" THEN 1 ELSE 0)
  <2>1. /\ noid \in Nat
        /\ Cardinality(OfMethod("no id", Seen(r) \cup {i}))
             = noid + (IF Method(i) = "no id" THEN 1 ELSE 0)
    BY OfMethodMore
  <2>2. /\ bad \in Nat
        /\ Cardinality(OfMethod("garbage", Seen(r) \cup {i}))
             = bad + (IF Method(i) = "garbage" THEN 1 ELSE 0)
    BY OfMethodMore
  <2>3. /\ Cardinality(OfMethod("no id", a)) \in Nat
        /\ Cardinality(OfMethod("no id", a \cup {i}))
             = Cardinality(OfMethod("no id", a)) + (IF Method(i) = "no id" THEN 1 ELSE 0)
    <3> HIDE DEF a
    <3> QED
      BY <1>1, <1>2, OfMethodMore
  <2> QED
    BY <2>1, <2>2, <2>3
<1>4. \A id : NumberGiven(io, id) \in Nat
  <2>1. \E x \in Replies : TRUE
    <3>1. [id |-> 0, code |-> "result"] \in Replies
      BY DEF Replies, Codes
    <3> QED
      BY <3>1
  <2>2. PICK x \in Replies : TRUE
    BY <2>1
  <2> DEFINE ko == [replies |-> Append(io.replies, x)]
  <2>3. ko.replies = Append(io.replies, x)
    OBVIOUS
  <2> QED
    BY <1>1, <2>3, GivenMore
<1>5. i \in Requests => NumberGiven(io, i) = 0
  BY <1>1, <1>4 DEF AnsweredInTime
<1>6. BufferIsLast(jo, r + 1) /\ BufferIsWhole(jo, r + 1)
  BY DEF BufferIsLast, BufferIsWhole
<1>7. SUFFICES /\ jo.waiting \subseteq jo.active /\ jo.active \subseteq Seen(r + 1)
               /\ \A j \in jo.active : Method(j) \notin {"blank", "garbage"}
               /\ AnsweredInTime(jo, r + 1)
               /\ ~io.dropped => AllAnswered(jo, r + 1)
  BY <1>6 DEF Accounted
<1>8. jo.waiting \subseteq jo.active /\ jo.active \subseteq Seen(r + 1)
  BY <1>1
<1> DEFINE k == Cardinality(OfMethod("no id", a))
           noid1 == Cardinality(OfMethod("no id", Seen(r + 1)))
           bad1 == Cardinality(OfMethod("garbage", Seen(r + 1)))
           k1 == Cardinality(OfMethod("no id", jo.active \ jo.waiting))
           u == NumberGiven(io, Null)
           v == NumberGiven(io, 0)
           u1 == NumberGiven(jo, Null)
           v1 == NumberGiven(jo, 0)
           one == IF Method(i) = "no id" THEN 1 ELSE 0
           two == IF Method(i) = "garbage" THEN 1 ELSE 0
<1>9. ~io.dropped => /\ \A j \in Requests \cap Seen(r) : j \in io.active \/ NumberGiven(io, j) = 1
                     /\ u >= bad /\ u + v + k = bad + noid
  BY <1>1 DEF AllAnswered
<1>10. ASSUME \A j \in Requests \cap Seen(r + 1) : j \in jo.active \/ NumberGiven(jo, j) = 1,
              u1 >= bad1, u1 + v1 + k1 = bad1 + noid1
       PROVE  AllAnswered(jo, r + 1)
  BY <1>10 DEF AllAnswered
<1>11. u \in Nat /\ v \in Nat /\ k \in Nat /\ noid \in Nat /\ bad \in Nat
  BY <1>3, <1>4
<1>12. /\ noid1 = noid + one /\ bad1 = bad + two
       /\ jo.active = io.active => k1 = k
       /\ jo.active \ jo.waiting = a \cup {i} => k1 = k + one
  BY <1>3
<1>13. /\ one \in Nat /\ two \in Nat
       /\ Method(i) # "no id" => one = 0
       /\ Method(i) = "no id" => one = 1
       /\ Method(i) = "garbage" => two = 1 /\ one = 0
       /\ Method(i) # "garbage" => two = 0
       /\ Method(i) = "blank" => two = 0 /\ one = 0
  OBVIOUS
<1> HIDE DEF a, noid, bad, k, noid1, bad1, k1, u, v, u1, v1, one, two
<1>14. CASE /\ jo.active = io.active /\ jo.replies = io.replies
            /\ ~io.dropped => Method(i) = "blank"
  <2>1. \A id : NumberGiven(jo, id) = NumberGiven(io, id)
    BY <1>14 DEF NumberGiven, Given
  <2>2. AnsweredInTime(jo, r + 1)
    BY <1>1, <1>14, <2>1 DEF AnsweredInTime
  <2>3. ~io.dropped => AllAnswered(jo, r + 1)
    <3>1. SUFFICES ASSUME ~io.dropped PROVE AllAnswered(jo, r + 1)
      OBVIOUS
    <3>2. Method(i) = "blank" /\ i \notin Requests
      BY <1>14, <3>1, RequestIds
    <3>3. \A j \in Requests \cap Seen(r + 1) : j \in jo.active \/ NumberGiven(jo, j) = 1
      BY <1>14, <1>9, <2>1, <3>1, <3>2
    <3>4. u1 = u /\ v1 = v
      BY <2>1 DEF u, u1, v, v1
    <3>5. u1 >= bad1 /\ u1 + v1 + k1 = bad1 + noid1
      BY <1>14, <1>9, <1>11, <1>12, <1>13, <3>1, <3>2, <3>4
    <3> QED
      BY <1>10, <3>3, <3>5
  <2> QED
    BY <1>1, <1>8, <1>14, <2>2, <2>3
<1>15. CASE /\ jo.active = io.active
            /\ \E x \in Replies : /\ x.id = Null /\ jo.replies = Append(io.replies, x)
            /\ ~io.dropped => Method(i) = "garbage"
  <2>1. \A id : NumberGiven(jo, id) = NumberGiven(io, id) + (IF id = Null THEN 1 ELSE 0)
    BY <1>1, <1>15, GivenMore
  <2>2. \A id : id # Null => NumberGiven(jo, id) = NumberGiven(io, id)
    BY <1>4, <2>1
  <2>3. AnsweredInTime(jo, r + 1)
    BY <1>1, <1>15, <2>2, RequestIds DEF AnsweredInTime
  <2>4. ~io.dropped => AllAnswered(jo, r + 1)
    <3>1. SUFFICES ASSUME ~io.dropped PROVE AllAnswered(jo, r + 1)
      OBVIOUS
    <3>2. Method(i) = "garbage" /\ i \notin Requests
      BY <1>15, <3>1, RequestIds
    <3>3. u1 = u + 1 /\ v1 = v
      BY <2>1, <2>2, RequestIds DEF u, u1, v, v1
    <3>4. \A j \in Requests \cap Seen(r + 1) : j \in jo.active \/ NumberGiven(jo, j) = 1
      BY <1>15, <1>9, <2>2, <3>1, <3>2, RequestIds
    <3>5. u1 >= bad1 /\ u1 + v1 + k1 = bad1 + noid1
      BY <1>15, <1>9, <1>11, <1>12, <1>13, <3>1, <3>2, <3>3
    <3> QED
      BY <1>10, <3>4, <3>5
  <2> QED
    BY <1>1, <1>8, <1>15, <2>3, <2>4
<1>16. CASE /\ jo.active = io.active /\ Method(i) \notin {"blank", "garbage"}
            /\ \E x \in Replies : /\ x.id = IdOf(i, Null) /\ jo.replies = Append(io.replies, x)
  <2> DEFINE id0 == IdOf(i, Null)
  <2>0. IF Method(i) = "no id" THEN id0 = Null ELSE id0 = i /\ i \in Requests
    BY <1>16, RequestIds DEF IdOf, Method
  <2>1. \A id : NumberGiven(jo, id) = NumberGiven(io, id) + (IF id = id0 THEN 1 ELSE 0)
    BY <1>1, <1>16, GivenMore
  <2> HIDE DEF id0
  <2>2. \A id : id # id0 => NumberGiven(jo, id) = NumberGiven(io, id)
    BY <1>4, <2>1
  <2>5. i \in Requests => NumberGiven(jo, i) = 1
    <3>1. SUFFICES ASSUME i \in Requests PROVE NumberGiven(jo, i) = 1
      OBVIOUS
    <3>2. NumberGiven(jo, i) = NumberGiven(io, i) + 1 /\ NumberGiven(io, i) = 0
      BY <1>5, <2>0, <2>1, <3>1, RequestIds
    <3> QED
      BY <3>2
  <2>6. \A j \in Requests : j # i => NumberGiven(jo, j) = NumberGiven(io, j)
    BY <2>0, <2>2, RequestIds
  <2>3. AnsweredInTime(jo, r + 1)
    <3>1. SUFFICES ASSUME NEW j \in Requests
                   PROVE  /\ NumberGiven(jo, j) <= 1
                          /\ j \in jo.active \ jo.waiting => NumberGiven(jo, j) = 0
                          /\ j \in jo.waiting => NumberGiven(jo, j) = 1
                          /\ NumberGiven(jo, j) > 0 => j \in Seen(r + 1)
      BY DEF AnsweredInTime
    <3>2. CASE j = i
      BY <1>1, <1>16, <2>5, <3>2
    <3>3. CASE j # i
      BY <1>1, <1>16, <2>6, <3>3 DEF AnsweredInTime
    <3> QED
      BY <3>2, <3>3
  <2>4. ~io.dropped => AllAnswered(jo, r + 1)
    <3>1. SUFFICES ASSUME ~io.dropped PROVE AllAnswered(jo, r + 1)
      OBVIOUS
    <3>4. \A j \in Requests \cap Seen(r + 1) : j \in jo.active \/ NumberGiven(jo, j) = 1
      BY <1>16, <1>9, <2>5, <2>6, <3>1
    <3>5. v1 = v
      BY <2>0, <2>2, RequestIds DEF v, v1
    <3>6. u1 = u + one
      <4>1. CASE Method(i) = "no id"
        BY <1>13, <2>0, <2>1, <4>1 DEF u, u1
      <4>2. CASE Method(i) # "no id"
        <5>1. u1 = u /\ one = 0
          BY <1>13, <2>0, <2>2, <4>2, RequestIds DEF u, u1
        <5> QED
          BY <1>11, <5>1
      <4> QED
        BY <4>1, <4>2
    <3>7. u1 >= bad1 /\ u1 + v1 + k1 = bad1 + noid1
      <4>1. /\ u \in Nat /\ v \in Nat /\ k \in Nat /\ noid \in Nat /\ bad \in Nat /\ one \in Nat
            /\ u >= bad /\ u + v + k = bad + noid
            /\ v1 = v /\ u1 = u + one /\ k1 = k /\ noid1 = noid + one
        BY <1>16, <1>9, <1>11, <1>12, <1>13, <3>1, <3>5, <3>6
      <4>2. bad1 = bad
        <5>1. two = 0 /\ bad1 = bad + two /\ bad \in Nat
          BY <1>16, <1>11, <1>12, <1>13
        <5> QED
          BY <5>1
      <4> QED
        BY <4>1, <4>2
    <3> QED
      BY <1>10, <3>4, <3>7
  <2> QED
    BY <1>1, <1>8, <1>16, <2>3, <2>4
<1>17. CASE /\ jo.active = io.active \cup {i} /\ jo.replies = io.replies
            /\ Method(i) \notin {"blank", "garbage"}
  <2>1. \A id : NumberGiven(jo, id) = NumberGiven(io, id)
    BY <1>17 DEF NumberGiven, Given
  <2>2. jo.active \ jo.waiting = a \cup {i}
    BY <1>1, <1>17 DEF a
  <2>3. AnsweredInTime(jo, r + 1)
    BY <1>1, <1>5, <1>17, <2>1 DEF AnsweredInTime
  <2>4. ~io.dropped => AllAnswered(jo, r + 1)
    <3>1. SUFFICES ASSUME ~io.dropped PROVE AllAnswered(jo, r + 1)
      OBVIOUS
    <3>2. \A j \in Requests \cap Seen(r + 1) : j \in jo.active \/ NumberGiven(jo, j) = 1
      BY <1>17, <1>9, <2>1, <3>1
    <3>3. u1 = u /\ v1 = v /\ k1 = k + one
      BY <1>12, <2>1, <2>2 DEF u, u1, v, v1
    <3>4. u1 >= bad1 /\ u1 + v1 + k1 = bad1 + noid1
      <4>1. /\ u \in Nat /\ v \in Nat /\ k \in Nat /\ noid \in Nat /\ bad \in Nat /\ one \in Nat
            /\ u >= bad /\ u + v + k = bad + noid
            /\ v1 = v /\ u1 = u /\ k1 = k + one /\ noid1 = noid + one
        BY <1>9, <1>11, <1>12, <1>13, <3>1, <3>3
      <4>2. bad1 = bad
        <5>1. two = 0 /\ bad1 = bad + two /\ bad \in Nat
          BY <1>17, <1>11, <1>12, <1>13
        <5> QED
          BY <5>1
      <4> QED
        BY <4>1, <4>2
    <3> QED
      BY <1>10, <3>2, <3>4
  <2> QED
    BY <1>1, <1>8, <1>17, <2>3, <2>4
<1> QED
  BY <1>14, <1>15, <1>16, <1>17

\* A newline takes out the line before it.
LEMMA NewlineTaken ==
  ASSUME NEW r \in Nat, r + 1 <= Len(Chars), NEW io, Accounted(io, r), io.running,
         NEW c, c = Chars[r + 1], IsNewline(c),
         NEW jo, jo = ProcessLine([io EXCEPT !.buffer = <<>>], io.buffer)
  PROVE  Accounted(jo, r + 1) /\ jo.running /\ jo.read = io.read
<1> DEFINE line == io.buffer
           i == c.line
           none == <<>>
           b == [io EXCEPT !.buffer = none]
<1>1. /\ i \in 1..Len(Script) /\ i \notin Seen(r) /\ Seen(r + 1) = Seen(r) \cup {i}
      /\ line # <<>> => line[1].line = i
      /\ IsRequest(line) /\ line # <<>> => Method(i) # "garbage"
      /\ ~io.dropped /\ line = <<>> => Method(i) = "blank"
      /\ ~io.dropped /\ line # <<>> /\ ~IsRequest(line) => Method(i) = "garbage"
  BY LineOfBuffer
<1>2. io \in StdioStates /\ IsFiniteSet(Seen(r)) /\ IsNewline(Chars[r + 1])
  BY SeenMore DEF Accounted
<1>3. none \in Seq(Characters)
  OBVIOUS
<1>4. jo = ProcessLine(b, line)
  OBVIOUS
<1> HIDE DEF none, line
<1>5. /\ b \in StdioStates /\ b.buffer = none /\ b.running
      /\ b.read = io.read /\ b.handler = io.handler
      /\ b.active = io.active /\ b.waiting = io.waiting /\ b.replies = io.replies
      /\ b.dropped = io.dropped
  BY <1>2, <1>3 DEF StdioStates
<1> HIDE DEF b, i
<1>6. CASE line = <<>> \/ Method(i) = "blank"
  <2>1. jo = b
    <3>1. CASE line = <<>>
      BY <1>4, <3>1 DEF ProcessLine
    <3>2. CASE line # <<>>
      <4>1. Script[line[1].line].method = "blank"
        BY <1>1, <1>6, <3>2 DEF Method
      <4> QED
        BY <1>4, <4>1 DEF ProcessLine
    <3> QED
      BY <3>1, <3>2
  <2>2. ~io.dropped => Method(i) = "blank"
    BY <1>1, <1>6
  <2> QED
    BY <1>1, <1>2, <1>5, <2>1, <2>2, LineEnds DEF none
<1>7. ASSUME NEW x \in Replies, jo = Written(b, x),
             \/ x.id = Null /\ (~io.dropped => Method(i) = "garbage")
             \/ x.id = IdOf(i, Null) /\ Method(i) \notin {"blank", "garbage"}
      PROVE  Accounted(jo, r + 1) /\ jo.running /\ jo.read = io.read
  <2> DEFINE t == Append(b.replies, x)
  <2>1. jo = [b EXCEPT !.replies = t] /\ t \in Seq(Replies)
    <3>1. b.replies \in Seq(Replies)
      BY <1>5, IoTypes
    <3>2. jo = [b EXCEPT !.replies = Append(b.replies, x)]
      BY <1>5, <1>7 DEF Written, StdioStates
    <3> HIDE DEF b
    <3>3. Append(b.replies, x) \in Seq(Replies)
      BY <3>1, SeqAppends
    <3> QED
      BY <3>2, <3>3
  <2> HIDE DEF t
  <2>2. /\ jo \in StdioStates /\ jo.buffer = none /\ jo.running /\ jo.read = io.read
        /\ jo.active = io.active /\ jo.waiting = io.waiting /\ jo.replies = t
        /\ jo.dropped = io.dropped
    BY <1>5, <2>1 DEF StdioStates
  <2>3. jo.replies = Append(io.replies, x)
    BY <1>5, <2>2 DEF t
  <2> QED
    BY <1>1, <1>2, <1>7, <2>2, <2>3, LineEnds DEF none
<1>8. CASE line # <<>> /\ Method(i) # "blank" /\ ~IsRequest(line)
  <2> DEFINE x == Reply(Null, "-32700")
  <2>1. jo = Written(b, x) /\ x \in Replies /\ x.id = Null
    BY <1>1, <1>4, <1>8, RequestIds DEF ProcessLine, Method, Reply, Replies, Codes
  <2> HIDE DEF x
  <2> QED
    BY <1>1, <1>7, <1>8, <2>1
<1>9. CASE line # <<>> /\ Method(i) # "blank" /\ IsRequest(line) /\ ~io.handler
  <2> DEFINE x == Reply(IdOf(i, Null), "-32603")
  <2>1. jo = Written(b, x)
    BY <1>1, <1>4, <1>5, <1>9 DEF ProcessLine, Method
  <2>2. IdOf(i, Null) \in Int
    <3>1. i \in Int
      BY <1>1, ScriptTypes
    <3>2. IdOf(i, Null) = Null \/ IdOf(i, Null) = i
      BY DEF IdOf
    <3> QED
      BY <3>1, <3>2, RequestIds
  <2>3. x \in Replies /\ x.id = IdOf(i, Null)
    BY <2>2 DEF Reply, Replies, Codes
  <2> HIDE DEF x
  <2> QED
    BY <1>1, <1>7, <1>9, <2>1, <2>3
<1>10. CASE line # <<>> /\ Method(i) # "blank" /\ IsRequest(line) /\ io.handler
  <2> DEFINE A == b.active \cup {i}
  <2>1. jo = [b EXCEPT !.active = A] /\ A \in SUBSET (1..Len(Script))
    BY <1>1, <1>4, <1>5, <1>10, IoTypes DEF ProcessLine, Method
  <2> HIDE DEF A
  <2>2. /\ jo \in StdioStates /\ jo.buffer = none /\ jo.running /\ jo.read = io.read
        /\ jo.active = A /\ jo.waiting = io.waiting /\ jo.replies = io.replies
        /\ jo.dropped = io.dropped
    BY <1>5, <2>1 DEF StdioStates
  <2>3. jo.active = io.active \cup {i} /\ Method(i) \notin {"blank", "garbage"}
    BY <1>1, <1>5, <1>10, <2>2 DEF A
  <2> QED
    BY <1>1, <1>2, <2>2, <2>3, LineEnds DEF none
<1> QED
  BY <1>2, <1>6, <1>8, <1>9, <1>10

\* One character is taken, with the line it may end.
LEMMA TakeKeeps ==
  ASSUME NEW r \in Nat, r + 1 <= Len(Chars), NEW io, Accounted(io, r), io.running
  PROVE  LET jo == TakeCharacter(io, Chars[r + 1])
         IN  Accounted(jo, r + 1) /\ jo.running /\ jo.read = io.read
<1> DEFINE c == Chars[r + 1]
<1>1. CASE IsNewline(c)
  <2> DEFINE jo == ProcessLine([io EXCEPT !.buffer = <<>>], io.buffer)
  <2>1. TakeCharacter(io, c) = jo
    BY <1>1 DEF TakeCharacter
  <2> HIDE DEF jo
  <2>2. Accounted(jo, r + 1) /\ jo.running /\ jo.read = io.read
    BY <1>1, NewlineTaken DEF jo
  <2> QED
    BY <2>1, <2>2
<1>2. CASE ~IsNewline(c)
  <2> DEFINE jo == [io EXCEPT !.buffer = Append(io.buffer, c)]
  <2>1. TakeCharacter(io, c) = jo
    BY <1>2 DEF TakeCharacter, Accounted, StdioStates
  <2> HIDE DEF jo
  <2>2. Accounted(jo, r + 1) /\ jo.running /\ jo.read = io.read
    BY <1>2, BufferGrows DEF jo
  <2> QED
    BY <2>1, <2>2
<1> QED
  BY <1>1, <1>2

\* What a chunk does to what is owed.
ChunkOf(chunk, r, size, end) ==
  /\ r \in Nat /\ size \in Nat /\ end = r + size /\ end <= Len(Chars)
  /\ chunk = SubSeq(Chars, r + 1, end)
LEMMA LinesKeep ==
  ASSUME NEW r, NEW size, NEW end, NEW chunk, ChunkOf(chunk, r, size, end),
         NEW io, Accounted(io, r), io.running, NEW jo, jo = TakeLines(io, chunk)
  PROVE  Accounted(jo, end) /\ jo.running /\ jo.read = io.read
<1>0. /\ r \in Nat /\ size \in Nat /\ end = r + size /\ end <= Len(Chars)
      /\ chunk = SubSeq(Chars, r + 1, end)
  BY DEF ChunkOf
<1> DEFINE T(k) == Takes(io, chunk)[1..k]
           Fine(ko, k) == Accounted(ko, r + k) /\ ko.running /\ ko.read = io.read
           N == {k \in Nat : k <= size => Fine(T(k), k)}
<1>1. DOMAIN chunk = 1..size /\ \A k \in 1..size : chunk[k] = Chars[r + k]
  <2>1. Chars \in Seq(Characters) /\ Len(Chars) \in Nat
    BY CharFacts
  <2> DEFINE m == r + 1
             n == r + size
  <2>2. m \in 1..(Len(Chars) + 1) /\ n \in (m - 1)..Len(Chars) /\ n - m + 1 = size
    BY <1>0, <2>1
  <2>3. \A k \in 1..size : m + k - 1 = r + k
    BY <1>0
  <2> HIDE DEF Fine, N, T, m, n
  <2>4. chunk = SubSeq(Chars, m, n)
    BY <1>0 DEF m, n
  <2>5. /\ Len(chunk) = size /\ DOMAIN chunk = 1..size
        /\ \A k \in 1..size : chunk[k] = Chars[m + k - 1]
    BY <2>1, <2>2, <2>4, SubSeqProperties
  <2> QED
    BY <2>3, <2>5
<1>2. T(0) = io /\ \A k \in 0..(size - 1) : T(k + 1) = TakeCharacter(T(k), chunk[k + 1])
  <2>1. /\ Takes(io, chunk)[1..0] = io
        /\ \A k \in 0..(size - 1) :
             Takes(io, chunk)[1..(k + 1)] = TakeCharacter(Takes(io, chunk)[1..k], chunk[k + 1])
    <3>1. DOMAIN chunk = 1..size
      BY <1>1
    <3> HIDE DEF T, Fine, N
    <3>2. Takes(io, chunk)[1..0] = io
      BY <1>0, <3>1, TakesStep
    <3>3. ASSUME NEW k \in 0..(size - 1)
          PROVE  Takes(io, chunk)[1..(k + 1)] = TakeCharacter(Takes(io, chunk)[1..k], chunk[k + 1])
      <4>1. size \in Nat /\ k \in 0..(size - 1)
        BY <1>0
      <4> QED
        BY <3>1, <4>1, TakesOne
    <3> QED
      BY <3>2, <3>3
  <2> QED
    BY <2>1
<1> HIDE DEF T
<1>3. 0 \in N
  BY <1>0, <1>2
<1>4. ASSUME NEW k \in Nat, k \in N
      PROVE  k + 1 \in N
  <2>1. SUFFICES ASSUME k + 1 <= size PROVE Fine(T(k + 1), k + 1)
    OBVIOUS
  <2>2. k \in 0..(size - 1) /\ k + 1 \in 1..size /\ k <= size
    BY <1>0, <2>1
  <2>3. Accounted(T(k), r + k) /\ T(k).running /\ T(k).read = io.read
    BY <1>4, <2>2
  <2>4. T(k + 1) = TakeCharacter(T(k), Chars[r + (k + 1)])
    BY <1>1, <1>2, <2>2
  <2> DEFINE q == r + k
             ko == TakeCharacter(T(k), Chars[q + 1])
  <2>5. q \in Nat /\ q + 1 <= Len(Chars) /\ r + (k + 1) = q + 1
    BY <1>0, <2>2, CharFacts
  <2> HIDE DEF q
  <2>6. Accounted(ko, q + 1) /\ ko.running /\ ko.read = T(k).read
    BY <2>3, <2>5, TakeKeeps DEF q
  <2> QED
    BY <2>3, <2>4, <2>5, <2>6
<1> HIDE DEF N
<1>5. size \in N
  BY <1>0, <1>3, <1>4, Naturals
<1>6. TakeLines(io, chunk) = T(size)
  BY <1>0, <1>1, TakeLinesIsTakes DEF T
<1> QED
  BY <1>0, <1>5, <1>6 DEF N

LEMMA SeenGrows ==
  ASSUME NEW r \in Nat, NEW q \in Nat, r <= q
  PROVE  Seen(r) \subseteq Seen(q)
<1>1. 1..r \subseteq 1..q
  OBVIOUS
<1> QED
  BY <1>1 DEF Seen

LEMMA GivenSame ==
  ASSUME NEW io, NEW jo, jo.replies = io.replies
  PROVE  \A id : NumberGiven(jo, id) = NumberGiven(io, id)
BY DEF NumberGiven, Given

\* What throws input away leaves the requests that were taken as they are.
LEMMA LossKeeps ==
  ASSUME NEW r \in Nat, NEW q \in Nat, r <= q, NEW io, Accounted(io, r),
         NEW jo \in StdioStates, jo.dropped, jo.buffer = <<>> \/ ~jo.running,
         jo.active = io.active, jo.waiting = io.waiting,
         \A i \in Requests : NumberGiven(jo, i) = NumberGiven(io, i)
  PROVE  Accounted(jo, q)
<1>1. Seen(r) \subseteq Seen(q)
  BY SeenGrows
<1>2. AnsweredInTime(jo, q)
  BY <1>1 DEF Accounted, AnsweredInTime
<1>3. jo.running => BufferIsLast(jo, q)
  BY DEF BufferIsLast
<1>4. jo.active \subseteq Seen(q)
  BY <1>1 DEF Accounted
<1> QED
  BY <1>2, <1>3, <1>4 DEF Accounted

\* The transport starts or stops, or a stop empties the buffer.
LEMMA BufferKept ==
  ASSUME NEW r \in Nat, NEW io, Accounted(io, r), NEW jo \in StdioStates,
         jo.active = io.active, jo.waiting = io.waiting, jo.replies = io.replies,
         \/ jo.buffer = <<>> /\ jo.dropped = (io.dropped \/ io.buffer # <<>>)
         \/ jo.buffer = io.buffer /\ jo.dropped = io.dropped /\ (jo.running => io.running)
  PROVE  Accounted(jo, r)
<1>1. \A id : NumberGiven(jo, id) = NumberGiven(io, id)
  BY GivenSame
<1>2. io.dropped \in BOOLEAN /\ jo.dropped \in BOOLEAN /\ (io.dropped => jo.dropped)
  BY IoTypes DEF Accounted
<1>3. AnsweredInTime(jo, r)
  BY <1>1 DEF Accounted, AnsweredInTime
<1>4. ~jo.dropped => AllAnswered(jo, r)
  BY <1>1, <1>2 DEF Accounted, AllAnswered
<1>5. (jo.running \/ ~jo.dropped) => BufferIsLast(jo, r)
  BY <1>2 DEF Accounted, BufferIsLast
<1>6. ~jo.dropped => BufferIsWhole(jo, r)
  <2>1. SUFFICES ASSUME ~jo.dropped PROVE BufferIsWhole(jo, r)
    OBVIOUS
  <2>2. ~io.dropped /\ jo.buffer = io.buffer
    BY <1>2, <2>1
  <2>3. BufferIsWhole(io, r)
    BY <2>2 DEF Accounted
  <2> QED
    BY <2>2, <2>3 DEF BufferIsWhole
<1> QED
  BY <1>3, <1>4, <1>5, <1>6 DEF Accounted

LEMMA StdioStarts == StdioInit => StdioInv
<1> SUFFICES ASSUME StdioInit PROVE StdioInv
  OBVIOUS
<1>1. stdio \in StdioStates
  BY DEF StdioInit, StdioStates
<1>2. /\ stdio.buffer = <<>> /\ stdio.active = {} /\ stdio.waiting = {} /\ stdio.read = 0
      /\ stdio.replies = <<>>
  BY DEF StdioInit
<1>3. Seen(0) = {}
  BY DEF Seen
<1>4. \A id : NumberGiven(stdio, id) = 0
  <2>1. \A id : Given(stdio, id) = {}
    BY <1>2 DEF Given
  <2> QED
    BY <2>1, FS_EmptySet DEF NumberGiven
<1>5. /\ Cardinality(OfMethod("garbage", {})) = 0 /\ Cardinality(OfMethod("no id", {})) = 0
      /\ {} \ {} = {}
  <2>1. OfMethod("garbage", {}) = {} /\ OfMethod("no id", {}) = {}
    BY DEF OfMethod
  <2> QED
    BY <2>1, FS_EmptySet
<1>6. AnsweredInTime(stdio, 0)
  BY <1>2, <1>4 DEF AnsweredInTime
<1>7. AllAnswered(stdio, 0)
  <2>1. Seen(0) = {} /\ stdio.active \ stdio.waiting = {}
    BY <1>2, <1>3
  <2>2. \A i \in Requests \cap Seen(0) : i \in stdio.active \/ NumberGiven(stdio, i) = 1
    BY <2>1
  <2>3. \A a, b, c, d, e : a = 0 /\ b = 0 /\ c = 0 /\ d = 0 /\ e = 0 => a >= d /\ a + b + c = d + e
    OBVIOUS
  <2> DEFINE a == NumberGiven(stdio, Null)
             b == NumberGiven(stdio, 0)
             c == Cardinality(OfMethod("no id", stdio.active \ stdio.waiting))
             d == Cardinality(OfMethod("garbage", Seen(0)))
             e == Cardinality(OfMethod("no id", Seen(0)))
  <2>4. a = 0 /\ b = 0
    BY <1>4
  <2>5. c = 0 /\ d = 0 /\ e = 0
    BY <1>5, <2>1
  <2> HIDE DEF a, b, c, d, e
  <2>6. a >= d /\ a + b + c = d + e
    BY <2>3, <2>4, <2>5
  <2> QED
    BY <2>2, <2>6 DEF AllAnswered, a, b, c, d, e
<1>8. BufferIsLast(stdio, 0) /\ BufferIsWhole(stdio, 0)
  BY <1>2 DEF BufferIsLast, BufferIsWhole
<1>9. Len(Chars) \in Nat
  BY CharFacts
<1> QED
  BY <1>1, <1>2, <1>3, <1>6, <1>7, <1>8, <1>9 DEF StdioInv, Accounted

\* A chunk is lost, too much for the buffer, or taken.
LEMMA HandleChunkKeeps ==
  ASSUME StdioInv, NEW size \in 1..Len(Chars), HandleChunk(size)
  PROVE  StdioInv'
<1> DEFINE r == stdio.read
           q == r + size
           io == [stdio EXCEPT !.read = q]
           chunk == SubSeq(Chars, r + 1, r + size)
           x == Reply(Null, "-32600")
           lost == [Written(io, x) EXCEPT !.buffer = <<>>, !.dropped = TRUE]
<1>1. /\ stdio \in StdioStates /\ r \in Nat /\ size \in Nat /\ q \in Nat /\ r <= q
      /\ Accounted(stdio, r) /\ q <= Len(Chars)
  BY IoTypes, CharFacts DEF StdioInv, Accounted, HandleChunk
<1>2. /\ io \in StdioStates /\ io.read = q /\ io.buffer = stdio.buffer /\ io.active = stdio.active
      /\ io.waiting = stdio.waiting /\ io.replies = stdio.replies /\ io.running = stdio.running
      /\ io.dropped = stdio.dropped
  <2> HIDE DEF q
  <2> QED
    BY <1>1 DEF StdioStates
<1>3. \/ ~stdio.running /\ stdio' = [io EXCEPT !.dropped = TRUE]
      \/ stdio.running /\ stdio' = lost
      \/ stdio.running /\ stdio' = TakeLines(io, chunk)
  BY DEF HandleChunk
<1>4. Accounted(io, r)
  <2>1. \A id : NumberGiven(io, id) = NumberGiven(stdio, id)
    BY <1>2, GivenSame
  <2> HIDE DEF io, q, r
  <2>2. AnsweredInTime(io, r) /\ (~io.dropped => AllAnswered(io, r))
    BY <1>1, <1>2, <2>1 DEF Accounted, AnsweredInTime, AllAnswered
  <2>3. /\ (io.running \/ ~io.dropped) => BufferIsLast(io, r)
        /\ ~io.dropped => BufferIsWhole(io, r)
    BY <1>1, <1>2 DEF Accounted, BufferIsLast, BufferIsWhole
  <2> QED
    BY <1>1, <1>2, <2>2, <2>3 DEF Accounted
<1> HIDE DEF io, chunk
<1>5. CASE ~stdio.running /\ stdio' = [io EXCEPT !.dropped = TRUE]
  <2>1. /\ stdio' \in StdioStates /\ stdio'.read = q /\ stdio'.dropped /\ ~stdio'.running
        /\ stdio'.active = io.active /\ stdio'.waiting = io.waiting /\ stdio'.replies = io.replies
    BY <1>2, <1>5 DEF StdioStates
  <2>2. \A id : NumberGiven(stdio', id) = NumberGiven(io, id)
    BY <2>1, GivenSame
  <2>3. Accounted(stdio', q)
    <3> HIDE DEF q, r
    <3> QED
      BY <1>1, <1>4, <2>1, <2>2, LossKeeps
  <2> QED
    BY <1>1, <2>1, <2>3 DEF StdioInv, Accounted
<1>6. CASE stdio.running /\ stdio' = lost
  <2> DEFINE t == Append(io.replies, x)
             jo == [io EXCEPT !.replies = t]
  <2>1. x \in Replies /\ x.id = Null
    BY RequestIds DEF Reply, Replies, Codes
  <2>2. io.replies \in Seq(Replies) /\ io.running
    BY <1>2, <1>6, IoTypes
  <2> HIDE DEF x, r, q
  <2>3. t \in Seq(Replies)
    BY <2>1, <2>2, SeqAppends
  <2>4. Written(io, x) = jo
    BY <1>2, <2>2 DEF Written, StdioStates
  <2>5. stdio' = [jo EXCEPT !.buffer = <<>>, !.dropped = TRUE]
    BY <1>6, <2>4
  <2> HIDE DEF t
  <2>6. /\ stdio' \in StdioStates /\ stdio'.read = q /\ stdio'.dropped /\ stdio'.buffer = <<>>
        /\ stdio'.active = io.active /\ stdio'.waiting = io.waiting /\ stdio'.replies = t
    <3>1. <<>> \in Seq(Characters)
      OBVIOUS
    <3> DEFINE none == <<>>
    <3>2. stdio' = [jo EXCEPT !.buffer = none, !.dropped = TRUE]
      BY <2>5
    <3> HIDE DEF none
    <3>3. none \in Seq(Characters)
      BY <3>1 DEF none
    <3>4. /\ stdio' \in StdioStates /\ stdio'.read = q /\ stdio'.dropped /\ stdio'.buffer = none
          /\ stdio'.active = io.active /\ stdio'.waiting = io.waiting /\ stdio'.replies = t
      BY <1>2, <2>3, <3>2, <3>3 DEF StdioStates
    <3> QED
      BY <3>4 DEF none
  <2>7. \A i \in Requests : NumberGiven(stdio', i) = NumberGiven(io, i)
    <3>1. stdio'.replies = Append(io.replies, x)
      BY <2>6 DEF t
    <3>2. \A i \in Requests :
            /\ NumberGiven(io, i) \in Nat
            /\ NumberGiven(stdio', i) = NumberGiven(io, i) + (IF x.id = i THEN 1 ELSE 0)
      BY <1>2, <2>1, <3>1, GivenMore
    <3>3. \A i \in Requests : x.id # i
      BY <2>1, RequestIds
    <3> QED
      BY <3>2, <3>3
  <2>8. Accounted(stdio', q)
    BY <1>1, <1>4, <2>6, <2>7, LossKeeps
  <2> QED
    BY <1>1, <2>6, <2>8 DEF StdioInv
<1>7. CASE stdio.running /\ stdio' = TakeLines(io, chunk)
  <2>1. chunk = SubSeq(Chars, r + 1, r + size)
    BY DEF chunk
  <2>2. io.running
    BY <1>2, <1>7
  <2> HIDE DEF r
  <2>3. q = r + size /\ chunk = SubSeq(Chars, r + 1, q)
    BY <2>1
  <2> HIDE DEF q
  <2> DEFINE jo == TakeLines(io, chunk)
  <2>4. jo = TakeLines(io, chunk) /\ stdio' = jo
    BY <1>7
  <2> HIDE DEF jo
  <2>5. Accounted(jo, q) /\ jo.read = io.read
    <3>1. ChunkOf(chunk, r, size, q)
      BY <1>1, <2>3 DEF ChunkOf
    <3> QED
      BY <1>4, <2>2, <2>4, <3>1, LinesKeep
  <2> QED
    BY <1>1, <1>2, <2>4, <2>5 DEF StdioInv
<1> QED
  BY <1>3, <1>5, <1>6, <1>7

\* Lines are finitely many.
LEMMA FewLines == ASSUME NEW S, S \subseteq 1..Len(Script) PROVE IsFiniteSet(S)
<1> DEFINE l == Len(Script)
<1>1. l \in Int
  BY ScriptTypes
<1> HIDE DEF l
<1>2. IsFiniteSet(1..l)
  BY <1>1, FS_Interval
<1> QED
  BY <1>2, FS_Subset DEF l

\* A handler returns, or what it wrote is taken.
LEMMA ReturnedKeeps ==
  ASSUME NEW r \in Nat, NEW io, Accounted(io, r), NEW i \in io.active \ io.waiting,
         NEW jo \in StdioStates, jo.buffer = io.buffer, jo.running = io.running,
         jo.dropped = io.dropped,
         \/ jo.active = io.active /\ jo.waiting = io.waiting \cup {i}
         \/ jo.active = io.active \ {i} /\ jo.waiting = io.waiting,
         NEW x \in Replies, x.id = IdOf(i, 0), jo.replies = Append(io.replies, x)
  PROVE  Accounted(jo, r)
<1> DEFINE rest == jo.active \ jo.waiting
           noId(S) == Cardinality(OfMethod("no id", S))
           id == x.id
<1>1. /\ io \in StdioStates /\ i \in 1..Len(Script) /\ Method(i) \notin {"blank", "garbage"}
      /\ i \in Seen(r) /\ i \in io.active /\ i \notin io.waiting
  BY IoTypes DEF Accounted
<1>2. /\ io.active \ io.waiting = rest \cup {i} /\ i \notin rest /\ rest \subseteq 1..Len(Script)
      /\ IsFiniteSet(rest)
  <2>1. io.active \ io.waiting = rest \cup {i} /\ i \notin rest /\ rest \subseteq io.active
    BY DEF Accounted
  <2>2. rest \subseteq 1..Len(Script)
    BY <1>1, <2>1, IoTypes
  <2> QED
    BY <2>1, <2>2, FewLines
<1>3. \A j : /\ NumberGiven(io, j) \in Nat
             /\ NumberGiven(jo, j) = NumberGiven(io, j) + (IF id = j THEN 1 ELSE 0)
  BY <1>1, GivenMore
<1>4. /\ Method(i) = "no id" => id = 0 /\ i \notin Requests
      /\ Method(i) # "no id" => id = i /\ i \in Requests
  BY <1>1, RequestIds DEF IdOf, Method
<1>5. /\ jo.waiting \subseteq jo.active /\ jo.active \subseteq io.active
      /\ \A j \in Requests : j # i => /\ j \in jo.active <=> j \in io.active
                                      /\ j \in jo.waiting <=> j \in io.waiting
      /\ i \in jo.active <=> i \in jo.waiting
  BY <1>1 DEF Accounted
<1> HIDE DEF rest, id
<1>6. \A j \in Requests : j # i => NumberGiven(jo, j) = NumberGiven(io, j)
  <2>1. SUFFICES ASSUME NEW j \in Requests, j # i PROVE NumberGiven(jo, j) = NumberGiven(io, j)
    OBVIOUS
  <2>2. id # j
    BY <1>4, <2>1, RequestIds
  <2>3. NumberGiven(jo, j) = NumberGiven(io, j) + 0 /\ NumberGiven(io, j) \in Nat
    BY <1>3, <2>2
  <2> QED
    BY <2>3
<1>7. i \in Requests => NumberGiven(io, i) = 0 /\ NumberGiven(jo, i) = 1
  <2>1. SUFFICES ASSUME i \in Requests PROVE NumberGiven(io, i) = 0 /\ NumberGiven(jo, i) = 1
    OBVIOUS
  <2>2. NumberGiven(io, i) = 0
    BY <1>1, <2>1 DEF Accounted, AnsweredInTime
  <2>3. id = i
    BY <1>4, <2>1
  <2> QED
    BY <1>3, <2>2, <2>3
<1>8. AnsweredInTime(jo, r)
  <2>1. SUFFICES ASSUME NEW j \in Requests
                 PROVE  /\ NumberGiven(jo, j) <= 1
                        /\ j \in jo.active \ jo.waiting => NumberGiven(jo, j) = 0
                        /\ j \in jo.waiting => NumberGiven(jo, j) = 1
                        /\ NumberGiven(jo, j) > 0 => j \in Seen(r)
    BY DEF AnsweredInTime
  <2>2. /\ NumberGiven(io, j) <= 1
        /\ j \in io.active \ io.waiting => NumberGiven(io, j) = 0
        /\ j \in io.waiting => NumberGiven(io, j) = 1
        /\ NumberGiven(io, j) > 0 => j \in Seen(r)
    BY DEF Accounted, AnsweredInTime
  <2>3. CASE j = i
    BY <1>1, <1>5, <1>7, <2>3
  <2>4. CASE j # i
    <3>1. NumberGiven(jo, j) = NumberGiven(io, j)
      BY <1>6, <2>4
    <3> QED
      BY <1>5, <2>2, <2>4, <3>1
  <2> QED
    BY <2>3, <2>4
<1>9. ~jo.dropped => AllAnswered(jo, r)
  <2>1. SUFFICES ASSUME ~jo.dropped PROVE AllAnswered(jo, r)
    OBVIOUS
  <2>2. AllAnswered(io, r)
    BY <2>1 DEF Accounted
  <2>3. \A j \in Requests \cap Seen(r) : j \in jo.active \/ NumberGiven(jo, j) = 1
    <3>1. SUFFICES ASSUME NEW j \in Requests \cap Seen(r)
                   PROVE  j \in jo.active \/ NumberGiven(jo, j) = 1
      OBVIOUS
    <3>2. j \in io.active \/ NumberGiven(io, j) = 1
      BY <2>2 DEF AllAnswered
    <3> QED
      BY <1>5, <1>6, <1>7, <3>2
  <2> DEFINE g == Cardinality(OfMethod("garbage", Seen(r)))
             n == noId(Seen(r))
             a == noId(rest)
             nulls == NumberGiven(io, Null)
             zeros == NumberGiven(io, 0)
             one == IF Method(i) = "no id" THEN 1 ELSE 0
  <2>4. nulls >= g /\ nulls + zeros + noId(io.active \ io.waiting) = g + n
    BY <2>2 DEF AllAnswered
  <2>5. noId(io.active \ io.waiting) = a + one /\ a \in Nat
    <3>1. /\ Cardinality(OfMethod("no id", rest)) \in Nat
          /\ Cardinality(OfMethod("no id", rest \cup {i}))
               = Cardinality(OfMethod("no id", rest)) + (IF Method(i) = "no id" THEN 1 ELSE 0)
      BY <1>2, OfMethodMore
    <3> QED
      BY <1>2, <3>1
  <2>6. NumberGiven(jo, Null) = nulls /\ nulls \in Nat
    <3>1. id # Null
      BY <1>4, RequestIds
    <3>2. NumberGiven(jo, Null) = nulls + 0 /\ nulls \in Nat
      BY <1>3, <3>1
    <3> QED
      BY <3>2
  <2>7. NumberGiven(jo, 0) = zeros + one /\ zeros \in Nat
    <3>1. id = 0 <=> Method(i) = "no id"
      BY <1>4, RequestIds
    <3> QED
      BY <1>3, <3>1
  <2>8. one \in Nat
    OBVIOUS
  <2> HIDE DEF g, n, a, nulls, zeros, one, noId
  <2>9. nulls + (zeros + one) + a = g + n
    BY <2>4, <2>5, <2>6, <2>7, <2>8
  <2> QED
    BY <2>3, <2>4, <2>6, <2>7, <2>9 DEF AllAnswered, g, n, a, noId, rest
<1>10. /\ (jo.running \/ ~jo.dropped) => BufferIsLast(jo, r)
       /\ ~jo.dropped => BufferIsWhole(jo, r)
  BY DEF Accounted, BufferIsLast, BufferIsWhole
<1> QED
  BY <1>5, <1>8, <1>9, <1>10 DEF Accounted

\* A handler returns while the transport runs, with room in the stream or not, or
\* after it stopped.
LEMMA AnswerKeeps ==
  ASSUME StdioInv, NEW i \in stdio.active, NEW blocks \in BOOLEAN,
         NEW how \in Answers(Script[i].method), Answer(i, how, blocks)
  PROVE  StdioInv'
<1> DEFINE r == stdio.read
           x == Reply(IdOf(i, 0), how)
           io == Written(stdio, x)
           W == stdio.waiting \cup {i}
           A == stdio.active \ {i}
           t == Append(stdio.replies, x)
<1>1. /\ stdio \in StdioStates /\ r \in Nat /\ Accounted(stdio, r) /\ r <= Len(Chars)
      /\ i \in stdio.active \ stdio.waiting /\ i \in 1..Len(Script)
      /\ W \subseteq 1..Len(Script) /\ A \subseteq 1..Len(Script)
  BY IoTypes DEF StdioInv, Accounted, Answer
<1>2. x \in Replies /\ x.id = IdOf(i, 0)
  <2>1. how \in Codes
    BY DEF Answers, Codes
  <2>2. IdOf(i, 0) \in Int
    <3>1. i \in Int
      BY <1>1, ScriptTypes
    <3>2. IdOf(i, 0) = 0 \/ IdOf(i, 0) = i
      BY DEF IdOf
    <3> QED
      BY <3>1, <3>2
  <2> QED
    BY <2>1, <2>2 DEF Reply, Replies
<1>3. stdio.replies \in Seq(Replies)
  BY <1>1, IoTypes
<1>4. \/ stdio.running /\ blocks /\ stdio' = [io EXCEPT !.waiting = @ \cup {i}, !.full = TRUE]
      \/ stdio.running /\ ~blocks
           /\ stdio' = [io EXCEPT !.active = @ \ {i}, !.dropped = @ \/ ~stdio.running]
      \/ ~stdio.running /\ stdio' = [io EXCEPT !.active = @ \ {i}, !.dropped = @ \/ ~stdio.running]
  BY DEF Answer
<1> HIDE DEF x, W, A
<1>5. t \in Seq(Replies)
  BY <1>2, <1>3, SeqAppends
<1>6. CASE ~stdio.running
  <2>1. io = stdio
    BY <1>6 DEF Written
  <2> HIDE DEF io
  <2>2. stdio' = [stdio EXCEPT !.active = A, !.dropped = TRUE]
    BY <1>1, <1>4, <1>6, <2>1 DEF A, StdioStates
  <2>3. /\ stdio' \in StdioStates /\ stdio'.read = r /\ stdio'.dropped /\ ~stdio'.running
        /\ stdio'.active = A /\ stdio'.waiting = stdio.waiting /\ stdio'.replies = stdio.replies
    BY <1>1, <1>6, <2>2 DEF StdioStates
  <2>4. \A id : NumberGiven(stdio', id) = NumberGiven(stdio, id)
    BY <2>3, GivenSame
  <2>5. AnsweredInTime(stdio', r)
    BY <1>1, <2>3, <2>4 DEF Accounted, AnsweredInTime, A
  <2>6. /\ stdio'.waiting \subseteq stdio'.active /\ stdio'.active \subseteq stdio.active
    BY <1>1, <2>3 DEF Accounted, A
  <2>7. Accounted(stdio', r)
    BY <1>1, <2>3, <2>5, <2>6 DEF Accounted
  <2> QED
    BY <1>1, <2>3, <2>7 DEF StdioInv
<1>7. CASE stdio.running /\ blocks
  <2>1. io = [stdio EXCEPT !.replies = t]
    BY <1>7 DEF Written
  <2> HIDE DEF io, t
  <2>2. stdio' = [io EXCEPT !.waiting = W, !.full = TRUE]
    <3>1. io.waiting = stdio.waiting
      BY <1>1, <2>1 DEF StdioStates
    <3> QED
      BY <1>4, <1>7, <3>1 DEF W
  <2>3. /\ stdio' \in StdioStates /\ stdio'.read = r /\ stdio'.dropped = stdio.dropped
        /\ stdio'.running = stdio.running /\ stdio'.buffer = stdio.buffer
        /\ stdio'.active = stdio.active /\ stdio'.waiting = W /\ stdio'.replies = t
    BY <1>1, <1>5, <2>1, <2>2 DEF StdioStates
  <2>4. stdio'.waiting = stdio.waiting \cup {i} /\ stdio'.replies = Append(stdio.replies, x)
    BY <2>3 DEF W, t
  <2>5. Accounted(stdio', r)
    BY <1>1, <1>2, <2>3, <2>4, ReturnedKeeps
  <2> QED
    BY <1>1, <2>3, <2>5 DEF StdioInv
<1>8. CASE stdio.running /\ ~blocks
  <2>1. io = [stdio EXCEPT !.replies = t]
    BY <1>8 DEF Written
  <2> HIDE DEF io, t
  <2>2. stdio' = [io EXCEPT !.active = A]
    <3>1. io.active = stdio.active /\ io.dropped = stdio.dropped /\ io.dropped \in BOOLEAN
          /\ io \in StdioStates
      BY <1>1, <1>5, <2>1 DEF StdioStates
    <3> QED
      BY <1>4, <1>8, <3>1 DEF A, StdioStates
  <2>3. /\ stdio' \in StdioStates /\ stdio'.read = r /\ stdio'.dropped = stdio.dropped
        /\ stdio'.running = stdio.running /\ stdio'.buffer = stdio.buffer
        /\ stdio'.active = A /\ stdio'.waiting = stdio.waiting /\ stdio'.replies = t
    BY <1>1, <1>5, <2>1, <2>2 DEF StdioStates
  <2>4. stdio'.active = stdio.active \ {i} /\ stdio'.replies = Append(stdio.replies, x)
    BY <2>3 DEF A, t
  <2>5. Accounted(stdio', r)
    BY <1>1, <1>2, <2>3, <2>4, ReturnedKeeps
  <2> QED
    BY <1>1, <2>3, <2>5 DEF StdioInv
<1> QED
  BY <1>6, <1>7, <1>8

\* What waited for the stream is done.
LEMMA DrainKeeps == StdioInv /\ Drain => StdioInv'
<1> SUFFICES ASSUME StdioInv, Drain PROVE StdioInv'
  OBVIOUS
<1> DEFINE r == stdio.read
           A == stdio.active \ stdio.waiting
           W == {}
<1>1. /\ stdio \in StdioStates /\ r \in Nat /\ Accounted(stdio, r) /\ r <= Len(Chars)
      /\ A \subseteq 1..Len(Script) /\ W \subseteq 1..Len(Script)
  BY IoTypes DEF StdioInv, Accounted
<1>2. stdio' = [stdio EXCEPT !.full = FALSE, !.waiting = W, !.active = A]
  BY DEF Drain
<1> HIDE DEF A, W
<1>3. /\ stdio' \in StdioStates /\ stdio'.read = r /\ stdio'.dropped = stdio.dropped
      /\ stdio'.running = stdio.running /\ stdio'.buffer = stdio.buffer
      /\ stdio'.active = A /\ stdio'.waiting = W /\ stdio'.replies = stdio.replies
  BY <1>1, <1>2 DEF StdioStates
<1>4. /\ stdio'.waiting = {} /\ stdio'.active = stdio.active \ stdio.waiting
      /\ stdio'.active \ stdio'.waiting = stdio.active \ stdio.waiting
  BY <1>3 DEF A, W
<1>5. \A id : NumberGiven(stdio', id) = NumberGiven(stdio, id)
  BY <1>3, GivenSame
<1>6. AnsweredInTime(stdio', r)
  BY <1>1, <1>4, <1>5 DEF Accounted, AnsweredInTime
<1>7. ~stdio'.dropped => AllAnswered(stdio', r)
  <2>1. SUFFICES ASSUME ~stdio'.dropped PROVE AllAnswered(stdio', r)
    OBVIOUS
  <2>2. AllAnswered(stdio, r) /\ AnsweredInTime(stdio, r)
    BY <1>1, <1>3, <2>1 DEF Accounted
  <2>3. \A i \in Requests \cap Seen(r) : i \in stdio'.active \/ NumberGiven(stdio', i) = 1
    BY <1>4, <1>5, <2>2 DEF AllAnswered, AnsweredInTime
  <2> QED
    BY <1>4, <1>5, <2>2, <2>3 DEF AllAnswered
<1>8. /\ (stdio'.running \/ ~stdio'.dropped) => BufferIsLast(stdio', r)
      /\ ~stdio'.dropped => BufferIsWhole(stdio', r)
  BY <1>1, <1>3 DEF Accounted, BufferIsLast, BufferIsWhole
<1>9. Accounted(stdio', r)
  BY <1>1, <1>3, <1>4, <1>6, <1>7, <1>8 DEF Accounted
<1> QED
  BY <1>1, <1>3, <1>9 DEF StdioInv

LEMMA StdioStays == StdioInv /\ [StdioNext]_stdio => StdioInv'
<1> SUFFICES ASSUME StdioInv, [StdioNext]_stdio PROVE StdioInv'
  OBVIOUS
<1> DEFINE r == stdio.read
           none == <<>>
           lost == stdio.dropped \/ stdio.buffer # <<>>
<1>1. /\ stdio \in StdioStates /\ r \in Nat /\ Accounted(stdio, r) /\ r <= Len(Chars)
      /\ lost \in BOOLEAN /\ none \in Seq(Characters)
  BY IoTypes DEF StdioInv, Accounted
<1>2. CASE UNCHANGED stdio
  BY <1>1, <1>2 DEF StdioInv
<1>3. ASSUME NEW listening \in BOOLEAN, StartStdio(listening)
      PROVE  StdioInv'
  <2> DEFINE h == stdio.handler \/ listening
             s == stdio.starts + 1
  <2>1. /\ stdio' = [stdio EXCEPT !.running = TRUE, !.starts = s, !.buffer = none,
                                  !.handler = h, !.dropped = lost]
        /\ h \in BOOLEAN /\ s \in Nat
    BY <1>1, <1>3, IoTypes DEF StartStdio
  <2> HIDE DEF h, s, none, lost
  <2>2. /\ stdio' \in StdioStates /\ stdio'.read = r /\ stdio'.dropped = lost
        /\ stdio'.buffer = none /\ stdio'.active = stdio.active
        /\ stdio'.waiting = stdio.waiting /\ stdio'.replies = stdio.replies
    BY <1>1, <2>1 DEF StdioStates
  <2>3. stdio'.buffer = <<>> /\ stdio'.dropped = (stdio.dropped \/ stdio.buffer # <<>>)
    BY <2>2 DEF none, lost
  <2>4. Accounted(stdio', r)
    BY <1>1, <2>2, <2>3, BufferKept
  <2> QED
    BY <1>1, <2>2, <2>4 DEF StdioInv
<1>4. ASSUME StopReturns
      PROVE  StdioInv'
  <2> DEFINE s == stdio.stops - 1
  <2>1. /\ stdio' = [stdio EXCEPT !.stops = s, !.buffer = none, !.dropped = lost]
        /\ s \in Nat
    BY <1>1, <1>4, IoTypes DEF StopReturns
  <2> HIDE DEF s, none, lost
  <2>2. /\ stdio' \in StdioStates /\ stdio'.read = r /\ stdio'.dropped = lost
        /\ stdio'.buffer = none /\ stdio'.active = stdio.active
        /\ stdio'.waiting = stdio.waiting /\ stdio'.replies = stdio.replies
    BY <1>1, <2>1 DEF StdioStates
  <2>3. stdio'.buffer = <<>> /\ stdio'.dropped = (stdio.dropped \/ stdio.buffer # <<>>)
    BY <2>2 DEF none, lost
  <2>4. Accounted(stdio', r)
    BY <1>1, <2>2, <2>3, BufferKept
  <2> QED
    BY <1>1, <2>2, <2>4 DEF StdioInv
<1>5. ASSUME StopStdio
      PROVE  StdioInv'
  <2> DEFINE s == stdio.stops + 1
  <2>1. stdio' = [stdio EXCEPT !.running = FALSE, !.stops = s] /\ s \in Nat
    BY <1>1, <1>5, IoTypes DEF StopStdio
  <2> HIDE DEF s
  <2>2. /\ stdio' \in StdioStates /\ stdio'.read = r /\ stdio'.dropped = stdio.dropped
        /\ stdio'.buffer = stdio.buffer /\ stdio'.active = stdio.active /\ ~stdio'.running
        /\ stdio'.waiting = stdio.waiting /\ stdio'.replies = stdio.replies
    BY <1>1, <2>1 DEF StdioStates
  <2>3. Accounted(stdio', r)
    <3> HIDE DEF r
    <3> QED
      BY <1>1, <2>2, BufferKept
  <2> QED
    BY <1>1, <2>2, <2>3 DEF StdioInv
<1> QED
  BY <1>2, <1>3, <1>4, <1>5, HandleChunkKeeps, AnswerKeeps, DrainKeeps DEF StdioNext

LEMMA StdioPromises == StdioInv => StdioHolds
<1> SUFFICES ASSUME StdioInv PROVE StdioHolds
  OBVIOUS
<1> DEFINE r == stdio.read
<1>1. /\ Accounted(stdio, r) /\ \A id : Cardinality(Answered(id)) = NumberGiven(stdio, id)
  BY DEF StdioInv, Answered, NumberGiven, Given
<1>2. RepliesOnce
  <2>1. SUFFICES ASSUME NEW i \in Requests
                 PROVE  /\ Cardinality(Answered(i)) <= 1
                        /\ Answered(i) # {} \/ i \in stdio.active => i \in Seen(r)
    BY DEF RepliesOnce, Seen
  <2>2. Answered(i) # {} => NumberGiven(stdio, i) > 0
    <3>1. IsFiniteSet(Answered(i))
      <4> DEFINE l == Len(stdio.replies)
      <4>1. stdio.replies \in Seq(Replies)
        BY <1>1, IoTypes DEF Accounted
      <4>2. l \in Int /\ DOMAIN stdio.replies = 1..l
        BY <4>1
      <4> HIDE DEF l
      <4>3. Answered(i) \subseteq 1..l
        BY <4>2 DEF Answered
      <4> QED
        BY <4>2, <4>3, FS_Interval, FS_Subset
    <3>2. Cardinality(Answered(i)) \in Nat
      BY <3>1, FS_CardinalityType
    <3>3. Cardinality(Answered(i)) = 0 <=> Answered(i) = {}
      BY <3>1, FS_EmptySet
    <3> QED
      BY <1>1, <3>2, <3>3
  <2> QED
    BY <1>1, <2>2 DEF Accounted, AnsweredInTime
<1>3. NothingLost
  <2>1. SUFFICES ASSUME ~stdio.dropped PROVE NothingLost
    BY DEF NothingLost
  <2>2. AllAnswered(stdio, r) /\ stdio.active \subseteq Seen(r)
    BY <1>1, <2>1 DEF Accounted
  <2> DEFINE of(method) == {i \in Seen(r) : Script[i].method = method}
  <2>3. of("garbage") = OfMethod("garbage", Seen(r)) /\ of("no id") = OfMethod("no id", Seen(r))
    BY DEF OfMethod, Method
  <2>4. of("no id") \cap (stdio.active \ stdio.waiting)
          = OfMethod("no id", stdio.active \ stdio.waiting)
    BY <2>2 DEF OfMethod, Method
  <2> HIDE DEF of
  <2>5. /\ \A i \in Requests \cap Seen(r) : i \in stdio.active \/ Cardinality(Answered(i)) = 1
        /\ Cardinality(Answered(Null)) >= Cardinality(of("garbage"))
        /\ Cardinality(Answered(Null)) + Cardinality(Answered(0))
             + Cardinality(of("no id") \cap (stdio.active \ stdio.waiting))
             = Cardinality(of("garbage")) + Cardinality(of("no id"))
    <3>1. \A i \in Requests \cap Seen(r) : i \in stdio.active \/ NumberGiven(stdio, i) = 1
      BY <2>2 DEF AllAnswered
    <3>2. Cardinality(Answered(Null)) >= Cardinality(OfMethod("garbage", Seen(r)))
      BY <1>1, <2>2 DEF AllAnswered
    <3>3. Cardinality(Answered(Null)) + Cardinality(Answered(0))
            + Cardinality(OfMethod("no id", stdio.active \ stdio.waiting))
            = Cardinality(OfMethod("garbage", Seen(r))) + Cardinality(OfMethod("no id", Seen(r)))
      <4>1. Cardinality(Answered(Null)) = NumberGiven(stdio, Null)
        BY <1>1
      <4>2. Cardinality(Answered(0)) = NumberGiven(stdio, 0)
        BY <1>1
      <4> QED
        BY <2>2, <4>1, <4>2 DEF AllAnswered
    <3>4. \A i \in Requests \cap Seen(r) : i \in stdio.active \/ Cardinality(Answered(i)) = 1
      BY <1>1, <3>1
    <3> QED
      BY <2>3, <2>4, <3>2, <3>3, <3>4
  <2> QED
    BY <2>5 DEF NothingLost, of, Seen
<1> QED
  BY <1>2, <1>3 DEF StdioHolds

\* However the input is cut into chunks, the handlers return and the transport is
\* stopped and started: a request is answered at most once, not before its line
\* was read to its end, and unless input was thrown away once its handler has
\* returned; the replies without an id are as many as the lines that are no
\* request or have none (handleChunk, processLine, send, stop).
THEOREM StdioCorrect == StdioSpec => []StdioHolds
BY StdioPromises, StdioStarts, StdioStays, PTL DEF StdioSpec
-----------------------------------------------------------------------------
\* The servers together

\* In each part its server keeps what it promises, and the others stand still
\* (ServersHold of MCOversight).
ServersInv == /\ part = "stdio" => StdioInv
              /\ part = "acp" => AcpInv
              /\ part = "http" => HttpInv

LEMMA ServersStay == ServersInv /\ [AllNext]_all => ServersInv'
<1> SUFFICES ASSUME ServersInv, [AllNext]_all PROVE ServersInv'
  OBVIOUS
<1>1. CASE UNCHANGED all \/ Rest
  <2>1. UNCHANGED <<stdio, acpVars, http, part>>
    BY <1>1 DEF Rest, all, serverVars
  <2> QED
    BY <2>1, StdioStays, AcpStays, HttpStays DEF ServersInv
<1>2. CASE StdioPart
  BY <1>2, StdioStays DEF StdioPart, ServersInv
<1>3. CASE AcpPart
  BY <1>3, AcpStays DEF AcpPart, ServersInv
<1>4. CASE HttpPart
  BY <1>4, HttpStays DEF HttpPart, ServersInv
<1>5. CASE GoalPart \/ EscalationPart \/ BudgetPart
  <2>1. part \in {"goals", "escalations", "budgets"} /\ part' = part
    BY <1>5 DEF GoalPart, EscalationPart, BudgetPart
  <2> QED
    BY <2>1 DEF ServersInv
<1> QED
  BY <1>1, <1>2, <1>3, <1>4, <1>5 DEF AllNext

\* Whatever their clients do, in whatever order handlers return and however often
\* a transport stops, each server keeps what it promises (McpServer,
\* StdioTransport, HttpTransport, AcpHandlers).
THEOREM ServersCorrect == AllSpec => []ServersHold
<1>1. AllInit => ServersInv
  BY StdioStarts, AcpStarts, HttpStarts DEF AllInit, ServersInv
<1>2. ServersInv => ServersHold
  BY StdioPromises, AcpPromises, HttpPromises DEF ServersInv, ServersHold
<1> QED
  BY <1>1, <1>2, ServersStay, PTL DEF AllSpec
=============================================================================
