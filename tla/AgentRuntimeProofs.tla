-------------------------- MODULE AgentRuntimeProofs --------------------------
(***************************************************************************)
(* Proofs about AgentRuntime for every goal, any number of loops on one    *)
(* execution and every budget.  Whatever the loops interleave, a machine   *)
(* object only changes by ApplyTo in the last part of an iteration, with   *)
(* the evidence of that iteration; so what matters is which events that    *)
(* part derives from which evidence (Merits), not the phase it started in. *)
(* What the status says needs the last loop besides (Truthful), and the    *)
(* iteration budget a count of the loops that can still record (Overshoot).*)
(***************************************************************************)
EXTENDS AgentRuntime, FiniteSetTheorems, TLAPS

MachineObjects == [state: Machine, log: Seq(Phases \X Phases),
                   proof: SUBSET (Verdicts \cup Passing), refused: BOOLEAN]

\* Evidence that may send a machine to DONE.
Good(ev) ==
  /\ ev # {} /\ ev \subseteq Passing
  /\ goal.requireVerification => goal.engine /\ "PASS" \in ev

\* What DoneIsVerified says of one machine object.
Earned(mc) == mc.state.phase = "DONE" /\ mc.log # <<>> => Good(mc.proof)

\* An event that leads to DONE comes with good evidence.
DoneEvents == {"VERIFICATION_PASSED", "MARK_DONE"}
Merits(event, ev) == event \in DoneEvents => Good(ev)

LoopRecords == [machine: Nat, before: Phases, seq: Nat, cost: Nat,
                signalled: BOOLEAN, record: Record \cup {NoRecord}]
Recorded(place) == place \in {"returned", "saving"}

LoopsTyped ==
  /\ loops \in Seq(LoopRecords)
  /\ pc \in Seq(Places) /\ Len(pc) = Len(loops)
  /\ \A i \in DOMAIN loops : /\ loops[i].machine \in DOMAIN machines
                             /\ Recorded(pc[i]) <=> loops[i].record # NoRecord

MachinesEarned ==
  /\ goal \in Goals
  /\ machines \in Seq(MachineObjects)
  /\ \A m \in DOMAIN machines : Earned(machines[m])
  /\ checkpoints \subseteq Phases
  /\ current \in DOMAIN machines

Plain ==
  /\ status \in Statuses
  /\ Len(iterations) \in Nat
  /\ spent \in Nat /\ late \in BOOLEAN /\ aborted \in BOOLEAN

IInv == MachinesEarned /\ LoopsTyped /\ Plain
-----------------------------------------------------------------------------
\* A row of the whitelist leaves a live phase, and reaches DONE by two events.
LEMMA RuleTypes ==
  ASSUME NEW from, NEW ev, NEW to, TransitionRule(from, ev, to)
  PROVE  /\ from \in LivePhases /\ to \in Phases
         /\ to = "DONE" => ev \in DoneEvents
BY DEF TransitionRule, Working, LivePhases, Phases, TerminalPhases, DoneEvents

\* An accepted transition leaves a state record, in the target phase.
LEMMA AdvanceType ==
  ASSUME NEW m \in Machine, NEW to \in Phases
  PROVE  Advance(m, to) \in Machine /\ Advance(m, to).phase = to
BY DEF Advance, Machine

\* One event, accepted or refused.
LEMMA ApplyKeeps ==
  ASSUME NEW mc \in MachineObjects, Earned(mc), NEW event,
         NEW ev \in SUBSET (Verdicts \cup Passing), Merits(event, ev)
  PROVE  /\ ApplyTo(mc, event, ev) \in MachineObjects
         /\ Earned(ApplyTo(mc, event, ev))
<1> DEFINE to == CHOOSE p \in Phases : TransitionRule(mc.state.phase, event, p)
           after == ApplyTo(mc, event, ev)
<1>1. CASE ~Accepts(mc.state.phase, event)
  <2>1. after = [mc EXCEPT !.refused = TRUE]
    BY <1>1 DEF ApplyTo
  <2> QED
    BY <2>1 DEF MachineObjects, Earned
<1>2. CASE Accepts(mc.state.phase, event)
  <2> DEFINE s   == Advance(mc.state, to)
             row == <<mc.state.phase, to>>
             log == Append(mc.log, row)
             pr  == IF to = "DONE" THEN ev ELSE mc.proof
  <2>1. to \in Phases /\ TransitionRule(mc.state.phase, event, to)
    BY <1>2 DEF Accepts
  <2>2. after = [mc EXCEPT !.state = s, !.log = log, !.proof = pr]
    BY <1>2 DEF ApplyTo
  <2> HIDE DEF to, after
  <2>3. /\ mc.state \in Machine /\ mc.state.phase \in Phases
        /\ mc.log \in Seq(Phases \X Phases)
        /\ mc.proof \in SUBSET (Verdicts \cup Passing)
    BY DEF MachineObjects, Machine
  <2>4. to = "DONE" => Good(ev)
    BY <2>1, RuleTypes DEF Merits
  <2>5. s \in Machine /\ s.phase = to
    BY <2>1, <2>3, AdvanceType
  <2>6. log \in Seq(Phases \X Phases)
    BY <2>1, <2>3
  <2>7. pr \in SUBSET (Verdicts \cup Passing)
    BY <2>3
  <2>8. to = "DONE" => Good(pr)
    BY <2>4
  <2> HIDE DEF s, log, pr
  <2>9. after \in MachineObjects /\ after.state = s /\ after.proof = pr
    BY <2>2, <2>5, <2>6, <2>7 DEF MachineObjects
  <2> QED
    BY <2>5, <2>8, <2>9 DEF Earned, after
<1>3. QED
  BY <1>1, <1>2

\* What a turn reports of itself.
LEMMA TurnTyped ==
  ASSUME goal \in Goals, NEW t \in PossibleTurns[goal]
  PROVE  /\ t.toolError \in ToolErrors \cup {NoError}
         /\ t.silent \in BOOLEAN /\ t.cost \in Nat
<1>1. t \in Turns
  BY DEF PossibleTurns
<1>2. /\ t.toolError \in ToolErrors \cup {NoError} /\ t.silent \in BOOLEAN
      /\ t.cost \in TurnCosts \cup {0}
  BY <1>1 DEF Turns
<1>3. TurnCosts \cup {0} \subseteq Nat
  BY RuntimeLimits
<1> QED BY <1>2, <1>3

\* The evidence of an iteration.
LEMMA EvidenceFacts ==
  ASSUME goal \in Goals, NEW before, NEW t \in PossibleTurns[goal]
  PROVE  /\ Evidence(before, t) \in SUBSET (Verdicts \cup Passing)
         /\ AllPassed(Evidence(before, t)) => Good(Evidence(before, t))
         /\ /\ ~goal.requireVerification /\ Evidence(before, t) # {}
            /\ ~SomeBad(Evidence(before, t))
            => Good(Evidence(before, t))
<1> DEFINE ev == Evidence(before, t)
<1>1. /\ goal.requireVerification \in BOOLEAN /\ goal.engine \in BOOLEAN
      /\ t.verdict \in Verdicts
  BY RuntimeLimits DEF PossibleTurns, Turns
<1>2. ev \subseteq Verdicts \cup Passing
  BY <1>1 DEF Evidence, Verdicts, Passing
<1>3. goal.requireVerification /\ ~goal.engine => "INCONCLUSIVE" \in ev
  BY DEF Evidence
<1>4. goal.requireVerification => "OWN_PASS" \notin ev
  BY <1>1 DEF Evidence, Verdicts
<1> HIDE DEF ev
<1>5. AllPassed(ev) => Good(ev)
  BY <1>3, <1>4 DEF AllPassed, Good, Passing
<1>6. ~goal.requireVerification /\ ev # {} /\ ~SomeBad(ev) => Good(ev)
  BY <1>2 DEF SomeBad, Good, Passing, Verdicts
<1>7. QED
  BY <1>2, <1>5, <1>6 DEF ev

\* No event that PHASE 9 derives leads to DONE without good evidence.
LEMMA EventsMerit ==
  ASSUME goal \in Goals, NEW before, NEW phase, NEW repairs,
         NEW t \in PossibleTurns[goal]
  PROVE  LET ev == Evidence(before, t)
             es == FollowUp(phase, t, ev)
         IN  /\ Merits(NextEvent(before, t, ev, repairs), ev)
             /\ \A k \in DOMAIN es : Merits(es[k], ev)
             /\ Merits("ESCALATE", ev)
<1> DEFINE ev == Evidence(before, t)
           es == FollowUp(phase, t, ev)
<1>1. AllPassed(ev) => Good(ev)
  BY EvidenceFacts
<1>2. ~goal.requireVerification /\ ev # {} /\ ~SomeBad(ev) => Good(ev)
  BY EvidenceFacts
<1> HIDE DEF ev
<1>3. Merits(NextEvent(before, t, ev, repairs), ev)
  BY <1>1 DEF NextEvent, NoEvent, Merits, DoneEvents
<1>4. \A k \in DOMAIN es : Merits(es[k], ev)
  <2>1. CASE ~goal.requireVerification /\ t.stop /\ ~SomeBad(ev)
    <3>1. CASE ev # {}
      BY <1>2, <2>1, <3>1 DEF Merits
    <3>2. CASE ev = {}
      <4>1. es = SubSeq(Walk, WalkStart(phase), 3)
        BY <2>1, <3>2 DEF FollowUp, WalkFrom
      <4>2. WalkStart(phase) \in 1..5
        BY DEF WalkStart
      <4> DEFINE n == WalkStart(phase)
      <4>3. Walk \in Seq(StateEvents) /\ Len(Walk) = 4
        BY DEF Walk, StateEvents, RuntimeOnlyEvents
      <4>4. \A i \in 1..3 : Walk[i] \notin DoneEvents
        BY DEF Walk, DoneEvents
      <4> HIDE DEF n, es
      <4>5. \A k \in DOMAIN es : n + k - 1 \in 1..3 /\ es[k] = Walk[n + k - 1]
        <5>1. n \in 1..5 /\ es = SubSeq(Walk, n, 3)
          BY <4>1, <4>2 DEF n
        <5>2. CASE n <= 3
          BY <4>3, <5>1, <5>2
        <5>3. CASE n > 3
          BY <4>3, <5>1, <5>3
        <5> QED BY <5>1, <5>2, <5>3
      <4>6. \A k \in DOMAIN es : es[k] \notin DoneEvents
        BY <4>5, <4>4
      <4> QED
        BY <4>6 DEF Merits
    <3> QED BY <3>1, <3>2
  <2>2. CASE ~(~goal.requireVerification /\ t.stop /\ ~SomeBad(ev))
    BY <1>1, <2>2 DEF FollowUp, Merits, DoneEvents
  <2> QED BY <2>1, <2>2
<1>5. Merits("ESCALATE", ev)
  BY DEF Merits, DoneEvents
<1>6. QED
  BY <1>3, <1>4, <1>5 DEF ev

\* PHASE 9 as a whole.
LEMMA DeriveKeeps ==
  ASSUME goal \in Goals, NEW mc \in MachineObjects, Earned(mc), NEW before,
         NEW t \in PossibleTurns[goal]
  PROVE  Derive(mc, before, t) \in MachineObjects /\ Earned(Derive(mc, before, t))
<1> DEFINE ev    == Evidence(before, t)
           event == NextEvent(before, t, ev, mc.state.repairCount)
           first == ApplyTo(mc, event, ev)
           es    == FollowUp(first.state.phase, t, ev)
           Kept(m) == m \in MachineObjects /\ Earned(m)
           next(m, k) == IF k \in DOMAIN es THEN ApplyTo(m, es[k], ev) ELSE m
<1>1. /\ ev \in SUBSET (Verdicts \cup Passing)
      /\ Merits(event, ev) /\ Merits("ESCALATE", ev)
      /\ \A k \in DOMAIN es : Merits(es[k], ev)
  BY EvidenceFacts, EventsMerit
<1>2. Derive(mc, before, t) =
        IF event = NoEvent \/ mc.state.phase \in TerminalPhases THEN mc
        ELSE IF Accepts(mc.state.phase, event) THEN ApplyAll(first, es, ev)
        ELSE IF mc.state.phase = "REPAIR" /\ SomeBad(ev)
        THEN ApplyTo(first, "ESCALATE", ev) ELSE first
  BY DEF Derive
<1> HIDE DEF ev, event
<1>3. Kept(mc) /\ Kept(first)
  BY <1>1, ApplyKeeps
<1> HIDE DEF first, es
<1>4. Kept(ApplyTo(first, "ESCALATE", ev))
  BY <1>1, <1>3, ApplyKeeps
<1>5. ASSUME NEW m, NEW k, Kept(m) PROVE Kept(next(m, k))
  BY <1>1, <1>5, ApplyKeeps
<1>6. Kept(next(next(next(next(first, 1), 2), 3), 4))
  <2> HIDE DEF next, Kept
  <2> QED BY <1>3, <1>5
<1>7. Kept(ApplyAll(first, es, ev))
  BY <1>6 DEF ApplyAll
<1>8. QED
  BY <1>2, <1>3, <1>4, <1>7
-----------------------------------------------------------------------------
\* A new machine object has nothing to answer for.
LEMMA NewObject ==
  ASSUME NEW phase \in Phases
  PROVE  NewMachineObject(phase) \in MachineObjects /\ Earned(NewMachineObject(phase))
BY DEF NewMachineObject, NewMachine, MachineObjects, Machine, Earned

\* A new execution: one machine in INIT, one loop about to start.
LEMMA InitHolds == Init => IInv
<1> SUFFICES ASSUME Init PROVE IInv
  OBVIOUS
<1>1. "INIT" \in Phases
  BY DEF Phases, LivePhases
<1>2. machines = <<NewMachineObject("INIT")>> /\ current = 1 /\ goal \in Goals
      /\ checkpoints = {}
  BY DEF Init
<1>3. MachinesEarned
  BY <1>1, <1>2, NewObject DEF MachinesEarned
<1>4. NewLoop(1) \in LoopRecords /\ NewLoop(1).machine = 1 /\ NewLoop(1).record = NoRecord
  BY <1>1 DEF NewLoop, LoopRecords
<1>5. LoopsTyped
  BY <1>2, <1>4 DEF Init, LoopsTyped, Places, Recorded
<1>6. Plain
  BY DEF Init, Plain, Statuses
<1>7. QED
  BY <1>3, <1>5, <1>6 DEF IInv

\* Machine objects are typed, one by one.
LEMMA PhasesTyped ==
  ASSUME MachinesEarned, NEW m \in DOMAIN machines
  PROVE  machines[m] \in MachineObjects /\ machines[m].state.phase \in Phases
<1>1. machines[m] \in MachineObjects
  BY DEF MachinesEarned
<1>2. machines[m].state \in Machine
  BY <1>1 DEF MachineObjects
<1>3. QED
  BY <1>1, <1>2 DEF Machine

\* A record is not the absence of one.
LEMMA RecordsAreRecords == NoRecord \notin Record
<1>1. \A r \in Record : DOMAIN r = {"print", "cost", "decision"}
  BY DEF Record
<1>2. DOMAIN NoRecord = {"none"}
  BY DEF NoRecord
<1>3. QED
  BY <1>1, <1>2

\* Where a step leaves a loop on machine m.
Left(next, m) ==
  /\ next.loop \in LoopRecords /\ next.loop.machine = m
  /\ next.pc \in Places /\ next.status \in Statuses
  /\ Recorded(next.pc) <=> next.loop.record # NoRecord

\* A loop that returns leaves an empty record behind.
LEMMA EndedLeft ==
  ASSUME NEW l \in LoopRecords, NEW now \in Statuses
  PROVE  Left(Ended(l, now), l.machine)
<1>1. NewLoop(l.machine) \in LoopRecords /\ NewLoop(l.machine).machine = l.machine
      /\ NewLoop(l.machine).record = NoRecord
  BY DEF NewLoop, LoopRecords, Phases, LivePhases
<1>2. QED
  BY <1>1 DEF Left, Ended, Places, Recorded

\* The checks at the head of the loop leave it on its machine, without record.
LEMMA HeadLeft ==
  ASSUME NEW l \in LoopRecords, NEW phase \in Phases, NEW now \in Statuses,
         NEW cancelled, NEW its, Len(its) \in Nat, NEW cost \in Nat
  PROVE  Left(LoopHead(l, phase, now, cancelled, its, cost), l.machine)
<1> DEFINE seq  == Len(its) + 1
           loop == [l EXCEPT !.before = phase, !.seq = seq, !.cost = cost,
                             !.record = NoRecord]
           run  == [pc |-> "running", status |-> now, loop |-> loop]
<1>1. Left(Ended(l, now), l.machine) /\ Left(Ended(l, "CANCELLED"), l.machine)
  BY EndedLeft DEF Statuses
<1>2. seq \in Nat
  OBVIOUS
<1> HIDE DEF seq
<1>3. loop \in LoopRecords /\ loop.machine = l.machine /\ loop.record = NoRecord
  BY <1>2 DEF LoopRecords
<1> HIDE DEF loop
<1>4. Left(run, l.machine)
  BY <1>3 DEF Left, Places, Recorded
<1>5. QED
  BY <1>1, <1>4 DEF LoopHead, seq, loop

\* So does the head of the loop as it stands.
LEMMA EnterLeft ==
  ASSUME MachinesEarned, Plain, NEW l \in LoopRecords, l.machine \in DOMAIN machines,
         NEW its, Len(its) \in Nat, NEW cost \in Nat
  PROVE  Left(EnterLoop(l, its, cost), l.machine)
BY PhasesTyped, HeadLeft DEF EnterLoop, Plain

\* So does the end of an iteration, which may go round again.
LEMMA SettleLeft ==
  ASSUME MachinesEarned, Plain, NEW l \in LoopRecords, l.machine \in DOMAIN machines,
         NEW its, Len(its) \in Nat, NEW cost \in Nat
  PROVE  Left(Settle(l, its, cost), l.machine)
<1>1. /\ Left(Ended(l, "COMPLETED"), l.machine)
      /\ Left(Ended(l, "AWAITING_HUMAN"), l.machine)
      /\ Left(Ended(l, "FAILED"), l.machine)
  BY EndedLeft DEF Statuses
<1>2. QED
  BY <1>1, EnterLeft DEF Settle

\* A loop goes on where a step left it; machine objects never go away.
LEMMA PlaceKeeps ==
  ASSUME LoopsTyped, NEW i \in DOMAIN loops, NEW next, NEW m \in DOMAIN machines,
         Left(next, m), Place(i, next), DOMAIN machines' = DOMAIN machines
  PROVE  LoopsTyped' /\ status' \in Statuses
<1>1. /\ loops' = [loops EXCEPT ![i] = next.loop]
      /\ pc' = [pc EXCEPT ![i] = next.pc] /\ status' = next.status
  BY DEF Place
<1>2. loops' \in Seq(LoopRecords) /\ pc' \in Seq(Places) /\ Len(pc') = Len(loops')
      /\ DOMAIN loops' = DOMAIN loops
  BY <1>1 DEF LoopsTyped, Left
<1>3. /\ loops'[i] = next.loop /\ pc'[i] = next.pc
      /\ \A j \in DOMAIN loops \ {i} : loops'[j] = loops[j] /\ pc'[j] = pc[j]
  BY <1>1 DEF LoopsTyped
<1>4. QED
  BY <1>1, <1>2, <1>3 DEF LoopsTyped, Left, Recorded

\* The end of an iteration: one machine and one loop change.
LEMMA FinishKeeps ==
  ASSUME IInv, NEW i \in DOMAIN loops, NEW t \in PossibleTurns[goal],
         FinishIteration(i, t)
  PROVE  IInv'
<1> DEFINE l     == loops[i]
           mc    == machines[l.machine]
           after == Derive(mc, l.before, t)
           print == Fingerprint(l.before, after.state.phase, t, Evidence(l.before, t))
           decision == EvaluateLoopControl(after.state, after.log,
                         Append(iterations, print), l.cost + t.cost, late)
           record == [print |-> print, cost |-> t.cost, decision |-> decision]
           next == [pc |-> "returned", status |-> status,
                    loop |-> [l EXCEPT !.record = record]]
<1>1. /\ machines' = [machines EXCEPT ![l.machine] = after]
      /\ Place(i, next) /\ pc[i] = "running"
      /\ UNCHANGED <<goal, current, iterations, spent, late, aborted, checkpoints>>
  BY DEF FinishIteration
<1>2. /\ l \in LoopRecords /\ l.machine \in DOMAIN machines
      /\ l.before \in Phases
  <2>1. l \in LoopRecords /\ l.machine \in DOMAIN machines
    BY DEF IInv, LoopsTyped
  <2> HIDE DEF l
  <2> QED BY <2>1 DEF LoopRecords
<1>3. after \in MachineObjects /\ Earned(after)
  BY <1>2, DeriveKeeps DEF IInv, MachinesEarned
<1>4. after.state.phase \in Phases
  <2>1. after.state \in Machine
    BY <1>3 DEF MachineObjects
  <2> QED BY <2>1 DEF Machine
<1>5. print \in [fresh: BOOLEAN, toolError: ToolErrors \cup {NoError},
                 trajectory: Seq(Phases)] /\ t.cost \in Nat
  <2>1. t.toolError \in ToolErrors \cup {NoError} /\ t.cost \in Nat
        /\ t.silent \in BOOLEAN
    BY TurnTyped DEF IInv, MachinesEarned
  <2> QED
    BY <1>2, <1>4, <2>1 DEF Fingerprint, SomeBad
<1>6. decision \in Decisions
  BY DEF EvaluateLoopControl, Decisions, BudgetReasons, HumanReasons, Continue
<1> HIDE DEF after, print, decision
<1>7. record \in Record
  BY <1>5, <1>6 DEF Record
<1> HIDE DEF record
<1>8. Left(next, l.machine)
  <2> DEFINE loop == [l EXCEPT !.record = record]
  <2>1. loop \in LoopRecords /\ loop.machine = l.machine /\ loop.record = record
    BY <1>2, <1>7 DEF LoopRecords
  <2> HIDE DEF loop
  <2>2. record # NoRecord
    BY <1>7, RecordsAreRecords
  <2>3. next = [pc |-> "returned", status |-> status, loop |-> loop]
    BY DEF loop
  <2> QED
    BY <2>1, <2>2, <2>3 DEF Left, Places, Recorded, IInv, Plain
<1> HIDE DEF next, l
<1>9. LoopsTyped' /\ status' \in Statuses
  BY <1>1, <1>2, <1>8, PlaceKeeps DEF IInv
<1>10. MachinesEarned'
  BY <1>1, <1>2, <1>3 DEF IInv, MachinesEarned, Earned, Good
<1>11. QED
  BY <1>1, <1>9, <1>10 DEF IInv, Plain

\* push and save: the iteration list and the checkpoints grow.
LEMMA RecordKeeps ==
  ASSUME IInv, NEW i \in DOMAIN loops, RecordIteration(i)
  PROVE  IInv'
<1> DEFINE l    == loops[i]
           its  == Pushed(iterations, l.record.print)
           cost == spent + l.record.cost
           stay == [pc |-> "saving", loop |-> l, status |-> status]
<1>1. /\ l \in LoopRecords /\ l.machine \in DOMAIN machines
      /\ l.record # NoRecord /\ pc[i] = "returned"
  BY DEF RecordIteration, IInv, LoopsTyped, Recorded
<1>2. l.record \in Record
  BY <1>1 DEF LoopRecords
<1>3. Len(its) \in Nat /\ cost \in Nat
  <2>1. l.record.cost \in Nat
    BY <1>2 DEF Record
  <2> QED
    BY <2>1 DEF IInv, Plain, Pushed
<1>4. /\ iterations' = its /\ spent' = cost
      /\ checkpoints' \subseteq checkpoints \cup {machines[l.machine].state.phase}
      /\ Place(i, stay) \/ Place(i, Settle(l, its, cost))
      /\ UNCHANGED <<goal, machines, current, late, aborted>>
  BY DEF RecordIteration
<1>5. Left(stay, l.machine)
  BY <1>1 DEF Left, Places, Recorded, IInv, Plain
<1>6. Left(Settle(l, its, cost), l.machine)
  BY <1>1, <1>3, SettleLeft DEF IInv
<1> HIDE DEF stay, its, cost, l
<1>7. LoopsTyped' /\ status' \in Statuses
  BY <1>1, <1>4, <1>5, <1>6, PlaceKeeps DEF IInv
<1>8. machines[l.machine].state.phase \in Phases
  BY <1>1, PhasesTyped DEF IInv
<1>9. QED
  BY <1>3, <1>4, <1>7, <1>8 DEF IInv, Plain, MachinesEarned, Earned, Good

\* The steps that touch the loop and nothing else.
LEMMA LoopKeeps ==
  ASSUME IInv, NEW i \in DOMAIN loops,
         StartLoop(i) \/ SettleAfterCheckpoint(i) \/ IterationThrows(i)
  PROVE  IInv'
<1> DEFINE l == loops[i]
           onCurrent == [l EXCEPT !.machine = current]
<1>1. l \in LoopRecords /\ l.machine \in DOMAIN machines
  BY DEF IInv, LoopsTyped
<1>2. onCurrent \in LoopRecords /\ onCurrent.machine \in DOMAIN machines
  BY <1>1 DEF IInv, MachinesEarned, LoopRecords
<1> HIDE DEF onCurrent
<1>3. /\ Left(EnterLoop(onCurrent, iterations, spent), onCurrent.machine)
      /\ Left(Settle(l, iterations, spent), l.machine)
      /\ Left(Ended(l, "FAILED"), l.machine)
  BY <1>1, <1>2, EnterLeft, SettleLeft, EndedLeft DEF IInv, Plain, Statuses
<1>4. \/ Place(i, EnterLoop(onCurrent, iterations, spent))
      \/ Place(i, Settle(l, iterations, spent))
      \/ Place(i, Ended(l, "FAILED"))
  BY DEF StartLoop, SettleAfterCheckpoint, IterationThrows, onCurrent
<1>5. UNCHANGED <<goal, machines, current, iterations, spent, late, aborted, checkpoints>>
  BY DEF StartLoop, SettleAfterCheckpoint, IterationThrows
<1>6. LoopsTyped' /\ status' \in Statuses
  BY <1>1, <1>2, <1>3, <1>4, <1>5, PlaceKeeps DEF IInv
<1>7. QED
  BY <1>5, <1>6 DEF IInv, Plain, MachinesEarned, Earned, Good

\* resume(): at most one machine and exactly one loop are added.
LEMMA ResumeKeeps ==
  ASSUME IInv, NEW restored,
         \/ restored = <<>>
         \/ \E phase \in checkpoints : restored = <<NewMachineObject(phase)>>,
         Resume(restored)
  PROVE  IInv'
<1> DEFINE m    == IF restored = <<>> THEN current ELSE Len(machines) + 1
           all  == machines \o restored
           head == LoopHead(NewLoop(m), all[m].state.phase, "RUNNING",
                            NewController, iterations, spent)
<1>1. /\ machines' = all /\ current' = m
      /\ loops' = Append(loops, head.loop) /\ pc' = Append(pc, head.pc)
      /\ status' = head.status /\ aborted' = FALSE
      /\ UNCHANGED <<goal, iterations, spent, late, checkpoints>>
  BY DEF Resume, NewController
<1>2. /\ all \in Seq(MachineObjects) /\ m \in DOMAIN all /\ m \in Nat
      /\ DOMAIN machines \subseteq DOMAIN all
      /\ \A k \in DOMAIN all : Earned(all[k])
  <2>1. CASE restored = <<>>
    <3>1. all = machines /\ m = current
      BY <2>1 DEF IInv, MachinesEarned
    <3> QED
      BY <3>1 DEF IInv, MachinesEarned
  <2>2. ASSUME NEW phase \in checkpoints, restored = <<NewMachineObject(phase)>>
        PROVE  /\ all \in Seq(MachineObjects) /\ m \in DOMAIN all /\ m \in Nat
               /\ DOMAIN machines \subseteq DOMAIN all
               /\ \A k \in DOMAIN all : Earned(all[k])
    <3> DEFINE new == NewMachineObject(phase)
    <3>1. new \in MachineObjects /\ Earned(new)
      BY <2>2, NewObject DEF IInv, MachinesEarned
    <3>2. all = machines \o <<new>> /\ m = Len(machines) + 1
      BY <2>2
    <3>3. machines \in Seq(MachineObjects) /\ \A k \in DOMAIN machines : Earned(machines[k])
      BY DEF IInv, MachinesEarned
    <3> HIDE DEF new, all, m
    <3>4. /\ all \in Seq(MachineObjects) /\ Len(all) = Len(machines) + 1
          /\ all[Len(machines) + 1] = new
          /\ \A k \in DOMAIN machines : all[k] = machines[k]
      BY <3>1, <3>2, <3>3
    <3>5. ASSUME NEW k \in DOMAIN all
          PROVE  Earned(all[k])
      <4>1. k \in DOMAIN machines \/ k = Len(machines) + 1
        BY <3>3, <3>4
      <4> QED BY <4>1, <3>1, <3>3, <3>4
    <3> QED BY <3>2, <3>3, <3>4, <3>5
  <2> QED BY <2>1, <2>2
<1>3. all[m].state.phase \in Phases
  <2>1. all[m] \in MachineObjects
    BY <1>2
  <2>2. all[m].state \in Machine
    BY <2>1 DEF MachineObjects
  <2> QED BY <2>2 DEF Machine
<1>4. NewLoop(m) \in LoopRecords /\ NewLoop(m).machine = m
  BY <1>2 DEF NewLoop, LoopRecords, Phases, LivePhases
<1> HIDE DEF m, all
<1>5. Left(head, m)
  BY <1>3, <1>4, HeadLeft DEF IInv, Plain, Statuses
<1> HIDE DEF head
<1>6. LoopsTyped'
  <2>1. /\ loops' \in Seq(LoopRecords) /\ pc' \in Seq(Places) /\ Len(pc') = Len(loops')
        /\ Len(loops') = Len(loops) + 1
        /\ loops'[Len(loops) + 1] = head.loop /\ pc'[Len(loops) + 1] = head.pc
        /\ \A j \in DOMAIN loops : loops'[j] = loops[j] /\ pc'[j] = pc[j]
    BY <1>1, <1>5 DEF IInv, LoopsTyped, Left
  <2>2. ASSUME NEW j \in DOMAIN loops'
        PROVE  /\ loops'[j].machine \in DOMAIN machines'
               /\ Recorded(pc'[j]) <=> loops'[j].record # NoRecord
    <3>1. CASE j \in DOMAIN loops
      BY <1>1, <1>2, <2>1, <3>1 DEF IInv, LoopsTyped
    <3>2. CASE j = Len(loops) + 1
      BY <1>1, <1>2, <1>5, <2>1, <3>2 DEF Left
    <3> QED
      BY <2>1, <2>2, <3>1, <3>2 DEF IInv, LoopsTyped
  <2> QED
    BY <2>1, <2>2 DEF LoopsTyped, Recorded
<1>7. MachinesEarned'
  <2>1. \A k \in DOMAIN machines' : Earned(machines[k])'
    BY <1>1, <1>2 DEF Earned, Good
  <2> QED
    BY <1>1, <1>2, <2>1 DEF IInv, MachinesEarned
<1>8. QED
  BY <1>1, <1>5, <1>6, <1>7 DEF IInv, Plain, Left

\* Callers only touch the status and the signals.
LEMMA CallerKeeps ==
  ASSUME IInv,
         \/ Pause \/ Cancel \/ DeadlinePasses \/ UNCHANGED vars
         \/ \E i \in DOMAIN loops : AbortSignal(i)
  PROVE  IInv'
<1>1. CASE Pause
  <2>1. machines[current].state.phase \in Phases
    BY PhasesTyped DEF IInv, MachinesEarned
  <2> QED
    BY <1>1, <2>1
       DEF Pause, IInv, Plain, Statuses, LoopsTyped, MachinesEarned, Earned, Good
<1>2. CASE Cancel \/ DeadlinePasses \/ UNCHANGED vars
  BY <1>2 DEF Cancel, DeadlinePasses, vars, IInv, Plain, Statuses, LoopsTyped,
              MachinesEarned, Earned, Good
<1>3. ASSUME NEW i \in DOMAIN loops, AbortSignal(i)
      PROVE  IInv'
  <2> DEFINE l == [loops[i] EXCEPT !.signalled = TRUE]
  <2>1. /\ loops' = [loops EXCEPT ![i] = l]
        /\ UNCHANGED <<goal, machines, current, status, iterations, spent, late,
                       aborted, pc, checkpoints>>
    BY <1>3 DEF AbortSignal
  <2>2. loops[i] \in LoopRecords
    BY DEF IInv, LoopsTyped
  <2>3. l \in LoopRecords /\ l.machine = loops[i].machine /\ l.record = loops[i].record
    BY <2>2 DEF LoopRecords
  <2> HIDE DEF l
  <2>4. LoopsTyped'
    BY <2>1, <2>3 DEF IInv, LoopsTyped
  <2> QED
    BY <2>1, <2>4 DEF IInv, Plain, MachinesEarned, Earned, Good
<1>4. QED
  BY <1>1, <1>2, <1>3

\* Every step of loops and callers.
LEMMA NextKeeps ==
  ASSUME IInv, [Next]_vars
  PROVE  IInv'
<1>1. CASE ResumeInPlace
  BY <1>1, ResumeKeeps DEF ResumeInPlace
<1>2. CASE ResumeFromCheckpoint
  <2>1. PICK phase \in checkpoints : Resume(<<NewMachineObject(phase)>>)
    BY <1>2 DEF ResumeFromCheckpoint
  <2> QED
    BY <2>1, ResumeKeeps
<1>3. QED
  BY <1>1, <1>2, FinishKeeps, RecordKeeps, LoopKeeps, CallerKeeps DEF Next, LoopStep

\* Machine objects keep their types, and each is DONE only with evidence that
\* earned it.
THEOREM Invariance == Spec => []IInv
<1>1. QED
  BY InitHolds, NextKeeps, PTL DEF Spec

\* Type correctness, the records of iterations under way included.
THEOREM TypeCorrect == Spec => []TypeOK
<1>1. ASSUME IInv PROVE TypeOK
  <2>1. /\ \A m \in DOMAIN machines : machines[m] \in MachineObjects
        /\ current \in DOMAIN machines /\ checkpoints \subseteq Phases
    BY <1>1 DEF IInv, MachinesEarned
  <2>2. \A m \in DOMAIN machines :
          /\ machines[m].state \in Machine /\ machines[m].log \in Seq(Phases \X Phases)
          /\ machines[m].proof \subseteq Verdicts \cup Passing
    BY <2>1 DEF MachineObjects
  <2>3. pc \in Seq(Places) /\ Len(pc) = Len(loops)
    BY <1>1 DEF IInv, LoopsTyped
  <2>4. ASSUME NEW i \in DOMAIN loops
        PROVE  /\ loops[i] \in Loop
               /\ pc[i] \in {"returned", "saving"} <=> loops[i].record # NoRecord
    <3>1. /\ loops[i] \in LoopRecords /\ loops[i].machine \in DOMAIN machines
          /\ pc[i] \in {"returned", "saving"} <=> loops[i].record # NoRecord
      BY <1>1 DEF IInv, LoopsTyped, Recorded
    <3> QED BY <3>1 DEF LoopRecords, Loop
  <2> QED
    BY <1>1, <2>1, <2>2, <2>3, <2>4 DEF TypeOK, IInv, Plain
<1>2. QED
  BY <1>1, Invariance, PTL

\* No execution, however many loops drive its machines, is DONE on anything
\* but passing evidence of the iteration that set it DONE, the verification
\* engine's when the goal requires verification.
THEOREM DoneCorrect == Spec => []DoneIsVerified
<1>1. IInv => DoneIsVerified
  BY DEF IInv, MachinesEarned, DoneIsVerified, Earned, Good
<1>2. QED
  BY <1>1, Invariance, PTL
-----------------------------------------------------------------------------
\* Where a loop goes on, the status is no longer RUNNING if the controller was
\* aborted: the head of the loop looks at the status before the signal.
LEMMA HeadStatus ==
  ASSUME AbortedIsNotRunning, aborted, NEW l, NEW its, NEW cost
  PROVE  EnterLoop(l, its, cost).status # "RUNNING"
BY DEF AbortedIsNotRunning, EnterLoop, LoopHead, Ended

\* Nor does the end of an iteration make an aborted execution RUNNING.
LEMMA SettleStatus ==
  ASSUME AbortedIsNotRunning, aborted, NEW l, NEW its, NEW cost
  PROVE  Settle(l, its, cost).status # "RUNNING"
BY HeadStatus DEF Settle, Ended

\* pause and cancel set status and signal together, resume clears both, and no
\* iteration in between makes an aborted execution RUNNING again.
THEOREM AbortedStops == Spec => []AbortedIsNotRunning
<1>1. Init => AbortedIsNotRunning
  BY DEF Init, AbortedIsNotRunning
<1>2. AbortedIsNotRunning /\ [Next]_vars => AbortedIsNotRunning'
  <2> SUFFICES ASSUME AbortedIsNotRunning, [Next]_vars PROVE AbortedIsNotRunning'
    OBVIOUS
  <2>1. ASSUME NEW i, StartLoop(i) PROVE AbortedIsNotRunning'
    BY <2>1, HeadStatus DEF StartLoop, Place, AbortedIsNotRunning
  <2>2. ASSUME NEW i, NEW t, FinishIteration(i, t) PROVE AbortedIsNotRunning'
    <3>1. status' = status /\ aborted' = aborted
      BY <2>2 DEF FinishIteration, Place
    <3> QED BY <3>1 DEF AbortedIsNotRunning
  <2>3. ASSUME NEW i, RecordIteration(i) PROVE AbortedIsNotRunning'
    <3>1. aborted' = aborted
          /\ \/ status' = status
             \/ status' = Settle(loops[i], iterations', spent').status
      BY <2>3 DEF RecordIteration, Place
    <3> QED BY <3>1, SettleStatus DEF AbortedIsNotRunning
  <2>4. ASSUME NEW i, SettleAfterCheckpoint(i) PROVE AbortedIsNotRunning'
    BY <2>4, SettleStatus DEF SettleAfterCheckpoint, Place, AbortedIsNotRunning
  <2>5. ASSUME NEW i, IterationThrows(i) PROVE AbortedIsNotRunning'
    BY <2>5 DEF IterationThrows, Place, Ended, AbortedIsNotRunning
  <2>6. CASE ResumeInPlace \/ ResumeFromCheckpoint
    BY <2>6 DEF ResumeInPlace, ResumeFromCheckpoint, Resume, NewController,
                AbortedIsNotRunning
  <2>7. CASE Pause \/ Cancel \/ DeadlinePasses \/ UNCHANGED vars
    BY <2>7 DEF Pause, Cancel, DeadlinePasses, vars, AbortedIsNotRunning
  <2>8. ASSUME NEW i, AbortSignal(i) PROVE AbortedIsNotRunning'
    BY <2>8 DEF AbortSignal, AbortedIsNotRunning
  <2> QED
    BY <2>1, <2>2, <2>3, <2>4, <2>5, <2>6, <2>7, <2>8 DEF Next, LoopStep
<1>3. QED
  BY <1>1, <1>2, PTL DEF Spec
-----------------------------------------------------------------------------
\* The repair budget.  Before it is used up a machine may be in any phase; once
\* it is, only in REPAIR or in a phase that no derived event leads out of to
\* VERIFY.
Unspent == {"INIT", "EXPLORE", "PLAN", "IMPLEMENT", "VERIFY"}
Spared(mc) ==
  /\ mc.state.repairCount <= MaxRepairs
  /\ mc.state.phase \in Unspent => mc.state.repairCount < MaxRepairs
Spares == IInv /\ \A m \in DOMAIN machines : Spared(machines[m])

\* The events that PHASE 9 applies to a machine, but for REPAIR_COMPLETE.
PlainEvents == {"START", "EXPLORE_COMPLETE", "PLAN_READY", "IMPLEMENTATION_COMPLETE",
                "VERIFICATION_PASSED", "VERIFICATION_FAILED", "MARK_DONE",
                "MAX_REPAIRS_EXCEEDED", "ESCALATE"}

\* A plain event leaves the repair budget of a machine spared.
LEMMA PlainSpares ==
  ASSUME MaxRepairs \in Nat \ {0}, NEW mc \in MachineObjects, Spared(mc),
         NEW event \in PlainEvents, NEW ev
  PROVE  Spared(ApplyTo(mc, event, ev))
<1> DEFINE to == CHOOSE p \in Phases : TransitionRule(mc.state.phase, event, p)
<1>1. mc.state.repairCount \in Nat
  <2>1. mc.state \in Machine
    BY DEF MachineObjects
  <2> QED BY <2>1 DEF Machine
<1>2. CASE ~Accepts(mc.state.phase, event)
  BY <1>2 DEF ApplyTo, Spared, MachineObjects
<1>3. CASE Accepts(mc.state.phase, event)
  <2>1. TransitionRule(mc.state.phase, event, to)
    BY <1>3 DEF Accepts
  <2>2. ApplyTo(mc, event, ev).state = Advance(mc.state, to)
    BY <1>3 DEF ApplyTo, MachineObjects
  <2> HIDE DEF to
  <2>3. \/ to \in Unspent /\ mc.state.phase \in Unspent
        \/ to = "REPAIR" /\ mc.state.phase = "VERIFY"
        \/ to \notin Unspent \cup {"REPAIR"}
    BY <2>1 DEF TransitionRule, PlainEvents, Unspent
  <2>4. /\ Advance(mc.state, to).phase = to
        /\ Advance(mc.state, to).repairCount =
             IF to = "REPAIR" THEN mc.state.repairCount + 1
             ELSE IF to \in {"IMPLEMENT", "PLAN"} THEN 0 ELSE mc.state.repairCount
    BY DEF Advance
  <2> QED
    BY <1>1, <2>2, <2>3, <2>4 DEF Spared, Unspent
<1>4. QED
  BY <1>2, <1>3

\* What SubSeq selects stands at consecutive places of the sequence.
LEMMA SubSeqIsPart ==
  ASSUME NEW S, NEW s \in Seq(S), NEW from \in Nat \ {0}, NEW to \in Nat, to <= Len(s),
         NEW k \in DOMAIN SubSeq(s, from, to)
  PROVE  from + k - 1 \in 1..to /\ SubSeq(s, from, to)[k] = s[from + k - 1]
<1>1. CASE from <= to
  BY <1>1
<1>2. CASE to < from
  BY <1>2
<1> QED BY <1>1, <1>2

\* What is derived and what follows is plain; a repair is completed only
\* within the budget, or on evidence that takes the machine on to DONE.
LEMMA EventsPlain ==
  ASSUME NEW before, NEW phase, NEW repairs \in Nat, NEW t, NEW ev
  PROVE  LET event == NextEvent(before, t, ev, repairs)
             es == FollowUp(phase, t, ev)
         IN  /\ event \in PlainEvents \cup {"REPAIR_COMPLETE", NoEvent}
             /\ event = "REPAIR_COMPLETE" => AllPassed(ev) \/ repairs < MaxRepairs
             /\ \A k \in DOMAIN es : es[k] \in PlainEvents
             /\ AllPassed(ev) /\ phase = "VERIFY" =>
                  es = <<"MARK_DONE">> \/ es = <<"VERIFICATION_PASSED">>
<1> DEFINE event == NextEvent(before, t, ev, repairs)
           es == FollowUp(phase, t, ev)
<1>1. event \in PlainEvents \cup {"REPAIR_COMPLETE", NoEvent}
  BY DEF NextEvent, PlainEvents, NoEvent
<1>2. event = "REPAIR_COMPLETE" => AllPassed(ev) \/ repairs < MaxRepairs
  BY LoopLimits DEF NextEvent, RepairsSpent, NoEvent
<1> DEFINE n == WalkStart(phase)
           m == IF ev = {} THEN 3 ELSE 4
<1>3. n \in 1..5 /\ m \in 3..4 /\ WalkFrom(phase, ev) = SubSeq(Walk, n, m)
  BY DEF WalkStart, WalkFrom
<1>4. /\ Walk \in Seq(PlainEvents) /\ Len(Walk) = 4 /\ Walk[4] = "MARK_DONE"
      /\ phase = "VERIFY" => n = 4
      /\ AllPassed(ev) => m = 4
  BY DEF Walk, PlainEvents, WalkStart, AllPassed
<1> HIDE DEF n, m
<1>5. \A k \in DOMAIN WalkFrom(phase, ev) : WalkFrom(phase, ev)[k] \in PlainEvents
  <2> DEFINE w == WalkFrom(phase, ev)
  <2>1. w = SubSeq(Walk, n, m) /\ n \in 1..5 /\ m \in 3..4
    BY <1>3
  <2>2. \A i \in 1..4 : Walk[i] \in PlainEvents
    BY DEF Walk, PlainEvents
  <2> HIDE DEF w
  <2>3. \A k \in DOMAIN w : n + k - 1 \in 1..4 /\ w[k] = Walk[n + k - 1]
    BY <1>4, <2>1, SubSeqIsPart
  <2> QED BY <2>2, <2>3 DEF w
<1>6. \A k \in DOMAIN es : es[k] \in PlainEvents
  <2>1. CASE ~goal.requireVerification /\ t.stop /\ ~SomeBad(ev)
    BY <1>5, <2>1 DEF FollowUp
  <2>2. CASE ~(~goal.requireVerification /\ t.stop /\ ~SomeBad(ev))
    BY <2>2 DEF FollowUp, PlainEvents
  <2> QED BY <2>1, <2>2
<1>7. AllPassed(ev) /\ phase = "VERIFY" => es = <<"MARK_DONE">> \/ es = <<"VERIFICATION_PASSED">>
  <2> SUFFICES ASSUME AllPassed(ev), phase = "VERIFY"
               PROVE  es = <<"MARK_DONE">> \/ es = <<"VERIFICATION_PASSED">>
    OBVIOUS
  <2>1. WalkFrom(phase, ev) = <<"MARK_DONE">>
    BY <1>3, <1>4
  <2> QED
    BY <2>1 DEF FollowUp
<1>8. QED
  BY <1>1, <1>2, <1>6, <1>7

\* So do all the events PHASE 9 applies, one after the other.
LEMMA DeriveSpares ==
  ASSUME MaxRepairs \in Nat \ {0}, goal \in Goals,
         NEW mc \in MachineObjects, Earned(mc), Spared(mc),
         NEW before, NEW t \in PossibleTurns[goal]
  PROVE  Spared(Derive(mc, before, t))
<1> DEFINE ev    == Evidence(before, t)
           event == NextEvent(before, t, ev, mc.state.repairCount)
           first == ApplyTo(mc, event, ev)
           es    == FollowUp(first.state.phase, t, ev)
           Kept(m) == m \in MachineObjects /\ Earned(m) /\ Spared(m)
           next(m, k) == IF k \in DOMAIN es THEN ApplyTo(m, es[k], ev) ELSE m
<1>1. mc.state.repairCount \in Nat /\ mc.state \in Machine
  <2>1. mc.state \in Machine
    BY DEF MachineObjects
  <2> QED BY <2>1 DEF Machine
<1>2. /\ ev \in SUBSET (Verdicts \cup Passing)
      /\ Merits(event, ev) /\ Merits("ESCALATE", ev)
      /\ \A k \in DOMAIN es : Merits(es[k], ev)
  BY EvidenceFacts, EventsMerit
<1>3. /\ event \in PlainEvents \cup {"REPAIR_COMPLETE", NoEvent}
      /\ event = "REPAIR_COMPLETE" => AllPassed(ev) \/ mc.state.repairCount < MaxRepairs
      /\ \A k \in DOMAIN es : es[k] \in PlainEvents
      /\ AllPassed(ev) /\ first.state.phase = "VERIFY" =>
           es = <<"MARK_DONE">> \/ es = <<"VERIFICATION_PASSED">>
  BY <1>1, EventsPlain
<1>4. Derive(mc, before, t) =
        IF event = NoEvent \/ mc.state.phase \in TerminalPhases THEN mc
        ELSE IF Accepts(mc.state.phase, event) THEN ApplyAll(first, es, ev)
        ELSE IF mc.state.phase = "REPAIR" /\ SomeBad(ev)
        THEN ApplyTo(first, "ESCALATE", ev) ELSE first
  BY DEF Derive
<1> HIDE DEF ev, event
<1>5. first \in MachineObjects /\ Earned(first)
  BY <1>2, ApplyKeeps
<1>6. event \in PlainEvents => Spared(first)
  BY PlainSpares
<1>7. ~Accepts(mc.state.phase, event) => Spared(first)
  BY DEF ApplyTo, Spared, MachineObjects
<1>8. event = "REPAIR_COMPLETE" /\ Accepts(mc.state.phase, event) =>
        /\ first.state.phase = "VERIFY"
        /\ first.state.repairCount = mc.state.repairCount
  <2> SUFFICES ASSUME event = "REPAIR_COMPLETE", Accepts(mc.state.phase, event)
               PROVE  /\ first.state.phase = "VERIFY"
                      /\ first.state.repairCount = mc.state.repairCount
    OBVIOUS
  <2> DEFINE to == CHOOSE p \in Phases : TransitionRule(mc.state.phase, event, p)
  <2>1. TransitionRule(mc.state.phase, event, to)
    BY DEF Accepts
  <2>2. first.state = Advance(mc.state, to)
    BY DEF ApplyTo, MachineObjects
  <2> HIDE DEF to, first
  <2>3. to = "VERIFY"
    BY <2>1 DEF TransitionRule
  <2> QED
    BY <2>2, <2>3 DEF Advance
<1> HIDE DEF first, es
<1>9. ASSUME NEW m, NEW k, Kept(m) PROVE Kept(next(m, k))
  <2>1. CASE k \in DOMAIN es
    BY <1>2, <1>3, <1>9, <2>1, ApplyKeeps, PlainSpares
  <2>2. CASE k \notin DOMAIN es
    BY <1>9, <2>2
  <2> QED BY <2>1, <2>2
<1>10. Spared(first) => Spared(ApplyAll(first, es, ev))
  <2> SUFFICES ASSUME Kept(first) PROVE Kept(next(next(next(next(first, 1), 2), 3), 4))
    BY <1>5 DEF ApplyAll
  <2> HIDE DEF next, Kept
  <2> QED BY <1>9
<1>11. CASE event = "REPAIR_COMPLETE" /\ Accepts(mc.state.phase, event)
  <2>1. CASE mc.state.repairCount < MaxRepairs
    BY <1>1, <1>4, <1>8, <1>10, <1>11, <2>1 DEF Spared, NoEvent, TransitionRule, Accepts,
       TerminalPhases
  <2>2. CASE AllPassed(ev)
    <3>1. PICK e \in {"MARK_DONE", "VERIFICATION_PASSED"} : es = <<e>>
      BY <1>3, <1>8, <1>11, <2>2
    <3>2. ApplyAll(first, es, ev) = ApplyTo(first, e, ev)
      BY <3>1 DEF ApplyAll
    <3>3. Accepts("VERIFY", e)
      BY <3>1 DEF Accepts, TransitionRule, Phases, TerminalPhases
    <3> DEFINE to == CHOOSE p \in Phases : TransitionRule("VERIFY", e, p)
    <3>4. TransitionRule("VERIFY", e, to)
      BY <3>3 DEF Accepts
    <3>5. ApplyTo(first, e, ev).state = Advance(first.state, to)
      BY <1>5, <1>8, <1>11, <3>3 DEF ApplyTo, MachineObjects
    <3> HIDE DEF to
    <3>6. to = "DONE"
      BY <3>4 DEF TransitionRule
    <3>7. Spared(ApplyTo(first, e, ev))
      BY <1>8, <1>11, <3>5, <3>6 DEF Advance, Spared, Unspent
    <3> QED
      BY <1>4, <1>11, <3>2, <3>7
  <2> QED
    BY <1>3, <1>11, <2>1, <2>2
<1>12. CASE ~(event = "REPAIR_COMPLETE" /\ Accepts(mc.state.phase, event))
  <2>1. Spared(first) => Spared(ApplyTo(first, "ESCALATE", ev))
    BY <1>5, PlainSpares DEF PlainEvents
  <2> QED
    BY <1>3, <1>4, <1>6, <1>7, <1>10, <1>12, <2>1
<1>13. QED
  BY <1>11, <1>12

\* A machine enters REPAIR at most MaxRepairs times before it starts afresh,
\* whichever loops drive it; a budget of 0 is the exception, which allows one.
THEOREM RepairsCorrect ==
  ASSUME MaxRepairs \in Nat \ {0}
  PROVE  Spec => []RepairsBounded
<1>1. Init => Spares
  <2> SUFFICES ASSUME Init PROVE \A m \in DOMAIN machines : Spared(machines[m])
    BY InitHolds DEF Spares
  <2>1. machines = <<NewMachineObject("INIT")>>
    BY DEF Init
  <2> QED
    BY <2>1 DEF Spared, NewMachineObject, NewMachine
<1>2. Spares /\ [Next]_vars => Spares'
  <2> SUFFICES ASSUME Spares, [Next]_vars
               PROVE  \A m \in DOMAIN machines' : Spared(machines'[m])
    BY NextKeeps DEF Spares, Spared
  <2>1. ASSUME NEW i \in DOMAIN loops, NEW t \in PossibleTurns[goal], FinishIteration(i, t)
        PROVE  \A m \in DOMAIN machines' : Spared(machines'[m])
    <3> DEFINE l  == loops[i]
               mc == machines[l.machine]
               after == Derive(mc, l.before, t)
    <3>1. machines' = [machines EXCEPT ![l.machine] = after]
      BY <2>1 DEF FinishIteration
    <3>2. l.machine \in DOMAIN machines /\ goal \in Goals
      BY DEF Spares, IInv, LoopsTyped, MachinesEarned
    <3>3. mc \in MachineObjects /\ Earned(mc) /\ Spared(mc)
      BY <3>2 DEF Spares, IInv, MachinesEarned
    <3>4. Spared(after)
      BY <3>2, <3>3, DeriveSpares
    <3> HIDE DEF after, l
    <3> QED
      BY <3>1, <3>4 DEF Spares
  <2>2. ASSUME NEW restored,
               \/ restored = <<>>
               \/ \E phase \in checkpoints : restored = <<NewMachineObject(phase)>>,
               Resume(restored)
        PROVE  \A m \in DOMAIN machines' : Spared(machines'[m])
    <3>1. machines' = machines \o restored /\ machines \in Seq(MachineObjects)
      BY <2>2 DEF Resume, Spares, IInv, MachinesEarned
    <3>2. CASE restored = <<>>
      BY <3>1, <3>2 DEF Spares
    <3>3. ASSUME NEW phase \in checkpoints, restored = <<NewMachineObject(phase)>>
          PROVE  \A m \in DOMAIN machines' : Spared(machines'[m])
      <4> DEFINE new == NewMachineObject(phase)
      <4>1. Spared(new)
        BY DEF Spared, NewMachineObject, NewMachine
      <4> HIDE DEF new
      <4>2. machines' = machines \o <<new>>
        BY <3>1, <3>3 DEF new
      <4>3. ASSUME NEW m \in DOMAIN machines' PROVE Spared(machines'[m])
        <5>1. CASE m \in DOMAIN machines
          BY <3>1, <4>2, <5>1 DEF Spares
        <5>2. CASE m = Len(machines) + 1
          BY <3>1, <4>1, <4>2, <5>2
        <5> QED
          BY <3>1, <4>2, <5>1, <5>2
      <4> QED BY <4>3
    <3> QED
      BY <2>2, <3>2, <3>3
  <2>3. CASE ResumeInPlace \/ ResumeFromCheckpoint
    BY <2>2, <2>3 DEF ResumeInPlace, ResumeFromCheckpoint
  <2>4. CASE UNCHANGED machines
    BY <2>4 DEF Spares
  <2>5. QED
    BY <2>1, <2>3, <2>4
       DEF Next, LoopStep, StartLoop, RecordIteration, SettleAfterCheckpoint,
           IterationThrows, AbortSignal, Pause, Cancel, DeadlinePasses, vars
<1>3. Spares => RepairsBounded
  BY DEF Spares, Spared, RepairsBounded
<1>4. QED
  BY <1>1, <1>2, <1>3, PTL DEF Spec
-----------------------------------------------------------------------------
\* With callers that wait there is one loop at a time, and while it awaits the
\* model its machine stays in the phase the iteration started in.  So every
\* event derived from that phase is one the machine accepts.
Orderly ==
  CallersWait =>
    /\ \A m \in DOMAIN machines : ~machines[m].refused
    /\ \A i \in DOMAIN loops : Alive(i) =>
         /\ i = Len(loops)
         /\ pc[i] = "running" => machines[loops[i].machine].state.phase = loops[i].before
Tidy == IInv /\ Orderly

\* An event with exactly one rule in the phase is accepted and leads where
\* that rule says.
LEMMA ApplyAccepted ==
  ASSUME NEW mc \in MachineObjects, ~mc.refused, NEW event, NEW ev,
         NEW to \in Phases, TransitionRule(mc.state.phase, event, to),
         \A p : TransitionRule(mc.state.phase, event, p) => p = to
  PROVE  ~ApplyTo(mc, event, ev).refused /\ ApplyTo(mc, event, ev).state.phase = to
<1>1. Accepts(mc.state.phase, event)
  BY DEF Accepts
<1>2. (CHOOSE p \in Phases : TransitionRule(mc.state.phase, event, p)) = to
  OBVIOUS
<1>3. QED
  BY <1>1, <1>2 DEF ApplyTo, MachineObjects, Advance

\* The phases that Walk leads through.
WalkPhases == <<"EXPLORE", "PLAN", "IMPLEMENT", "VERIFY", "DONE">>

\* Each step of the walk is accepted where the step before it leads.
LEMMA WalkAccepted ==
  ASSUME NEW mc \in MachineObjects, ~mc.refused, NEW ev,
         NEW j \in 1..4, mc.state.phase = WalkPhases[j]
  PROVE  ~ApplyTo(mc, Walk[j], ev).refused
         /\ ApplyTo(mc, Walk[j], ev).state.phase = WalkPhases[j + 1]
<1>1. WalkPhases[j + 1] \in Phases
  BY DEF WalkPhases, Phases, LivePhases, TerminalPhases
<1>2. /\ TransitionRule(mc.state.phase, Walk[j], WalkPhases[j + 1])
      /\ \A p : TransitionRule(mc.state.phase, Walk[j], p) => p = WalkPhases[j + 1]
  <2>1. CASE j = 1
    BY <2>1 DEF WalkPhases, Walk, TransitionRule
  <2>2. CASE j = 2
    BY <2>2 DEF WalkPhases, Walk, TransitionRule
  <2>3. CASE j = 3
    BY <2>3 DEF WalkPhases, Walk, TransitionRule
  <2>4. CASE j = 4
    BY <2>4 DEF WalkPhases, Walk, TransitionRule
  <2> QED BY <2>1, <2>2, <2>3, <2>4
<1>3. QED
  BY <1>1, <1>2, ApplyAccepted

\* What follows in a phase is accepted one by one.
LEMMA FollowUpAccepted ==
  ASSUME goal \in Goals, NEW mc \in MachineObjects, Earned(mc), ~mc.refused,
         NEW before, NEW t \in PossibleTurns[goal]
  PROVE  LET ev == Evidence(before, t)
         IN  ~ApplyAll(mc, FollowUp(mc.state.phase, t, ev), ev).refused
<1> DEFINE ev == Evidence(before, t)
           es == FollowUp(mc.state.phase, t, ev)
           next(m, k) == IF k \in DOMAIN es THEN ApplyTo(m, es[k], ev) ELSE m
           Kept(m) == m \in MachineObjects /\ Earned(m)
<1>1. /\ ev \in SUBSET (Verdicts \cup Passing)
      /\ \A k \in DOMAIN es : Merits(es[k], ev)
  BY EvidenceFacts, EventsMerit
<1> HIDE DEF ev
<1>2. CASE ~goal.requireVerification /\ t.stop /\ ~SomeBad(ev)
  <2> DEFINE n == WalkStart(mc.state.phase)
             to == IF ev = {} THEN 3 ELSE 4
             At(m, k) == /\ Kept(m) /\ ~m.refused
                         /\ k \in DOMAIN es => m.state.phase = WalkPhases[n + k - 1]
  <2>1. /\ es = SubSeq(Walk, n, to) /\ n \in 1..5 /\ to \in 3..4
        /\ n \in 1..4 => mc.state.phase = WalkPhases[n]
    BY <1>2 DEF FollowUp, WalkFrom, WalkStart, WalkPhases
  <2>2. Walk \in Seq(StateEvents) /\ Len(Walk) = 4
    BY DEF Walk, StateEvents, RuntimeOnlyEvents
  <2> HIDE DEF n, to, es
  <2>3. \A k \in DOMAIN es : n + k - 1 \in 1..4 /\ es[k] = Walk[n + k - 1]
    BY <2>1, <2>2, SubSeqIsPart
  <2>4. DOMAIN es = 1..Len(es) /\ Len(es) \in Nat
    BY <2>1, <2>2
  <2>5. At(mc, 1)
    BY <2>1, <2>3
  <2>6. ASSUME NEW m, NEW k \in Nat \ {0}, At(m, k)
        PROVE  At(next(m, k), k + 1)
    <3>1. CASE k \in DOMAIN es
      <4>1. n + k - 1 \in 1..4 /\ es[k] = Walk[n + k - 1]
        BY <2>3, <3>1
      <4>2. /\ ~ApplyTo(m, es[k], ev).refused
            /\ ApplyTo(m, es[k], ev).state.phase = WalkPhases[(n + k - 1) + 1]
        BY <2>6, <3>1, <4>1, WalkAccepted
      <4>3. Kept(ApplyTo(m, es[k], ev))
        BY <1>1, <2>6, <3>1, ApplyKeeps
      <4>4. (n + k - 1) + 1 = n + (k + 1) - 1
        BY <2>1
      <4> QED BY <3>1, <4>2, <4>3, <4>4
    <3>2. CASE k \notin DOMAIN es
      BY <2>4, <2>6, <3>2
    <3> QED BY <3>1, <3>2
  <2>7. At(next(next(next(next(mc, 1), 2), 3), 4), 5)
    <3> HIDE DEF next, At
    <3>1. At(next(mc, 1), 2)
      BY <2>5, <2>6
    <3>2. At(next(next(mc, 1), 2), 3)
      BY <2>6, <3>1
    <3>3. At(next(next(next(mc, 1), 2), 3), 4)
      BY <2>6, <3>2
    <3> QED BY <2>6, <3>3
  <2> QED
    BY <2>7 DEF ApplyAll, es, ev
<1>3. CASE ~(~goal.requireVerification /\ t.stop /\ ~SomeBad(ev))
  <2>1. \/ es = <<>>
        \/ /\ mc.state.phase = "VERIFY"
           /\ es = <<"VERIFICATION_PASSED">> \/ es = <<"VERIFICATION_FAILED">>
    BY <1>3 DEF FollowUp
  <2> HIDE DEF es
  <2>2. CASE es = <<>>
    BY <2>2 DEF ApplyAll, es, ev
  <2>3. ASSUME NEW e \in {"VERIFICATION_PASSED", "VERIFICATION_FAILED"},
               mc.state.phase = "VERIFY", es = <<e>>
        PROVE  ~ApplyAll(mc, es, ev).refused
    <3>1. ApplyAll(mc, es, ev) = ApplyTo(mc, e, ev)
      BY <2>3 DEF ApplyAll
    <3>2. CASE e = "VERIFICATION_PASSED"
      <4>1. /\ "DONE" \in Phases /\ TransitionRule(mc.state.phase, e, "DONE")
            /\ \A p : TransitionRule(mc.state.phase, e, p) => p = "DONE"
        BY <2>3, <3>2 DEF TransitionRule, Phases, TerminalPhases
      <4> QED BY <3>1, <4>1, ApplyAccepted
    <3>3. CASE e = "VERIFICATION_FAILED"
      <4>1. /\ "REPAIR" \in Phases /\ TransitionRule(mc.state.phase, e, "REPAIR")
            /\ \A p : TransitionRule(mc.state.phase, e, p) => p = "REPAIR"
        BY <2>3, <3>3 DEF TransitionRule, Phases, LivePhases
      <4> QED BY <3>1, <4>1, ApplyAccepted
    <3> QED BY <3>2, <3>3
  <2> QED
    BY <2>1, <2>2, <2>3 DEF es, ev
<1>4. QED
  BY <1>2, <1>3

\* An event derived from the phase the machine is in is on the whitelist.
LEMMA NextEventValid ==
  ASSUME NEW phase \in Phases, NEW t, NEW ev, NEW repairs,
         NextEvent(phase, t, ev, repairs) # NoEvent
  PROVE  \E to \in Phases :
           /\ TransitionRule(phase, NextEvent(phase, t, ev, repairs), to)
           /\ \A p : TransitionRule(phase, NextEvent(phase, t, ev, repairs), p) => p = to
<1> DEFINE event == NextEvent(phase, t, ev, repairs)
<1>1. \/ phase = "INIT" /\ event = "START"
      \/ phase = "EXPLORE" /\ event \in {"PLAN_READY", "EXPLORE_COMPLETE"}
      \/ phase = "PLAN" /\ event = "PLAN_READY"
      \/ phase = "IMPLEMENT" /\ event = "IMPLEMENTATION_COMPLETE"
      \/ phase = "VERIFY" /\ event \in {"VERIFICATION_PASSED", "VERIFICATION_FAILED"}
      \/ phase = "REPAIR" /\ event \in {"REPAIR_COMPLETE", "MAX_REPAIRS_EXCEEDED"}
  BY DEF NextEvent, NoEvent
<1> HIDE DEF event
<1> DEFINE To == CASE event = "START" -> "EXPLORE" [] event = "EXPLORE_COMPLETE" -> "PLAN"
                   [] event = "PLAN_READY" -> "IMPLEMENT"
                   [] event \in {"IMPLEMENTATION_COMPLETE", "REPAIR_COMPLETE"} -> "VERIFY"
                   [] event = "VERIFICATION_PASSED" -> "DONE"
                   [] event = "VERIFICATION_FAILED" -> "REPAIR"
                   [] OTHER -> "HUMAN_REQUIRED"
<1>2. To \in Phases
  BY DEF Phases, LivePhases, TerminalPhases
<1>3. TransitionRule(phase, event, To) /\ \A p : TransitionRule(phase, event, p) => p = To
  BY <1>1 DEF TransitionRule
<1>4. QED
  BY <1>2, <1>3 DEF event

\* Derived from the phase the machine is still in, every event is accepted.
LEMMA DeriveAccepted ==
  ASSUME goal \in Goals, NEW mc \in MachineObjects, Earned(mc), ~mc.refused,
         NEW t \in PossibleTurns[goal]
  PROVE  ~Derive(mc, mc.state.phase, t).refused
<1> DEFINE phase == mc.state.phase
           ev    == Evidence(phase, t)
           event == NextEvent(phase, t, ev, mc.state.repairCount)
           first == ApplyTo(mc, event, ev)
           es    == FollowUp(first.state.phase, t, ev)
<1>1. phase \in Phases
  <2>1. mc.state \in Machine
    BY DEF MachineObjects
  <2> QED BY <2>1 DEF Machine
<1>2. Derive(mc, phase, t) =
        IF event = NoEvent \/ phase \in TerminalPhases THEN mc
        ELSE IF Accepts(phase, event) THEN ApplyAll(first, es, ev)
        ELSE IF phase = "REPAIR" /\ SomeBad(ev)
        THEN ApplyTo(first, "ESCALATE", ev) ELSE first
  BY DEF Derive
<1>3. CASE event = NoEvent
  BY <1>2, <1>3
<1>4. CASE event # NoEvent
  <2>1. PICK to \in Phases : /\ TransitionRule(phase, event, to)
                             /\ \A p : TransitionRule(phase, event, p) => p = to
    BY <1>1, <1>4, NextEventValid
  <2>2. Accepts(phase, event)
    BY <2>1 DEF Accepts
  <2>3. ~first.refused
    BY <2>1, ApplyAccepted
  <2>4. ev \in SUBSET (Verdicts \cup Passing) /\ Merits(event, ev)
    BY EvidenceFacts, EventsMerit
  <2>5. first \in MachineObjects /\ Earned(first)
    BY <2>4, ApplyKeeps
  <2> HIDE DEF first
  <2>6. ~ApplyAll(first, es, ev).refused
    BY <2>3, <2>5, FollowUpAccepted
  <2> QED
    BY <1>2, <2>2, <2>6
<1>5. QED
  BY <1>3, <1>4

\* Where a loop enters an iteration it notes the phase of its machine.
LEMMA EnterNotes ==
  ASSUME NEW l \in LoopRecords, NEW its, NEW cost,
         EnterLoop(l, its, cost).pc = "running"
  PROVE  LET loop == EnterLoop(l, its, cost).loop
         IN  machines[loop.machine].state.phase = loop.before
<1> DEFINE phase == machines[l.machine].state.phase
           loop  == [l EXCEPT !.before = phase, !.seq = Len(its) + 1, !.cost = cost,
                              !.record = NoRecord]
<1>1. EnterLoop(l, its, cost).loop = loop
  BY DEF EnterLoop, LoopHead, Ended
<1>2. loop.machine = l.machine /\ loop.before = phase
  BY DEF LoopRecords
<1>3. QED
  BY <1>1, <1>2

\* A loop that goes round after an iteration notes the phase as well.
LEMMA SettleNotes ==
  ASSUME NEW l \in LoopRecords, NEW its, NEW cost,
         Settle(l, its, cost).pc = "running"
  PROVE  LET loop == Settle(l, its, cost).loop
         IN  machines[loop.machine].state.phase = loop.before
BY EnterNotes DEF Settle, Ended

\* Before anything has run no event was refused.
LEMMA TidyInit == Init => Tidy
  <2> SUFFICES ASSUME Init PROVE Orderly
    BY InitHolds DEF Tidy
  <2> QED
    BY DEF Init, Orderly, NewMachineObject, Alive

\* Neither loops nor callers make a machine refuse an event.
LEMMA TidyKeeps == Tidy /\ [Next]_vars => Tidy'
  <2> SUFFICES ASSUME Tidy, [Next]_vars, CallersWait PROVE Orderly'
    BY NextKeeps DEF Tidy, Orderly
  <2>1. /\ \A m \in DOMAIN machines : ~machines[m].refused
        /\ \A i \in DOMAIN loops : Alive(i) =>
             /\ i = Len(loops)
             /\ pc[i] = "running" => machines[loops[i].machine].state.phase = loops[i].before
        /\ IInv
    BY DEF Tidy, Orderly
  <2>2. /\ loops \in Seq(LoopRecords) /\ pc \in Seq(Places) /\ Len(pc) = Len(loops)
        /\ \A i \in DOMAIN loops : loops[i] \in LoopRecords /\ loops[i].machine \in DOMAIN machines
    BY <2>1 DEF IInv, LoopsTyped
  <2>3. ASSUME NEW i \in DOMAIN loops, Alive(i), NEW next, Place(i, next),
               next.pc = "running" =>
                 machines'[next.loop.machine].state.phase = next.loop.before,
               \A m \in DOMAIN machines' : ~machines'[m].refused
        PROVE  Orderly'
    <3>1. /\ loops' = [loops EXCEPT ![i] = next.loop] /\ pc' = [pc EXCEPT ![i] = next.pc]
          /\ i = Len(loops) /\ \A j \in DOMAIN loops \ {i} : pc[j] = "done"
      BY <2>1, <2>3 DEF Place, Alive
    <3>2. /\ DOMAIN loops' = DOMAIN loops /\ Len(loops') = Len(loops)
          /\ loops'[i] = next.loop /\ pc'[i] = next.pc
          /\ \A j \in DOMAIN loops \ {i} : pc'[j] = "done"
      BY <2>2, <3>1
    <3> QED
      BY <2>3, <3>1, <3>2 DEF Orderly, Alive
  <2>4. ASSUME NEW i \in DOMAIN loops, StartLoop(i) PROVE Orderly'
    <3> DEFINE l == [loops[i] EXCEPT !.machine = current]
               next == EnterLoop(l, iterations, spent)
    <3>1. Place(i, next) /\ machines' = machines /\ Alive(i)
      BY <2>4 DEF StartLoop, Alive
    <3>2. l \in LoopRecords
      <4>1. current \in Nat
        BY <2>1 DEF IInv, MachinesEarned
      <4> QED BY <2>2, <4>1 DEF LoopRecords
    <3> HIDE DEF l
    <3>3. next.pc = "running" => machines[next.loop.machine].state.phase = next.loop.before
      BY <3>2, EnterNotes
    <3> HIDE DEF next
    <3> QED BY <2>1, <2>3, <3>1, <3>3
  <2>5. ASSUME NEW i \in DOMAIN loops, NEW t \in PossibleTurns[goal], FinishIteration(i, t)
        PROVE  Orderly'
    <3> DEFINE l  == loops[i]
               mc == machines[l.machine]
               after == Derive(mc, l.before, t)
    <3>1. PICK next : Place(i, next) /\ next.pc = "returned"
      BY <2>5 DEF FinishIteration
    <3>2. machines' = [machines EXCEPT ![l.machine] = after] /\ pc[i] = "running" /\ Alive(i)
      BY <2>5 DEF FinishIteration, Alive
    <3>3. l.machine \in DOMAIN machines /\ mc.state.phase = l.before
      BY <2>1, <2>2, <3>2
    <3>4. mc \in MachineObjects /\ Earned(mc) /\ ~mc.refused /\ goal \in Goals
      BY <2>1, <3>3 DEF IInv, MachinesEarned
    <3>5. ~Derive(mc, mc.state.phase, t).refused
      BY <3>4, DeriveAccepted
    <3>6. ~after.refused
      BY <3>3, <3>5
    <3> HIDE DEF after, l, mc
    <3>7. \A m \in DOMAIN machines' : ~machines'[m].refused
      BY <2>1, <3>2, <3>6
    <3> QED BY <2>3, <3>1, <3>2, <3>7
  <2>6. ASSUME NEW i \in DOMAIN loops, RecordIteration(i) PROVE Orderly'
    <3>1. PICK next : /\ Place(i, next)
                      /\ \/ next.pc = "saving"
                         \/ next = Settle(loops[i], iterations', spent')
      BY <2>6 DEF RecordIteration
    <3>2. machines' = machines /\ Alive(i)
      BY <2>6 DEF RecordIteration, Alive
    <3>3. next.pc = "running" => machines[next.loop.machine].state.phase = next.loop.before
      BY <2>2, <3>1, SettleNotes
    <3> QED BY <2>1, <2>3, <3>1, <3>2, <3>3
  <2>7. ASSUME NEW i \in DOMAIN loops, SettleAfterCheckpoint(i) PROVE Orderly'
    <3> DEFINE next == Settle(loops[i], iterations, spent)
    <3>1. Place(i, next) /\ machines' = machines /\ Alive(i)
      BY <2>7 DEF SettleAfterCheckpoint, Alive
    <3>2. next.pc = "running" => machines[next.loop.machine].state.phase = next.loop.before
      BY <2>2, SettleNotes
    <3> HIDE DEF next
    <3> QED BY <2>1, <2>3, <3>1, <3>2
  <2>8. ASSUME NEW i \in DOMAIN loops, IterationThrows(i) PROVE Orderly'
    <3> DEFINE next == Ended(loops[i], "FAILED")
    <3>1. Place(i, next) /\ machines' = machines /\ Alive(i) /\ next.pc = "done"
      BY <2>8 DEF IterationThrows, Alive, Ended
    <3> HIDE DEF next
    <3> QED BY <2>1, <2>3, <3>1
  <2>9. ASSUME NEW i \in DOMAIN loops, AbortSignal(i) PROVE Orderly'
    <3>1. /\ loops' = [loops EXCEPT ![i].signalled = TRUE] /\ pc' = pc /\ machines' = machines
      BY <2>9 DEF AbortSignal
    <3>2. /\ Len(loops') = Len(loops) /\ DOMAIN loops' = DOMAIN loops
          /\ \A j \in DOMAIN loops : /\ loops'[j].machine = loops[j].machine
                                     /\ loops'[j].before = loops[j].before
      BY <2>2, <3>1 DEF LoopRecords
    <3> QED BY <2>1, <3>1, <3>2 DEF Orderly, Alive
  <2>10. ASSUME NEW restored, Resume(restored),
                \/ restored = <<>>
                \/ \E phase \in checkpoints : restored = <<NewMachineObject(phase)>>
         PROVE  Orderly'
    <3> DEFINE m    == IF restored = <<>> THEN current ELSE Len(machines) + 1
               all  == machines \o restored
               head == LoopHead(NewLoop(m), all[m].state.phase, "RUNNING",
                                NewController, iterations, spent)
    <3>1. /\ machines' = all /\ loops' = Append(loops, head.loop) /\ pc' = Append(pc, head.pc)
          /\ \A i \in DOMAIN loops : pc[i] = "done"
      BY <2>10 DEF Resume, NewController, Alive
    <3>2. \A k \in DOMAIN all : ~all[k].refused
      <4>1. machines \in Seq(MachineObjects)
        BY <2>1 DEF IInv, MachinesEarned
      <4>2. CASE restored = <<>>
        BY <2>1, <4>1, <4>2
      <4>3. ASSUME NEW phase \in checkpoints, restored = <<NewMachineObject(phase)>>
            PROVE  \A k \in DOMAIN all : ~all[k].refused
        <5> DEFINE new == NewMachineObject(phase)
        <5>1. ~new.refused
          BY DEF NewMachineObject
        <5>2. all = machines \o <<new>>
          BY <4>3
        <5> HIDE DEF new, all
        <5>3. ASSUME NEW k \in DOMAIN all PROVE ~all[k].refused
          <6>1. CASE k \in DOMAIN machines
            BY <2>1, <4>1, <5>2, <6>1
          <6>2. CASE k = Len(machines) + 1
            BY <4>1, <5>1, <5>2, <6>2
          <6> QED BY <4>1, <5>2, <6>1, <6>2
        <5> QED BY <5>3
      <4> QED BY <2>10, <4>2, <4>3
    <3>3. head.pc = "running" => /\ head.loop.machine = m
                                 /\ head.loop.before = all[m].state.phase
      BY DEF LoopHead, Ended, NewLoop
    <3> HIDE DEF all, m, head
    <3>4. /\ Len(loops') = Len(loops) + 1
          /\ loops'[Len(loops) + 1] = head.loop /\ pc'[Len(loops) + 1] = head.pc
          /\ \A j \in DOMAIN loops' : j \in DOMAIN loops \/ j = Len(loops) + 1
          /\ \A j \in DOMAIN loops : pc'[j] = "done"
      BY <2>2, <3>1
    <3> QED
      BY <3>1, <3>2, <3>3, <3>4 DEF Orderly, Alive
  <2>11. CASE ResumeInPlace \/ ResumeFromCheckpoint
    BY <2>10, <2>11 DEF ResumeInPlace, ResumeFromCheckpoint
  <2>12. CASE Pause \/ Cancel \/ DeadlinePasses \/ UNCHANGED vars
    <3>1. loops' = loops /\ pc' = pc /\ machines' = machines
      BY <2>12 DEF Pause, Cancel, DeadlinePasses, vars
    <3> QED BY <2>1, <3>1 DEF Orderly, Alive
  <2>13. QED
    BY <2>4, <2>5, <2>6, <2>7, <2>8, <2>9, <2>11, <2>12 DEF Next, LoopStep

\* With callers that wait, every event an iteration derives from its results
\* is accepted by its machine: nothing is thrown and swallowed.
THEOREM AllAccepted == Spec => []NothingRefused
<1>1. Tidy => NothingRefused
  BY DEF Tidy, Orderly, NothingRefused
<1>2. QED
  BY <1>1, TidyInit, TidyKeeps, PTL DEF Spec

-----------------------------------------------------------------------------
\* The status.  A decision for SUCCESS is not reconsidered, but nothing leads
\* out of DONE; and only resume() makes an execution RUNNING, so that it is the
\* last loop that decides whether one is left without a loop.
LastLoop == Len(loops)
SuccessIsDone ==
  \A i \in DOMAIN loops :
    Recorded(pc[i]) /\ loops[i].record.decision = "SUCCESS" =>
      machines[loops[i].machine].state.phase = "DONE"
LastLoopLeads ==
  /\ LastLoop # 0
  /\ Alive(LastLoop) /\ pc[LastLoop] # "starting" => loops[LastLoop].machine = current
  /\ status = "RUNNING" => Alive(LastLoop) \/ machines[current].state.phase \in TerminalPhases
Truthful == Tidy /\ SuccessIsDone /\ LastLoopLeads /\ CompletedMeansDone

\* Nothing that PHASE 9 derives is applied to a machine that has ended.
LEMMA TerminalStays ==
  ASSUME NEW mc, mc.state.phase \in TerminalPhases, NEW before, NEW t
  PROVE  Derive(mc, before, t) = mc
BY DEF Derive

\* Machines do not go away, and those that have ended stay as they are.
LEMMA PhasesStay ==
  ASSUME IInv, [Next]_vars, NEW m \in DOMAIN machines
  PROVE  /\ m \in DOMAIN machines'
         /\ machines[m].state.phase \in TerminalPhases => machines'[m] = machines[m]
<1>1. machines \in Seq(MachineObjects)
  BY DEF IInv, MachinesEarned
<1>2. ASSUME NEW i \in DOMAIN loops, NEW t, FinishIteration(i, t)
      PROVE  /\ m \in DOMAIN machines'
             /\ machines[m].state.phase \in TerminalPhases => machines'[m] = machines[m]
  <2> DEFINE k == loops[i].machine
             after == Derive(machines[k], loops[i].before, t)
  <2>1. machines' = [machines EXCEPT ![k] = after] /\ k \in DOMAIN machines
    BY <1>2 DEF FinishIteration, IInv, LoopsTyped
  <2>2. machines[k].state.phase \in TerminalPhases => after = machines[k]
    BY TerminalStays
  <2> HIDE DEF after, k
  <2> QED
    BY <2>1, <2>2
<1>3. ASSUME NEW restored, Resume(restored), restored = <<>> \/ \E x : restored = <<x>>
      PROVE  m \in DOMAIN machines' /\ machines'[m] = machines[m]
  <2>1. machines' = machines \o restored
    BY <1>3 DEF Resume
  <2>2. CASE restored = <<>>
    BY <1>1, <2>1, <2>2
  <2>3. ASSUME NEW x, restored = <<x>>
        PROVE  m \in DOMAIN machines' /\ machines'[m] = machines[m]
    BY <1>1, <2>1, <2>3
  <2> QED BY <1>3, <2>2, <2>3
<1>4. CASE ResumeInPlace \/ ResumeFromCheckpoint
  BY <1>3, <1>4 DEF ResumeInPlace, ResumeFromCheckpoint
<1>5. CASE UNCHANGED machines
  BY <1>5
<1> QED
  BY <1>2, <1>4, <1>5
     DEF Next, LoopStep, StartLoop, RecordIteration, SettleAfterCheckpoint,
         IterationThrows, AbortSignal, Pause, Cancel, DeadlinePasses, vars

\* Only the loop's own entries change.
LEMMA PlaceFacts ==
  ASSUME LoopsTyped, NEW i \in DOMAIN loops, NEW next, Place(i, next)
  PROVE  /\ DOMAIN loops' = DOMAIN loops /\ Len(loops') = Len(loops)
         /\ loops'[i] = next.loop /\ pc'[i] = next.pc /\ status' = next.status
         /\ \A j \in DOMAIN loops \ {i} : loops'[j] = loops[j] /\ pc'[j] = pc[j]
         /\ i \in DOMAIN pc /\ DOMAIN pc = DOMAIN loops /\ DOMAIN loops = 1..Len(loops)
         /\ Len(loops) \in Nat
BY DEF LoopsTyped, Place

\* What a step that leaves a loop on machine m reports of it.
Reports(next, m, mc) ==
  /\ next.loop.machine = m
  /\ next.status = "RUNNING" => /\ status = "RUNNING"
                                /\ next.pc # "done" \/ mc.state.phase \in TerminalPhases
  /\ next.status = "COMPLETED" => status = "COMPLETED" \/ mc.state.phase = "DONE"
  /\ Recorded(next.pc) /\ next.loop.record.decision = "SUCCESS" => mc.state.phase = "DONE"

\* A loop that returns may report COMPLETED of a machine in DONE.
LEMMA EndedReports ==
  ASSUME NEW l, NEW mc, NEW now,
         now \in {"COMPLETED", "AWAITING_HUMAN", "FAILED", "CANCELLED"},
         now = "COMPLETED" => mc.state.phase = "DONE"
  PROVE  Reports(Ended(l, now), l.machine, mc)
BY DEF Reports, Ended, NewLoop, Recorded

\* The head of the loop invents neither of the two statuses.
LEMMA EnterReports ==
  ASSUME NEW l \in LoopRecords, NEW its, NEW cost
  PROVE  Reports(EnterLoop(l, its, cost), l.machine, machines[l.machine])
<1> DEFINE mc   == machines[l.machine]
           loop == [l EXCEPT !.before = mc.state.phase, !.seq = Len(its) + 1,
                             !.cost = cost, !.record = NoRecord]
           run  == [pc |-> "running", status |-> status, loop |-> loop]
<1>1. loop.machine = l.machine
  BY DEF LoopRecords
<1>2. Reports(run, l.machine, mc)
  BY <1>1 DEF Reports, Recorded
<1>3. Reports(Ended(l, "CANCELLED"), l.machine, mc)
  BY EndedReports
<1>4. CASE status # "RUNNING" \/ mc.state.phase \in TerminalPhases
  <2>1. EnterLoop(l, its, cost) = Ended(l, status)
    BY <1>4 DEF EnterLoop, LoopHead
  <2> QED
    BY <1>4, <2>1 DEF Reports, Ended, NewLoop, Recorded
<1>5. CASE ~(status # "RUNNING" \/ mc.state.phase \in TerminalPhases)
  <2>1. EnterLoop(l, its, cost) \in {Ended(l, "CANCELLED"), run}
    BY <1>5 DEF EnterLoop, LoopHead
  <2> HIDE DEF run, mc
  <2> QED
    BY <1>2, <1>3, <2>1 DEF mc
<1> QED
  BY <1>4, <1>5

\* Nor does the end of an iteration, but for COMPLETED on a machine in DONE.
LEMMA SettleReports ==
  ASSUME NEW l \in LoopRecords, NEW its, NEW cost,
         l.record.decision = "SUCCESS" => machines[l.machine].state.phase = "DONE"
  PROVE  Reports(Settle(l, its, cost), l.machine, machines[l.machine])
<1> DEFINE mc == machines[l.machine]
<1>1. /\ Reports(Ended(l, "AWAITING_HUMAN"), l.machine, mc)
      /\ Reports(Ended(l, "FAILED"), l.machine, mc)
      /\ mc.state.phase = "DONE" => Reports(Ended(l, "COMPLETED"), l.machine, mc)
  BY EndedReports
<1>2. Reports(EnterLoop(l, its, cost), l.machine, mc)
  BY EnterReports
<1> QED
  BY <1>1, <1>2 DEF Settle

\* A loop that reports the truth keeps the status true.
LEMMA TruthByPlace ==
  ASSUME Truthful, Tidy', [Next]_vars, NEW i \in DOMAIN loops, Alive(i),
         NEW next, NEW m \in DOMAIN machines, Place(i, next),
         Reports(next, m, machines'[m]), current' = current,
         i = Len(loops) => m = current
  PROVE  Truthful'
<1>1. /\ IInv /\ LoopsTyped /\ current \in DOMAIN machines
      /\ CallersWait => \A j \in DOMAIN loops : Alive(j) => j = Len(loops)
  BY DEF Truthful, Tidy, IInv, MachinesEarned, Orderly
<1>2. /\ DOMAIN loops' = DOMAIN loops /\ Len(loops') = Len(loops)
      /\ loops'[i] = next.loop /\ pc'[i] = next.pc /\ status' = next.status
      /\ \A j \in DOMAIN loops \ {i} : loops'[j] = loops[j] /\ pc'[j] = pc[j]
      /\ Len(loops) \in DOMAIN loops
  BY <1>1, PlaceFacts
<1>3. \A k \in DOMAIN machines :
        /\ k \in DOMAIN machines'
        /\ machines[k].state.phase \in TerminalPhases => machines'[k] = machines[k]
  BY <1>1, PhasesStay
<1>4. "DONE" \in TerminalPhases /\ \A j \in DOMAIN loops : loops[j].machine \in DOMAIN machines
  BY <1>1 DEF TerminalPhases, LoopsTyped
<1>5. SuccessIsDone'
  BY <1>2, <1>3, <1>4 DEF SuccessIsDone, Truthful, Reports
<1>6. LastLoopLeads'
  BY <1>1, <1>2, <1>3 DEF LastLoopLeads, LastLoop, Truthful, Reports, Alive
<1>7. CompletedMeansDone'
  BY <1>1, <1>2, <1>3, <1>4 DEF CompletedMeansDone, Truthful, Reports
<1> QED
  BY <1>5, <1>6, <1>7 DEF Truthful

\* What resume() leaves: a loop on the machine that is now current.
LEMMA TruthByResume ==
  ASSUME Truthful, Tidy', [Next]_vars, NEW restored, Resume(restored)
  PROVE  Truthful'
<1> DEFINE m    == IF restored = <<>> THEN current ELSE Len(machines) + 1
           head == LoopHead(NewLoop(m), (machines \o restored)[m].state.phase,
                            "RUNNING", NewController, iterations, spent)
           n    == Len(loops) + 1
<1>1. /\ machines' = machines \o restored /\ current' = m
      /\ loops' = Append(loops, head.loop) /\ pc' = Append(pc, head.pc)
      /\ status' = head.status
  BY DEF Resume
<1>2. /\ head.loop.machine = m /\ head.status = "RUNNING" /\ ~Recorded(head.pc)
      /\ head.pc # "starting"
      /\ head.pc = "done" => (machines \o restored)[m].state.phase \in TerminalPhases
  BY DEF LoopHead, Ended, NewLoop, NewController, Recorded
<1> HIDE DEF m, head
<1>3. /\ IInv /\ loops \in Seq(LoopRecords) /\ pc \in Seq(Places) /\ Len(pc) = Len(loops)
      /\ \A j \in DOMAIN loops : loops[j].machine \in DOMAIN machines
  BY DEF Truthful, Tidy, IInv, LoopsTyped
<1>4. head.loop \in LoopRecords /\ head.pc \in Places
  <2>1. loops' \in Seq(LoopRecords) /\ pc' \in Seq(Places)
    BY DEF Tidy, IInv, LoopsTyped
  <2>2. loops'[n] = head.loop /\ pc'[n] = head.pc /\ n \in DOMAIN loops' /\ n \in DOMAIN pc'
    BY <1>1, <1>3
  <2> QED
    BY <2>1, <2>2
<1>5. /\ Len(loops') = n /\ loops'[n] = head.loop /\ pc'[n] = head.pc
      /\ DOMAIN loops' = DOMAIN loops \cup {n} /\ n \notin DOMAIN loops
      /\ \A j \in DOMAIN loops : loops'[j] = loops[j] /\ pc'[j] = pc[j]
  BY <1>1, <1>3, <1>4
<1>6. \A k \in DOMAIN machines :
        /\ k \in DOMAIN machines'
        /\ machines[k].state.phase \in TerminalPhases => machines'[k] = machines[k]
  BY <1>3, PhasesStay
<1>7. SuccessIsDone'
  BY <1>2, <1>3, <1>5, <1>6 DEF SuccessIsDone, Truthful, TerminalPhases
<1>8. LastLoopLeads'
  <2>1. n # 0
    BY <1>3
  <2> QED
    BY <1>1, <1>2, <1>5, <2>1 DEF LastLoopLeads, LastLoop, Alive
<1>9. CompletedMeansDone'
  BY <1>1, <1>2 DEF CompletedMeansDone
<1> QED
  BY <1>7, <1>8, <1>9 DEF Truthful

\* Every step keeps the status true.
LEMMA TruthKept ==
  ASSUME Truthful, [Next]_vars
  PROVE  Truthful'
<1>1. Tidy'
  BY TidyKeeps DEF Truthful
<1>2. /\ IInv /\ LoopsTyped /\ current \in DOMAIN machines
      /\ loops \in Seq(LoopRecords) /\ machines \in Seq(MachineObjects)
      /\ \A j \in DOMAIN loops : loops[j] \in LoopRecords /\ loops[j].machine \in DOMAIN machines
      /\ \A j \in DOMAIN loops : Alive(j) /\ pc[j] # "starting" /\ j = Len(loops) =>
           loops[j].machine = current
      /\ \A j \in DOMAIN loops : Recorded(pc[j]) /\ loops[j].record.decision = "SUCCESS" =>
           machines[loops[j].machine].state.phase = "DONE"
  BY DEF Truthful, Tidy, IInv, MachinesEarned, LoopsTyped, LastLoopLeads, LastLoop,
         SuccessIsDone
<1>3. ASSUME NEW i \in DOMAIN loops, StartLoop(i) PROVE Truthful'
  <2> DEFINE l == [loops[i] EXCEPT !.machine = current]
             next == EnterLoop(l, iterations, spent)
  <2>1. /\ Place(i, next) /\ machines' = machines /\ current' = current /\ Alive(i)
    BY <1>3 DEF StartLoop, Alive
  <2>2. l \in LoopRecords /\ l.machine = current
    <3>1. current \in Nat /\ loops[i] \in LoopRecords
      BY <1>2
    <3> QED BY <3>1 DEF LoopRecords
  <2> HIDE DEF l
  <2>3. Reports(next, current, machines'[current])
    BY <2>1, <2>2, EnterReports
  <2> HIDE DEF next
  <2> QED
    BY <1>1, <1>2, <2>1, <2>3, TruthByPlace
<1>4. ASSUME NEW i \in DOMAIN loops, NEW t \in PossibleTurns[goal], FinishIteration(i, t)
      PROVE  Truthful'
  <2> DEFINE l     == loops[i]
             after == Derive(machines[l.machine], l.before, t)
             print == Fingerprint(l.before, after.state.phase, t, Evidence(l.before, t))
             decision == EvaluateLoopControl(after.state, after.log,
                           Append(iterations, print), l.cost + t.cost, late)
             record == [print |-> print, cost |-> t.cost, decision |-> decision]
             loop == [l EXCEPT !.record = record]
             next == [pc |-> "returned", status |-> status, loop |-> loop]
  <2>1. /\ machines' = [machines EXCEPT ![l.machine] = after] /\ Place(i, next)
        /\ current' = current /\ Alive(i) /\ pc[i] = "running"
    BY <1>4 DEF FinishIteration, Alive
  <2>2. decision = "SUCCESS" => after.state.phase = "DONE"
    BY DEF EvaluateLoopControl, Succeeded, Continue
  <2>3. l \in LoopRecords /\ l.machine \in DOMAIN machines
    BY <1>2
  <2>4. machines'[l.machine] = after
    BY <1>2, <2>1, <2>3
  <2> HIDE DEF after, print, decision
  <2>5. loop.machine = l.machine /\ loop.record.decision = decision
    BY <2>3 DEF LoopRecords
  <2> HIDE DEF record, loop
  <2>6. next.loop = loop /\ next.pc = "returned" /\ next.status = status
    OBVIOUS
  <2> HIDE DEF next
  <2>7. Reports(next, l.machine, machines'[l.machine])
    BY <2>2, <2>4, <2>5, <2>6 DEF Reports
  <2>8. i = Len(loops) => l.machine = current
    BY <1>2, <2>1
  <2> QED
    BY <1>1, <1>2, <2>1, <2>3, <2>7, <2>8, TruthByPlace
<1>5. ASSUME NEW i \in DOMAIN loops, NEW next, Place(i, next), Recorded(pc[i]),
             machines' = machines, current' = current,
             \/ next = [pc |-> "saving", loop |-> loops[i], status |-> status]
             \/ \E its, cost : next = Settle(loops[i], its, cost)
      PROVE  Truthful'
  <2> DEFINE k == loops[i].machine
  <2>1. Alive(i) /\ (i = Len(loops) => k = current) /\ k \in DOMAIN machines
    BY <1>2, <1>5 DEF Alive, Recorded
  <2>2. Reports(next, k, machines'[k])
    <3>1. CASE next = [pc |-> "saving", loop |-> loops[i], status |-> status]
      BY <1>2, <1>5, <3>1 DEF Reports
    <3>2. ASSUME NEW its, NEW cost, next = Settle(loops[i], its, cost)
          PROVE  Reports(next, k, machines'[k])
      BY <1>2, <1>5, <3>2, SettleReports
    <3> QED BY <1>5, <3>1, <3>2
  <2> HIDE DEF k
  <2> QED
    BY <1>1, <1>2, <1>5, <2>1, <2>2, TruthByPlace
<1>6. ASSUME NEW i \in DOMAIN loops, RecordIteration(i) PROVE Truthful'
  <2>1. PICK next : /\ Place(i, next)
                    /\ \/ next = [pc |-> "saving", loop |-> loops[i], status |-> status]
                       \/ next = Settle(loops[i], iterations', spent')
    BY <1>6 DEF RecordIteration
  <2>2. Recorded(pc[i]) /\ machines' = machines /\ current' = current
    BY <1>6 DEF RecordIteration, Recorded
  <2> QED
    BY <1>5, <2>1, <2>2
<1>7. ASSUME NEW i \in DOMAIN loops, SettleAfterCheckpoint(i) PROVE Truthful'
  <2>1. /\ Place(i, Settle(loops[i], iterations, spent))
        /\ Recorded(pc[i]) /\ machines' = machines /\ current' = current
    BY <1>7 DEF SettleAfterCheckpoint, Recorded
  <2> QED
    BY <1>5, <2>1
<1>8. ASSUME NEW i \in DOMAIN loops, IterationThrows(i) PROVE Truthful'
  <2> DEFINE next == Ended(loops[i], "FAILED")
             k == loops[i].machine
  <2>1. /\ Place(i, next) /\ machines' = machines /\ current' = current
        /\ Alive(i) /\ pc[i] # "starting"
    BY <1>8 DEF IterationThrows, Alive
  <2>2. Reports(next, k, machines'[k])
    BY EndedReports
  <2>3. k \in DOMAIN machines /\ (i = Len(loops) => k = current)
    BY <1>2, <2>1
  <2> HIDE DEF next, k
  <2> QED
    BY <1>1, <1>2, <2>1, <2>2, <2>3, TruthByPlace
<1>9. CASE ResumeInPlace \/ ResumeFromCheckpoint
  BY <1>1, <1>9, TruthByResume DEF ResumeInPlace, ResumeFromCheckpoint
<1>10. ASSUME NEW i \in DOMAIN loops, AbortSignal(i) PROVE Truthful'
  <2>1. /\ loops' = [loops EXCEPT ![i].signalled = TRUE]
        /\ UNCHANGED <<machines, current, status, pc>>
    BY <1>10 DEF AbortSignal
  <2>2. /\ Len(loops') = Len(loops) /\ DOMAIN loops' = DOMAIN loops
        /\ \A j \in DOMAIN loops : /\ loops'[j].machine = loops[j].machine
                                   /\ loops'[j].record = loops[j].record
    BY <1>2, <2>1 DEF LoopRecords
  <2> QED
    BY <1>1, <2>1, <2>2 DEF Truthful, SuccessIsDone, LastLoopLeads, LastLoop, Alive,
                            CompletedMeansDone
<1>11. CASE Pause \/ Cancel \/ DeadlinePasses \/ UNCHANGED vars
  <2>1. /\ UNCHANGED <<machines, current, loops, pc>>
        /\ status' = status \/ status' \in {"PAUSED", "CANCELLED"}
    BY <1>11 DEF Pause, Cancel, DeadlinePasses, vars
  <2> QED
    BY <1>1, <2>1 DEF Truthful, SuccessIsDone, LastLoopLeads, LastLoop, Alive,
                      CompletedMeansDone
<1> QED
  BY <1>3, <1>4, <1>6, <1>7, <1>8, <1>9, <1>10, <1>11 DEF Next, LoopStep

\* COMPLETED means that a machine is DONE, the current one when callers wait;
\* RUNNING means that a loop is alive to end it, or that the execution was
\* resumed on a machine that has ended; for any number of loops and callers.
THEOREM StatusCorrect == Spec => []StatusIsTrue
<1>1. Init => Truthful
  <2> SUFFICES ASSUME Init PROVE Truthful
    OBVIOUS
  <2>1. loops = <<NewLoop(1)>> /\ pc = <<"starting">> /\ status = "RUNNING"
    BY DEF Init
  <2>2. Tidy
    BY TidyInit
  <2> QED
    BY <2>1, <2>2 DEF Truthful, SuccessIsDone, LastLoopLeads, LastLoop, Alive, Recorded,
                      CompletedMeansDone
<1>2. Truthful /\ [Next]_vars => Truthful'
  BY TruthKept
<1>3. Truthful => StatusIsTrue
  <2> SUFFICES ASSUME Truthful PROVE StatusIsTrue
    OBVIOUS
  <2>1. Len(loops) \in DOMAIN loops
    BY DEF LastLoopLeads, LastLoop, Truthful, Tidy, IInv, LoopsTyped
  <2> QED
    BY <2>1 DEF Truthful, StatusIsTrue, RunningHasALoop, LastLoopLeads, LastLoop
<1> QED
  BY <1>1, <1>2, <1>3, PTL DEF Spec

-----------------------------------------------------------------------------
\* The iteration budget.  Once it is all but used up every further decision
\* ends its loop; what can still be recorded is one iteration of each loop, and
\* a second one of those that were told to go on before.
GoesOn(i) == Recorded(pc[i]) /\ loops[i].record.decision = Continue
WillPush ==
  {i \in DOMAIN loops : pc[i] \in {"starting", "running", "returned"} \/ GoesOn(i)}
WillPushTwice == {i \in DOMAIN loops : pc[i] = "returned" /\ GoesOn(i)}
Allowed(n) == MaxIterations + (IF CallersWait THEN 1 ELSE 2) * (n - 1)
Overshoot ==
  /\ Tidy /\ Len(loops) # 0
  /\ Len(iterations) >= MaxIterations - 1 =>
       Len(iterations) + Cardinality(WillPush) + Cardinality(WillPushTwice)
         <= Allowed(Len(loops))

\* What a set gains by one element.
LEMMA GainsOne ==
  ASSUME NEW S, IsFiniteSet(S), NEW T, NEW x, T \subseteq S \cup {x}
  PROVE  Cardinality(T) \in Nat /\ Cardinality(T) <= Cardinality(S) + 1
<1>1. /\ IsFiniteSet(S \cup {x}) /\ Cardinality(S) \in Nat
      /\ Cardinality(S \cup {x}) = IF x \in S THEN Cardinality(S) ELSE Cardinality(S) + 1
  BY FS_AddElement, FS_CardinalityType
<1>2. Cardinality(T) \in Nat /\ Cardinality(T) <= Cardinality(S \cup {x})
  BY <1>1, FS_Subset, FS_CardinalityType
<1> QED
  BY <1>1, <1>2

\* Loops are finitely many, and so are those that will push.
LEMMA PushersAreFinite ==
  ASSUME Overshoot
  PROVE  /\ IsFiniteSet(WillPush) /\ IsFiniteSet(WillPushTwice)
         /\ Cardinality(WillPush) \in Nat /\ Cardinality(WillPushTwice) \in Nat
         /\ Len(loops) \in Nat \ {0} /\ Len(iterations) \in Nat /\ Len(pc) = Len(loops)
         /\ DOMAIN loops = 1..Len(loops) /\ WillPush \subseteq DOMAIN loops
<1>1. Len(loops) \in Nat \ {0} /\ DOMAIN loops = 1..Len(loops) /\ Len(iterations) \in Nat
      /\ Len(pc) = Len(loops)
  BY DEF Overshoot, Tidy, IInv, LoopsTyped, Plain
<1>2. IsFiniteSet(DOMAIN loops)
  BY <1>1, FS_Interval
<1>3. WillPush \subseteq DOMAIN loops /\ WillPushTwice \subseteq DOMAIN loops
  BY DEF WillPush, WillPushTwice
<1>4. IsFiniteSet(WillPush) /\ IsFiniteSet(WillPushTwice)
  BY <1>2, <1>3, FS_Subset
<1> QED
  BY <1>1, <1>3, <1>4, FS_CardinalityType

\* A step that records nothing and gives no loop more to record.
LEMMA OvershootSame ==
  ASSUME Overshoot, Tidy', UNCHANGED iterations, Len(loops') = Len(loops),
         Len(iterations) >= MaxIterations - 1 =>
           WillPush' \subseteq WillPush /\ WillPushTwice' \subseteq WillPushTwice
  PROVE  Overshoot'
<1> SUFFICES ASSUME Len(iterations) >= MaxIterations - 1
             PROVE  Len(iterations) + Cardinality(WillPush') + Cardinality(WillPushTwice')
                      <= Allowed(Len(loops))
  BY DEF Overshoot, Allowed
<1>1. /\ Cardinality(WillPush') <= Cardinality(WillPush) /\ Cardinality(WillPush') \in Nat
      /\ Cardinality(WillPushTwice') <= Cardinality(WillPushTwice)
      /\ Cardinality(WillPushTwice') \in Nat
  BY PushersAreFinite, FS_Subset, FS_CardinalityType
<1>2. Allowed(Len(loops)) \in Int
  BY PushersAreFinite, LoopLimits DEF Allowed
<1> QED
  BY <1>1, <1>2, PushersAreFinite DEF Overshoot

\* A loop that records an iteration has one less to record.
LEMMA OvershootByRecord ==
  ASSUME Overshoot, Tidy', Len(iterations') = Len(iterations) + 1,
         NEW i \in DOMAIN loops, Len(loops') = Len(loops), Alive(i),
         \A j \in DOMAIN loops \ {i} : loops'[j] = loops[j] /\ pc'[j] = pc[j],
         \/ /\ i \in WillPushTwice /\ WillPush' \subseteq WillPush
            /\ WillPushTwice' \subseteq WillPushTwice \ {i}
         \/ /\ i \in WillPush /\ WillPush' \subseteq WillPush \ {i}
            /\ WillPushTwice' \subseteq WillPushTwice,
         i \notin WillPushTwice', \A j \in WillPush' : Alive(j)'
  PROVE  Overshoot'
<1> DEFINE W == WillPush
           V == WillPushTwice
           n == Len(loops)
           k == IF CallersWait THEN 1 ELSE 2
<1>1. /\ IsFiniteSet(W) /\ IsFiniteSet(V) /\ Cardinality(W) \in Nat /\ Cardinality(V) \in Nat
      /\ n \in Nat \ {0} /\ Len(iterations) \in Nat /\ DOMAIN loops = 1..n
      /\ W \subseteq 1..n /\ MaxIterations \in Nat \ {0}
  BY PushersAreFinite, LoopLimits
<1>2. W' \subseteq 1..n /\ V' \subseteq 1..n /\ V' \subseteq (1..n) \ {i} /\ i \in 1..n
  BY <1>1 DEF WillPushTwice
<1> HIDE DEF W, V, n
<1>3. IsFiniteSet(1..n) /\ Cardinality(1..n) = n
  BY <1>1, FS_Interval
<1>4. /\ IsFiniteSet(W') /\ Cardinality(W') \in Nat /\ Cardinality(W') <= n
  BY <1>2, <1>3, FS_Subset, FS_CardinalityType
<1>5. /\ IsFiniteSet(V') /\ Cardinality(V') \in Nat /\ Cardinality(V') <= n - 1
  <2>1. IsFiniteSet((1..n) \ {i}) /\ Cardinality((1..n) \ {i}) = n - 1
    BY <1>2, <1>3, FS_RemoveElement
  <2>2. IsFiniteSet(V') /\ Cardinality(V') <= Cardinality((1..n) \ {i})
    BY <1>2, <2>1, FS_Subset
  <2>3. Cardinality(V') \in Nat
    BY <2>2, FS_CardinalityType
  <2> QED
    BY <2>1, <2>2, <2>3
<1>6. Cardinality(W') + Cardinality(V') <= Cardinality(W) + Cardinality(V) - 1
  <2>1. CASE i \in V /\ W' \subseteq W /\ V' \subseteq V \ {i}
    <3>1. IsFiniteSet(V \ {i}) /\ Cardinality(V \ {i}) = Cardinality(V) - 1
      BY <1>1, <2>1, FS_RemoveElement
    <3>2. Cardinality(V') <= Cardinality(V \ {i}) /\ Cardinality(W') <= Cardinality(W)
      BY <1>1, <2>1, <3>1, FS_Subset
    <3> QED BY <1>1, <1>4, <1>5, <3>1, <3>2
  <2>2. CASE i \in W /\ W' \subseteq W \ {i} /\ V' \subseteq V
    <3>1. IsFiniteSet(W \ {i}) /\ Cardinality(W \ {i}) = Cardinality(W) - 1
      BY <1>1, <2>2, FS_RemoveElement
    <3>2. Cardinality(W') <= Cardinality(W \ {i}) /\ Cardinality(V') <= Cardinality(V)
      BY <1>1, <2>2, <3>1, FS_Subset
    <3> QED BY <1>1, <1>4, <1>5, <3>1, <3>2
  <2> QED BY <2>1, <2>2 DEF W, V
<1>7. CallersWait => Cardinality(W') <= 1 /\ Cardinality(V') = 0
  <2> SUFFICES ASSUME CallersWait PROVE Cardinality(W') <= 1 /\ Cardinality(V') = 0
    OBVIOUS
  <2>1. i = n /\ \A j \in DOMAIN loops' : Alive(j)' => j = n
    BY DEF Overshoot, Tidy, Orderly, n
  <2>2. W' \subseteq {n} /\ V' \subseteq W'
    BY <1>2, <2>1 DEF W, V, WillPush, WillPushTwice
  <2>3. V' = {}
    BY <2>1, <2>2, <1>2
  <2>4. IsFiniteSet({n}) /\ Cardinality({n}) = 1
    BY FS_Singleton
  <2>5. Cardinality(W') <= Cardinality({n})
    BY <2>2, <2>4, FS_Subset
  <2> QED
    BY <2>3, <2>4, <2>5, FS_EmptySet
<1> DEFINE more == k * (n - 1)
<1>8. more \in Int /\ (CallersWait => more >= 0) /\ (~CallersWait => more = 2 * (n - 1))
  BY <1>1
<1> HIDE DEF more
<1>9. Len(iterations') + Cardinality(W') + Cardinality(V') <= MaxIterations + more
  <2>1. CASE Len(iterations) >= MaxIterations - 1
    <3>1. Len(iterations) + Cardinality(W) + Cardinality(V) <= MaxIterations + more
      BY <2>1 DEF Overshoot, Allowed, W, V, n, more
    <3> QED
      BY <1>1, <1>4, <1>5, <1>6, <1>8, <3>1
  <2>2. CASE Len(iterations) < MaxIterations - 1
    <3>1. Len(iterations') <= MaxIterations - 1 /\ Len(iterations') \in Nat
      BY <1>1, <2>2
    <3>2. Cardinality(W') + Cardinality(V') <= 1 + more
      BY <1>1, <1>4, <1>5, <1>7, <1>8
    <3> QED
      BY <1>1, <1>4, <1>5, <1>8, <3>1, <3>2
  <2> QED
    BY <1>1, <2>1, <2>2
<1> QED
  BY <1>1, <1>9 DEF Overshoot, Allowed, W, V, n, more

\* A loop that settles is running or done, and done unless it was to go on.
LEMMA SettleGoes ==
  ASSUME NEW l, l.record \in Record, NEW its, NEW cost
  PROVE  /\ Settle(l, its, cost).pc \in {"running", "done"}
         /\ l.record.decision # Continue => Settle(l, its, cost).pc = "done"
<1>1. l.record.decision \in Decisions
  BY DEF Record
<1>2. EnterLoop(l, its, cost).pc \in {"running", "done"}
  BY DEF EnterLoop, LoopHead, Ended
<1> QED
  BY <1>1, <1>2 DEF Settle, Ended, Decisions

\* What one loop's step does to the others' chances: nothing.
LEMMA OthersPushAsBefore ==
  ASSUME LoopsTyped, NEW i \in DOMAIN loops, NEW next, Place(i, next)
  PROVE  /\ WillPush' \subseteq WillPush \cup {i}
         /\ WillPushTwice' \subseteq WillPushTwice \cup {i}
         /\ next.pc = "done" => i \notin WillPush' /\ i \notin WillPushTwice'
         /\ next.pc # "returned" => i \notin WillPushTwice'
         /\ next.pc = "saving" /\ next.loop.record.decision # Continue => i \notin WillPush'
         /\ next.loop.record.decision # Continue => i \notin WillPushTwice'
         /\ Len(loops') = Len(loops)
         /\ \A j \in DOMAIN loops \ {i} : loops'[j] = loops[j] /\ pc'[j] = pc[j]
BY PlaceFacts DEF WillPush, WillPushTwice, GoesOn, Recorded

\* Every step keeps the overshoot in bounds.
LEMMA OvershootKept ==
  ASSUME Overshoot, [Next]_vars
  PROVE  Overshoot'
<1>1. Tidy'
  BY TidyKeeps DEF Overshoot
<1>2. /\ LoopsTyped /\ loops \in Seq(LoopRecords) /\ pc \in Seq(Places) /\ Len(pc) = Len(loops)
      /\ \A j \in DOMAIN loops : /\ loops[j] \in LoopRecords
                                 /\ Recorded(pc[j]) => loops[j].record \in Record
  <2>1. /\ LoopsTyped /\ loops \in Seq(LoopRecords) /\ pc \in Seq(Places) /\ Len(pc) = Len(loops)
        /\ \A j \in DOMAIN loops : loops[j] \in LoopRecords
    BY DEF Overshoot, Tidy, IInv, LoopsTyped
  <2>2. \A j \in DOMAIN loops : Recorded(pc[j]) <=> loops[j].record # NoRecord
    BY DEF Overshoot, Tidy, IInv, LoopsTyped
  <2>3. \A j \in DOMAIN loops : loops[j].record \in {NoRecord} \cup Record
    BY <2>1 DEF LoopRecords
  <2> QED
    BY <2>1, <2>2, <2>3
<1>3. ASSUME NEW i \in DOMAIN loops, NEW next, Place(i, next), UNCHANGED iterations,
             i \in WillPush \/ next.pc = "done",
             i \in WillPushTwice \/ next.pc # "returned"
               \/ (Len(iterations) >= MaxIterations - 1 => next.loop.record.decision # Continue)
      PROVE  Overshoot'
  <2>1. /\ WillPush' \subseteq WillPush \cup {i} /\ WillPushTwice' \subseteq WillPushTwice \cup {i}
        /\ next.pc = "done" => i \notin WillPush' /\ i \notin WillPushTwice'
        /\ next.pc # "returned" => i \notin WillPushTwice'
        /\ next.loop.record.decision # Continue => i \notin WillPushTwice'
        /\ Len(loops') = Len(loops)
    BY <1>2, <1>3, OthersPushAsBefore
  <2> QED
    BY <1>1, <1>3, <2>1, OvershootSame
<1>4. ASSUME NEW i \in DOMAIN loops, StartLoop(i) PROVE Overshoot'
  <2> DEFINE next == EnterLoop([loops[i] EXCEPT !.machine = current], iterations, spent)
  <2>1. Place(i, next) /\ iterations' = iterations /\ i \in WillPush
    BY <1>4 DEF StartLoop, WillPush
  <2>2. next.pc # "returned"
    BY DEF EnterLoop, LoopHead, Ended
  <2> HIDE DEF next
  <2> QED
    BY <1>3, <2>1, <2>2
<1>5. ASSUME NEW i \in DOMAIN loops, NEW t \in PossibleTurns[goal], FinishIteration(i, t)
      PROVE  Overshoot'
  <2> DEFINE l     == loops[i]
             after == Derive(machines[l.machine], l.before, t)
             print == Fingerprint(l.before, after.state.phase, t, Evidence(l.before, t))
             its   == Append(iterations, print)
             decision == EvaluateLoopControl(after.state, after.log, its, l.cost + t.cost, late)
             record == [print |-> print, cost |-> t.cost, decision |-> decision]
             loop == [l EXCEPT !.record = record]
             next == [pc |-> "returned", status |-> status, loop |-> loop]
  <2>1. Place(i, next) /\ iterations' = iterations /\ i \in WillPush
    BY <1>5 DEF FinishIteration, WillPush
  <2>2. Len(its) = Len(iterations) + 1
    BY PushersAreFinite
  <2> HIDE DEF its, after
  <2>3. Len(its) >= MaxIterations => decision # Continue
    BY DEF EvaluateLoopControl, CheckMaxIterations, Continue
  <2> HIDE DEF print, decision
  <2>4. loop.record.decision = decision
    BY <1>2 DEF LoopRecords
  <2> HIDE DEF record, loop
  <2>5. next.loop = loop /\ next.pc = "returned"
    OBVIOUS
  <2> HIDE DEF next
  <2>6. Len(iterations) >= MaxIterations - 1 => next.loop.record.decision # Continue
    BY <2>2, <2>3, <2>4, <2>5, PushersAreFinite, LoopLimits
  <2> QED
    BY <1>3, <2>1, <2>6
<1>6. ASSUME NEW i \in DOMAIN loops, RecordIteration(i) PROVE Overshoot'
  <2> DEFINE l == loops[i]
             save == [pc |-> "saving", loop |-> l, status |-> status]
  <2>1. PICK next : /\ Place(i, next)
                    /\ next = save \/ next = Settle(l, iterations', spent')
    BY <1>6 DEF RecordIteration
  <2>2. /\ pc[i] = "returned" /\ l.record \in Record
        /\ iterations' = Append(iterations, l.record.print)
    BY <1>2, <1>6 DEF RecordIteration, Recorded, Pushed
  <2>3. Len(iterations') = Len(iterations) + 1
    BY <2>2, PushersAreFinite
  <2>4. /\ i \in WillPush /\ Alive(i)
        /\ l.record.decision = Continue => i \in WillPushTwice
    BY <2>2 DEF WillPush, WillPushTwice, Alive, GoesOn, Recorded
  <2>5. /\ next.pc \in {"saving", "running", "done"}
        /\ l.record.decision # Continue =>
             next.pc = "done" \/ (next.pc = "saving" /\ next.loop = l)
    BY <2>1, <2>2, SettleGoes
  <2>6. /\ WillPush' \subseteq WillPush \cup {i} /\ WillPushTwice' \subseteq WillPushTwice \cup {i}
        /\ i \notin WillPushTwice'
        /\ l.record.decision # Continue => i \notin WillPush'
        /\ Len(loops') = Len(loops)
        /\ \A j \in DOMAIN loops \ {i} : loops'[j] = loops[j] /\ pc'[j] = pc[j]
    BY <1>2, <2>1, <2>5, OthersPushAsBefore
  <2>7. \A j \in WillPush' : Alive(j)'
    BY DEF WillPush, Alive, GoesOn, Recorded
  <2> HIDE DEF l
  <2>8. \/ /\ i \in WillPushTwice /\ WillPush' \subseteq WillPush
           /\ WillPushTwice' \subseteq WillPushTwice \ {i}
        \/ /\ i \in WillPush /\ WillPush' \subseteq WillPush \ {i}
           /\ WillPushTwice' \subseteq WillPushTwice
    BY <2>4, <2>6
  <2> QED
    BY <1>1, <2>3, <2>4, <2>6, <2>7, <2>8, OvershootByRecord
<1>7. ASSUME NEW i \in DOMAIN loops, SettleAfterCheckpoint(i) PROVE Overshoot'
  <2> DEFINE next == Settle(loops[i], iterations, spent)
  <2>1. /\ Place(i, next) /\ iterations' = iterations
        /\ pc[i] = "saving" /\ loops[i].record \in Record
    BY <1>2, <1>7 DEF SettleAfterCheckpoint, Recorded
  <2>2. /\ next.pc \in {"running", "done"}
        /\ loops[i].record.decision # Continue => next.pc = "done"
    BY <2>1, SettleGoes
  <2>3. i \in WillPush \/ next.pc = "done"
    BY <2>1, <2>2 DEF WillPush, GoesOn, Recorded
  <2> HIDE DEF next
  <2> QED
    BY <1>3, <2>1, <2>2, <2>3
<1>8. ASSUME NEW i \in DOMAIN loops, IterationThrows(i) PROVE Overshoot'
  <2> DEFINE next == Ended(loops[i], "FAILED")
  <2>1. Place(i, next) /\ iterations' = iterations /\ next.pc = "done"
    BY <1>8 DEF IterationThrows, Ended
  <2> HIDE DEF next
  <2> QED
    BY <1>3, <2>1
<1>9. ASSUME NEW restored, Resume(restored) PROVE Overshoot'
  <2> DEFINE n == Len(loops)
             W == WillPush
             V == WillPushTwice
             m == IF restored = <<>> THEN current ELSE Len(machines) + 1
             next == LoopHead(NewLoop(m), (machines \o restored)[m].state.phase,
                              "RUNNING", NewController, iterations, spent)
  <2>1. /\ loops' = Append(loops, next.loop) /\ pc' = Append(pc, next.pc)
        /\ iterations' = iterations /\ ~Recorded(next.pc)
        /\ next.pc # "starting"
    <3>1. /\ loops' = Append(loops, next.loop) /\ pc' = Append(pc, next.pc)
          /\ iterations' = iterations
      BY <1>9 DEF Resume
    <3>2. ~Recorded(next.pc) /\ next.pc # "starting"
      BY DEF LoopHead, Ended, NewLoop, NewController, Recorded
    <3> QED
      BY <3>1, <3>2
  <2> HIDE DEF next, m
  <2>2. next.loop \in LoopRecords /\ next.pc \in Places
    <3>1. loops' \in Seq(LoopRecords) /\ pc' \in Seq(Places)
      BY <1>1 DEF Tidy, IInv, LoopsTyped
    <3>2. loops'[n + 1] = next.loop /\ pc'[n + 1] = next.pc /\ n + 1 \in DOMAIN loops'
          /\ n + 1 \in DOMAIN pc'
      BY <1>2, <2>1
    <3> QED
      BY <3>1, <3>2
  <2>3. /\ Len(loops') = n + 1 /\ DOMAIN loops' = DOMAIN loops \cup {n + 1}
        /\ pc'[n + 1] = next.pc
        /\ \A j \in DOMAIN loops : loops'[j] = loops[j] /\ pc'[j] = pc[j]
    BY <1>2, <2>1, <2>2
  <2>4. W' \subseteq W \cup {n + 1} /\ V' \subseteq V
    BY <2>1, <2>3 DEF WillPush, WillPushTwice, GoesOn, Recorded
  <2>5. /\ IsFiniteSet(W) /\ IsFiniteSet(V) /\ Cardinality(W) \in Nat /\ Cardinality(V) \in Nat
        /\ n \in Nat \ {0} /\ Len(iterations) \in Nat
    BY PushersAreFinite
  <2> HIDE DEF W, V, n
  <2>6. Cardinality(W') \in Nat /\ Cardinality(W') <= Cardinality(W) + 1
    BY <2>4, <2>5, GainsOne
  <2>7. Cardinality(V') \in Nat /\ Cardinality(V') <= Cardinality(V)
    BY <2>4, <2>5, FS_Subset, FS_CardinalityType
  <2>8. /\ Allowed(n) \in Int /\ Allowed(n + 1) \in Int /\ Allowed(n + 1) >= Allowed(n) + 1
    BY <2>5, LoopLimits DEF Allowed
  <2>9. Len(iterations) >= MaxIterations - 1 =>
          Len(iterations') + Cardinality(W') + Cardinality(V') <= Allowed(n + 1)
    BY <2>1, <2>5, <2>6, <2>7, <2>8 DEF Overshoot, W, V, n
  <2>10. Allowed(Len(loops))' = Allowed(n + 1)
    BY <2>3 DEF Allowed
  <2> QED
    BY <1>1, <2>1, <2>3, <2>5, <2>9, <2>10 DEF Overshoot, W, V
<1>10. CASE ResumeInPlace \/ ResumeFromCheckpoint
  BY <1>9, <1>10 DEF ResumeInPlace, ResumeFromCheckpoint
<1>11. ASSUME NEW i \in DOMAIN loops, AbortSignal(i) PROVE Overshoot'
  <2>1. /\ loops' = [loops EXCEPT ![i].signalled = TRUE] /\ UNCHANGED <<iterations, pc>>
    BY <1>11 DEF AbortSignal
  <2>2. /\ Len(loops') = Len(loops) /\ DOMAIN loops' = DOMAIN loops
        /\ \A j \in DOMAIN loops : loops'[j].record = loops[j].record
    BY <1>2, <2>1 DEF LoopRecords
  <2>3. WillPush' = WillPush /\ WillPushTwice' = WillPushTwice
    BY <2>1, <2>2 DEF WillPush, WillPushTwice, GoesOn
  <2> QED
    BY <1>1, <2>1, <2>2, <2>3, OvershootSame
<1>12. CASE Pause \/ Cancel \/ DeadlinePasses \/ UNCHANGED vars
  <2>1. UNCHANGED <<iterations, loops, pc>>
    BY <1>12 DEF Pause, Cancel, DeadlinePasses, vars
  <2>2. WillPush' = WillPush /\ WillPushTwice' = WillPushTwice
    BY <2>1 DEF WillPush, WillPushTwice, GoesOn
  <2> QED
    BY <1>1, <2>1, <2>2, OvershootSame
<1> QED
  BY <1>4, <1>5, <1>6, <1>7, <1>8, <1>10, <1>11, <1>12 DEF Next, LoopStep

\* The iteration budget is overshot by no more than one iteration per resume
\* when callers wait and two when they do not, for any budget and any number of
\* loops.
THEOREM IterationsCorrect == Spec => []IterationsBounded
<1>1. Init => Overshoot
  <2> SUFFICES ASSUME Init PROVE Overshoot
    OBVIOUS
  <2>1. /\ loops = <<NewLoop(1)>> /\ pc = <<"starting">> /\ iterations = <<>>
    BY DEF Init
  <2>2. WillPush = {1} /\ WillPushTwice = {} /\ Len(loops) = 1 /\ Len(iterations) = 0
    BY <2>1 DEF WillPush, WillPushTwice, GoesOn, Recorded
  <2>3. Cardinality(WillPush) = 1 /\ Cardinality(WillPushTwice) = 0
    BY <2>2, FS_Singleton, FS_EmptySet
  <2>4. Allowed(1) = MaxIterations /\ MaxIterations >= 1
    BY LoopLimits DEF Allowed
  <2> QED
    BY <2>2, <2>3, <2>4, TidyInit DEF Overshoot
<1>2. Overshoot /\ [Next]_vars => Overshoot'
  BY OvershootKept
<1>3. Overshoot => IterationsBounded
  <2> SUFFICES ASSUME Overshoot PROVE IterationsBounded
    OBVIOUS
  <2> DEFINE more == (IF CallersWait THEN 1 ELSE 2) * (Len(loops) - 1)
  <2>1. /\ Len(iterations) \in Nat /\ Len(loops) \in Nat \ {0} /\ MaxIterations \in Nat
        /\ Cardinality(WillPush) \in Nat /\ Cardinality(WillPushTwice) \in Nat
    BY PushersAreFinite, LoopLimits
  <2>2. more \in Nat
    BY <2>1
  <2>3. Len(iterations) >= MaxIterations - 1 =>
          Len(iterations) + Cardinality(WillPush) + Cardinality(WillPushTwice)
            <= MaxIterations + more
    BY DEF Overshoot, Allowed
  <2> HIDE DEF more
  <2>4. Len(iterations) <= MaxIterations + more
    BY <2>1, <2>2, <2>3
  <2> QED
    BY <2>4 DEF IterationsBounded, more
<1> QED
  BY <1>1, <1>2, <1>3, PTL DEF Spec
=============================================================================
