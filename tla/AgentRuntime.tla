---------------------------- MODULE AgentRuntime ----------------------------
(***************************************************************************)
(* One ActiveExecution of DefaultAgentRuntime and everything that may run  *)
(* against it: the loop that execute() started, one more loop per resume() *)
(* (nothing stops the previous one), and the caller's pause, resume,       *)
(* cancel, abort and AbortSignal, interleaved at the awaits.               *)
(*                                                                         *)
(* An iteration captures the phase, its sequence number and the cost spent *)
(* when it starts; it then awaits the model, the tools and the verifier;   *)
(* its last part (deriving the event, applying it, deciding) runs without  *)
(* an await, on the state machine and iteration list as they then are.     *)
(***************************************************************************)
EXTENDS LoopControl

CONSTANTS CheckpointEvery,    \* an automatic checkpoint every 5 iterations
          Calls, MaxEvents,   \* bound: the outside events tried, how many
          MaxLoops,           \* bound: calls of execute() and resume()
          TurnCosts,          \* bound: what one model call may cost
          Goals,              \* the goals and runtimes tried
          CallersWait         \* resume() is called only when no loop is alive

ASSUME RuntimeLimits ==
  /\ MaxEvents \in Nat /\ MaxLoops \in Nat
  /\ CheckpointEvery \in Nat \ {0}
  /\ TurnCosts \subseteq Nat
  /\ Goals \subseteq [requireVerification: BOOLEAN, engine: BOOLEAN]
  /\ CallersWait \in BOOLEAN

VARIABLES goal,        \* [requireVerification, engine]: fixed for the run
          machines,    \* StateMachine objects, the original one first
          current,     \* index of execution.stateMachine
          status,      \* execution.status
          iterations,  \* execution.iterations, as fingerprints
          spent,       \* execution.totalCostDollars
          late,        \* elapsed time reached maxDurationMs
          aborted,     \* execution.abortController.signal.aborted
          loops,       \* runLoop calls, in the order they were made
          pc,          \* where each of them is: the await it is in
          checkpoints, \* phases the checkpoint store can restore
          events       \* calls made so far, bounded by MaxEvents

vars == <<goal, machines, current, status, iterations, spent, late, aborted,
          loops, pc, checkpoints, events>>

Statuses == {"RUNNING", "PAUSED", "CANCELLED", "COMPLETED", "AWAITING_HUMAN",
             "FAILED"}
Verdicts == {"PASS", "FAIL", "INCONCLUSIVE"}

NoRecord == [none |-> TRUE]
Places == {"starting", "running", "returned", "saving", "done"}
NewLoop(m) == [machine |-> m, before |-> "INIT", seq |-> 0, cost |-> 0,
               signalled |-> FALSE, record |-> NoRecord]
NewMachineObject(phase) == [state |-> NewMachine(phase), log |-> <<>>,
                            proof |-> {}, refused |-> FALSE]

Alive(i) == pc[i] # "done"
-----------------------------------------------------------------------------
\* One model turn and what came of it.

\* stop: STOP without tool calls; silent: neither text nor tool calls;
\* rejected: a pre-step interceptor refused the step; test, write: some
\* proposal runs tests, writes a file; lintFails: the automatic lint or test
\* after a write fails (its cap per file is left out: it may fail any time);
\* verdict: what the engine would say of the whole suite.
Turns == [stop: BOOLEAN, silent: BOOLEAN, rejected: BOOLEAN,
          toolError: ToolErrors \cup {NoError}, test: BOOLEAN, write: BOOLEAN,
          lintFails: BOOLEAN, verdict: Verdicts, cost: TurnCosts \cup {0}]

CallsTools(t) == t.toolError # NoError \/ t.test \/ t.write

PossibleTurn(g, t) ==
  /\ t.stop \/ t.silent => ~CallsTools(t)
  /\ IF t.rejected THEN t.stop /\ ~t.silent /\ t.cost = 0
                   ELSE t.cost \in TurnCosts
  /\ t.lintFails => t.write /\ g.engine
  /\ t.verdict = "INCONCLUSIVE" \/ g.engine

PossibleTurns == [g \in Goals |-> {t \in Turns : PossibleTurn(g, t)}]

\* Whether verificationEngine.verify runs on the whole suite this iteration.
Verifies(before, t) ==
  goal.engine /\ (before = "VERIFY" \/ t.test \/ (before = "REPAIR" /\ t.stop))

\* Outcomes of the evidence the iteration records.  Without an engine the
\* runtime writes INCONCLUSIVE when verification is required, and otherwise a
\* PASS of its own ("OWN_PASS") when the model stops.
Evidence(before, t) ==
  (IF t.rejected \/ t.toolError # NoError \/ t.lintFails THEN {"FAIL"} ELSE {})
  \cup (IF Verifies(before, t) THEN {t.verdict} ELSE {})
  \cup (IF ~goal.engine /\ goal.requireVerification
        THEN {"INCONCLUSIVE"} ELSE {})
  \cup (IF ~goal.engine /\ ~goal.requireVerification /\ t.stop
        THEN {"OWN_PASS"} ELSE {})

Passing == {"PASS", "OWN_PASS"}
AnyPassed(ev) == ev \cap Passing # {} \* mutant of AllPassed
AllPassed(ev) == ev # {} /\ ev \subseteq Passing
SomeBad(ev) == ev \cap {"FAIL", "INCONCLUSIVE"} # {}

NoEvent == "NONE"

\* The repair budget, as PHASE 9 reads it.
OneMoreRepair(repairs) == repairs > MaxRepairs \* mutant of RepairsSpent
RepairsSpent(repairs) == repairs >= MaxRepairs

\* PHASE 9: the event the results call for, from the phase at the start.
NextEvent(before, t, ev, repairs) ==
  LET failing == t.toolError # NoError
      advance(cond, event) == IF ~failing /\ cond THEN event ELSE NoEvent
  IN CASE before = "INIT" -> "START"
       [] before = "EXPLORE" ->
            IF failing THEN NoEvent
            ELSE IF t.write THEN "PLAN_READY"
            ELSE advance(t.test \/ t.stop, "EXPLORE_COMPLETE")
       [] before = "PLAN" -> advance(t.write \/ t.stop, "PLAN_READY")
       [] before = "IMPLEMENT" ->
            advance(t.test \/ t.stop, "IMPLEMENTATION_COMPLETE")
       [] before = "VERIFY" ->
            IF AllPassed(ev) THEN "VERIFICATION_PASSED"
            ELSE IF SomeBad(ev) THEN "VERIFICATION_FAILED" ELSE NoEvent
       [] before = "REPAIR" ->
            IF AllPassed(ev) THEN "REPAIR_COMPLETE"
            ELSE IF ~SomeBad(ev) THEN NoEvent
            ELSE IF RepairsSpent(repairs) THEN "MAX_REPAIRS_EXCEEDED"
            ELSE IF t.stop \/ t.test THEN "REPAIR_COMPLETE" ELSE NoEvent
       [] OTHER -> NoEvent
-----------------------------------------------------------------------------
\* Applying events to a machine object.

Accepts(phase, event) == \E to \in Phases : TransitionRule(phase, event, to)

\* "proof" keeps the evidence a machine went DONE on, and "refused" that an
\* event was thrown back; both are there for the properties only.
ApplyTo(mc, event, ev) ==
  LET to == CHOOSE p \in Phases : TransitionRule(mc.state.phase, event, p)
  IN  IF ~Accepts(mc.state.phase, event)
      THEN [mc EXCEPT !.refused = TRUE]
      ELSE [mc EXCEPT !.state = Advance(mc.state, to),
                      !.log   = Append(mc.log, <<mc.state.phase, to>>),
                      !.proof = IF to = "DONE" THEN ev ELSE mc.proof]

\* The events of the loop that walks a machine on to DONE, from each phase.
Walk == <<"EXPLORE_COMPLETE", "PLAN_READY", "IMPLEMENTATION_COMPLETE",
          "MARK_DONE">>
WalkStartLate(phase) == \* mutant of WalkStart
  CASE phase = "EXPLORE" -> 2 [] phase = "PLAN" -> 3
    [] phase = "IMPLEMENT" -> 4 [] OTHER -> 5
WalkStart(phase) ==
  CASE phase = "EXPLORE" -> 1 [] phase = "PLAN" -> 2
    [] phase = "IMPLEMENT" -> 3 [] phase = "VERIFY" -> 4 [] OTHER -> 5
WalkFrom(phase, ev) ==
  SubSeq(Walk, WalkStart(phase), IF ev = {} THEN 3 ELSE 4)

\* What follows the derived event: the walk to DONE when nothing has to be
\* verified, or the verdict on work that just entered VERIFY.
FollowUp(phase, t, ev) ==
  IF ~goal.requireVerification /\ t.stop /\ ~SomeBad(ev)
  THEN WalkFrom(phase, ev)
  ELSE IF phase # "VERIFY" THEN <<>>
  ELSE IF AllPassed(ev) THEN <<"VERIFICATION_PASSED">>
  ELSE IF SomeBad(ev) THEN <<"VERIFICATION_FAILED">> ELSE <<>>

\* One after the other: what follows is never longer than Walk.
ApplyAll(mc, es, ev) ==
  LET next(m, k) == IF k \in DOMAIN es THEN ApplyTo(m, es[k], ev) ELSE m
  IN  next(next(next(next(mc, 1), 2), 3), 4)

\* PHASE 9 on machine object mc: an event the machine refuses is swallowed,
\* but a machine in REPAIR is then escalated when the evidence is bad.
Derive(mc, before, t) ==
  LET ev    == Evidence(before, t)
      event == NextEvent(before, t, ev, mc.state.repairCount)
      first == ApplyTo(mc, event, ev)
  IN  IF event = NoEvent \/ mc.state.phase \in TerminalPhases THEN mc
      ELSE IF Accepts(mc.state.phase, event)
      THEN ApplyAll(first, FollowUp(first.state.phase, t, ev), ev)
      ELSE IF mc.state.phase = "REPAIR" /\ SomeBad(ev)
      THEN ApplyTo(first, "ESCALATE", ev)
      ELSE first

Fingerprint(before, after, t, ev) ==
  [fresh |-> ~t.silent \/ SomeBad(ev), toolError |-> t.toolError,
   trajectory |-> IF before = after THEN <<before>> ELSE <<before, after>>]
-----------------------------------------------------------------------------
\* The loop.

EndedWithRecord(l, now) == \* mutant of Ended
  [pc |-> "done", loop |-> l, status |-> now]
Ended(l, now) == [pc |-> "done", loop |-> NewLoop(l.machine), status |-> now]

\* The head of runLoop's while, with the start of the next iteration that
\* follows it at once: where it leaves a loop l on a machine in this phase.
LoopHead(l, phase, now, cancelled, its, cost) ==
  IF now # "RUNNING" \/ phase \in TerminalPhases THEN Ended(l, now)
  ELSE IF cancelled \/ l.signalled THEN Ended(l, "CANCELLED")
  ELSE [pc |-> "running", status |-> now,
        loop |-> [l EXCEPT !.before = phase, !.seq = Len(its) + 1,
                           !.cost = cost, !.record = NoRecord]]

EnterLoop(l, its, cost) ==
  LoopHead(l, machines[l.machine].state.phase, status, aborted, its, cost)

Place(i, next) ==
  /\ loops' = [loops EXCEPT ![i] = next.loop]
  /\ pc' = [pc EXCEPT ![i] = next.pc]
  /\ status' = next.status

\* execute() has captured its memory snapshot and calls runLoop, which takes
\* the machine the execution has by now.
StartLoop(i) ==
  /\ pc[i] = "starting"
  /\ Place(i, EnterLoop([loops[i] EXCEPT !.machine = current],
                        iterations, spent))
  /\ UNCHANGED <<goal, machines, current, iterations, spent, late, aborted,
                 checkpoints, events>>

\* PHASES 9 and 10 and the return of executeIteration.
FinishIteration(i, t) ==
  LET l     == loops[i]
      mc    == machines[l.machine]
      after == Derive(mc, l.before, t)
      print == Fingerprint(l.before, after.state.phase, t,
                           Evidence(l.before, t))
      decision == EvaluateLoopControl(after.state, after.log,
                    Append(iterations, print), l.cost + t.cost, late)
  IN  /\ pc[i] = "running"
      /\ machines' = [machines EXCEPT ![l.machine] = after]
      /\ Place(i, [pc |-> "returned", status |-> status,
                   loop |-> [l EXCEPT !.record = [print |-> print,
                               cost |-> t.cost, decision |-> decision]]])
      /\ UNCHANGED <<goal, current, iterations, spent, late, aborted,
                     checkpoints, events>>

\* "Handle termination decision" and, when nothing ends the loop, its head.
Settle(l, its, cost) ==
  LET decision == l.record.decision
  IN  IF \/ decision = "SUCCESS"
         \/ machines[l.machine].state.phase = "DONE"
      THEN Ended(l, "COMPLETED")
      ELSE IF decision \in HumanReasons THEN Ended(l, "AWAITING_HUMAN")
      ELSE IF decision \in BudgetReasons THEN Ended(l, "FAILED")
      ELSE EnterLoop(l, its, cost)

\* execution.iterations.push(iterationRecord).
PushedLast(its, print) == <<print>> \* mutant of Pushed
Pushed(its, print) == Append(its, print)

\* The iteration returns: record it, then checkpoint (an await) or settle.
RecordIteration(i) ==
  LET l   == loops[i]
      due == l.seq % CheckpointEvery = 0
  IN  /\ pc[i] = "returned"
      /\ iterations' = Pushed(iterations, l.record.print)
      /\ spent' = spent + l.record.cost
      /\ checkpoints' = checkpoints \cup
           (IF due THEN {machines[l.machine].state.phase} ELSE {})
      /\ Place(i, IF due THEN [pc |-> "saving", loop |-> l, status |-> status]
                  ELSE Settle(l, iterations', spent'))
      /\ UNCHANGED <<goal, machines, current, late, aborted, events>>

SettleAfterCheckpoint(i) ==
  /\ pc[i] = "saving"
  /\ Place(i, Settle(loops[i], iterations, spent))
  /\ UNCHANGED <<goal, machines, current, iterations, spent, late, aborted,
                 checkpoints, events>>

\* A provider, a store or the aborted signal throws: runLoop's catch.
IterationThrowsQuietly(i) == \* mutant of IterationThrows
  /\ pc[i] \in {"running", "saving"}
  /\ Place(i, Ended(loops[i], status))
  /\ UNCHANGED <<goal, machines, current, iterations, spent, late, aborted,
                 checkpoints, events>>
IterationThrows(i) ==
  /\ pc[i] \in {"running", "saving"}
  /\ Place(i, Ended(loops[i], "FAILED"))
  /\ UNCHANGED <<goal, machines, current, iterations, spent, late, aborted,
                 checkpoints, events>>
-----------------------------------------------------------------------------
\* The caller, and the clock.

Happens(call) == /\ call \in Calls
                 /\ events < MaxEvents
                 /\ events' = events + 1

Pause ==
  /\ Happens("pause")
  /\ status' = "PAUSED"
  /\ aborted' = TRUE
  /\ checkpoints' = checkpoints \cup {machines[current].state.phase}
  /\ UNCHANGED <<goal, machines, current, iterations, spent, late, loops, pc>>

\* new AbortController().signal.aborted, which resume() installs.
OldController == aborted \* mutant of NewController
NewController == FALSE

\* resume(): in whatever status, a fresh AbortController and one more loop,
\* entered at once, on the same machine or on one rebuilt from nothing but a
\* checkpoint's phase.
Resume(restored) ==
  LET m    == IF restored = <<>> THEN current ELSE Len(machines) + 1
      head == LoopHead(NewLoop(m), (machines \o restored)[m].state.phase,
                       "RUNNING", NewController, iterations, spent)
  IN  /\ Happens(IF restored = <<>> THEN "resume" ELSE "restore")
      /\ machines' = machines \o restored
      /\ current' = m
      /\ loops' = Append(loops, head.loop)
      /\ pc' = Append(pc, head.pc)
      /\ status' = head.status
      /\ aborted' = NewController
      /\ Len(loops) < MaxLoops
      /\ CallersWait => \A i \in DOMAIN loops : ~Alive(i)
      /\ UNCHANGED <<goal, iterations, spent, late, checkpoints>>

ResumeInPlace == Resume(<<>>)
ResumeFromCheckpoint ==
  \E phase \in checkpoints : Resume(<<NewMachineObject(phase)>>)

\* cancel() and abort().
Cancel ==
  /\ Happens("cancel")
  /\ status' = "CANCELLED"
  /\ aborted' = TRUE
  /\ UNCHANGED <<goal, machines, current, iterations, spent, late, loops,
                 pc, checkpoints>>

\* The caller's own AbortSignal, options.signal, of the call behind loop i.
AbortSignal(i) ==
  /\ Happens("signal")
  /\ Alive(i)
  /\ loops' = [loops EXCEPT ![i].signalled = TRUE]
  /\ UNCHANGED <<goal, machines, current, status, iterations, spent, late,
                 aborted, pc, checkpoints>>

DeadlinePasses ==
  /\ Happens("deadline")
  /\ late' = TRUE
  /\ UNCHANGED <<goal, machines, current, status, iterations, spent, aborted,
                 loops, pc, checkpoints>>
-----------------------------------------------------------------------------
Init ==
  /\ goal \in Goals
  /\ machines = <<NewMachineObject("INIT")>>
  /\ current = 1
  /\ status = "RUNNING"
  /\ iterations = <<>>
  /\ spent = 0
  /\ late = FALSE
  /\ aborted = FALSE
  /\ loops = <<NewLoop(1)>>
  /\ pc = <<"starting">>
  /\ checkpoints = {}
  /\ events = 0

LoopStep(i) ==
  \/ StartLoop(i)
  \/ \E t \in PossibleTurns[goal] : FinishIteration(i, t)
  \/ RecordIteration(i)
  \/ SettleAfterCheckpoint(i)
  \/ IterationThrows(i)

Next ==
  \/ \E i \in DOMAIN loops : LoopStep(i) \/ AbortSignal(i)
  \/ Pause \/ ResumeInPlace \/ ResumeFromCheckpoint \/ Cancel
  \/ DeadlinePasses

Spec == Init /\ [][Next]_vars

\* Model, tool and verifier calls are given timeouts and settle; a loop with
\* an await that settled is scheduled.  Nothing obliges the caller.  Every
\* place but "done" has a LoopStep, and each of them leaves its place, so this
\* is weak fairness of LoopStep(i), written so that it is cheap to evaluate.
LoopMoves(i) ==
  /\ i \in DOMAIN pc
  /\ Alive(i)
  /\ pc' \in {[pc EXCEPT ![i] = place] : place \in Places \ {pc[i]}}
FairSpec == Spec /\ \A i \in 1..MaxLoops : WF_pc(LoopMoves(i))
-----------------------------------------------------------------------------
\* Properties

Record == [print: [fresh: BOOLEAN, toolError: ToolErrors \cup {NoError},
                   trajectory: Seq(Phases)],
           cost: Nat, decision: Decisions]
Loop == [machine: DOMAIN machines, before: Phases, seq: Nat, cost: Nat,
         signalled: BOOLEAN, record: Record \cup {NoRecord}]

TypeOK ==
  /\ \A m \in DOMAIN machines :
       /\ machines[m].state \in Machine
       /\ machines[m].log \in Seq(Phases \X Phases)
       /\ machines[m].proof \subseteq Verdicts \cup Passing
  /\ current \in DOMAIN machines
  /\ status \in Statuses
  /\ spent \in Nat /\ late \in BOOLEAN /\ aborted \in BOOLEAN
  /\ pc \in Seq(Places) /\ Len(pc) = Len(loops)
  /\ \A i \in DOMAIN loops : /\ loops[i] \in Loop
                             /\ pc[i] \in {"returned", "saving"}
                                  <=> loops[i].record # NoRecord
  /\ checkpoints \subseteq Phases

\* No machine object is DONE on anything but passing evidence, recorded by the
\* very iteration that set it DONE; and when the goal requires verification
\* that evidence is the verification engine's, never the runtime's own.  This
\* holds also while two loops drive the same machine.
DoneIsVerified ==
  \A m \in DOMAIN machines :
     machines[m].state.phase = "DONE" /\ machines[m].log # <<>> =>
     /\ machines[m].proof # {}
     /\ machines[m].proof \subseteq Passing
     /\ goal.requireVerification => goal.engine /\ "PASS" \in machines[m].proof

\* With callers that wait, every event the runtime derives from its results
\* is one its state machine takes: nothing is thrown and swallowed.
NothingRefused ==
  CallersWait => \A m \in DOMAIN machines : ~machines[m].refused

\* The repair budget also holds across resumes on the same machine: a machine
\* enters REPAIR at most MaxRepairs times before it starts afresh.
RepairsBounded ==
  \A m \in DOMAIN machines : machines[m].state.repairCount <= MaxRepairs

\* The iteration budget is evaluated on records that do not hold the other
\* loop's iteration in flight, so it is overshot, but by no more than one
\* iteration per resume when callers wait and two when they do not.
IterationsBounded ==
  Len(iterations) <= MaxIterations +
                     (IF CallersWait THEN 1 ELSE 2) * (Len(loops) - 1)

\* A result that reports COMPLETED has a machine in DONE behind it, the
\* execution's current one when callers wait.
CompletedMeansDone ==
  status = "COMPLETED" => \E m \in DOMAIN machines :
     /\ machines[m].state.phase = "DONE"
     /\ CallersWait => m = current

\* The execution says RUNNING only while some loop is alive to end it; the
\* exception is an execution resumed on a machine that is already terminal.
RunningHasALoop ==
  status = "RUNNING" => \/ \E i \in DOMAIN loops : Alive(i)
                        \/ machines[current].state.phase \in TerminalPhases

\* The status tells the truth about loops and machines, also to a caller that
\* resumed while a loop was alive.
StatusIsTrue == CompletedMeansDone /\ RunningHasALoop

\* No loop can find the abort controller aborted while the status is RUNNING:
\* pause and cancel set both, resume clears both.
AbortedIsNotRunning == aborted => status # "RUNNING"

\* Every call of execute() and resume() returns, whatever the model answers.
EveryLoopReturns ==
  \A i \in 1..MaxLoops :
     (i \in DOMAIN loops) ~> (i \in DOMAIN loops /\ ~Alive(i))

\* docs/architecture/AGENT_LOOP.md:45 "External `abort()` call -> `CANCELLED`":
\* no step of the runtime itself replaces the status CANCELLED.
CancelSticks ==
  [][status = "CANCELLED" /\ UNCHANGED events => status' = "CANCELLED"]_vars

\* docs/architecture/AGENT_LOOP.md:34 "[RUNNING -> PAUSED -> RUNNING] ->
\* COMPLETED | FAILED | CANCELLED": a running execution reaches another status.
RunningEnds == (status = "RUNNING") ~> (status # "RUNNING")
=============================================================================
