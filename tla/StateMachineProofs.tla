------------------------- MODULE StateMachineProofs -------------------------
(***************************************************************************)
(* Proofs about StateMachine for every set of evidence, every set of       *)
(* calls and every history bound; and about the guards around the calls    *)
(* that lead through it (Guards) for every threshold and window.           *)
(***************************************************************************)
EXTENDS StateMachine, Guards, FiniteSetTheorems, TLAPS

\* What an accepted transition says about its two phases.
LEMMA RuleTypes ==
  ASSUME NEW from, NEW ev, NEW to, TransitionRule(from, ev, to)
  PROVE  from \in LivePhases /\ to \in Phases /\ ev \in StateEvents
BY DEF TransitionRule, Working, LivePhases, Phases, TerminalPhases,
       StateEvents, RuntimeOnlyEvents

\* The whitelist is a function: a phase and an event determine the target.
\* buildTransitionIndex would silently keep the last of two clashing rows.
THEOREM WhitelistIsFunctional ==
  ASSUME NEW from, NEW ev, NEW t1, NEW t2,
         TransitionRule(from, ev, t1), TransitionRule(from, ev, t2)
  PROVE  t1 = t2
BY DEF TransitionRule

\* An accepted transition leaves a state record, in the target phase.
LEMMA AdvanceType ==
  ASSUME NEW m \in Machine, NEW to \in Phases
  PROVE  Advance(m, to) \in Machine /\ Advance(m, to).phase = to
BY DEF Advance, Machine

-----------------------------------------------------------------------------
\* Type correctness

\* The machine, its history and its snapshot keep their types.
THEOREM TypeCorrect == Spec => []TypeOK
<1>1. Init => TypeOK
  BY DEF Init, TypeOK, NewMachine, Machine, NoSnapshot, SmSnapshot, Phases,
         LivePhases
<1>2. TypeOK /\ [Next]_vars => TypeOK'
  <2> SUFFICES ASSUME TypeOK, [Next]_vars PROVE TypeOK'
    OBVIOUS
  <2>1. ASSUME NEW call \in Offers, NEW to \in Phases,
               Apply(call.event, call.llm, call.evidence, to)
        PROVE  TypeOK'
    <3>1. machine' \in Machine
      BY <2>1, AdvanceType DEF Apply, TypeOK
    <3>2. call \in Calls /\ machine.phase \in Phases
      BY OffersAreCalls DEF TypeOK, Machine
    <3>3. history' \in Seq(Transition)
      BY <2>1, <3>2 DEF Apply, TypeOK, Transition, Calls
    <3>4. QED
      BY <2>1, <3>1, <3>3 DEF Apply, TypeOK
  <2>2. CASE ToSnapshot
    BY <2>2 DEF ToSnapshot, TypeOK, SmSnapshot
  <2>3. CASE FromSnapshot
    BY <2>3 DEF FromSnapshot, TypeOK, SmSnapshot
  <2>4. CASE UNCHANGED vars
    BY <2>4 DEF vars, TypeOK
  <2>5. QED
    BY <2>1, <2>2, <2>3, <2>4 DEF Next
<1>3. QED
  BY <1>1, <1>2, PTL DEF Spec

-----------------------------------------------------------------------------
(* The inductive invariant.  Connected, DoneIsProved and Final are         *)
(* preserved by one more row only together: that nothing follows a         *)
(* terminal phase needs the walk to end in the current phase.  Because     *)
(* fromSnapshot replaces the history, all of it is kept for the saved      *)
(* history too.  ImplementBefore needs to know that work was done whenever *)
(* the machine stands in a phase from which VERIFY may be entered.         *)

AfterWork == {"IMPLEMENT", "VERIFY", "REPAIR", "BLOCKED", "HUMAN_REQUIRED"}

Worked(h, phase) ==
  phase \in AfterWork =>
    \E j \in DOMAIN h : h[j].to \in {"IMPLEMENT", "HUMAN_REQUIRED"}

Sound(h, phase) ==
  /\ Connected(h, phase)
  /\ DoneIsProved(h)
  /\ Final(h)
  /\ ImplementBefore(h)
  /\ Worked(h, phase)

IInv ==
  /\ TypeOK
  /\ Sound(history, machine.phase)
  /\ Sound(saved.history, saved.machine.phase)

\* One more accepted row keeps a history sound.
LEMMA AppendSound ==
  ASSUME NEW h \in Seq(Transition), NEW row \in Transition,
         Sound(h, row.from),
         ValidTransition(row.from, row.event, row.llm, row.to),
         EvidenceGate(row.from, row.event, row.to, row.evidence)
  PROVE  Sound(Append(h, row), row.to)
<1> DEFINE g == Append(h, row)
           n == Len(h)
<1>1. /\ g \in Seq(Transition)
      /\ n \in Nat
      /\ Len(g) = n + 1
      /\ g[n + 1] = row
      /\ \A i \in 1..n : g[i] = h[i]
      /\ DOMAIN g = 1..(n + 1)
      /\ DOMAIN h = 1..n
      /\ h = <<>> <=> n = 0
  OBVIOUS
<1> HIDE DEF g
<1>2. row.from \notin TerminalPhases /\ TransitionRule(row.from, row.event, row.to)
  BY DEF ValidTransition
<1>3. Connected(g, row.to)
  <2>1. g # <<>>
    BY <1>1
  <2>2. g[1].from = "INIT"
    <3>1. CASE n = 0
      BY <1>1, <3>1 DEF Sound, Connected
    <3>2. CASE n # 0
      BY <1>1, <3>2 DEF Sound, Connected
    <3>3. QED
      BY <3>1, <3>2
  <2>3. ASSUME NEW i \in 2..Len(g) PROVE g[i].from = g[i-1].to
    <3>1. CASE i = n + 1
      BY <1>1, <3>1 DEF Sound, Connected
    <3>2. CASE i # n + 1
      <4>1. i \in 2..n /\ i \in 1..n /\ i - 1 \in 1..n
        BY <1>1, <2>3, <3>2
      <4>2. h[i].from = h[i-1].to
        BY <4>1 DEF Sound, Connected
      <4>3. QED
        BY <1>1, <4>1, <4>2
    <3>3. QED
      BY <3>1, <3>2
  <2>4. QED
    BY <1>1, <2>1, <2>2, <2>3 DEF Connected
<1>4. DoneIsProved(g)
  <2>1. DoneRow(row)
    BY <1>2 DEF DoneRow, ValidTransition, TransitionRule, EvidenceGate,
                RuntimeOnlyEvents
  <2>2. QED
    BY <1>1, <2>1 DEF DoneIsProved, Sound
<1>5. Final(g)
  BY <1>1, <1>2 DEF Final, Sound
<1>6. row.to = "VERIFY" => row.from \in {"IMPLEMENT", "REPAIR"}
  BY <1>2 DEF TransitionRule
<1>7. ImplementBefore(g)
  <2> SUFFICES ASSUME NEW i \in Entries(g, "VERIFY")
               PROVE  \E j \in 1..(i-1) :
                         g[j].to \in {"IMPLEMENT", "HUMAN_REQUIRED"}
    BY DEF ImplementBefore
  <2>1. CASE i = n + 1
    <3>1. row.to = "VERIFY"
      BY <1>1, <2>1 DEF Entries
    <3>2. PICK j \in DOMAIN h : h[j].to \in {"IMPLEMENT", "HUMAN_REQUIRED"}
      BY <1>6, <3>1 DEF Sound, Worked, AfterWork
    <3>3. QED
      BY <1>1, <2>1, <3>2
  <2>2. CASE i # n + 1
    <3>1. i \in 1..n /\ i \in Entries(h, "VERIFY")
      BY <1>1, <2>2 DEF Entries
    <3>2. PICK j \in 1..(i-1) : h[j].to \in {"IMPLEMENT", "HUMAN_REQUIRED"}
      BY <3>1 DEF Sound, ImplementBefore
    <3>3. j \in 1..n
      BY <1>1, <3>1, <3>2
    <3>4. QED
      BY <1>1, <3>2, <3>3
  <2>3. QED
    BY <2>1, <2>2
<1>8. Worked(g, row.to)
  <2> SUFFICES ASSUME row.to \in AfterWork
               PROVE  \E j \in DOMAIN g :
                         g[j].to \in {"IMPLEMENT", "HUMAN_REQUIRED"}
    BY DEF Worked
  <2>1. CASE row.to \in {"IMPLEMENT", "HUMAN_REQUIRED"}
    BY <1>1, <2>1
  <2>2. CASE row.to \notin {"IMPLEMENT", "HUMAN_REQUIRED"}
    <3>1. row.from \in AfterWork
      BY <1>2, <2>2 DEF TransitionRule, AfterWork, Working, LivePhases
    <3>2. PICK j \in DOMAIN h : h[j].to \in {"IMPLEMENT", "HUMAN_REQUIRED"}
      BY <3>1 DEF Sound, Worked
    <3>3. QED
      BY <1>1, <3>2
  <2>3. QED
    BY <2>1, <2>2
<1>9. QED
  BY <1>3, <1>4, <1>5, <1>7, <1>8 DEF Sound, g

\* A new machine has an empty history to answer for.
LEMMA InitSound == Sound(<<>>, "INIT")
BY DEF Sound, Connected, DoneIsProved, Final, ImplementBefore, Entries,
       Worked, AfterWork

\* Every reachable history is sound, the saved one too.
THEOREM Invariance == Spec => []IInv
<1>1. Init => IInv
  <2> SUFFICES ASSUME Init PROVE IInv
    OBVIOUS
  <2>1. TypeOK
    BY DEF Init, TypeOK, NewMachine, Machine, NoSnapshot, SmSnapshot, Phases,
           LivePhases
  <2>2. QED
    BY <2>1, InitSound DEF Init, IInv, NewMachine, NoSnapshot
<1>2. IInv /\ TypeOK' /\ [Next]_vars => IInv'
  <2> SUFFICES ASSUME IInv, TypeOK', [Next]_vars PROVE IInv'
    OBVIOUS
  <2>1. ASSUME NEW call \in Offers, NEW to \in Phases,
               Apply(call.event, call.llm, call.evidence, to)
        PROVE  IInv'
    <3> DEFINE row == [from |-> machine.phase, to |-> to, event |-> call.event,
                       evidence |-> call.evidence, llm |-> call.llm]
    <3>1. row \in Transition
      BY OffersAreCalls DEF IInv, TypeOK, Machine, Transition, Calls
    <3>2. /\ history \in Seq(Transition)
          /\ Sound(history, row.from)
          /\ ValidTransition(row.from, row.event, row.llm, row.to)
          /\ EvidenceGate(row.from, row.event, row.to, row.evidence)
      BY <2>1 DEF IInv, TypeOK, Apply
    <3>3. Sound(Append(history, row), row.to)
      BY <3>1, <3>2, AppendSound
    <3>4. history' = Append(history, row) /\ machine'.phase = to
      BY <2>1, AdvanceType DEF Apply, IInv, TypeOK
    <3>5. QED
      BY <2>1, <3>3, <3>4 DEF IInv, Apply
  <2>2. CASE ToSnapshot
    BY <2>2 DEF ToSnapshot, IInv
  <2>3. CASE FromSnapshot
    BY <2>3 DEF FromSnapshot, IInv
  <2>4. CASE UNCHANGED vars
    BY <2>4 DEF vars, IInv
  <2>5. QED
    BY <2>1, <2>2, <2>3, <2>4 DEF Next
<1>3. QED
  BY <1>1, <1>2, TypeCorrect, PTL DEF Spec

\* A machine only reads DONE with evidence out of VERIFY, or by a human's
\* decision (the evidence gate of apply and the runtime-only events).
THEOREM EvidenceGated == Spec => []DoneNeedsEvidenceOrHuman
<1>1. IInv => DoneNeedsEvidenceOrHuman
  BY DEF IInv, Sound, DoneNeedsEvidenceOrHuman
<1>2. QED
  BY <1>1, Invariance, PTL

\* No history goes on after a terminal phase (validateTransition, rule 1).
THEOREM TerminalIsLast == Spec => []NothingAfterTerminal
<1>1. IInv => NothingAfterTerminal
  BY DEF IInv, Sound, NothingAfterTerminal
<1>2. QED
  BY <1>1, Invariance, PTL

\* The transition log is a walk from INIT to the current phase.
THEOREM LogReplays == Spec => []HistoryIsAWalk
<1>1. IInv => HistoryIsAWalk
  BY DEF IInv, Sound, HistoryIsAWalk
<1>2. QED
  BY <1>1, Invariance, PTL

\* Every VERIFY entry comes after an IMPLEMENT entry or a human's.
THEOREM VerifiedWork == Spec => []VerifyFollowsWork
<1>1. IInv => VerifyFollowsWork
  BY DEF IInv, Sound, VerifyFollowsWork
<1>2. QED
  BY <1>1, Invariance, PTL

-----------------------------------------------------------------------------
(* The counters.  One more row moves them as Advance does, because it adds *)
(* at most one VERIFY or REPAIR entry, behind the last fresh start; and a  *)
(* row that is a fresh start itself leaves no REPAIR entry behind it.      *)

Starts(h) == Entries(h, "PLAN") \cup Entries(h, "IMPLEMENT")
LastRow(S) == IF S = {} THEN 0 ELSE CHOOSE i \in S : \A j \in S : j <= i
Repairs(h) == {i \in Entries(h, "REPAIR") : i > FreshStart(h)}
Counted(h, m) ==
  /\ FreshStart(h) \in 0..Len(h)
  /\ m.iterationCount = Cardinality(Entries(h, "VERIFY"))
  /\ m.repairCount = Cardinality(Repairs(h))

Tallied ==
  /\ TypeOK
  /\ Counted(history, machine)
  /\ Counted(saved.history, saved.machine)

\* The entries of a history are finitely many.
LEMMA EntriesAreFinite ==
  ASSUME NEW h \in Seq(Transition), NEW phase
  PROVE  /\ IsFiniteSet(Entries(h, phase)) /\ Entries(h, phase) \subseteq 1..Len(h)
         /\ Len(h) \in Nat
<1>1. Entries(h, phase) \subseteq 1..Len(h) /\ Len(h) \in Nat
  BY DEF Entries
<1>2. IsFiniteSet(1..Len(h))
  BY <1>1, FS_Interval
<1> QED
  BY <1>1, <1>2, FS_Subset

\* The last fresh start, when there is one that no other follows.
LEMMA FreshStartIs ==
  ASSUME NEW h \in Seq(Transition), NEW i \in Starts(h), \A j \in Starts(h) : j <= i
  PROVE  FreshStart(h) = i
<1> DEFINE starts == Starts(h)
           last == CHOOSE k \in starts : \A j \in starts : j <= k
<1>1. FreshStart(h) = last
  BY DEF FreshStart, Starts
<1>2. last \in starts /\ \A j \in starts : j <= last
  OBVIOUS
<1>3. starts \subseteq Nat
  BY EntriesAreFinite DEF Starts
<1> HIDE DEF starts, last
<1>4. last \in Nat /\ i \in Nat /\ last <= i /\ i <= last
  BY <1>2, <1>3 DEF starts
<1> QED
  BY <1>1, <1>4

\* One more row moves the counters as Advance does.
LEMMA AppendCounted ==
  ASSUME NEW h \in Seq(Transition), NEW row \in Transition, NEW m \in Machine,
         Counted(h, m)
  PROVE  Counted(Append(h, row), Advance(m, row.to))
<1> DEFINE g == Append(h, row)
           n == Len(h)
<1>1. /\ g \in Seq(Transition) /\ n \in Nat /\ Len(g) = n + 1 /\ g[n + 1] = row
      /\ \A i \in 1..n : g[i] = h[i]
      /\ DOMAIN g = 1..(n + 1) /\ DOMAIN h = 1..n
  OBVIOUS
<1> HIDE DEF g, n
<1>2. ASSUME NEW phase
      PROVE  /\ row.to = phase => Entries(g, phase) = Entries(h, phase) \cup {n + 1}
             /\ row.to # phase => Entries(g, phase) = Entries(h, phase)
             /\ IsFiniteSet(Entries(h, phase)) /\ Entries(h, phase) \subseteq 1..n
             /\ n + 1 \notin Entries(h, phase)
  <2>1. \A i : i \in 1..(n + 1) <=> i \in 1..n \/ i = n + 1
    BY <1>1
  <2>2. n + 1 \notin 1..n
    BY <1>1
  <2>3. IsFiniteSet(Entries(h, phase)) /\ Entries(h, phase) \subseteq 1..n
    BY EntriesAreFinite DEF n
  <2> QED
    BY <1>1, <2>1, <2>2, <2>3 DEF Entries
<1>3. /\ m.iterationCount = Cardinality(Entries(h, "VERIFY"))
      /\ m.repairCount = Cardinality(Repairs(h)) /\ FreshStart(h) \in 0..n
  BY DEF Counted, n
<1>4. Advance(m, row.to).iterationCount = Cardinality(Entries(g, "VERIFY"))
  <2>1. CASE row.to = "VERIFY"
    <3>1. Cardinality(Entries(g, "VERIFY")) = Cardinality(Entries(h, "VERIFY")) + 1
      BY <1>2, <2>1, FS_AddElement
    <3> QED
      BY <1>3, <2>1, <3>1 DEF Advance
  <2>2. CASE row.to # "VERIFY"
    BY <1>2, <1>3, <2>2 DEF Advance
  <2> QED
    BY <2>1, <2>2
<1>5. CASE row.to \in {"PLAN", "IMPLEMENT"}
  <2>1. n + 1 \in Starts(g) /\ \A j \in Starts(g) : j <= n + 1
    BY <1>1, <1>5 DEF Starts, Entries
  <2>2. FreshStart(g) = n + 1
    BY <1>1, <2>1, FreshStartIs
  <2>3. \A j \in DOMAIN g : ~(j > n + 1)
    BY <1>1
  <2>4. Repairs(g) = {}
    BY <2>2, <2>3 DEF Repairs, Entries
  <2> QED
    BY <1>1, <1>4, <1>5, <2>2, <2>4, FS_EmptySet DEF Counted, Advance, g
<1>6. CASE row.to \notin {"PLAN", "IMPLEMENT"}
  <2>1. Entries(g, "PLAN") = Entries(h, "PLAN") /\ Entries(g, "IMPLEMENT") = Entries(h, "IMPLEMENT")
    BY <1>2, <1>6
  <2>2. FreshStart(g) = FreshStart(h) /\ FreshStart(g) \in 0..(n + 1)
    <3>1. /\ FreshStart(h) = LastRow(Starts(h)) /\ FreshStart(g) = LastRow(Starts(g))
          /\ Starts(g) = Starts(h)
      BY <2>1 DEF FreshStart, LastRow, Starts
    <3> QED
      BY <1>1, <1>3, <3>1
  <2>3. CASE row.to = "REPAIR"
    <3>1. n + 1 > FreshStart(h) /\ n + 1 \notin Repairs(h)
      BY <1>1, <1>2, <1>3 DEF Repairs
    <3>2. Repairs(g) = Repairs(h) \cup {n + 1}
      BY <1>2, <2>2, <2>3, <3>1 DEF Repairs
    <3>3. Repairs(h) \subseteq Entries(h, "REPAIR")
      BY DEF Repairs
    <3>4. IsFiniteSet(Repairs(h))
      BY <1>2, <3>3, FS_Subset
    <3>5. Cardinality(Repairs(g)) = Cardinality(Repairs(h)) + 1
      BY <3>1, <3>2, <3>4, FS_AddElement
    <3> QED
      BY <1>1, <1>3, <1>4, <2>2, <2>3, <3>5 DEF Counted, Advance, g
  <2>4. CASE row.to # "REPAIR"
    <3>1. Repairs(g) = Repairs(h)
      BY <1>2, <2>2, <2>4 DEF Repairs
    <3> QED
      BY <1>1, <1>3, <1>4, <1>6, <2>2, <2>4, <3>1 DEF Counted, Advance, g
  <2> QED
    BY <2>3, <2>4
<1> QED
  BY <1>5, <1>6

\* The two counters say what the history says, also after a machine was rebuilt
\* from a snapshot: the repair limit and the oscillation detection may rely on
\* them.
THEOREM CountersCorrect == Spec => []CountersMatchHistory
<1>1. Init => Tallied
  <2> SUFFICES ASSUME Init PROVE Tallied
    OBVIOUS
  <2>1. TypeOK
    BY DEF Init, TypeOK, NewMachine, Machine, NoSnapshot, SmSnapshot, Phases,
           LivePhases
  <2>2. Entries(<<>>, "VERIFY") = {} /\ Repairs(<<>>) = {} /\ FreshStart(<<>>) = 0
    BY DEF Entries, Repairs, FreshStart
  <2>3. Counted(<<>>, NewMachine("INIT"))
    <3>1. Cardinality({}) = 0 /\ 0 \in 0..Len(<<>>)
      BY FS_EmptySet
    <3> QED
      BY <2>2, <3>1 DEF Counted, NewMachine
  <2> QED
    BY <2>1, <2>3 DEF Init, Tallied, NoSnapshot
<1>2. Tallied /\ TypeOK' /\ [Next]_vars => Tallied'
  <2> SUFFICES ASSUME Tallied, TypeOK', [Next]_vars PROVE Tallied'
    OBVIOUS
  <2>1. ASSUME NEW call \in Offers, NEW to \in Phases,
               Apply(call.event, call.llm, call.evidence, to)
        PROVE  Tallied'
    <3> DEFINE row == [from |-> machine.phase, to |-> to, event |-> call.event,
                       evidence |-> call.evidence, llm |-> call.llm]
    <3>1. row \in Transition /\ row.to = to
      BY OffersAreCalls DEF Tallied, TypeOK, Machine, Transition, Calls
    <3>2. history' = Append(history, row) /\ machine' = Advance(machine, to) /\ saved' = saved
      BY <2>1 DEF Apply
    <3> HIDE DEF row
    <3>3. Counted(Append(history, row), Advance(machine, to))
      BY <3>1, AppendCounted DEF Tallied, TypeOK
    <3> QED
      BY <3>2, <3>3 DEF Tallied
  <2>2. CASE ToSnapshot
    BY <2>2 DEF ToSnapshot, Tallied
  <2>3. CASE FromSnapshot
    BY <2>3 DEF FromSnapshot, Tallied
  <2>4. CASE UNCHANGED vars
    BY <2>4 DEF vars, Tallied
  <2> QED
    BY <2>1, <2>2, <2>3, <2>4 DEF Next
<1>3. Tallied => CountersMatchHistory
  BY DEF Tallied, Counted, CountersMatchHistory, Repairs
<1> QED
  BY <1>1, <1>2, <1>3, TypeCorrect, PTL DEF Spec
-----------------------------------------------------------------------------
\* The guards around calls

\* Sequences of one length with the same entries are the same.
LEMMA SeqEqual ==
  ASSUME NEW X, NEW s \in Seq(X), NEW t \in Seq(X), Len(s) = Len(t),
         \A i \in 1..Len(s) : s[i] = t[i]
  PROVE  s = t
OBVIOUS

LEMMA GuardNumbers ==
  /\ FailureThreshold \in Nat /\ FailureThreshold > 0
  /\ SuccessThreshold \in Nat /\ SuccessThreshold > 0
  /\ RecoveryTime \in Nat /\ WindowSize \in Nat
  /\ MaxWindowSize \in Nat /\ MaxWindowSize >= 4 /\ MaxRepeats \in Nat
BY GuardConstants

Circuits == [state : {"CLOSED", "OPEN", "HALF_OPEN"}, failures : Nat, successes : Nat,
             lastFailure : Nat]
Sights == [now : Nat, inRow : Nat, probed : Nat, openedAt : Nat]

\* No time that was noted is still to come.
CircuitInv ==
  /\ circuit \in Circuits /\ seen \in Sights
  /\ circuit.lastFailure <= seen.now /\ seen.openedAt <= seen.now
  /\ CircuitSound

LEMMA CircuitStarts == BreakerInit => CircuitInv
BY GuardNumbers DEF BreakerInit, CircuitInv, CircuitSound, Closed, Circuits, Sights

\* A look at the breaker at most half opens it, which clears its successes.
LEMMA LookKeeps ==
  ASSUME CircuitInv
  PROVE  /\ Evaluated \in Circuits
         /\ Evaluated.lastFailure = circuit.lastFailure
         /\ Evaluated # circuit =>
              /\ Evaluated.state = "HALF_OPEN" /\ Evaluated.successes = 0
              /\ circuit.state = "OPEN" /\ seen.now - seen.openedAt >= RecoveryTime
<1>1. /\ circuit \in Circuits /\ seen \in Sights
      /\ circuit.state = "OPEN" => circuit.lastFailure >= seen.openedAt
  BY DEF CircuitInv, CircuitSound
<1>2. CASE circuit.state = "OPEN" /\ seen.now - circuit.lastFailure >= RecoveryTime
  <2>1. Evaluated = [circuit EXCEPT !.state = "HALF_OPEN", !.successes = 0]
    BY <1>2 DEF Evaluated
  <2>2. seen.now - seen.openedAt >= RecoveryTime
    BY <1>1, <1>2, GuardNumbers DEF Circuits, Sights
  <2> QED
    BY <1>1, <1>2, <2>1, <2>2 DEF Circuits
<1>3. CASE ~(circuit.state = "OPEN" /\ seen.now - circuit.lastFailure >= RecoveryTime)
  BY <1>1, <1>3 DEF Evaluated
<1> QED
  BY <1>2, <1>3

LEMMA CircuitSteps == CircuitInv /\ [BreakerNext]_breakerVars => CircuitInv'
<1> SUFFICES ASSUME CircuitInv, [BreakerNext]_breakerVars PROVE CircuitInv'
  OBVIOUS
<1>1. CASE ClockTicks
  BY <1>1, GuardNumbers DEF ClockTicks, CircuitInv, CircuitSound, Circuits, Sights
<1>2. CASE LookAtBreaker
  BY <1>2, LookKeeps, GuardNumbers DEF LookAtBreaker, CircuitInv, CircuitSound, Circuits, Sights
<1>3. CASE ResetBreaker
  <2>1. circuit' \in Circuits /\ circuit'.state = "CLOSED"
        /\ circuit'.failures = 0 /\ circuit'.lastFailure = 0
    BY <1>3 DEF ResetBreaker, Closed, Circuits
  <2>2. seen' \in Sights /\ seen'.inRow = 0 /\ seen'.now = seen.now /\ seen'.openedAt = seen.openedAt
    BY <1>3, GuardNumbers DEF ResetBreaker, CircuitInv, Sights
  <2> QED
    BY <2>1, <2>2, GuardNumbers DEF CircuitInv, CircuitSound, Circuits, Sights
<1>4. ASSUME NEW a \in Attempts, Attempt(a)
      PROVE  CircuitInv'
  <2>1. CASE Evaluated = circuit
    <3>1. circuit' = circuit /\ seen' = seen
      BY <1>4, <2>1 DEF Attempt, CircuitInv, Sights
    <3> QED
      BY <3>1 DEF CircuitInv, CircuitSound
  <2>2. CASE Evaluated # circuit
    <3>1. circuit' = Evaluated /\ seen' = [seen EXCEPT !.probed = 0]
      BY <1>4, <2>2 DEF Attempt
    <3> QED
      BY <2>2, <3>1, LookKeeps, GuardNumbers DEF CircuitInv, CircuitSound, Circuits, Sights
  <2> QED
    BY <2>1, <2>2
<1>5. ASSUME NEW a \in Attempts, NEW good \in BOOLEAN, AttemptEnds(a, good)
      PROVE  CircuitInv'
  <2>0. circuit' = (IF good THEN Succeeded ELSE Failed)
    BY <1>5 DEF AttemptEnds
  <2>1. seen' = [seen EXCEPT
       !.inRow = IF circuit.state # "CLOSED" \/ good THEN 0 ELSE @ + 1,
       !.probed = IF circuit.state = "HALF_OPEN" /\ good THEN @ + 1 ELSE @,
       !.openedAt = IF circuit.state # "OPEN" /\ circuit'.state = "OPEN" THEN seen.now ELSE @]
    BY <1>5 DEF AttemptEnds
  <2>2. /\ seen' \in Sights /\ seen'.now = seen.now
        /\ seen'.inRow = (IF circuit.state # "CLOSED" \/ good THEN 0 ELSE seen.inRow + 1)
        /\ seen'.probed = (IF circuit.state = "HALF_OPEN" /\ good THEN seen.probed + 1 ELSE seen.probed)
        /\ seen'.openedAt = (IF circuit.state # "OPEN" /\ circuit'.state = "OPEN" THEN seen.now
                            ELSE seen.openedAt)
    <3> DEFINE row == IF circuit.state # "CLOSED" \/ good THEN 0 ELSE seen.inRow + 1
               probes == IF circuit.state = "HALF_OPEN" /\ good THEN seen.probed + 1 ELSE seen.probed
               opened == IF circuit.state # "OPEN" /\ circuit'.state = "OPEN" THEN seen.now
                         ELSE seen.openedAt
    <3>1. seen \in Sights
      BY DEF CircuitInv
    <3>2. row \in Nat /\ probes \in Nat /\ opened \in Nat
      BY <3>1 DEF Sights
    <3>3. seen' = [seen EXCEPT !.inRow = row, !.probed = probes, !.openedAt = opened]
      BY <2>1, <3>1 DEF Sights
    <3> HIDE DEF row, probes, opened
    <3>4. /\ seen' \in Sights /\ seen'.now = seen.now /\ seen'.inRow = row
          /\ seen'.probed = probes /\ seen'.openedAt = opened
      BY <3>1, <3>2, <3>3 DEF Sights
    <3> QED
      BY <3>4 DEF row, probes, opened
  <2>3. circuit \in Circuits /\ seen \in Sights
    BY DEF CircuitInv
  <2>4. /\ circuit' \in Circuits
        /\ circuit'.lastFailure \in {0, circuit.lastFailure, seen.now}
        /\ circuit'.state = "CLOSED" =>
             \/ circuit'.failures = 0 /\ (circuit.state = "HALF_OPEN" \/ good)
             \/ /\ circuit.state = "CLOSED" /\ ~good
                /\ circuit'.failures = circuit.failures + 1 /\ circuit'.failures < FailureThreshold
        /\ circuit'.state = "HALF_OPEN" =>
             /\ circuit.state = "HALF_OPEN" /\ good
             /\ circuit'.successes = circuit.successes + 1 /\ circuit'.successes < SuccessThreshold
        /\ circuit'.state = "OPEN" =>
             \/ circuit.state # "OPEN" /\ circuit'.lastFailure = seen.now
             \/ circuit.state = "OPEN" /\ circuit'.lastFailure \in {circuit.lastFailure, seen.now}
    <3>1. CASE good
      <4>1. circuit' = Succeeded
        BY <2>0, <3>1
      <4>2. CASE circuit.state = "CLOSED"
        <5>1. circuit' = [circuit EXCEPT !.failures = 0]
          BY <4>1, <4>2 DEF Succeeded
        <5> QED
          BY <2>3, <3>1, <4>2, <5>1 DEF Circuits
      <4>3. CASE circuit.state = "HALF_OPEN" /\ circuit.successes + 1 >= SuccessThreshold
        <5>1. circuit' = Closed
          BY <2>3, <4>1, <4>3, GuardNumbers DEF Succeeded, Circuits
        <5> QED
          BY <2>3, <3>1, <4>3, <5>1 DEF Circuits, Closed
      <4>4. CASE circuit.state = "HALF_OPEN" /\ ~(circuit.successes + 1 >= SuccessThreshold)
        <5>1. circuit.successes + 1 < SuccessThreshold
          BY <2>3, <4>4, GuardNumbers DEF Circuits
        <5>2. circuit' = [circuit EXCEPT !.successes = @ + 1]
          BY <4>1, <4>4, <5>1 DEF Succeeded
        <5> QED
          BY <2>3, <3>1, <4>4, <5>1, <5>2 DEF Circuits
      <4>5. CASE circuit.state = "OPEN"
        <5>1. circuit' = circuit
          BY <4>1, <4>5 DEF Succeeded
        <5> QED
          BY <2>3, <4>5, <5>1 DEF Circuits
      <4> QED
        BY <2>3, <4>2, <4>3, <4>4, <4>5 DEF Circuits
    <3>2. CASE ~good
      <4>1. circuit' = Failed
        BY <2>0, <3>2
      <4> DEFINE failing == [circuit EXCEPT !.lastFailure = seen.now]
      <4>2. /\ failing \in Circuits /\ failing.lastFailure = seen.now
            /\ failing.state = circuit.state /\ failing.failures = circuit.failures
        BY <2>3 DEF Circuits, Sights
      <4>3. CASE circuit.state = "HALF_OPEN"
        <5>1. circuit' = [failing EXCEPT !.state = "OPEN", !.failures = FailureThreshold, !.successes = 0]
          BY <4>1, <4>3 DEF Failed
        <5> HIDE DEF failing
        <5> QED
          BY <4>2, <4>3, <5>1, GuardNumbers DEF Circuits
      <4>4. CASE circuit.state = "CLOSED"
        <5> DEFINE more == circuit.failures + 1
                   state == IF more >= FailureThreshold THEN "OPEN" ELSE "CLOSED"
        <5>1. circuit' = [failing EXCEPT !.failures = more, !.state = state]
          BY <4>1, <4>4 DEF Failed
        <5>3. more \in Nat /\ state \in {"CLOSED", "OPEN"}
          BY <2>3 DEF Circuits
        <5> HIDE DEF failing, more, state
        <5>2. /\ circuit' \in Circuits /\ circuit'.lastFailure = seen.now
              /\ circuit'.failures = more /\ circuit'.state = state
          BY <4>2, <5>1, <5>3 DEF Circuits
        <5> QED
          BY <2>3, <3>2, <4>4, <5>2, GuardNumbers DEF Circuits, more, state
      <4>5. CASE circuit.state = "OPEN"
        <5>1. circuit' = failing
          BY <4>1, <4>5 DEF Failed
        <5> QED
          BY <4>2, <4>5, <5>1
      <4> QED
        BY <2>3, <4>3, <4>4, <4>5 DEF Circuits
    <3> QED
      BY <3>1, <3>2
  <2>5. circuit'.lastFailure <= seen'.now /\ seen'.openedAt <= seen'.now
    BY <2>2, <2>3, <2>4 DEF CircuitInv, Circuits, Sights
  <2>6. CircuitSound'
    BY <2>2, <2>3, <2>4, GuardNumbers DEF CircuitInv, CircuitSound, Circuits, Sights
  <2> QED
    BY <2>2, <2>4, <2>5, <2>6 DEF CircuitInv
<1>6. CASE UNCHANGED breakerVars
  BY <1>6 DEF breakerVars, CircuitInv, CircuitSound
<1> QED
  BY <1>1, <1>2, <1>3, <1>4, <1>5, <1>6 DEF BreakerNext

\* A tool is under way without a limit, with a timer, or with its time over,
\* and what was aborted before it began is never listened for.
Deadlines ==
  [at : {"new", "running", "ended"}, limited : BOOLEAN, parent : BOOLEAN, heard : BOOLEAN,
   signal : BOOLEAN, timer : BOOLEAN, returns : Nat,
   result : {"none", "timeout", "failure", "answer", "thrown"}]
DeadlineInv ==
  /\ deadline \in Deadlines
  /\ deadline.at = "new" =>
       ~deadline.timer /\ ~deadline.signal /\ ~deadline.heard /\ deadline.result = "none"
  /\ deadline.at = "running" => deadline.result \in {"none", "timeout"}
  /\ deadline.at # "new" /\ deadline.limited => deadline.heard \/ deadline.signal
  /\ deadline.timer => deadline.limited
  /\ DeadlineSound

LEMMA DeadlineStarts == DeadlineInit => DeadlineInv
BY DEF DeadlineInit, DeadlineInv, DeadlineSound, Deadlines

\* The first result is the one there is.
LEMMA SettlesOnce ==
  ASSUME NEW call \in Deadlines, NEW result \in {"timeout", "failure", "answer", "thrown"},
         call.returns = (IF call.result = "none" THEN 0 ELSE 1)
  PROVE  LET c == SettledWith(call, result)
         IN  /\ c \in Deadlines /\ c.returns = 1
             /\ c.result = (IF call.result = "none" THEN result ELSE call.result)
             /\ c.at = call.at /\ c.limited = call.limited /\ c.parent = call.parent
             /\ c.heard = call.heard /\ c.signal = call.signal
             /\ c.timer = (call.timer /\ call.result # "none")
<1>1. CASE call.result = "none"
  <2>1. SettledWith(call, result) = [call EXCEPT !.result = result, !.returns = 1, !.timer = FALSE]
    BY <1>1 DEF SettledWith, Deadlines
  <2> DEFINE c == SettledWith(call, result)
  <2>0. c = [call EXCEPT !.result = result, !.returns = 1, !.timer = FALSE]
    BY <2>1
  <2> HIDE DEF c
  <2>4. c \in Deadlines
    BY <2>0 DEF Deadlines
  <2>2. /\ c.returns = 1 /\ c.result = result
        /\ c.at = call.at /\ c.limited = call.limited /\ c.parent = call.parent
        /\ c.heard = call.heard /\ c.signal = call.signal /\ c.timer = FALSE
    BY <2>0 DEF Deadlines
  <2>3. c.timer = (call.timer /\ call.result # "none")
    BY <1>1, <2>2, Zenon
  <2> QED
    BY <1>1, <2>2, <2>3, <2>4 DEF c
<1>2. CASE call.result # "none"
  BY <1>2 DEF SettledWith, Deadlines
<1> QED
  BY <1>1, <1>2

LEMMA DeadlineSteps == DeadlineInv /\ [DeadlineNext]_deadline => DeadlineInv'
<1> SUFFICES ASSUME DeadlineInv, [DeadlineNext]_deadline PROVE DeadlineInv'
  OBVIOUS
<1>0. deadline \in Deadlines /\ deadline.returns = (IF deadline.result = "none" THEN 0 ELSE 1)
  BY DEF DeadlineInv, DeadlineSound
<1>1. CASE Enforce
  BY <1>1 DEF Enforce, DeadlineInv, DeadlineSound, Deadlines
<1>2. CASE ParentAborts
  BY <1>2 DEF ParentAborts, DeadlineInv, DeadlineSound, Deadlines
<1>3. CASE TimerFires
  <2> DEFINE c == SettledWith(deadline, "timeout")
  <2>1. /\ c \in Deadlines /\ c.returns = 1
        /\ c.result = (IF deadline.result = "none" THEN "timeout" ELSE deadline.result)
        /\ c.at = deadline.at /\ c.limited = deadline.limited /\ c.parent = deadline.parent
        /\ c.heard = deadline.heard /\ c.signal = deadline.signal
        /\ c.timer = (deadline.timer /\ deadline.result # "none")
    BY <1>0, SettlesOnce
  <2>2. deadline' = [c EXCEPT !.signal = TRUE] /\ deadline.timer
    BY <1>3 DEF TimerFires
  <2> HIDE DEF c
  <2> QED
    BY <2>1, <2>2 DEF DeadlineInv, DeadlineSound, Deadlines
<1>4. ASSUME NEW how \in {"returns", "fails", "throws"}, ToolEnds(how)
      PROVE  DeadlineInv'
  <2> DEFINE result == IF how = "fails" /\ deadline.limited THEN "failure"
                       ELSE IF how = "returns" THEN "answer" ELSE "thrown"
             c == SettledWith(deadline, result)
             ended == [c EXCEPT !.at = "ended"]
  <2>1. result \in {"failure", "answer", "thrown"}
    OBVIOUS
  <2>2. /\ deadline' = IF how = "throws" THEN [ended EXCEPT !.timer = deadline.limited] ELSE ended
        /\ deadline.at = "running"
    BY <1>4 DEF ToolEnds
  <2> HIDE DEF result
  <2>3. /\ c \in Deadlines /\ c.returns = 1
        /\ c.result = (IF deadline.result = "none" THEN result ELSE deadline.result)
        /\ c.at = deadline.at /\ c.limited = deadline.limited /\ c.parent = deadline.parent
        /\ c.heard = deadline.heard /\ c.signal = deadline.signal
        /\ c.timer = (deadline.timer /\ deadline.result # "none")
    BY <1>0, <2>1, SettlesOnce
  <2> HIDE DEF c
  <2> QED
    BY <2>1, <2>2, <2>3 DEF DeadlineInv, DeadlineSound, Deadlines
<1>5. CASE UNCHANGED deadline
  BY <1>5 DEF DeadlineInv, DeadlineSound
<1> QED
  BY <1>1, <1>2, <1>3, <1>4, <1>5 DEF DeadlineNext

\* A window of the last n entries.
LEMMA LastOfIs ==
  ASSUME NEW X, NEW s \in Seq(X), NEW n \in Nat
  PROVE  LET w == LastOf(s, n) m == IF Len(s) <= n THEN Len(s) ELSE n
         IN  /\ w \in Seq(X) /\ Len(w) = m
             /\ \A i \in 1..m : w[i] = s[Len(s) - m + i]
<1>1. CASE Len(s) <= n
  BY <1>1 DEF LastOf
<1>2. CASE ~(Len(s) <= n)
  <2>1. LastOf(s, n) = SubSeq(s, Len(s) - n + 1, Len(s))
    BY <1>2 DEF LastOf
  <2>2. Len(s) \in Nat /\ Len(s) - n + 1 \in 1..(Len(s) + 1) /\ Len(s) - (Len(s) - n + 1) + 1 = n
    BY <1>2
  <2>3. /\ SubSeq(s, Len(s) - n + 1, Len(s)) \in Seq(X)
        /\ Len(SubSeq(s, Len(s) - n + 1, Len(s))) = n
        /\ \A i \in 1..n : SubSeq(s, Len(s) - n + 1, Len(s))[i] = s[Len(s) - n + i]
    <3>1. SubSeq(s, Len(s) - n + 1, Len(s))
            = [i \in 1..(Len(s) - (Len(s) - n + 1) + 1) |-> s[i + (Len(s) - n + 1) - 1]]
      BY <2>2
    <3>2. SubSeq(s, Len(s) - n + 1, Len(s)) = [i \in 1..n |-> s[Len(s) - n + i]]
      BY <2>2, <3>1
    <3>3. \A i \in 1..n : Len(s) - n + i \in 1..Len(s) /\ s[Len(s) - n + i] \in X
      BY <1>2
    <3> QED
      BY <3>2, <3>3
  <2> QED
    BY <1>2, <2>1, <2>3
<1> QED
  BY <1>1, <1>2

\* What is pushed into such a window makes it the one of the longer sequence.
LEMMA PushedIsLast ==
  ASSUME NEW X, NEW s \in Seq(X), NEW e \in X, NEW n \in Nat
  PROVE  Pushed(LastOf(s, n), e, n) = LastOf(Append(s, e), n)
<1> DEFINE w == LastOf(s, n)
           m == IF Len(s) <= n THEN Len(s) ELSE n
           t == Append(s, e)
           v == LastOf(t, n)
           k == IF Len(t) <= n THEN Len(t) ELSE n
<1>1. w \in Seq(X) /\ Len(w) = m /\ \A i \in 1..m : w[i] = s[Len(s) - m + i]
  BY LastOfIs
<1>2. /\ t \in Seq(X) /\ Len(t) = Len(s) + 1 /\ t[Len(s) + 1] = e
      /\ \A i \in 1..Len(s) : t[i] = s[i]
  OBVIOUS
<1> HIDE DEF t
<1>3. v \in Seq(X) /\ Len(v) = k /\ \A i \in 1..k : v[i] = t[Len(t) - k + i]
  <2>1. t \in Seq(X)
    BY <1>2
  <2> QED
    BY <2>1, LastOfIs
<1> DEFINE long == Append(w, e)
<1>4. /\ long \in Seq(X) /\ Len(long) = m + 1 /\ long[m + 1] = e
      /\ \A i \in 1..m : long[i] = w[i]
  BY <1>1
<1>5. Len(s) \in Nat /\ m \in Nat /\ k \in Nat /\ m <= Len(s)
  BY <1>2
<1>6. Pushed(w, e, n) = IF m + 1 > n THEN Tail(long) ELSE long
  BY <1>4 DEF Pushed
<1> HIDE DEF w, v, long, m, k
<1>7. CASE Len(s) < n
  <2>1. m = Len(s) /\ k = Len(s) + 1 /\ ~(m + 1 > n)
    BY <1>2, <1>5, <1>7 DEF m, k
  <2>2. \A i \in 1..(Len(s) + 1) : long[i] = v[i]
    <3>1. ASSUME NEW i \in 1..Len(s) PROVE long[i] = v[i]
      <4>1. long[i] = s[Len(s) - Len(s) + i] /\ i \in 1..(Len(s) + 1)
        <5>1. i \in 1..m /\ i \in 1..(Len(s) + 1)
          BY <1>5, <2>1
        <5>2. long[i] = w[i] /\ w[i] = s[Len(s) - m + i]
          BY <1>1, <1>4, <5>1
        <5> QED
          BY <2>1, <5>1, <5>2
      <4>2. v[i] = t[Len(s) + 1 - (Len(s) + 1) + i]
        BY <1>2, <1>3, <2>1, <4>1
      <4>3. Len(s) - Len(s) + i = i /\ Len(s) + 1 - (Len(s) + 1) + i = i
        BY <1>5
      <4> QED
        BY <1>2, <4>1, <4>2, <4>3
    <3>2. long[Len(s) + 1] = v[Len(s) + 1]
      <4>1. v[Len(s) + 1] = t[Len(s) + 1 - (Len(s) + 1) + (Len(s) + 1)]
        BY <1>2, <1>3, <1>5, <2>1
      <4>2. Len(s) + 1 - (Len(s) + 1) + (Len(s) + 1) = Len(s) + 1
        BY <1>5
      <4> QED
        BY <1>2, <1>4, <2>1, <4>1, <4>2
    <3> QED
      BY <1>5, <3>1, <3>2
  <2>3. long = v
    BY <1>3, <1>4, <1>5, <2>1, <2>2, SeqEqual
  <2> QED
    BY <1>6, <2>1, <2>3 DEF w, t, v
<1>8. CASE ~(Len(s) < n)
  <2>1. m = n /\ k = n /\ m + 1 > n
    BY <1>2, <1>5, <1>8 DEF m, k
  <2>2. /\ Tail(long) \in Seq(X) /\ Len(Tail(long)) = n
        /\ \A i \in 1..n : Tail(long)[i] = long[i + 1]
    BY <1>4, <1>5, <2>1
  <2>3. ASSUME NEW i \in 1..n PROVE Tail(long)[i] = v[i]
    <3>1. v[i] = t[Len(s) + 1 - n + i]
      BY <1>2, <1>3, <2>1
    <3>2. CASE i = n
      <4>1. Len(s) + 1 - n + i = Len(s) + 1
        BY <1>5, <3>2
      <4> QED
        BY <1>2, <1>4, <2>1, <2>2, <3>1, <3>2, <4>1
    <3>3. CASE i # n
      <4>1. i + 1 \in 1..n /\ Len(s) - n + (i + 1) \in 1..Len(s)
            /\ Len(s) - n + (i + 1) = Len(s) + 1 - n + i
        BY <1>5, <1>8, <3>3
      <4>2. Tail(long)[i] = w[i + 1]
        BY <1>4, <2>1, <2>2, <4>1
      <4>3. w[i + 1] = s[Len(s) - n + (i + 1)]
        BY <1>1, <2>1, <4>1
      <4> QED
        BY <1>2, <3>1, <4>1, <4>2, <4>3
    <3> QED
      BY <3>2, <3>3
  <2>4. Tail(long) = v
    BY <1>3, <2>1, <2>2, <2>3, SeqEqual
  <2> QED
    BY <1>6, <2>1, <2>4 DEF w, t, v
<1> QED
  BY <1>7, <1>8

CallEntries == [tool : {"t", "u"}, arg : Arguments]
Prints == {"A", "B", "C"}

\* What is said was said of the window there is.
WindowsInv ==
  /\ calls.all \in Seq(CallEntries) /\ calls.window = LastOf(calls.all, WindowSize)
  /\ prints.all \in Seq(Prints) /\ prints.window = LastOf(prints.all, MaxWindowSize)
  /\ prints.all # <<>> => prints.said = Anomaly(prints.window)

LEMMA WindowsStart == WindowsInit => WindowsInv
<1> SUFFICES ASSUME WindowsInit PROVE WindowsInv
  OBVIOUS
<1>1. \A n \in Nat : LastOf(<<>>, n) = <<>>
  BY DEF LastOf
<1> QED
  BY <1>1, GuardNumbers DEF WindowsInit, WindowsInv

LEMMA WindowsStep ==
  WindowsInv /\ (CallsNext \/ PrintsNext \/ UNCHANGED <<calls, prints>>) => WindowsInv'
<1> SUFFICES ASSUME WindowsInv, CallsNext \/ PrintsNext \/ UNCHANGED <<calls, prints>>
             PROVE  WindowsInv'
  OBVIOUS
<1>0. \A n \in Nat : LastOf(<<>>, n) = <<>>
  BY DEF LastOf
<1>1. CASE ClearCalls
  BY <1>0, <1>1, GuardNumbers DEF ClearCalls, WindowsInv
<1>2. CASE ResetPrints
  BY <1>0, <1>2, GuardNumbers DEF ResetPrints, WindowsInv
<1>3. ASSUME NEW tool \in {"t", "u"}, NEW arg \in Arguments, RecordCall(tool, arg)
      PROVE  WindowsInv'
  <2> DEFINE call == [tool |-> tool, arg |-> arg]
  <2>1. call \in CallEntries
    BY DEF CallEntries
  <2>2. /\ calls' = [window |-> Pushed(calls.window, call, WindowSize), all |-> Append(calls.all, call)]
        /\ prints' = prints
    BY <1>3 DEF RecordCall
  <2> HIDE DEF call
  <2>3. Pushed(LastOf(calls.all, WindowSize), call, WindowSize)
          = LastOf(Append(calls.all, call), WindowSize)
    BY <2>1, PushedIsLast, GuardNumbers DEF WindowsInv
  <2>4. Append(calls.all, call) \in Seq(CallEntries)
    BY <2>1 DEF WindowsInv
  <2> QED
    BY <2>2, <2>3, <2>4 DEF WindowsInv
<1>4. ASSUME NEW print \in Prints, RecordAndInspect(print)
      PROVE  WindowsInv'
  <2> DEFINE window == Pushed(prints.window, print, MaxWindowSize)
  <2>1. /\ prints' = [window |-> window, all |-> Append(prints.all, print), said |-> Anomaly(window)]
        /\ calls' = calls
    BY <1>4 DEF RecordAndInspect
  <2>2. window = LastOf(Append(prints.all, print), MaxWindowSize)
    BY PushedIsLast, GuardNumbers DEF WindowsInv
  <2>3. Append(prints.all, print) \in Seq(Prints)
    BY DEF WindowsInv
  <2> HIDE DEF window
  <2> QED
    BY <2>1, <2>2, <2>3 DEF WindowsInv
<1>5. CASE UNCHANGED <<calls, prints>>
  BY <1>5 DEF WindowsInv
<1> QED
  BY <1>1, <1>2, <1>3, <1>4, <1>5 DEF CallsNext, PrintsNext, Prints

\* A window of n entries has as many places with its newest entry as there are
\* among the last n of the sequence.
LEMMA SameTimes ==
  ASSUME NEW all \in Seq(Prints), NEW size \in Nat, Len(all) > 0, size > 0
  PROVE  LET n == Len(all) w == LastOf(all, size) m == Len(w)
         IN  Cardinality({k \in 1..n : k > n - size /\ all[k] = all[n]})
               = Cardinality({k \in 1..m : w[k] = w[m]})
<1> DEFINE n == Len(all)
           w == LastOf(all, size)
           m == IF n <= size THEN n ELSE size
           A == {k \in 1..n : k > n - size /\ all[k] = all[n]}
           B == {k \in 1..m : w[k] = w[m]}
           f == [k \in B |-> n - m + k]
<1>1. Len(w) = m /\ \A i \in 1..m : w[i] = all[n - m + i]
  BY LastOfIs
<1>2. n \in Nat /\ n > 0 /\ m \in 1..n /\ m <= size /\ (m = n \/ m = size)
  OBVIOUS
<1>3. IsFiniteSet(B)
  <2> HIDE DEF m
  <2>1. IsFiniteSet(1..m)
    BY <1>2, FS_Interval
  <2> QED
    BY <2>1, FS_Subset
<1> HIDE DEF w, m, n
<1>4. w[m] = all[n]
  <2>1. n - m + m = n
    BY <1>2
  <2> QED
    BY <1>1, <1>2, <2>1
<1>5. \A k \in B : n - m + k \in A
  <2> SUFFICES ASSUME NEW k \in B PROVE n - m + k \in A
    OBVIOUS
  <2>1. k \in 1..m /\ n - m + k \in 1..n /\ n - m + k > n - size
    BY <1>2
  <2> QED
    BY <1>1, <1>4, <2>1
<1>6. \A a \in A : a - (n - m) \in B /\ n - m + (a - (n - m)) = a
  <2> SUFFICES ASSUME NEW a \in A PROVE a - (n - m) \in B /\ n - m + (a - (n - m)) = a
    OBVIOUS
  <2>1. a - (n - m) \in 1..m /\ n - m + (a - (n - m)) = a
    BY <1>2
  <2> QED
    BY <1>1, <1>4, <2>1
<1>7. f \in Bijection(B, A)
  <2>1. f \in [B -> A]
    BY <1>5
  <2>2. \A j, k \in B : f[j] = f[k] => j = k
    BY <1>2
  <2>3. \A a \in A : \E k \in B : f[k] = a
    BY <1>6
  <2> QED
    BY <2>1, <2>2, <2>3 DEF Bijection, Injection, Surjection, IsInjective
<1>8. Cardinality(A) = Cardinality(B)
  BY <1>3, <1>7, FS_Bijection DEF ExistsBijection
<1> QED
  BY <1>1, <1>8 DEF n, w

LEMMA WindowsAre == WindowsInv => WindowsSound
<1> SUFFICES ASSUME WindowsInv PROVE WindowsSound
  OBVIOUS
<1> DEFINE all == prints.all
           w == prints.window
           n == Len(all)
           m == IF n <= MaxWindowSize THEN n ELSE MaxWindowSize
           times == Cardinality({k \in 1..n : k > n - MaxWindowSize /\ all[k] = all[n]})
           same == Cardinality({k \in 1..m : w[k] = w[m]})
<1>1. \A tool \in {"t", "u"}, arg \in Arguments :
        IsRepeat(calls.window, tool, arg) <=> IsRepeat(LastOf(calls.all, WindowSize), tool, arg)
  BY DEF WindowsInv
<1>2. SUFFICES ASSUME n > 0
               PROVE  /\ n >= 3 /\ all[n] = all[n - 1] /\ all[n] = all[n - 2] <=> prints.said = "STAGNATION"
                      /\ n >= 4 /\ all[n] = all[n - 2] /\ all[n - 1] = all[n - 3] => prints.said # "nothing"
                      /\ prints.said = "nothing" => times < MaxRepeats
                      /\ prints.said = "REPEATED_FAILURE" => times >= MaxRepeats
  BY <1>1 DEF WindowsSound
<1>3. all \in Seq(Prints) /\ w = LastOf(all, MaxWindowSize) /\ prints.said = Anomaly(w)
  <2>1. all # <<>>
    BY <1>2
  <2> QED
    BY <2>1 DEF WindowsInv
<1>4. w \in Seq(Prints) /\ Len(w) = m /\ \A i \in 1..m : w[i] = all[n - m + i]
  <2> HIDE DEF all, w
  <2>1. LET v == LastOf(all, MaxWindowSize)
        IN  v \in Seq(Prints) /\ Len(v) = m /\ \A i \in 1..m : v[i] = all[n - m + i]
    BY <1>3, LastOfIs, GuardNumbers
  <2> QED
    BY <1>3, <2>1
<1>5. /\ n \in Nat /\ n > 0 /\ m \in 1..n
      /\ (m >= 3 <=> n >= 3) /\ (m >= 4 <=> n >= 4)
  BY <1>2, <1>3, GuardNumbers
<1>6. times = same
  <2> HIDE DEF all, w
  <2>1. MaxWindowSize > 0
    BY GuardNumbers
  <2>2. LET v == LastOf(all, MaxWindowSize)
        IN  times = Cardinality({k \in 1..Len(v) : v[k] = v[Len(v)]})
    BY <1>2, <1>3, <2>1, GuardNumbers, SameTimes
  <2> QED
    BY <1>3, <1>4, <2>2
<1> HIDE DEF all, w, n, m, times
<1>7. w[m] = all[n]
  <2>1. n - m + m = n
    BY <1>5
  <2> QED
    BY <1>4, <1>5, <2>1
<1>8. n >= 3 => w[m - 1] = all[n - 1] /\ w[m - 2] = all[n - 2]
  <2>1. ASSUME n >= 3
        PROVE  /\ m - 1 \in 1..m /\ n - m + (m - 1) = n - 1
               /\ m - 2 \in 1..m /\ n - m + (m - 2) = n - 2
    BY <1>5, <2>1
  <2> QED
    BY <1>4, <2>1
<1>9. n >= 4 => w[m - 3] = all[n - 3]
  <2>1. ASSUME n >= 4
        PROVE  m - 3 \in 1..m /\ n - m + (m - 3) = n - 3
    BY <1>5, <2>1
  <2> QED
    BY <1>4, <2>1
<1>10. Last(w) = w[m]
  BY <1>4 DEF Last
<1>11. Anomaly(w) =
         IF m >= 3 /\ w[m - 1] = w[m] /\ w[m - 2] = w[m] THEN "STAGNATION"
         ELSE IF m >= 4 /\ w[m - 2] = w[m] /\ ~(w[m - 1] = w[m]) /\ w[m - 1] = w[m - 3]
              THEN "OSCILLATION"
         ELSE IF same >= MaxRepeats THEN "REPEATED_FAILURE" ELSE "nothing"
  BY <1>4, <1>10 DEF Anomaly
<1> HIDE DEF same
<1>12. same \in Nat
  <2>1. IsFiniteSet({k \in 1..m : w[k] = w[m]})
    <3>1. IsFiniteSet(1..m)
      BY <1>5, FS_Interval
    <3> QED
      BY <3>1, FS_Subset
  <2> QED
    BY <2>1, FS_CardinalityType DEF same
<1> QED
  BY <1>3, <1>5, <1>6, <1>7, <1>8, <1>9, <1>11, <1>12, GuardNumbers

\* Around calls, for any thresholds, windows and number of attempts: a circuit
\* opens and closes for as many failures and successes in a row as it was told,
\* and stays open for the time it was told; a deadline settles once; and what
\* a window says is so of the sequence it is the end of.
THEOREM GuardsCorrect == GuardsSpec => []GuardsHold
<1> DEFINE I == CircuitInv /\ DeadlineInv /\ WindowsInv
<1>1. BreakerInit /\ DeadlineInit /\ WindowsInit => I
  BY CircuitStarts, DeadlineStarts, WindowsStart
<1>2. I /\ [GuardsNext]_guardVars => I'
  <2> SUFFICES ASSUME I, [GuardsNext]_guardVars PROVE I'
    OBVIOUS
  <2>1. [BreakerNext]_breakerVars
    BY DEF GuardsNext, guardVars
  <2>2. [DeadlineNext]_deadline
    BY DEF GuardsNext, guardVars
  <2>3. CallsNext \/ PrintsNext \/ UNCHANGED <<calls, prints>>
    BY DEF GuardsNext, guardVars
  <2> QED
    BY <2>1, <2>2, <2>3, CircuitSteps, DeadlineSteps, WindowsStep
<1>3. I => GuardsHold
  BY WindowsAre DEF CircuitInv, DeadlineInv, GuardsHold
<1> QED
  BY <1>1, <1>2, <1>3, PTL DEF GuardsSpec
=============================================================================
