---------------------------- MODULE StateMachine ----------------------------
(***************************************************************************)
(* One StateMachine object (core/state-machine/state-machine.ts): the      *)
(* current state record, the transition history, and the snapshot taken    *)
(* last, from which fromSnapshot builds a machine again.  An event comes   *)
(* from the model (llm) or from the runtime; a rejected apply() throws and *)
(* changes nothing.                                                        *)
(***************************************************************************)
EXTENDS AgentPhases, Sequences, FiniteSets

CONSTANTS EvidenceIds, \* evidence an event may cite
          Offers,      \* the calls of apply(): event, emitter and evidence
          MaxHistory   \* bound: transitions recorded in one history

Calls == [event: StateEvents, llm: BOOLEAN, evidence: SUBSET EvidenceIds]

ASSUME OffersAreCalls == Offers \subseteq Calls
ASSUME MaxHistoryNat == MaxHistory \in Nat

VARIABLES machine,  \* the immutable AgentState, replaced by every apply
          history,  \* StateTransition records, oldest first
          saved     \* the last SmSnapshot, at first that of the new machine

vars == <<machine, history, saved>>

Transition == [from: Phases, to: Phases, event: StateEvents,
               evidence: SUBSET EvidenceIds, llm: BOOLEAN]

NoSnapshot == [machine |-> NewMachine("INIT"), history |-> <<>>]

SmSnapshot == [machine: Machine, history: Seq(Transition)]

TypeOK ==
  /\ machine \in Machine
  /\ history \in Seq(Transition)
  /\ saved \in SmSnapshot

Init ==
  /\ machine = NewMachine("INIT")
  /\ history = <<>>
  /\ saved = NoSnapshot

\* apply(): validate, gate, replace the state, push the transition.  The
\* "llm" flag is not stored by the code; it is kept here for the properties.
Apply(ev, llm, evidence, to) ==
  /\ Len(history) < MaxHistory
  /\ ValidTransition(machine.phase, ev, llm, to)
  /\ EvidenceGate(machine.phase, ev, to, evidence)
  /\ machine' = Advance(machine, to)
  /\ history' = Append(history, [from |-> machine.phase, to |-> to,
                                 event |-> ev, evidence |-> evidence,
                                 llm |-> llm])
  /\ UNCHANGED saved

ToSnapshot ==
  /\ saved' = [machine |-> machine, history |-> history]
  /\ UNCHANGED <<machine, history>>

FromStateOnly == \* mutant of FromSnapshot: the history is not restored
  /\ machine' = saved.machine
  /\ UNCHANGED <<history, saved>>
FromSnapshot ==
  /\ machine' = saved.machine
  /\ history' = saved.history
  /\ UNCHANGED saved

Next ==
  \/ \E call \in Offers, to \in Phases :
        Apply(call.event, call.llm, call.evidence, to)
  \/ ToSnapshot
  \/ FromSnapshot

Spec == Init /\ [][Next]_vars
-----------------------------------------------------------------------------
\* Properties

Entries(h, phase) == {i \in DOMAIN h : h[i].to = phase}

\* The history is a connected walk from INIT to the current phase, also
\* after a machine was rebuilt from a snapshot: replaying the log
\* reproduces the phase (deterministic replay).
Connected(h, phase) ==
  /\ h # <<>> => /\ h[1].from = "INIT"
                 /\ h[Len(h)].to = phase
  /\ h = <<>> => phase = "INIT"
  /\ \A i \in 2..Len(h) : h[i].from = h[i-1].to
HistoryIsAWalk == Connected(history, machine.phase)

\* The two counters equal what the history says: VERIFY entries, and REPAIR
\* entries since the last fresh start (PLAN or IMPLEMENT).
FreshStart(h) ==
  LET starts == Entries(h, "PLAN") \cup Entries(h, "IMPLEMENT")
  IN  IF starts = {} THEN 0 ELSE CHOOSE i \in starts : \A j \in starts : j <= i
CountersMatchHistory ==
  /\ machine.iterationCount = Cardinality(Entries(history, "VERIFY"))
  /\ machine.repairCount =
       Cardinality({i \in Entries(history, "REPAIR") : i > FreshStart(history)})

\* A machine is DONE only through VERIFY with evidence, or by a human out of
\* HUMAN_REQUIRED; never by an event the model emitted for itself unless a
\* human had been called in.
DoneRow(row) ==
  row.to = "DONE" => \/ row.from = "VERIFY" /\ row.evidence # {} /\ ~row.llm
                     \/ row.from = "HUMAN_REQUIRED" /\ ~row.llm
DoneIsProved(h) == \A i \in DOMAIN h : DoneRow(h[i])
DoneNeedsEvidenceOrHuman == DoneIsProved(history)

\* A terminal phase is the last one of every history: nothing follows it.
Final(h) == \A i \in DOMAIN h : h[i].from \notin TerminalPhases
NothingAfterTerminal == Final(history)

\* A machine that reached a phase past planning went through IMPLEMENT or a
\* human first: verification never runs on work nobody did.
ImplementBefore(h) ==
  \A i \in Entries(h, "VERIFY") : \E j \in 1..(i-1) :
     h[j].to \in {"IMPLEMENT", "HUMAN_REQUIRED"}
VerifyFollowsWork == ImplementBefore(history)
=============================================================================
