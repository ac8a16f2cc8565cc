---------------------------- MODULE DurableState ----------------------------
(***************************************************************************)
(* DefaultStateStore (infra/persistence) on one of its event stores: the   *)
(* in-memory one or the JSONL file.  transition() validates an event,      *)
(* awaits the append of a record, and then applies the event to the        *)
(* machine as it is by now; calls interleave at the awaits.  Appends may   *)
(* fail, also half way through a line, and the process may restart, which  *)
(* keeps nothing but the file.  One task: tasks share no state.            *)
(***************************************************************************)
EXTENDS AgentPhases, Sequences, FiniteSets, SequencesExt

CONSTANTS Callers,
          Offers,      \* calls of transition(): event, emitter, evidence
          EvidenceIds,
          Backends,    \* the event stores tried
          MaxRecords   \* bound: records whose append was begun

Calls == [event: StateEvents, llm: BOOLEAN, evidence: SUBSET EvidenceIds]

ASSUME DurableConstants ==
  /\ Offers \subseteq Calls
  /\ Backends \subseteq {"memory", "jsonl"}
  /\ MaxRecords \in Nat

VARIABLES backend, serial, \* fixed for the run; serial: callers take turns
          machine,   \* stateMachines.get(task); absent reads as a new one
          history,   \* histories.get(task)
          log,       \* the records getEvents can read, in file order
          tail,      \* how the file ends: "ended", or with a torn line that
                     \* is not readable ("junk") or is ("record")
          call,      \* what each caller awaits
          nextId,    \* record ids are created anew
          acked,     \* history: the records whose append was acknowledged
          tears,     \* history: appends that left a torn line
          life       \* history: Len(acked) when the process last started

vars == <<backend, serial, machine, history, log, tail, call, nextId, acked,
          tears, life>>

StateEventRecord == [id: Nat, event: StateEvents, from: Phases, to: Phases,
                     evidence: SUBSET EvidenceIds, seq: Nat \ {0}]
Idle == [at |-> "idle"]
Pending == [at: {"reading", "writing", "logged"}, offer: Offers, from: Phases,
            to: Phases, seq: Nat, id: Nat]

\* The phase an event leads to, for callers that know it is on the whitelist.
Target(from, ev) == CHOOSE to \in Phases : TransitionRule(from, ev, to)
Valid(from, offer) ==
  \E to \in Phases : ValidTransition(from, offer.event, offer.llm, to)

AnyEvent(from, offer) == \* mutant of Admitted: validated only by apply()
  \E phase \in Phases : Valid(phase, offer)
Admitted(from, offer) == Valid(from, offer)

\* What transition() holds across its awaits.
NewCall(offer, from) ==
  [at |-> "reading", offer |-> offer, from |-> from, seq |-> 0, id |-> nextId,
   to |-> IF Valid(from, offer) THEN Target(from, offer.event) ELSE from]

\* evidence is not stored by the code; it is kept here for the properties.
NewRecord(pending, seq) ==
  [id |-> pending.id, event |-> pending.offer.event, from |-> pending.from,
   to |-> pending.to, evidence |-> pending.offer.evidence, seq |-> seq]

SequenceFromZero == Len(log) \* mutant of SequenceNumber
SequenceOfAcked == Len(acked) + 1 \* mutant of SequenceNumber: a counter
SequenceNumber == Len(log) + 1
-----------------------------------------------------------------------------
\* A whole line and its newline are appended.  On a torn line the two become
\* one line that cannot be read.
Written(record) ==
  /\ log' = CASE tail = "ended"  -> Append(log, record)
              [] tail = "junk"   -> log
              [] tail = "record" -> Front(log)
  /\ tail' = "ended"
  /\ acked' = Append(acked, record)

\* transition(), up to its first await: an event that is not valid in the
\* phase as it is now throws, and changes nothing.
Begin(c, offer) ==
  /\ call[c] = Idle
  /\ serial => \A d \in Callers : call[d] = Idle
  /\ nextId < MaxRecords
  /\ Admitted(machine.phase, offer)
  /\ nextId' = nextId + 1

\* DefaultEventStore.append does not await before it has pushed the record.
TransitionInMemory(c, offer) ==
  LET pending == NewCall(offer, machine.phase)
  IN  /\ backend = "memory"
      /\ Begin(c, offer)
      /\ Written(NewRecord(pending, SequenceNumber))
      /\ call' = [call EXCEPT ![c] = [pending EXCEPT !.at = "logged"]]
      /\ UNCHANGED <<backend, serial, machine, history, tears, life>>

TransitionOnFile(c, offer) ==
  /\ backend = "jsonl"
  /\ Begin(c, offer)
  /\ call' = [call EXCEPT ![c] = NewCall(offer, machine.phase)]
  /\ UNCHANGED <<backend, serial, machine, history, log, tail, acked, tears,
                 life>>

\* JsonlEventStore.append: read the events, number the record, append it.
ReadEvents(c) ==
  /\ call[c].at = "reading"
  /\ call' = [call EXCEPT ![c].at = "writing", ![c].seq = SequenceNumber]
  /\ UNCHANGED <<backend, serial, machine, history, log, tail, nextId, acked,
                 tears, life>>

AppendLine(c) ==
  /\ call[c].at = "writing"
  /\ Written(NewRecord(call[c], call[c].seq))
  /\ call' = [call EXCEPT ![c].at = "logged"]
  /\ UNCHANGED <<backend, serial, machine, history, nextId, tears, life>>

\* appendFile rejects, having written nothing, a part of the line, or all of
\* it but the newline: transition() throws before it touches the machine.
TornRewrite(kind, record) == \* mutant of Torn: the file is written anew
  /\ log' = <<>>
  /\ tail' = "ended"
Torn(kind, record) ==
  /\ log' = CASE tail = "record" -> Front(log)
              [] tail = "ended" /\ kind = "record" -> Append(log, record)
              [] OTHER -> log
  /\ tail' = IF tail = "ended" THEN kind ELSE "junk"

Swallowed(c) == [call EXCEPT ![c].at = "logged"] \* mutant of Rejected
Rejected(c) == [call EXCEPT ![c] = Idle]

AppendFails(c) ==
  /\ call[c].at = "writing"
  /\ call' = Rejected(c)
  /\ \/ UNCHANGED <<log, tail, tears>>
     \/ \E kind \in {"junk", "record"} :
           /\ Torn(kind, NewRecord(call[c], call[c].seq))
           /\ tears' = tears + 1
  /\ UNCHANGED <<backend, serial, machine, history, nextId, acked, life>>

\* sm.apply(event) on the machine as it is now, or its refusal.
ApplyUnchecked(c, from) == TRUE \* mutant of Applies
Applies(c, from) ==
  LET offer == call[c].offer
  IN  /\ Valid(from, offer)
      /\ EvidenceGate(from, offer.event, Target(from, offer.event),
                      offer.evidence)

Commit(c) ==
  LET from  == machine.phase
      offer == call[c].offer
      to    == IF Valid(from, offer) THEN Target(from, offer.event)
                                     ELSE call[c].to
  IN  /\ call[c].at = "logged"
      /\ call' = [call EXCEPT ![c] = Idle]
      /\ IF Applies(c, from)
         THEN /\ machine' = Advance(machine, to)
              /\ history' = Append(history, [from |-> from, to |-> to,
                              event |-> offer.event,
                              evidence |-> offer.evidence])
         ELSE UNCHANGED <<machine, history>>
      /\ UNCHANGED <<backend, serial, log, tail, nextId, acked, tears, life>>

\* The process dies and starts again: calls, machines, histories and the
\* in-memory log are gone.  Nothing is rebuilt from the file.
Restart ==
  /\ machine' = NewMachine("INIT")
  /\ history' = <<>>
  /\ call' = [c \in Callers |-> Idle]
  /\ log' = IF backend = "memory" THEN <<>> ELSE log
  /\ acked' = IF backend = "memory" THEN <<>> ELSE acked
  /\ life' = Len(acked')
  /\ UNCHANGED <<backend, serial, tail, nextId, tears>>

Init ==
  /\ backend \in Backends
  /\ serial \in BOOLEAN
  /\ machine = NewMachine("INIT")
  /\ history = <<>>
  /\ log = <<>>
  /\ tail = "ended"
  /\ call = [c \in Callers |-> Idle]
  /\ nextId = 0
  /\ acked = <<>>
  /\ tears = 0
  /\ life = 0

CallerStep(c) ==
  \/ \E offer \in Offers :
        TransitionInMemory(c, offer) \/ TransitionOnFile(c, offer)
  \/ ReadEvents(c) \/ AppendLine(c) \/ AppendFails(c)
  \/ Commit(c)

Next == (\E c \in Callers : CallerStep(c)) \/ Restart

Spec == Init /\ [][Next]_vars
-----------------------------------------------------------------------------
\* Properties

TypeOK ==
  /\ backend \in Backends /\ serial \in BOOLEAN
  /\ machine \in Machine
  /\ history \in Seq([from: Phases, to: Phases, event: StateEvents,
                      evidence: SUBSET EvidenceIds])
  /\ log \in Seq(StateEventRecord) /\ acked \in Seq(StateEventRecord)
  /\ tail \in {"ended", "junk", "record"}
  /\ tail = "record" => log # <<>>
  /\ call \in [Callers -> Pending \cup {Idle}]
  /\ \A c \in Callers : call[c].at = "writing" => call[c].seq # 0
  /\ nextId \in Nat /\ tears \in Nat
  /\ life \in 0..Len(acked)

RowOf(r) == [from |-> r.from, to |-> r.to, event |-> r.event,
             evidence |-> r.evidence]
Uses(ev) == {i \in DOMAIN history : history[i].event = ev}
AcksOf(ev) == {i \in (life + 1)..Len(acked) : acked[i].event = ev}
Quiet == \A c \in Callers : call[c].at # "logged"

\* What transition() is written for: a transition is only applied after its
\* event was persisted, so since the process started no event was applied more
\* often than it was acknowledged by the store, whatever calls interleave or
\* fail.
AppliedIsAcked ==
  \A ev \in StateEvents : Cardinality(Uses(ev)) <= Cardinality(AcksOf(ev))

\* Of the first n acknowledged records, those since the process started that
\* the evidence gate lets pass: the k-th of them is the k-th transition.
Passed(n) ==
  {i \in (life + 1)..n :
     EvidenceGate(acked[i].from, acked[i].event, acked[i].to, acked[i].evidence)}
AppliedUpTo(n) ==
  /\ Len(history) = Cardinality(Passed(n))
  /\ \A i \in Passed(n) :
       history[Cardinality({j \in Passed(n) : j <= i})] = RowOf(acked[i])

\* When calls take turns, the events acknowledged since the process started
\* are the transitions applied, in order, and besides them only events the
\* evidence gate refused after they were persisted.
AckedIsApplied == serial /\ Quiet => AppliedUpTo(Len(acked))

\* When calls take turns, the records that can be read are numbered 1, 2, 3...
\* in file order, also after torn lines and restarts.
NumbersArePositions == serial => \A i \in DOMAIN log : log[i].seq = i

\* Read in file order, the log tells what happened: both of the above.
LogTellsHistory == AckedIsApplied /\ NumbersArePositions

\* A torn line costs no more than one acknowledged record: the one that is
\* written right after it.
LossBounded ==
  Cardinality({i \in DOMAIN acked : \A j \in DOMAIN log : log[j].id # acked[i].id})
    <= tears

\* The machine is what its history says, and is DONE only with evidence, also
\* when other calls moved it between an event's validation and its apply().
StateFollowsHistory ==
  /\ history = <<>> => machine.phase = "INIT"
  /\ history # <<>> => machine.phase = Last(history).to
  /\ \A i \in DOMAIN history :
       LET h == history[i]
       IN  /\ h.from = IF i = 1 THEN "INIT" ELSE history[i-1].to
           /\ h.from \notin TerminalPhases
           /\ h.to = "DONE" => h.evidence # {} \/ h.from = "HUMAN_REQUIRED"

\* What is applied was persisted before, and leads where its record says.
NothingAppliedUnlogged == AppliedIsAcked /\ StateFollowsHistory

\* core/interfaces/event-store.ts: the log is "for event sourcing and state
\* reconstruction".  With calls that take turns and no failed write, the last
\* record names the phase the machine is in.
LogReconstructsState ==
  serial /\ Quiet /\ life = 0 /\ tears = 0 /\ log # <<>> =>
    Last(log).to = machine.phase
=============================================================================
