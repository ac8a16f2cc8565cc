------------------------- MODULE DurableStateProofs -------------------------
(***************************************************************************)
(* Proofs about DurableState for any number of callers, records, failed    *)
(* writes and restarts, on either event store.  The invariant counts what  *)
(* is on its way: an acknowledged event is applied or still held by a call *)
(* (AcksCover), and a torn line has cost its record or is the one the file *)
(* ends with (TearsPayForLoss, which needs that ids are given out once).   *)
(* When calls take turns it also says that what a call read before its     *)
(* awaits is still so after them (ReadIsStillSo).  The second part is on   *)
(* MemoryRecords: what a call has read before its awaits was as good as    *)
(* what is stored, although nothing keeps two calls apart (CallFine).  The *)
(* third is on SqliteStores: of the copies of a session one has its log,   *)
(* and the others are beginnings of it (TreeInv); what was noted is where  *)
(* a waiting consolidation does not delete it, or in what it has listed    *)
(* (NotesInv); and what a query does to traces, step by step.              *)
(***************************************************************************)
EXTENDS DurableState, MemoryRecords, SqliteStores, FiniteSetTheorems,
        SequenceTheorems, WellFoundedInduction, TLAPS

Busy(c) == call[c].at # "idle"
Logged(c) == call[c].at = "logged"

\* An id belongs to one call; a record that may still be written is not
\* acknowledged yet, and a torn one never will be.
IdsAreOwn ==
  /\ \A c, d \in Callers : Busy(c) /\ Busy(d) /\ c # d => call[c].id # call[d].id
  /\ \A c \in Callers : Busy(c) => call[c].id < nextId
  /\ \A i \in DOMAIN acked :
       /\ acked[i].id < nextId
       /\ \A c \in Callers : call[c].at \in {"reading", "writing"} => acked[i].id # call[c].id
       /\ tail = "record" => acked[i].id # log[Len(log)].id
  /\ tail = "record" =>
       /\ log[Len(log)].id < nextId
       /\ \A c \in Callers : Busy(c) => call[c].id # log[Len(log)].id

\* An in-memory append does not await.
MemoryIsWhole ==
  backend = "memory" =>
    /\ tail = "ended"
    /\ \A c \in Callers : call[c].at \in {"idle", "logged"}

\* Each torn line has cost its record, but for the one the file still ends with.
Lost == {i \in DOMAIN acked : \A j \in DOMAIN log : log[j].id # acked[i].id}
TearsPayForLoss == Cardinality(Lost) + (IF tail = "ended" THEN 0 ELSE 1) <= tears

\* What is acknowledged and not yet applied is on its way.
OnTheWay(ev) == {c \in Callers : Logged(c) /\ call[c].offer.event = ev}
AcksCover ==
  \A ev \in StateEvents :
    /\ IsFiniteSet(OnTheWay(ev))
    /\ Cardinality(Uses(ev)) + Cardinality(OnTheWay(ev)) <= Cardinality(AcksOf(ev))

\* With calls in turn, what transition() has read is still so after its awaits.
ReadIsStillSo ==
  serial =>
    /\ \A c, d \in Callers : Busy(c) /\ Busy(d) => c = d
    /\ \A c \in Callers : Busy(c) =>
         /\ call[c].from = machine.phase
         /\ Valid(machine.phase, call[c].offer)
         /\ call[c].to = Target(machine.phase, call[c].offer.event)
    /\ \A c \in Callers : call[c].at = "writing" => call[c].seq = Len(log) + 1
    /\ \A c \in Callers : Logged(c) =>
         /\ life < Len(acked)
         /\ RowOf(acked[Len(acked)]) = [from |-> call[c].from, to |-> call[c].to,
              event |-> call[c].offer.event, evidence |-> call[c].offer.evidence]
         /\ AppliedUpTo(Len(acked) - 1)

IInv == /\ TypeOK /\ IdsAreOwn /\ MemoryIsWhole /\ TearsPayForLoss /\ AcksCover
        /\ ReadIsStillSo /\ StateFollowsHistory /\ LogTellsHistory
-----------------------------------------------------------------------------
\* What is left of a sequence without its last element.
LEMMA FrontFacts ==
  ASSUME NEW S, NEW s \in Seq(S), s # <<>>
  PROVE  /\ Front(s) \in Seq(S) /\ Len(Front(s)) = Len(s) - 1
         /\ \A i \in 1..(Len(s) - 1) : Front(s)[i] = s[i]
<1>1. Len(s) \in Nat \ {0} /\ 1 \in Int /\ Front(s) = SubSeq(s, 1, Len(s) - 1)
  BY DEF Front
<1>2. \A i \in 1..(Len(s) - 1) : s[i] \in S
  BY <1>1
<1>3. Front(s) \in Seq(S)
  BY <1>1, <1>2, SubSeqProperties
<1>4. Len(Front(s)) = Len(s) - 1
  <2> DEFINE n == Len(s) - 1
  <2>1. Len(SubSeq(s, 1, n)) = IF 1 <= n THEN n - 1 + 1 ELSE 0
    BY <1>1, <1>2, SubSeqProperties
  <2>2. n \in Nat /\ n = Len(s) - 1 /\ Front(s) = SubSeq(s, 1, n)
    BY <1>1
  <2> HIDE DEF n
  <2>3. (IF 1 <= n THEN n - 1 + 1 ELSE 0) = n
    BY <2>2
  <2> QED BY <2>1, <2>2, <2>3, Zenon
<1>5. \A i \in 1..(Len(s) - 1) : Front(s)[i] = s[i]
  BY <1>1
<1>6. QED
  BY <1>3, <1>4, <1>5

\* What a sequence gains by one element.
LEMMA AppendFacts ==
  ASSUME NEW S, NEW s \in Seq(S), NEW e \in S
  PROVE  /\ Append(s, e) \in Seq(S) /\ Len(Append(s, e)) = Len(s) + 1
         /\ Append(s, e)[Len(s) + 1] = e /\ \A i \in DOMAIN s : Append(s, e)[i] = s[i]
         /\ Len(s) \in Nat /\ DOMAIN s = 1..Len(s)
         /\ DOMAIN Append(s, e) = 1..(Len(s) + 1) /\ Append(s, e) # <<>>
OBVIOUS

\* What the types say of records and calls.
LEMMA TypeFacts ==
  ASSUME TypeOK
  PROVE  /\ nextId \in Nat /\ tears \in Nat /\ life \in 0..Len(acked)
         /\ Len(acked) \in Nat /\ DOMAIN acked = 1..Len(acked)
         /\ \A i \in DOMAIN acked : acked[i] \in StateEventRecord /\ acked[i].id \in Nat
         /\ Len(log) \in Nat /\ DOMAIN log = 1..Len(log)
         /\ \A j \in DOMAIN log : log[j] \in StateEventRecord /\ log[j].id \in Nat
         /\ tail = "record" => Len(log) \in DOMAIN log
         /\ \A c \in Callers : call[c].at # "idle" => call[c].id \in Nat
<1>1. log \in Seq(StateEventRecord) /\ acked \in Seq(StateEventRecord)
  BY DEF TypeOK
<1>2. nextId \in Nat /\ tears \in Nat /\ life \in 0..Len(acked)
  BY DEF TypeOK
<1>3. \A r \in StateEventRecord : r.id \in Nat
  BY DEF StateEventRecord
<1>4. \A c \in Callers : call[c].at # "idle" => call[c].id \in Nat
  BY DEF TypeOK, Pending, Idle
<1>5. tail = "record" => log # <<>>
  BY DEF TypeOK
<1>7. Len(log) \in Nat /\ DOMAIN log = 1..Len(log) /\ (log # <<>> => Len(log) \in DOMAIN log)
      /\ \A j \in DOMAIN log : log[j] \in StateEventRecord
  BY <1>1
<1>8. Len(acked) \in Nat /\ DOMAIN acked = 1..Len(acked)
      /\ \A i \in DOMAIN acked : acked[i] \in StateEventRecord
  BY <1>1
<1> QED
  BY <1>2, <1>3, <1>4, <1>5, <1>7, <1>8

\* A whole line is added to what was acknowledged; in the file it is added, or
\* lost together with the torn line before it.
LEMMA WrittenFacts ==
  ASSUME TypeOK, NEW record \in StateEventRecord, Written(record)
  PROVE  /\ tail' = "ended"
         /\ acked' \in Seq(StateEventRecord) /\ Len(acked') = Len(acked) + 1
         /\ acked'[Len(acked) + 1] = record
         /\ \A i \in DOMAIN acked : acked'[i] = acked[i]
         /\ log' \in Seq(StateEventRecord)
         /\ tail = "ended" => /\ Len(log') = Len(log) + 1 /\ log'[Len(log) + 1] = record
                              /\ \A j \in DOMAIN log : log'[j] = log[j]
         /\ tail = "junk" => log' = log
         /\ tail = "record" => /\ Len(log) \in Nat \ {0} /\ Len(log') = Len(log) - 1
                               /\ \A j \in 1..(Len(log) - 1) : log'[j] = log[j]
<1>1. log \in Seq(StateEventRecord) /\ acked \in Seq(StateEventRecord)
      /\ tail \in {"ended", "junk", "record"} /\ (tail = "record" => log # <<>>)
  BY DEF TypeOK
<1>2. acked' = Append(acked, record) /\ tail' = "ended"
  BY DEF Written
<1>3. CASE tail = "ended"
  <2>1. log' = Append(log, record)
    BY <1>3 DEF Written
  <2> QED BY <1>1, <1>2, <1>3, <2>1
<1>4. CASE tail = "junk"
  <2>1. log' = log
    BY <1>4 DEF Written
  <2> QED BY <1>1, <1>2, <1>4, <2>1
<1>5. CASE tail = "record"
  <2>1. log' = Front(log)
    BY <1>5 DEF Written
  <2>2. Len(log) \in Nat \ {0}
    BY <1>1, <1>5
  <2> QED BY <1>1, <1>2, <1>5, <2>1, <2>2, FrontFacts
<1> QED BY <1>1, <1>3, <1>4, <1>5

\* A torn line may be readable; what was torn before it is then lost.
LEMMA TornFacts ==
  ASSUME TypeOK, NEW kind \in {"junk", "record"}, NEW record \in StateEventRecord,
         Torn(kind, record)
  PROVE  /\ tail' \in {"junk", "record"} /\ log' \in Seq(StateEventRecord)
         /\ tail' = "record" => /\ tail = "ended" /\ kind = "record"
                                /\ Len(log') = Len(log) + 1 /\ log'[Len(log) + 1] = record
                                /\ \A j \in DOMAIN log : log'[j] = log[j]
         /\ tail # "record" /\ tail' = "junk" => log' = log
         /\ tail = "record" => /\ Len(log) \in Nat \ {0} /\ Len(log') = Len(log) - 1
                               /\ \A j \in 1..(Len(log) - 1) : log'[j] = log[j]
<1>1. log \in Seq(StateEventRecord)
      /\ tail \in {"ended", "junk", "record"} /\ (tail = "record" => log # <<>>)
  BY DEF TypeOK
<1>2. tail' = IF tail = "ended" THEN kind ELSE "junk"
  BY DEF Torn
<1>3. CASE tail = "ended" /\ kind = "record"
  <2>1. log' = Append(log, record)
    BY <1>3 DEF Torn
  <2> QED BY <1>1, <1>2, <1>3, <2>1
<1>4. CASE tail = "junk" \/ (tail = "ended" /\ kind = "junk")
  <2>1. log' = log
    BY <1>4 DEF Torn
  <2> QED BY <1>1, <1>2, <1>4, <2>1
<1>5. CASE tail = "record"
  <2>1. log' = Front(log)
    BY <1>5 DEF Torn
  <2>2. Len(log) \in Nat \ {0}
    BY <1>1, <1>5
  <2> QED BY <1>1, <1>2, <1>5, <2>1, <2>2, FrontFacts
<1>6. \/ tail = "ended" /\ kind = "record"
      \/ tail = "junk" \/ (tail = "ended" /\ kind = "junk")
      \/ tail = "record"
  BY <1>1
<1> QED BY <1>3, <1>4, <1>5, <1>6

\* The target of a valid event is a phase the whitelist gives.
LEMMA TargetIsRule ==
  ASSUME NEW from, NEW offer, Valid(from, offer)
  PROVE  /\ Target(from, offer.event) \in Phases
         /\ TransitionRule(from, offer.event, Target(from, offer.event))
         /\ from \notin TerminalPhases
<1>1. \E to \in Phases : TransitionRule(from, offer.event, to)
  BY DEF Valid, ValidTransition
<1>2. QED
  BY <1>1 DEF Target, Valid, ValidTransition

\* A machine that advances is one, in the phase it advances to.
LEMMA AdvanceFacts ==
  ASSUME NEW m \in Machine, NEW to \in Phases
  PROVE  Advance(m, to) \in Machine /\ Advance(m, to).phase = to
BY DEF Machine, Advance

\* A call in flight carries an offer; so its record is one.
LEMMA CallFacts ==
  ASSUME TypeOK, NEW c \in Callers
  PROVE  /\ call[c] = Idle <=> ~Busy(c)
         /\ Busy(c) => /\ call[c] \in Pending /\ call[c].offer \in Calls
                       /\ \A seq \in Nat \ {0} : NewRecord(call[c], seq) \in StateEventRecord
<1>1. call[c] \in Pending \cup {Idle} /\ Offers \subseteq Calls
  BY DurableConstants DEF TypeOK
<1>2. Idle.at = "idle"
  BY DEF Idle
<1>3. CASE call[c] \in Pending
  <2>1. Busy(c) /\ call[c].offer \in Calls
    BY <1>1, <1>3 DEF Pending, Busy
  <2>2. call[c] # Idle
    BY <1>2, <2>1 DEF Busy
  <2> QED
    BY <1>3, <2>1, <2>2 DEF Pending, NewRecord, StateEventRecord, Calls
<1> QED
  BY <1>1, <1>2, <1>3 DEF Busy

\* The steps of the specification, one by one.
LEMMA StepKinds ==
  ASSUME [Next]_vars
  PROVE  \/ \E c \in Callers, offer \in Offers : TransitionInMemory(c, offer)
         \/ \E c \in Callers, offer \in Offers : TransitionOnFile(c, offer)
         \/ \E c \in Callers : ReadEvents(c)
         \/ \E c \in Callers : AppendLine(c)
         \/ \E c \in Callers : AppendFails(c)
         \/ \E c \in Callers : Commit(c)
         \/ Restart
         \/ UNCHANGED vars
BY DEF Next, CallerStep

\* What transition() holds when it begins: a record that says where it leads.
LEMMA NewCallFacts ==
  ASSUME TypeOK, NEW c \in Callers, NEW offer \in Offers, Begin(c, offer)
  PROVE  LET pending == NewCall(offer, machine.phase)
         IN  /\ pending.from = machine.phase /\ machine.phase \in Phases
             /\ pending.to = Target(machine.phase, offer.event) /\ pending.to \in Phases
             /\ pending.offer = offer /\ pending.id = nextId /\ pending.at = "reading"
             /\ pending \in Pending /\ [pending EXCEPT !.at = "logged"] \in Pending
             /\ \A seq \in Nat \ {0} : NewRecord(pending, seq) \in StateEventRecord
             /\ Valid(machine.phase, offer)
<1>1. Valid(machine.phase, offer)
  BY DEF Begin, Admitted
<1>2. Target(machine.phase, offer.event) \in Phases
  BY <1>1, TargetIsRule
<1>3. machine.phase \in Phases /\ nextId \in Nat
  BY DEF TypeOK, Machine
<1>4. offer \in Calls
  BY DurableConstants
<1> QED
  BY <1>1, <1>2, <1>3, <1>4 DEF NewCall, Pending, NewRecord, StateEventRecord, Calls

CallsTyped == /\ call \in [Callers -> Pending \cup {Idle}]
              /\ \A c \in Callers : call[c].at = "writing" => call[c].seq # 0
\* A step that changes one call keeps the types of all.
LEMMA CallSet ==
  ASSUME TypeOK, NEW c \in Callers, NEW x \in Pending \cup {Idle},
         x.at = "writing" => x.seq # 0, call' = [call EXCEPT ![c] = x]
  PROVE  CallsTyped'
<1>1. CallsTyped
  BY DEF TypeOK, CallsTyped
<1> QED
  BY <1>1 DEF CallsTyped

\* Every step keeps the types.
LEMMA TypesKept ==
  ASSUME TypeOK, MemoryIsWhole, [Next]_vars
  PROVE  TypeOK'
<1>1. ASSUME NEW c \in Callers, NEW offer \in Offers, TransitionInMemory(c, offer)
      PROVE  TypeOK'
  <2>1. SequenceNumber \in Nat \ {0}
    BY DEF TypeOK, SequenceNumber
  <2> DEFINE record == NewRecord(NewCall(offer, machine.phase), SequenceNumber)
  <2>2. record \in StateEventRecord /\ Written(record)
    BY <1>1, <2>1, NewCallFacts DEF TransitionInMemory
  <2> HIDE DEF record
  <2>3. life \in 0..Len(acked')
    <3>1. Len(acked') = Len(acked) + 1 /\ life \in 0..Len(acked) /\ Len(acked) \in Nat
      BY <2>2, WrittenFacts DEF TypeOK
    <3> QED BY <3>1
  <2> DEFINE x == [NewCall(offer, machine.phase) EXCEPT !.at = "logged"]
  <2>4. call' = [call EXCEPT ![c] = x] /\ x \in Pending /\ x.at # "writing"
    BY <1>1, NewCallFacts DEF TransitionInMemory, Pending
  <2> HIDE DEF x
  <2>6. CallsTyped'
    BY <2>4, CallSet
  <2>5. nextId' \in Nat
    BY <1>1 DEF TransitionInMemory, Begin, TypeOK
  <2> QED
    BY <1>1, <2>2, <2>3, <2>5, <2>6, WrittenFacts DEF TransitionInMemory, TypeOK, CallsTyped
<1>2. ASSUME NEW c \in Callers, NEW offer \in Offers, TransitionOnFile(c, offer)
      PROVE  TypeOK'
  <2>1. CallsTyped'
    BY <1>2, NewCallFacts, CallSet DEF TransitionOnFile
  <2>2. nextId' \in Nat
    BY <1>2 DEF TransitionOnFile, Begin, TypeOK
  <2> QED
    BY <1>2, <2>1, <2>2 DEF TransitionOnFile, TypeOK, CallsTyped
<1>3. ASSUME NEW c \in Callers, ReadEvents(c) PROVE TypeOK'
  <2>1. Busy(c)
    BY <1>3 DEF ReadEvents, Busy
  <2>2. SequenceNumber \in Nat \ {0}
    BY DEF TypeOK, SequenceNumber
  <2> DEFINE x == [call[c] EXCEPT !.at = "writing", !.seq = SequenceNumber]
  <2>3. x \in Pending /\ x.seq # 0
    BY <2>1, <2>2, CallFacts DEF Pending
  <2>4. call' = [call EXCEPT ![c] = x]
    BY <1>3 DEF ReadEvents, TypeOK
  <2> HIDE DEF x
  <2>5. CallsTyped'
    BY <2>3, <2>4, CallSet
  <2> QED
    BY <1>3, <2>5 DEF ReadEvents, TypeOK, CallsTyped
<1>4. ASSUME NEW c \in Callers, AppendLine(c) PROVE TypeOK'
  <2> DEFINE record == NewRecord(call[c], call[c].seq)
  <2>1. Busy(c) /\ call[c].seq \in Nat \ {0} /\ Written(record)
    BY <1>4, CallFacts DEF AppendLine, Busy, TypeOK, Pending
  <2>2. record \in StateEventRecord /\ [call[c] EXCEPT !.at = "logged"] \in Pending
    BY <2>1, CallFacts DEF Pending
  <2> HIDE DEF record
  <2>3. life \in 0..Len(acked')
    <3>1. Len(acked') = Len(acked) + 1 /\ life \in 0..Len(acked) /\ Len(acked) \in Nat
      BY <2>1, <2>2, WrittenFacts DEF TypeOK
    <3> QED BY <3>1
  <2> DEFINE x == [call[c] EXCEPT !.at = "logged"]
  <2>4. call' = [call EXCEPT ![c] = x] /\ x.at # "writing"
    BY <1>4, <2>2 DEF AppendLine, TypeOK, Pending
  <2>5. CallsTyped'
    BY <2>2, <2>4, CallSet
  <2> QED
    BY <1>4, <2>1, <2>2, <2>3, <2>5, WrittenFacts DEF AppendLine, TypeOK, CallsTyped
<1>5. ASSUME NEW c \in Callers, AppendFails(c) PROVE TypeOK'
  <2>1. Busy(c) /\ call[c].seq \in Nat \ {0}
    BY <1>5, CallFacts DEF AppendFails, Busy, TypeOK, Pending
  <2>2. NewRecord(call[c], call[c].seq) \in StateEventRecord
    BY <2>1, CallFacts
  <2>3. log' \in Seq(StateEventRecord) /\ tail' \in {"ended", "junk", "record"}
        /\ tears' \in Nat /\ (tail' = "record" => log' # <<>>)
    <3>1. CASE UNCHANGED <<log, tail, tears>>
      BY <3>1 DEF TypeOK
    <3>2. ASSUME NEW kind \in {"junk", "record"}, tears' = tears + 1,
                 Torn(kind, NewRecord(call[c], call[c].seq))
          PROVE  /\ log' \in Seq(StateEventRecord) /\ tail' \in {"ended", "junk", "record"}
                 /\ tears' \in Nat /\ (tail' = "record" => Len(log') = Len(log) + 1)
      BY <2>2, <3>2, TornFacts DEF TypeOK
    <3>3. Len(log) \in Nat
      BY DEF TypeOK
    <3> QED
      BY <1>5, <3>1, <3>2, <3>3 DEF AppendFails
  <2>4. call' = [call EXCEPT ![c] = Idle]
    BY <1>5 DEF AppendFails, Rejected
  <2>5. CallsTyped'
    BY <2>4, CallSet DEF Idle
  <2> QED
    BY <1>5, <2>3, <2>5 DEF AppendFails, TypeOK, CallsTyped
<1>6. ASSUME NEW c \in Callers, Commit(c) PROVE TypeOK'
  <2> DEFINE offer == call[c].offer
             to == Target(machine.phase, offer.event)
  <2>1. offer \in Calls /\ call[c] \in Pending
    BY <1>6, CallFacts DEF Commit, Busy
  <2>2. CallsTyped'
    <3>1. call' = [call EXCEPT ![c] = Idle]
      BY <1>6 DEF Commit
    <3> QED BY <3>1, CallSet DEF Idle
  <2>3. CASE Applies(c, machine.phase)
    <3>1. Valid(machine.phase, offer)
      BY <2>3 DEF Applies
    <3>2. to \in Phases
      BY <3>1, TargetIsRule
    <3>3. /\ machine' = Advance(machine, to)
          /\ history' = Append(history, [from |-> machine.phase, to |-> to,
                           event |-> offer.event, evidence |-> offer.evidence])
      BY <1>6, <2>3, <3>1 DEF Commit
    <3>4. machine' \in Machine /\ machine.phase \in Phases
      BY <3>2, <3>3, AdvanceFacts DEF TypeOK, Machine
    <3>5. history' \in Seq([from: Phases, to: Phases, event: StateEvents,
                            evidence: SUBSET EvidenceIds])
      BY <2>1, <3>2, <3>3, <3>4 DEF TypeOK, Calls
    <3> QED
      BY <1>6, <2>2, <3>4, <3>5 DEF Commit, TypeOK, CallsTyped
  <2>4. CASE ~Applies(c, machine.phase)
    BY <1>6, <2>2, <2>4 DEF Commit, TypeOK, CallsTyped
  <2> QED
    BY <2>3, <2>4
<1>7. CASE Restart
  <2>1. CallsTyped'
    BY <1>7 DEF Restart, CallsTyped, Idle
  <2>2. machine' \in Machine /\ history' = <<>>
    BY <1>7 DEF Restart, NewMachine, Machine, Phases, LivePhases
  <2>3. log' \in Seq(StateEventRecord) /\ acked' \in Seq(StateEventRecord)
    BY <1>7 DEF Restart, TypeOK
  <2>5. tail' = "record" => log' # <<>>
    BY <1>7 DEF Restart, TypeOK, MemoryIsWhole
  <2>4. life' \in 0..Len(acked')
    BY <1>7, <2>3 DEF Restart
  <2> QED
    BY <1>7, <2>1, <2>2, <2>3, <2>4, <2>5 DEF Restart, TypeOK, CallsTyped
<1>8. CASE UNCHANGED vars
  BY <1>8 DEF vars, TypeOK
<1> QED
  BY <1>1, <1>2, <1>3, <1>4, <1>5, <1>6, <1>7, <1>8, StepKinds

\* With the in-memory store no call is ever between its read and its write.
LEMMA MemoryKept ==
  ASSUME TypeOK, MemoryIsWhole, [Next]_vars
  PROVE  MemoryIsWhole'
<1> SUFFICES ASSUME backend = "memory"
             PROVE  tail' = "ended" /\ \A c \in Callers : call'[c].at \in {"idle", "logged"}
  BY StepKinds DEF MemoryIsWhole, TransitionInMemory, TransitionOnFile, ReadEvents,
                   AppendLine, AppendFails, Commit, Restart, vars
<1>1. tail = "ended" /\ \A c \in Callers : call[c].at \in {"idle", "logged"}
  BY DEF MemoryIsWhole
<1>2. ASSUME NEW c \in Callers, NEW offer \in Offers, TransitionInMemory(c, offer)
      PROVE  tail' = "ended" /\ \A d \in Callers : call'[d].at \in {"idle", "logged"}
  <2>1. call' = [call EXCEPT ![c] = [NewCall(offer, machine.phase) EXCEPT !.at = "logged"]]
        /\ tail' = "ended"
    BY <1>2 DEF TransitionInMemory, Written
  <2>2. [NewCall(offer, machine.phase) EXCEPT !.at = "logged"].at = "logged"
    BY DEF NewCall
  <2> QED
    BY <1>1, <2>1, <2>2 DEF TypeOK
<1>3. ASSUME NEW c \in Callers, Commit(c)
      PROVE  tail' = "ended" /\ \A d \in Callers : call'[d].at \in {"idle", "logged"}
  BY <1>1, <1>3 DEF Commit, TypeOK, Idle
<1>4. CASE Restart
  BY <1>1, <1>4 DEF Restart, Idle
<1>5. CASE UNCHANGED vars
  BY <1>1, <1>5 DEF vars
<1> QED
  BY <1>1, <1>2, <1>3, <1>4, <1>5, StepKinds
     DEF TransitionOnFile, ReadEvents, AppendLine, AppendFails

\* Only apply() moves the machine, and it writes down how.
LEMMA HistoryKept ==
  ASSUME TypeOK, StateFollowsHistory, [Next]_vars
  PROVE  StateFollowsHistory'
<1>1. ASSUME NEW c \in Callers, Commit(c), Applies(c, machine.phase)
      PROVE  StateFollowsHistory'
  <2> DEFINE offer == call[c].offer
             to == Target(machine.phase, offer.event)
             h == [from |-> machine.phase, to |-> to, event |-> offer.event,
                   evidence |-> offer.evidence]
  <2>1. Valid(machine.phase, offer) /\ EvidenceGate(machine.phase, offer.event, to, offer.evidence)
    BY <1>1 DEF Applies
  <2>2. to \in Phases /\ machine.phase \notin TerminalPhases
        /\ TransitionRule(machine.phase, offer.event, to)
    BY <2>1, TargetIsRule
  <2>3. machine' = Advance(machine, to) /\ history' = Append(history, h)
    BY <1>1, <2>1 DEF Commit
  <2>4. machine'.phase = to
    BY <2>2, <2>3, AdvanceFacts DEF TypeOK
  <2>5. to = "DONE" => offer.evidence # {} \/ machine.phase = "HUMAN_REQUIRED"
    BY <2>1, <2>2 DEF TransitionRule, EvidenceGate
  <2>6. /\ h.from = machine.phase /\ h.to = to /\ h.evidence = offer.evidence
    OBVIOUS
  <2>7. /\ Len(history') = Len(history) + 1 /\ history'[Len(history) + 1] = h
        /\ \A i \in DOMAIN history : history'[i] = history[i]
        /\ Len(history) \in Nat /\ DOMAIN history = 1..Len(history)
        /\ DOMAIN history' = 1..(Len(history) + 1) /\ history' # <<>>
    <3>1. /\ history \in Seq([from: Phases, to: Phases, event: StateEvents,
                              evidence: SUBSET EvidenceIds])
          /\ h \in [from: Phases, to: Phases, event: StateEvents, evidence: SUBSET EvidenceIds]
      BY <1>1, <2>2, CallFacts DEF TypeOK, Machine, Commit, Busy, Calls
    <3> HIDE DEF h
    <3> QED BY <2>3, <3>1, AppendFacts
  <2>8. machine.phase = IF Len(history) = 0 THEN "INIT" ELSE history[Len(history)].to
    BY <2>7 DEF StateFollowsHistory, Last, TypeOK
  <2> HIDE DEF h, to
  <2> QED
    BY <2>2, <2>4, <2>5, <2>6, <2>7, <2>8 DEF StateFollowsHistory, Last
<1>2. CASE UNCHANGED <<machine, history>>
  BY <1>2 DEF StateFollowsHistory, Last
<1>3. CASE Restart
  BY <1>3 DEF Restart, StateFollowsHistory, NewMachine
<1>4. ASSUME NEW c \in Callers, Commit(c), ~Applies(c, machine.phase)
      PROVE  UNCHANGED <<machine, history>>
  BY <1>4 DEF Commit
<1> QED
  BY <1>1, <1>2, <1>3, <1>4, StepKinds
     DEF TransitionInMemory, TransitionOnFile, ReadEvents, AppendLine, AppendFails, vars

\* Ids are given out once; what a failed append leaves is nobody's any more.
LEMMA IdsKept ==
  ASSUME TypeOK, MemoryIsWhole, IdsAreOwn, [Next]_vars
  PROVE  IdsAreOwn'
<1>1. ASSUME NEW c \in Callers, NEW offer \in Offers, TransitionInMemory(c, offer)
      PROVE  IdsAreOwn'
  <2> DEFINE x == [NewCall(offer, machine.phase) EXCEPT !.at = "logged"]
             record == NewRecord(NewCall(offer, machine.phase), SequenceNumber)
  <2>1. SequenceNumber \in Nat \ {0}
    BY DEF TypeOK, SequenceNumber
  <2>2. /\ call' = [call EXCEPT ![c] = x] /\ nextId' = nextId + 1 /\ ~Busy(c)
        /\ Written(record)
    BY <1>1 DEF TransitionInMemory, Begin, Busy, Idle
  <2>3. x.id = nextId /\ x.at = "logged" /\ record.id = nextId
    BY DEF NewCall, NewRecord
  <2>4. record \in StateEventRecord
    BY <1>1, <2>1, NewCallFacts DEF TransitionInMemory
  <2> HIDE DEF x, record
  <2>5. \A d \in Callers : call'[d] = IF d = c THEN x ELSE call[d]
    BY <2>2 DEF TypeOK
  <2>6. /\ tail' = "ended" /\ DOMAIN acked' = 1..(Len(acked) + 1)
        /\ acked'[Len(acked) + 1] = record
        /\ \A i \in DOMAIN acked : acked'[i] = acked[i]
    BY <2>2, <2>4, WrittenFacts
  <2>7. \A i \in DOMAIN acked' : acked'[i].id < nextId'
    BY <2>2, <2>3, <2>6, TypeFacts DEF IdsAreOwn
  <2> QED
    BY <2>2, <2>3, <2>5, <2>6, <2>7, TypeFacts DEF IdsAreOwn, Busy
<1>2. ASSUME NEW c \in Callers, NEW offer \in Offers, TransitionOnFile(c, offer)
      PROVE  IdsAreOwn'
  <2> DEFINE x == NewCall(offer, machine.phase)
  <2>2. /\ call' = [call EXCEPT ![c] = x] /\ nextId' = nextId + 1
        /\ ~Busy(c) /\ UNCHANGED <<log, tail, acked>>
    BY <1>2 DEF TransitionOnFile, Begin, Busy, Idle
  <2>3. x.id = nextId /\ x.at = "reading"
    BY DEF NewCall
  <2> HIDE DEF x
  <2>4. \A d \in Callers : call'[d] = IF d = c THEN x ELSE call[d]
    BY <2>2 DEF TypeOK
  <2> QED
    BY <2>2, <2>3, <2>4, TypeFacts DEF IdsAreOwn, Busy
<1>3. ASSUME NEW c \in Callers, ReadEvents(c) PROVE IdsAreOwn'
  <2> DEFINE x == [call[c] EXCEPT !.at = "writing", !.seq = SequenceNumber]
  <2>1. call' = [call EXCEPT ![c] = x] /\ UNCHANGED <<log, tail, acked, nextId>>
    BY <1>3 DEF ReadEvents, TypeOK
  <2>2. call[c].at = "reading" /\ x.id = call[c].id /\ x.at = "writing"
    BY <1>3, CallFacts DEF ReadEvents, Busy, Pending
  <2> HIDE DEF x
  <2>3. \A d \in Callers : call'[d] = IF d = c THEN x ELSE call[d]
    BY <2>1 DEF TypeOK
  <2> QED
    BY <2>1, <2>2, <2>3 DEF IdsAreOwn, Busy
<1>4. ASSUME NEW c \in Callers, AppendLine(c) PROVE IdsAreOwn'
  <2> DEFINE x == [call[c] EXCEPT !.at = "logged"]
             record == NewRecord(call[c], call[c].seq)
  <2>1. call' = [call EXCEPT ![c] = x] /\ Written(record) /\ nextId' = nextId
    BY <1>4 DEF AppendLine
  <2>2. /\ call[c].at = "writing" /\ x.id = call[c].id /\ x.at = "logged"
        /\ record.id = call[c].id /\ record \in StateEventRecord
    BY <1>4, CallFacts DEF AppendLine, Busy, Pending, NewRecord, TypeOK
  <2> HIDE DEF x, record
  <2>3. \A d \in Callers : call'[d] = IF d = c THEN x ELSE call[d]
    BY <2>1 DEF TypeOK
  <2>4. /\ tail' = "ended" /\ DOMAIN acked' = 1..(Len(acked) + 1)
        /\ acked'[Len(acked) + 1] = record
        /\ \A i \in DOMAIN acked : acked'[i] = acked[i]
    BY <2>1, <2>2, WrittenFacts
  <2>5. /\ \A d \in Callers : Busy(d)' => Busy(d) /\ call'[d].id = call[d].id
        /\ Busy(c) /\ call'[c].at = "logged"
        /\ \A d \in Callers : d # c => call'[d] = call[d]
    BY <2>2, <2>3 DEF Busy
  <2>6. record.id < nextId /\ \A d \in Callers : d # c /\ Busy(d) => record.id # call[d].id
    BY <2>2, <2>5 DEF IdsAreOwn
  <2>7. \A i \in DOMAIN acked' : i \in DOMAIN acked \/ acked'[i] = record
    BY <2>4, TypeFacts
  <2> HIDE DEF Busy
  <2>8. \A i \in DOMAIN acked' :
          /\ acked'[i].id < nextId'
          /\ \A d \in Callers :
               call'[d].at \in {"reading", "writing"} => acked'[i].id # call'[d].id
    BY <2>1, <2>4, <2>5, <2>6, <2>7 DEF IdsAreOwn, Busy
  <2> QED
    BY <2>1, <2>4, <2>5, <2>8 DEF IdsAreOwn
<1>5. ASSUME NEW c \in Callers, AppendFails(c) PROVE IdsAreOwn'
  <2> DEFINE record == NewRecord(call[c], call[c].seq)
  <2>1. /\ call' = [call EXCEPT ![c] = Idle] /\ UNCHANGED <<acked, nextId>>
        /\ Idle.at = "idle" /\ call[c].at = "writing"
    BY <1>5 DEF AppendFails, Rejected, Idle
  <2>2. record.id = call[c].id /\ record \in StateEventRecord
    BY <1>5, CallFacts DEF AppendFails, Busy, Pending, NewRecord, TypeOK
  <2> HIDE DEF record
  <2>3. \A d \in Callers : call'[d] = IF d = c THEN Idle ELSE call[d]
    BY <2>1 DEF TypeOK
  <2>4. CASE UNCHANGED <<log, tail>>
    BY <2>1, <2>3, <2>4 DEF IdsAreOwn, Busy
  <2>5. ASSUME NEW kind \in {"junk", "record"}, Torn(kind, record) PROVE IdsAreOwn'
    <3>1. tail' = "record" => log'[Len(log')] = record
      BY <2>2, <2>5, TornFacts
    <3> QED
      BY <2>1, <2>2, <2>3, <3>1, TypeFacts DEF IdsAreOwn, Busy
  <2> QED
    BY <1>5, <2>4, <2>5 DEF AppendFails, record
<1>6. ASSUME NEW c \in Callers, Commit(c) PROVE IdsAreOwn'
  <2>1. \A d \in Callers : call'[d] = IF d = c THEN Idle ELSE call[d]
    BY <1>6 DEF Commit, TypeOK
  <2>2. UNCHANGED <<log, tail, acked, nextId>> /\ Idle.at = "idle"
    BY <1>6 DEF Commit, Idle
  <2> QED
    BY <2>1, <2>2 DEF IdsAreOwn, Busy
<1>7. CASE Restart
  <2>1. /\ \A c \in Callers : ~Busy(c)' /\ call'[c].at = "idle"
        /\ tail' = tail /\ nextId' = nextId
    BY <1>7 DEF Restart, Busy, Idle
  <2>2. CASE backend = "memory"
    <3>1. acked' = <<>> /\ tail = "ended"
      BY <1>7, <2>2 DEF Restart, MemoryIsWhole
    <3> QED BY <2>1, <3>1 DEF IdsAreOwn
  <2>3. CASE backend # "memory"
    <3>1. UNCHANGED <<acked, log>>
      BY <1>7, <2>3 DEF Restart
    <3> QED BY <2>1, <3>1 DEF IdsAreOwn
  <2> QED
    BY <2>2, <2>3
<1>8. CASE UNCHANGED vars
  BY <1>8 DEF vars, IdsAreOwn, Busy
<1> QED
  BY <1>1, <1>2, <1>3, <1>4, <1>5, <1>6, <1>7, <1>8, StepKinds

\* What a set gains by one element.
LEMMA OneMore ==
  ASSUME NEW S, IsFiniteSet(S), NEW T, NEW x, T \subseteq S \cup {x}
  PROVE  /\ IsFiniteSet(T) /\ Cardinality(T) \in Nat /\ Cardinality(S) \in Nat
         /\ Cardinality(T) <= Cardinality(S) + 1
<1>1. IsFiniteSet(S \cup {x}) /\ Cardinality(S) \in Nat
      /\ Cardinality(S \cup {x}) = IF x \in S THEN Cardinality(S) ELSE Cardinality(S) + 1
  BY FS_AddElement, FS_CardinalityType
<1>2. IsFiniteSet(T) /\ Cardinality(T) \in Nat /\ Cardinality(T) <= Cardinality(S \cup {x})
  BY <1>1, FS_Subset, FS_CardinalityType
<1> QED
  BY <1>1, <1>2

\* The acknowledged records that are lost are finitely many.
LEMMA LostIsFinite ==
  ASSUME TypeOK
  PROVE  IsFiniteSet(Lost) /\ Cardinality(Lost) \in Nat
<1>1. IsFiniteSet(1..Len(acked)) /\ Lost \subseteq 1..Len(acked)
  BY TypeFacts, FS_Interval DEF Lost
<1> QED
  BY <1>1, FS_Subset, FS_CardinalityType

\* A record that is written costs one at most, and only on a torn line.
LEMMA LossByWrite ==
  ASSUME TypeOK, IdsAreOwn, NEW record \in StateEventRecord, Written(record)
  PROVE  /\ Cardinality(Lost)' <= Cardinality(Lost) + 1
         /\ tail = "ended" => Cardinality(Lost)' <= Cardinality(Lost)
<1>1. /\ DOMAIN acked' = 1..(Len(acked) + 1) /\ acked'[Len(acked) + 1] = record
      /\ \A i \in DOMAIN acked : acked'[i] = acked[i]
      /\ DOMAIN log' = 1..Len(log')
  BY WrittenFacts
<1>2. /\ DOMAIN log = 1..Len(log) /\ Len(log) \in Nat
      /\ DOMAIN acked = 1..Len(acked) /\ Len(acked) \in Nat
  BY TypeFacts
<1>3. CASE tail = "ended"
  <2>1. /\ Len(log') = Len(log) + 1 /\ log'[Len(log) + 1] = record
        /\ \A j \in DOMAIN log : log'[j] = log[j]
    BY <1>3, WrittenFacts
  <2>2. Lost' \subseteq Lost
    BY <1>1, <1>2, <2>1 DEF Lost
  <2>3. Cardinality(Lost') \in Nat /\ Cardinality(Lost') <= Cardinality(Lost)
    BY <2>2, LostIsFinite, FS_Subset, FS_CardinalityType
  <2> QED
    BY <2>3, LostIsFinite
<1>4. CASE tail \in {"junk", "record"}
  <2>1. \A i \in DOMAIN acked, j \in DOMAIN log :
           log[j].id = acked[i].id => j \in DOMAIN log' /\ log'[j] = log[j]
    <3>1. CASE tail = "junk"
      BY <3>1, WrittenFacts
    <3>2. CASE tail = "record"
      <4>1. \A i \in DOMAIN acked : acked[i].id # log[Len(log)].id
        BY <3>2 DEF IdsAreOwn
      <4>2. Len(log') = Len(log) - 1 /\ \A j \in 1..(Len(log) - 1) : log'[j] = log[j]
        BY <3>2, WrittenFacts
      <4> QED BY <1>1, <1>2, <4>1, <4>2
    <3> QED BY <1>4, <3>1, <3>2
  <2>2. Lost' \subseteq Lost \cup {Len(acked) + 1}
    BY <1>1, <1>2, <2>1 DEF Lost
  <2>3. Cardinality(Lost') <= Cardinality(Lost) + 1
    BY <2>2, LostIsFinite, OneMore
  <2> QED
    BY <1>4, <2>3
<1> QED
  BY <1>3, <1>4 DEF TypeOK

\* A step loses no more records than it tears lines.
LEMMA LossKept ==
  ASSUME TypeOK, MemoryIsWhole, IdsAreOwn, TearsPayForLoss, [Next]_vars
  PROVE  TearsPayForLoss'
<1>0. IsFiniteSet(Lost) /\ Cardinality(Lost) \in Nat /\ Cardinality(Lost') \in Nat /\ tears \in Nat
  <2>1. TypeOK'
    BY TypesKept
  <2>3. Len(acked') \in Nat /\ Lost' \subseteq 1..Len(acked')
    BY <2>1 DEF Lost, TypeOK
  <2>2. IsFiniteSet(1..Len(acked')) /\ Lost' \subseteq 1..Len(acked')
    BY <2>3, FS_Interval
  <2> QED
    BY <2>2, LostIsFinite, FS_Subset, FS_CardinalityType, TypeFacts
<1>1. ASSUME NEW c \in Callers, NEW offer \in Offers, TransitionInMemory(c, offer)
      PROVE  TearsPayForLoss'
  <2> DEFINE record == NewRecord(NewCall(offer, machine.phase), SequenceNumber)
  <2>1. SequenceNumber \in Nat \ {0}
    BY DEF TypeOK, SequenceNumber
  <2>2. record \in StateEventRecord /\ Written(record) /\ tears' = tears /\ tail = "ended"
    BY <1>1, <2>1, NewCallFacts DEF TransitionInMemory, MemoryIsWhole
  <2> HIDE DEF record
  <2>3. tail' = "ended" /\ Cardinality(Lost)' <= Cardinality(Lost)
    BY <2>2, LossByWrite, WrittenFacts
  <2> QED
    BY <1>0, <2>2, <2>3 DEF TearsPayForLoss
<1>2. CASE UNCHANGED <<log, acked, tail, tears>>
  BY <1>2 DEF TearsPayForLoss, Lost
<1>3. ASSUME NEW c \in Callers, AppendLine(c) PROVE TearsPayForLoss'
  <2> DEFINE record == NewRecord(call[c], call[c].seq)
  <2>1. record \in StateEventRecord /\ Written(record) /\ tears' = tears
    BY <1>3, CallFacts DEF AppendLine, Busy, TypeOK, Pending
  <2> HIDE DEF record
  <2>2. /\ tail' = "ended" /\ Cardinality(Lost)' <= Cardinality(Lost) + 1
        /\ tail = "ended" => Cardinality(Lost)' <= Cardinality(Lost)
    BY <2>1, LossByWrite, WrittenFacts
  <2> QED
    BY <1>0, <2>1, <2>2 DEF TearsPayForLoss, TypeOK
<1>4. ASSUME NEW c \in Callers, AppendFails(c), ~UNCHANGED <<log, tail, tears>>
      PROVE  TearsPayForLoss'
  <2> DEFINE record == NewRecord(call[c], call[c].seq)
  <2>1. PICK kind \in {"junk", "record"} : Torn(kind, record) /\ tears' = tears + 1
    BY <1>4 DEF AppendFails
  <2>2. record \in StateEventRecord /\ acked' = acked
    BY <1>4, CallFacts DEF AppendFails, Busy, TypeOK, Pending
  <2> HIDE DEF record
  <2>3. \A i \in DOMAIN acked, j \in DOMAIN log :
           log[j].id = acked[i].id => j \in DOMAIN log' /\ log'[j] = log[j]
    <3>1. DOMAIN log' = 1..Len(log')
      BY <2>1, <2>2, TornFacts
    <3>2. DOMAIN log = 1..Len(log) /\ Len(log) \in Nat
      BY TypeFacts
    <3>3. CASE tail = "record"
      <4>1. \A i \in DOMAIN acked : acked[i].id # log[Len(log)].id
        BY <3>3 DEF IdsAreOwn
      <4>2. Len(log') = Len(log) - 1 /\ \A j \in 1..(Len(log) - 1) : log'[j] = log[j]
        BY <2>1, <2>2, <3>3, TornFacts
      <4> QED BY <3>1, <3>2, <4>1, <4>2
    <3>4. CASE tail # "record" /\ tail' = "record"
      <4>1. Len(log') = Len(log) + 1 /\ \A j \in DOMAIN log : log'[j] = log[j]
        BY <2>1, <2>2, <3>4, TornFacts
      <4> QED BY <3>1, <3>2, <4>1
    <3>5. CASE tail # "record" /\ tail' # "record"
      BY <2>1, <2>2, <3>5, TornFacts
    <3> QED BY <3>3, <3>4, <3>5
  <2>4. Lost' \subseteq Lost
    BY <2>2, <2>3 DEF Lost
  <2>5. Cardinality(Lost') <= Cardinality(Lost)
    BY <1>0, <2>4, FS_Subset
  <2>6. tail' # "ended"
    BY <2>1, <2>2, TornFacts
  <2> QED
    BY <1>0, <2>1, <2>5, <2>6 DEF TearsPayForLoss
<1>5. CASE Restart
  <2>1. CASE backend = "memory"
    <3>1. acked' = <<>> /\ tail' = "ended" /\ tears' = tears
      BY <1>5, <2>1 DEF Restart, MemoryIsWhole
    <3>2. Lost' = {}
      BY <3>1 DEF Lost
    <3> QED BY <1>0, <3>1, <3>2, FS_EmptySet DEF TearsPayForLoss
  <2>2. CASE backend # "memory"
    <3>1. UNCHANGED <<log, acked, tail, tears>>
      BY <1>5, <2>2 DEF Restart
    <3> QED BY <1>2, <3>1
  <2> QED BY <2>1, <2>2
<1> QED
  BY <1>1, <1>2, <1>3, <1>4, <1>5, StepKinds
     DEF TransitionOnFile, ReadEvents, AppendFails, Commit, vars

\* A set of positions is finite.
LEMMA PositionsAreFinite ==
  ASSUME NEW n \in Nat, NEW T, T \subseteq 1..n
  PROVE  IsFiniteSet(T) /\ Cardinality(T) \in Nat
<1>1. n \in Int /\ 1 \in Int
  OBVIOUS
<1>2. IsFiniteSet(1..n)
  BY <1>1, FS_Interval
<1> QED
  BY <1>2, FS_Subset, FS_CardinalityType

\* An acknowledged record covers the call that wrote it.
LEMMA AckCoversCall ==
  ASSUME TypeOK, AcksCover, NEW c \in Callers, NEW record \in StateEventRecord, NEW x,
         Written(record), UNCHANGED <<history, life>>, ~Logged(c),
         call' = [call EXCEPT ![c] = x], x.at = "logged", x.offer.event = record.event
  PROVE  AcksCover'
<1> SUFFICES ASSUME NEW ev \in StateEvents
             PROVE  /\ IsFiniteSet(OnTheWay(ev)')
                    /\ Cardinality(Uses(ev)') + Cardinality(OnTheWay(ev)')
                         <= Cardinality(AcksOf(ev)')
  BY DEF AcksCover
<1> DEFINE U == Uses(ev)
           W == OnTheWay(ev)
           A == AcksOf(ev)
           n == Len(acked) + 1
<1>1. /\ DOMAIN acked' = 1..n /\ acked'[n] = record /\ Len(acked') = n
      /\ \A i \in DOMAIN acked : acked'[i] = acked[i]
  BY WrittenFacts
<1>2. /\ DOMAIN acked = 1..Len(acked) /\ Len(acked) \in Nat /\ life \in 0..Len(acked)
  BY TypeFacts
<1>3. \A d \in Callers : call'[d] = IF d = c THEN x ELSE call[d]
  BY DEF TypeOK
<1>4. U' = U
  BY DEF Uses
<1>5. IsFiniteSet(A) /\ IsFiniteSet(U) /\ IsFiniteSet(W)
  <2>1. A \subseteq 1..Len(acked)
    BY <1>2 DEF AcksOf
  <2>2. Len(history) \in Nat /\ U \subseteq 1..Len(history)
    BY DEF Uses, TypeOK
  <2> QED
    BY <1>2, <2>1, <2>2, PositionsAreFinite DEF AcksCover
<1>6. Cardinality(U) + Cardinality(W) <= Cardinality(A)
  BY DEF AcksCover
<1>7. CASE ev = record.event
  <2>1. A' = A \cup {n} /\ n \notin A
    BY <1>1, <1>2, <1>7 DEF AcksOf
  <2>2. W' = W \cup {c} /\ c \notin W
    BY <1>3, <1>7 DEF OnTheWay, Logged
  <2> HIDE DEF U, W, A, n
  <2>3. Cardinality(A') = Cardinality(A) + 1
    BY <1>5, <2>1, FS_AddElement
  <2>4. Cardinality(W') = Cardinality(W) + 1 /\ IsFiniteSet(W')
    BY <1>5, <2>2, FS_AddElement
  <2>5. Cardinality(A) \in Nat /\ Cardinality(U) \in Nat /\ Cardinality(W) \in Nat
    BY <1>5, FS_CardinalityType
  <2>6. IsFiniteSet(W') /\ Cardinality(U') + Cardinality(W') <= Cardinality(A')
    BY <1>4, <1>6, <2>3, <2>4, <2>5
  <2> QED
    BY <2>6 DEF U, W, A
<1>8. CASE ev # record.event
  <2>1. A' = A
    BY <1>1, <1>2, <1>8 DEF AcksOf
  <2>2. W' = W
    BY <1>3, <1>8 DEF OnTheWay, Logged
  <2> QED
    BY <1>4, <1>5, <1>6, <2>1, <2>2
<1> QED
  BY <1>7, <1>8

\* A call that is applied, or refused by the machine, is no longer on its way.
LEMMA CommitUsesAck ==
  ASSUME TypeOK, AcksCover, NEW c \in Callers, Commit(c)
  PROVE  AcksCover'
<1> SUFFICES ASSUME NEW ev \in StateEvents
             PROVE  /\ IsFiniteSet(OnTheWay(ev)')
                    /\ Cardinality(Uses(ev)') + Cardinality(OnTheWay(ev)')
                         <= Cardinality(AcksOf(ev)')
  BY DEF AcksCover
<1> DEFINE U == Uses(ev)
           W == OnTheWay(ev)
           A == AcksOf(ev)
           n == Len(history) + 1
           event == call[c].offer.event
<1>1. A' = A
  BY DEF AcksOf, Commit
<1>2. Logged(c) /\ \A d \in Callers : call'[d] = IF d = c THEN Idle ELSE call[d]
  BY DEF Commit, TypeOK, Logged
<1>3. W' = W \ {c}
  BY <1>2 DEF OnTheWay, Logged, Idle
<1>4. IsFiniteSet(A) /\ IsFiniteSet(U) /\ IsFiniteSet(W)
  <2>1. Len(acked) \in Nat /\ A \subseteq 1..Len(acked)
    BY TypeFacts DEF AcksOf
  <2>2. Len(history) \in Nat /\ U \subseteq 1..Len(history)
    BY DEF Uses, TypeOK
  <2> QED
    BY <2>1, <2>2, PositionsAreFinite DEF AcksCover
<1>5. Cardinality(U) + Cardinality(W) <= Cardinality(A)
  BY DEF AcksCover
<1>6. U' \subseteq U \cup {n} /\ (ev # event => U' = U)
  <2>1. CASE Applies(c, machine.phase)
    <3> DEFINE h == [from |-> machine.phase, event |-> event, evidence |-> call[c].offer.evidence,
                     to |-> Target(machine.phase, event)]
    <3>1. history' = Append(history, h) /\ h.event = event
      BY <2>1 DEF Commit, Applies
    <3>2. /\ history \in Seq([from: Phases, to: Phases, event: StateEvents,
                              evidence: SUBSET EvidenceIds])
          /\ h \in [from: Phases, to: Phases, event: StateEvents, evidence: SUBSET EvidenceIds]
      BY <1>2, <2>1, CallFacts, TargetIsRule DEF TypeOK, Machine, Busy, Logged, Calls, Applies
    <3> HIDE DEF h
    <3>3. /\ DOMAIN history' = 1..n /\ history'[n] = h /\ DOMAIN history = 1..(n - 1)
          /\ \A i \in DOMAIN history : history'[i] = history[i] /\ n \in Nat
      BY <3>1, <3>2, AppendFacts
    <3> QED
      BY <3>1, <3>3 DEF Uses
  <2>2. CASE ~Applies(c, machine.phase)
    BY <2>2 DEF Commit, Uses
  <2> QED
    BY <2>1, <2>2
<1>7. ev = event <=> c \in W
  BY <1>2 DEF OnTheWay
<1> HIDE DEF U, W, A, n
<1>8. /\ IsFiniteSet(W')
      /\ Cardinality(W') = IF c \in W THEN Cardinality(W) - 1 ELSE Cardinality(W)
  BY <1>3, <1>4, FS_RemoveElement
<1>9. IsFiniteSet(U') /\ Cardinality(U') <= Cardinality(U) + 1
  BY <1>4, <1>6, OneMore
<1>10. Cardinality(A) \in Nat /\ Cardinality(U) \in Nat /\ Cardinality(W) \in Nat
       /\ Cardinality(U') \in Nat
  BY <1>4, <1>9, FS_CardinalityType
<1>11. IsFiniteSet(W') /\ Cardinality(U') + Cardinality(W') <= Cardinality(A')
  BY <1>1, <1>5, <1>6, <1>7, <1>8, <1>9, <1>10
<1> QED
  BY <1>11 DEF U, W, A

\* No step applies an event that was not acknowledged.
LEMMA AcksKept ==
  ASSUME TypeOK, AcksCover, [Next]_vars
  PROVE  AcksCover'
<1>1. ASSUME NEW c \in Callers, NEW offer \in Offers, TransitionInMemory(c, offer)
      PROVE  AcksCover'
  <2> DEFINE x == [NewCall(offer, machine.phase) EXCEPT !.at = "logged"]
             record == NewRecord(NewCall(offer, machine.phase), SequenceNumber)
  <2>1. SequenceNumber \in Nat \ {0}
    BY DEF TypeOK, SequenceNumber
  <2>2. /\ record \in StateEventRecord /\ x.at = "logged" /\ x.offer.event = record.event
    BY <1>1, <2>1, NewCallFacts DEF TransitionInMemory, NewCall, NewRecord
  <2>3. /\ Written(record) /\ UNCHANGED <<history, life>> /\ ~Logged(c)
        /\ call' = [call EXCEPT ![c] = x]
    BY <1>1 DEF TransitionInMemory, Begin, Logged, Idle
  <2> HIDE DEF x, record
  <2> QED
    BY <2>2, <2>3, AckCoversCall
<1>2. ASSUME NEW c \in Callers, AppendLine(c) PROVE AcksCover'
  <2> DEFINE x == [call[c] EXCEPT !.at = "logged"]
             record == NewRecord(call[c], call[c].seq)
  <2>1. /\ record \in StateEventRecord /\ x.at = "logged" /\ x.offer.event = record.event
    BY <1>2, CallFacts DEF AppendLine, Busy, TypeOK, Pending, NewRecord
  <2>2. /\ Written(record) /\ UNCHANGED <<history, life>> /\ ~Logged(c)
        /\ call' = [call EXCEPT ![c] = x]
    BY <1>2 DEF AppendLine, Logged
  <2> HIDE DEF x, record
  <2> QED
    BY <2>1, <2>2, AckCoversCall
<1>3. ASSUME UNCHANGED <<history, life, acked>>,
             \A c \in Callers : (Logged(c) \/ Logged(c)') => call'[c] = call[c]
      PROVE  AcksCover'
  <2>1. \A ev \in StateEvents : /\ Uses(ev)' = Uses(ev) /\ AcksOf(ev)' = AcksOf(ev)
                                /\ OnTheWay(ev)' = OnTheWay(ev)
    BY <1>3 DEF Uses, AcksOf, OnTheWay, Logged
  <2> QED
    BY <2>1 DEF AcksCover
<1>4. ASSUME NEW c \in Callers, NEW offer \in Offers, TransitionOnFile(c, offer)
      PROVE  AcksCover'
  <2>1. \A d \in Callers : call'[d] = IF d = c THEN NewCall(offer, machine.phase) ELSE call[d]
    BY <1>4 DEF TransitionOnFile, TypeOK
  <2>2. NewCall(offer, machine.phase).at = "reading" /\ call[c].at = "idle"
    BY <1>4 DEF NewCall, TransitionOnFile, Begin, Idle
  <2> QED
    BY <1>3, <1>4, <2>1, <2>2 DEF TransitionOnFile, Logged
<1>5. ASSUME NEW c \in Callers, ReadEvents(c) PROVE AcksCover'
  <2>1. \A d \in Callers : d # c => call'[d] = call[d]
    BY <1>5 DEF ReadEvents, TypeOK
  <2>2. call[c].at = "reading" /\ call'[c].at = "writing"
    BY <1>5, CallFacts DEF ReadEvents, Busy, Pending, TypeOK
  <2> QED
    BY <1>3, <1>5, <2>1, <2>2 DEF ReadEvents, Logged
<1>6. ASSUME NEW c \in Callers, AppendFails(c) PROVE AcksCover'
  <2>1. \A d \in Callers : call'[d] = IF d = c THEN Idle ELSE call[d]
    BY <1>6 DEF AppendFails, Rejected, TypeOK
  <2> QED
    BY <1>3, <1>6, <2>1 DEF AppendFails, Logged, Idle
<1>7. ASSUME NEW c \in Callers, Commit(c) PROVE AcksCover'
  BY <1>7, CommitUsesAck
<1>8. CASE Restart
  <2>1. history' = <<>> /\ life' = Len(acked') /\ \A c \in Callers : ~Logged(c)'
    BY <1>8 DEF Restart, Logged, Idle
  <2>2. Len(acked') \in Nat
    BY <1>8 DEF Restart, TypeOK
  <2>3. \A ev \in StateEvents : Uses(ev)' = {} /\ AcksOf(ev)' = {} /\ OnTheWay(ev)' = {}
    BY <2>1, <2>2 DEF Uses, AcksOf, OnTheWay
  <2> QED
    BY <2>3, FS_EmptySet DEF AcksCover
<1>9. CASE UNCHANGED vars
  BY <1>3, <1>9 DEF vars
<1> QED
  BY <1>1, <1>2, <1>4, <1>5, <1>6, <1>7, <1>8, <1>9, StepKinds

\* The record at position i passed the evidence gate.
GateLet(i) ==
  EvidenceGate(acked[i].from, acked[i].event, acked[i].to, acked[i].evidence)

\* The records that passed are positions in the log.
LEMMA PassedFacts ==
  ASSUME TypeOK, NEW n \in 0..Len(acked)
  PROVE  /\ Passed(n) \subseteq 1..n /\ n \in Nat
         /\ IsFiniteSet(Passed(n)) /\ Cardinality(Passed(n)) \in Nat
<1>1. life \in Nat /\ n \in Nat
  BY TypeFacts
<1>2. Passed(n) \subseteq 1..n
  BY <1>1 DEF Passed
<1> QED
  BY <1>1, <1>2, PositionsAreFinite

\* What was applied of the first n records stays so while records are added.
LEMMA AppliedStays ==
  ASSUME TypeOK, NEW n \in 0..Len(acked), AppliedUpTo(n), UNCHANGED <<history, life>>,
         \A i \in DOMAIN acked : acked'[i] = acked[i]
  PROVE  AppliedUpTo(n)'
<1>1. DOMAIN acked = 1..Len(acked) /\ life \in Nat /\ n \in Nat /\ Len(acked) \in Nat
  BY TypeFacts
<1>2. \A i \in (life + 1)..n : acked'[i] = acked[i]
  BY <1>1
<1>3. Passed(n)' = Passed(n) /\ \A i \in Passed(n) : acked'[i] = acked[i]
  BY <1>2 DEF Passed
<1>4. \A i \in Passed(n) : RowOf(acked[i])' = RowOf(acked[i])
  BY <1>3 DEF RowOf
<1> QED
  BY <1>3, <1>4 DEF AppliedUpTo

\* One more record that the gate refused changes nothing.
LEMMA RefusedIsApplied ==
  ASSUME TypeOK, NEW n \in Nat, n = Len(acked), life < n, AppliedUpTo(n - 1), ~GateLet(n)
  PROVE  AppliedUpTo(n)
<1>1. life \in Nat
  BY TypeFacts
<1>2. \A i \in Nat : i \in (life + 1)..n <=> i \in (life + 1)..(n - 1) \/ i = n
  BY <1>1
<1>3. Passed(n) = Passed(n - 1)
  BY <1>1, <1>2 DEF Passed, GateLet
<1> QED
  BY <1>3 DEF AppliedUpTo

\* One more record that passes is one more transition.
LEMMA PassedIsApplied ==
  ASSUME TypeOK, NEW n \in Nat, n = Len(acked), life < n, AppliedUpTo(n - 1), GateLet(n),
         history' = Append(history, RowOf(acked[n])), UNCHANGED <<acked, life>>
  PROVE  AppliedUpTo(n)'
<1> DEFINE P == Passed(n - 1)
           m == Len(history)
           h == RowOf(acked[n])
<1>1. life \in Nat /\ n \in 1..Len(acked)
  BY TypeFacts
<1>2. P \subseteq 1..(n - 1) /\ IsFiniteSet(P) /\ Cardinality(P) \in Nat /\ Cardinality(P) = m
  BY <1>1, PassedFacts DEF AppliedUpTo
<1>3. \A i \in Nat : i \in (life + 1)..n <=> i \in (life + 1)..(n - 1) \/ i = n
  BY <1>1
<1>4. Passed(n)' = P \cup {n} /\ n \notin P
  BY <1>1, <1>2, <1>3 DEF Passed, GateLet
<1>5. acked[n] \in StateEventRecord
  BY <1>1, TypeFacts
<1>6. /\ history \in Seq([from: Phases, to: Phases, event: StateEvents,
                          evidence: SUBSET EvidenceIds])
      /\ h \in [from: Phases, to: Phases, event: StateEvents, evidence: SUBSET EvidenceIds]
  BY <1>5 DEF TypeOK, RowOf, StateEventRecord
<1>7. /\ Len(history') = m + 1 /\ history'[m + 1] = h /\ m \in Nat
      /\ \A k \in 1..m : history'[k] = history[k]
  BY <1>6, AppendFacts
<1>8. \A i \in P : history[Cardinality({j \in P : j <= i})] = RowOf(acked[i])
  BY DEF AppliedUpTo
<1>9. \A i : RowOf(acked[i])' = RowOf(acked[i])
  BY DEF RowOf
<1> HIDE DEF P, m, h
<1>10. Cardinality(P \cup {n}) = m + 1
  BY <1>2, <1>4, FS_AddElement
<1>11. ASSUME NEW i \in P \cup {n}
       PROVE  history'[Cardinality({j \in P \cup {n} : j <= i})] = RowOf(acked[i])
  <2>1. CASE i = n
    <3>2. \A j \in P \cup {n} : j <= i
      BY <1>2, <2>1
    <3>1. {j \in P \cup {n} : j <= i} = P \cup {n}
      BY <3>2
    <3> QED
      BY <1>7, <1>10, <2>1, <3>1 DEF h
  <2>2. CASE i \in P
    <3> DEFINE Q == {j \in P : j <= i}
    <3>1. {j \in P \cup {n} : j <= i} = Q
      BY <1>2, <2>2
    <3>2. IsFiniteSet(Q) /\ Cardinality(Q) <= m /\ Cardinality(Q) \in Nat
      BY <1>2, FS_Subset, FS_CardinalityType
    <3>3. i \in Q
      BY <1>2, <2>2
    <3>4. history[Cardinality(Q)] = RowOf(acked[i])
      BY <1>8, <2>2
    <3> HIDE DEF Q
    <3>5. Cardinality(Q) # 0
      BY <3>2, <3>3, FS_EmptySet
    <3>6. Cardinality(Q) \in 1..m
      BY <1>7, <3>2, <3>5
    <3> QED
      BY <1>7, <3>1, <3>4, <3>6
  <2> QED
    BY <2>1, <2>2
<1> QED
  BY <1>4, <1>7, <1>9, <1>10, <1>11 DEF AppliedUpTo

\* A record that is written takes the number after the last one.
LEMMA NumbersByWrite ==
  ASSUME TypeOK, \A i \in DOMAIN log : log[i].seq = i,
         NEW record \in StateEventRecord, record.seq = Len(log) + 1,
         \/ Written(record)
         \/ \E kind \in {"junk", "record"} : Torn(kind, record)
  PROVE  \A i \in DOMAIN log' : log'[i].seq = i
<1>1. DOMAIN log = 1..Len(log) /\ Len(log) \in Nat /\ tail \in {"ended", "junk", "record"}
  BY TypeFacts DEF TypeOK
<1>2. /\ DOMAIN log' = 1..Len(log')
      /\ \/ Len(log') = Len(log) + 1 /\ log'[Len(log) + 1] = record
            /\ \A j \in DOMAIN log : log'[j] = log[j]
         \/ log' = log
         \/ Len(log') = Len(log) - 1 /\ \A j \in 1..(Len(log) - 1) : log'[j] = log[j]
  <2>1. CASE Written(record)
    <3>1. DOMAIN log' = 1..Len(log')
      BY <2>1, WrittenFacts
    <3> QED BY <1>1, <2>1, <3>1, WrittenFacts
  <2>2. ASSUME NEW kind \in {"junk", "record"}, Torn(kind, record)
        PROVE  /\ DOMAIN log' = 1..Len(log') /\ tail' \in {"junk", "record"}
               /\ tail' = "record" => /\ Len(log') = Len(log) + 1 /\ log'[Len(log) + 1] = record
                                      /\ \A j \in DOMAIN log : log'[j] = log[j]
               /\ tail # "record" /\ tail' = "junk" => log' = log
               /\ tail = "record" => /\ Len(log') = Len(log) - 1
                                     /\ \A j \in 1..(Len(log) - 1) : log'[j] = log[j]
    <3>1. DOMAIN log' = 1..Len(log')
      BY <2>2, TornFacts
    <3> QED BY <2>2, <3>1, TornFacts
  <2> QED
    BY <2>1, <2>2
<1>3. CASE Len(log') = Len(log) + 1 /\ log'[Len(log) + 1] = record
           /\ \A j \in DOMAIN log : log'[j] = log[j]
  <2>2. DOMAIN log' = 1..(Len(log) + 1)
    BY <1>2, <1>3
  <2>1. \A i \in DOMAIN log' : i \in DOMAIN log \/ i = Len(log) + 1
    BY <1>1, <2>2
  <2> QED BY <1>3, <2>1
<1>4. CASE log' = log
  BY <1>4
<1>5. CASE Len(log') = Len(log) - 1 /\ \A j \in 1..(Len(log) - 1) : log'[j] = log[j]
  <2>2. DOMAIN log' = 1..(Len(log) - 1)
    BY <1>2, <1>5
  <2>1. \A i \in DOMAIN log' : i \in 1..(Len(log) - 1) /\ i \in DOMAIN log
    BY <1>1, <2>2
  <2> QED BY <1>5, <2>1
<1> QED
  BY <1>2, <1>3, <1>4, <1>5

\* With calls in turn nothing but a call's own steps changes what it has read,
\* and what the log tells.
InOrder == ReadIsStillSo /\ LogTellsHistory

\* The record that was written last is the call's that is on its way.
LEMMA OrderByWrite ==
  ASSUME TypeOK, serial, serial', NumbersArePositions, Quiet, AppliedUpTo(Len(acked)),
         NEW c \in Callers, NEW record \in StateEventRecord, NEW x, Written(record),
         record.seq = Len(log) + 1, UNCHANGED <<machine, history, life>>,
         \A d \in Callers : d # c => ~Busy(d),
         call' = [call EXCEPT ![c] = x], x.at = "logged",
         x.from = machine.phase, Valid(machine.phase, x.offer),
         x.to = Target(machine.phase, x.offer.event),
         RowOf(record) = [from |-> x.from, to |-> x.to, event |-> x.offer.event,
                          evidence |-> x.offer.evidence]
  PROVE  InOrder'
<1>1. \A d \in Callers : call'[d] = IF d = c THEN x ELSE call[d]
  BY DEF TypeOK
<1>2. /\ Len(acked') = Len(acked) + 1 /\ acked'[Len(acked) + 1] = record
      /\ \A i \in DOMAIN acked : acked'[i] = acked[i]
  BY WrittenFacts
<1>3. PICK n \in Nat : n = Len(acked) /\ life \in 0..n
  BY TypeFacts
<1>4. AppliedUpTo(n)'
  BY <1>2, <1>3, AppliedStays
<1>5. NumbersArePositions'
  BY NumbersByWrite DEF NumbersArePositions
<1>6. ~Quiet'
  BY <1>1 DEF Quiet
<1>7. \A d \in Callers : Busy(d)' => d = c
  BY <1>1 DEF Busy
<1>8. life' < Len(acked') /\ Len(acked') - 1 = n /\ acked'[Len(acked')] = record
  BY <1>2, <1>3
<1>9. AppliedUpTo(Len(acked) - 1)'
  BY <1>4, <1>8 DEF AppliedUpTo, Passed
<1>10. /\ RowOf(acked[Len(acked)])' = RowOf(record)
       /\ Target(machine.phase, x.offer.event)' = Target(machine.phase, x.offer.event)
       /\ Valid(machine.phase, x.offer)' = Valid(machine.phase, x.offer)
  BY <1>8 DEF RowOf, Target, Valid
<1>11. \A d \in Callers : Busy(d)' =>
          /\ call'[d] = x
          /\ call'[d].from = machine'.phase
          /\ Valid(machine.phase, call[d].offer)'
          /\ call'[d].to = Target(machine.phase, call[d].offer.event)'
  BY <1>1, <1>7 DEF Target, Valid
<1>12. \A d \in Callers : call'[d].at # "writing"
  BY <1>1 DEF Busy
<1>13. ReadIsStillSo'
  BY <1>7, <1>8, <1>9, <1>10, <1>11, <1>12 DEF ReadIsStillSo, Logged, Busy
<1> QED
  BY <1>5, <1>6, <1>13 DEF InOrder, LogTellsHistory, AckedIsApplied

\* A step that acknowledges and applies nothing keeps what was applied.
LEMMA AppliedKept ==
  ASSUME UNCHANGED <<acked, history, life>>
  PROVE  \A n : AppliedUpTo(n)' <=> AppliedUpTo(n)
BY DEF AppliedUpTo, Passed, RowOf

\* apply() does with a record what the gate said of it.
LEMMA OrderByCommit ==
  ASSUME TypeOK, serial, serial', ReadIsStillSo, NumbersArePositions,
         NEW c \in Callers, Commit(c)
  PROVE  InOrder'
<1> DEFINE offer == call[c].offer
           from == machine.phase
<1>1. /\ Logged(c) /\ UNCHANGED <<log, acked, life>>
      /\ \A d \in Callers : call'[d] = IF d = c THEN Idle ELSE call[d]
  BY DEF Commit, Logged, TypeOK
<1>2. PICK n \in Nat : n = Len(acked)
  BY TypeFacts
<1>3. /\ \A d \in Callers : Busy(d) => d = c
      /\ call[c].from = from /\ Valid(from, offer) /\ call[c].to = Target(from, offer.event)
      /\ life < n /\ AppliedUpTo(n - 1)
      /\ RowOf(acked[n]) = [from |-> call[c].from, to |-> call[c].to, event |-> offer.event,
                            evidence |-> offer.evidence]
  BY <1>1, <1>2 DEF ReadIsStillSo, Logged, Busy
<1>4. /\ acked[n].from = from /\ acked[n].to = Target(from, offer.event)
      /\ acked[n].event = offer.event /\ acked[n].evidence = offer.evidence
  BY <1>3 DEF RowOf
<1>5. Applies(c, from) <=> GateLet(n)
  BY <1>3, <1>4 DEF Applies, GateLet
<1>6. AppliedUpTo(n)'
  <2>1. CASE GateLet(n)
    <3>1. history' = Append(history, RowOf(acked[n]))
      BY <1>3, <1>4, <1>5, <2>1 DEF Commit, RowOf
    <3> QED
      BY <1>1, <1>2, <1>3, <2>1, <3>1, PassedIsApplied
  <2>2. CASE ~GateLet(n)
    <3>1. history' = history
      BY <1>5, <2>2 DEF Commit
    <3>2. AppliedUpTo(n)
      BY <1>2, <1>3, <2>2, RefusedIsApplied
    <3> QED
      BY <1>1, <3>1, <3>2, AppliedKept
  <2> QED
    BY <2>1, <2>2
<1>7. \A d \in Callers : ~Busy(d)' /\ call'[d].at = "idle"
  BY <1>1, <1>3 DEF Busy, Idle
<1>8. ReadIsStillSo'
  BY <1>7 DEF ReadIsStillSo, Logged
<1>9. AppliedUpTo(Len(acked))'
  BY <1>1, <1>2, <1>6 DEF AppliedUpTo, Passed
<1>10. NumbersArePositions'
  BY <1>1 DEF NumbersArePositions
<1> QED
  BY <1>8, <1>9, <1>10 DEF InOrder, LogTellsHistory, AckedIsApplied

\* A call that has not been logged can do as it likes with what it holds.
LEMMA OrderByCall ==
  ASSUME TypeOK, serial, serial', InOrder, NEW c \in Callers, NEW x,
         call' = [call EXCEPT ![c] = x], call[c].at # "logged", x.at # "logged",
         \A d \in Callers : d # c => ~Busy(d),
         UNCHANGED <<machine, history, acked, life>>,
         x.at # "idle" => /\ x.from = machine.phase /\ Valid(machine.phase, x.offer)
                          /\ x.to = Target(machine.phase, x.offer.event),
         x.at = "writing" => x.seq = Len(log) + 1 /\ log' = log,
         \A i \in DOMAIN log' : log'[i].seq = i
  PROVE  InOrder'
<1>1. \A d \in Callers : call'[d] = IF d = c THEN x ELSE call[d]
  BY DEF TypeOK
<1>2. AppliedUpTo(Len(acked))
  BY DEF InOrder, LogTellsHistory, AckedIsApplied, Quiet, Busy
<1>3. AppliedUpTo(Len(acked))'
  <2>1. acked' = acked /\ history' = history /\ life' = life
    OBVIOUS
  <2> QED
    BY <1>2, <2>1 DEF AppliedUpTo, Passed, RowOf
<1>4. \A d \in Callers : (Busy(d)' => d = c) /\ ~Logged(d)'
  BY <1>1 DEF Busy, Logged
<1>5. \A d \in Callers : Busy(d)' =>
          /\ x.at # "idle" /\ call'[d] = x /\ call'[d].from = machine'.phase
          /\ Valid(machine.phase, call[d].offer)'
          /\ call'[d].to = Target(machine.phase, call[d].offer.event)'
  BY <1>1, <1>4 DEF Busy, Target, Valid
<1>6. \A d \in Callers : call'[d].at = "writing" => call'[d].seq = Len(log') + 1
  BY <1>1, <1>5 DEF Busy
<1>7. ReadIsStillSo'
  BY <1>4, <1>5, <1>6 DEF ReadIsStillSo
<1> QED
  BY <1>3, <1>7 DEF InOrder, LogTellsHistory, AckedIsApplied, NumbersArePositions

\* Every step keeps the order of what was acknowledged and applied.
LEMMA OrderKept ==
  ASSUME TypeOK, MemoryIsWhole, InOrder, [Next]_vars
  PROVE  InOrder'
<1>1. CASE ~serial
  <2>1. ~serial'
    BY <1>1, StepKinds DEF TransitionInMemory, TransitionOnFile, ReadEvents, AppendLine,
                           AppendFails, Commit, Restart, vars
  <2> QED
    BY <2>1 DEF InOrder, ReadIsStillSo, LogTellsHistory, AckedIsApplied, NumbersArePositions
<1> SUFFICES ASSUME serial PROVE InOrder'
  BY <1>1
<1>2. serial'
  BY StepKinds DEF TransitionInMemory, TransitionOnFile, ReadEvents, AppendLine,
                   AppendFails, Commit, Restart, vars
<1>3. /\ \A c, d \in Callers : Busy(c) /\ Busy(d) => c = d
      /\ \A c \in Callers : Busy(c) =>
           /\ call[c].from = machine.phase /\ Valid(machine.phase, call[c].offer)
           /\ call[c].to = Target(machine.phase, call[c].offer.event)
      /\ \A c \in Callers : call[c].at = "writing" => call[c].seq = Len(log) + 1
      /\ NumbersArePositions
      /\ \A i \in DOMAIN log : log[i].seq = i
      /\ (\A c \in Callers : ~Logged(c)) => AppliedUpTo(Len(acked)) /\ Quiet
  BY DEF InOrder, ReadIsStillSo, LogTellsHistory, AckedIsApplied, NumbersArePositions,
         Quiet, Logged
<1>4. ASSUME NEW c \in Callers, NEW offer \in Offers, TransitionInMemory(c, offer)
      PROVE  InOrder'
  <2> DEFINE p == NewCall(offer, machine.phase)
             x == [p EXCEPT !.at = "logged"]
             record == NewRecord(p, SequenceNumber)
  <2>1. SequenceNumber \in Nat \ {0} /\ SequenceNumber = Len(log) + 1
    BY DEF TypeOK, SequenceNumber
  <2>2. /\ Begin(c, offer) /\ Written(record) /\ call' = [call EXCEPT ![c] = x]
        /\ UNCHANGED <<machine, history, life>>
    BY <1>4 DEF TransitionInMemory
  <2>3. \A d \in Callers : ~Busy(d) /\ ~Logged(d)
    BY <2>2 DEF Begin, Busy, Logged, Idle
  <2>4. /\ record \in StateEventRecord /\ record.seq = Len(log) + 1
        /\ x.at = "logged" /\ x.from = machine.phase /\ x.offer = offer
        /\ Valid(machine.phase, offer) /\ x.to = Target(machine.phase, offer.event)
        /\ RowOf(record) = [from |-> x.from, to |-> x.to, event |-> x.offer.event,
                            evidence |-> x.offer.evidence]
    BY <2>1, <2>2, NewCallFacts DEF NewCall, NewRecord, RowOf
  <2> HIDE DEF p, x, record
  <2> QED
    BY <1>2, <1>3, <2>2, <2>3, <2>4, OrderByWrite
<1>5. ASSUME NEW c \in Callers, NEW offer \in Offers, TransitionOnFile(c, offer)
      PROVE  InOrder'
  <2> DEFINE x == NewCall(offer, machine.phase)
  <2>1. /\ Begin(c, offer) /\ call' = [call EXCEPT ![c] = x] /\ log' = log
        /\ UNCHANGED <<machine, history, acked, life>>
    BY <1>5 DEF TransitionOnFile
  <2>2. \A d \in Callers : ~Busy(d) /\ call[d].at # "logged"
    BY <2>1 DEF Begin, Busy, Idle
  <2>3. /\ x.at = "reading" /\ x.from = machine.phase /\ x.offer = offer
        /\ Valid(machine.phase, offer) /\ x.to = Target(machine.phase, offer.event)
    BY <2>1, NewCallFacts
  <2> HIDE DEF x
  <2> QED
    BY <1>2, <1>3, <2>1, <2>2, <2>3, OrderByCall
<1>6. ASSUME NEW c \in Callers, ReadEvents(c) PROVE InOrder'
  <2> DEFINE x == [call[c] EXCEPT !.at = "writing", !.seq = SequenceNumber]
  <2>1. /\ call' = [call EXCEPT ![c] = x] /\ log' = log /\ Busy(c)
        /\ UNCHANGED <<machine, history, acked, life>> /\ call[c].at # "logged"
    BY <1>6 DEF ReadEvents, TypeOK, Busy
  <2>2. /\ x.at = "writing" /\ x.from = call[c].from /\ x.offer = call[c].offer
        /\ x.to = call[c].to /\ x.seq = Len(log) + 1
    BY <2>1, CallFacts DEF Pending, SequenceNumber
  <2> HIDE DEF x
  <2> QED
    BY <1>2, <1>3, <2>1, <2>2, OrderByCall
<1>7. ASSUME NEW c \in Callers, AppendLine(c) PROVE InOrder'
  <2> DEFINE x == [call[c] EXCEPT !.at = "logged"]
             record == NewRecord(call[c], call[c].seq)
  <2>1. /\ Written(record) /\ call' = [call EXCEPT ![c] = x] /\ Busy(c) /\ ~Logged(c)
        /\ UNCHANGED <<machine, history, life>> /\ call[c].at = "writing"
    BY <1>7 DEF AppendLine, Busy, Logged
  <2>2. \A d \in Callers : d # c => ~Busy(d) /\ ~Logged(d)
    BY <1>3, <2>1 DEF Busy, Logged
  <2>3. /\ record \in StateEventRecord /\ record.seq = Len(log) + 1
        /\ x.at = "logged" /\ x.from = call[c].from /\ x.offer = call[c].offer
        /\ x.to = call[c].to
        /\ RowOf(record) = [from |-> x.from, to |-> x.to, event |-> x.offer.event,
                            evidence |-> x.offer.evidence]
    BY <1>3, <2>1, CallFacts DEF NewRecord, RowOf, Pending, TypeOK
  <2> HIDE DEF x, record
  <2> QED
    BY <1>2, <1>3, <2>1, <2>2, <2>3, OrderByWrite
<1>8. ASSUME NEW c \in Callers, AppendFails(c) PROVE InOrder'
  <2> DEFINE record == NewRecord(call[c], call[c].seq)
  <2>1. /\ call' = [call EXCEPT ![c] = Idle] /\ Busy(c) /\ call[c].at = "writing"
        /\ UNCHANGED <<machine, history, acked, life>> /\ Idle.at = "idle"
        /\ \/ log' = log
           \/ \E kind \in {"junk", "record"} : Torn(kind, record)
    BY <1>8 DEF AppendFails, Rejected, Busy, Idle
  <2>2. record \in StateEventRecord /\ record.seq = Len(log) + 1
    BY <1>3, <2>1, CallFacts DEF NewRecord, Pending, TypeOK
  <2> HIDE DEF record
  <2>3. \A i \in DOMAIN log' : log'[i].seq = i
    BY <1>3, <2>1, <2>2, NumbersByWrite
  <2> QED
    BY <1>2, <1>3, <2>1, <2>3, OrderByCall
<1>9. ASSUME NEW c \in Callers, Commit(c) PROVE InOrder'
  BY <1>2, <1>3, <1>9, OrderByCommit DEF InOrder
<1>10. CASE Restart
  <2>1. /\ \A c \in Callers : call'[c] = Idle /\ Idle.at = "idle"
        /\ history' = <<>> /\ life' = Len(acked') /\ Len(acked') \in Nat
        /\ log' = <<>> \/ log' = log
    BY <1>10 DEF Restart, Idle, TypeOK
  <2>2. Passed(Len(acked))' = {}
    BY <2>1 DEF Passed
  <2>3. AppliedUpTo(Len(acked))'
    BY <2>1, <2>2, FS_EmptySet DEF AppliedUpTo
  <2>4. \A i \in DOMAIN log' : log'[i].seq = i
    BY <1>3, <2>1
  <2> QED
    BY <2>1, <2>3, <2>4 DEF InOrder, ReadIsStillSo, LogTellsHistory, AckedIsApplied,
                            NumbersArePositions, Busy, Logged
<1>11. CASE UNCHANGED vars
  <2>1. /\ InOrder /\ UNCHANGED vars
    BY <1>11
  <2> QED
    BY <2>1 DEF vars, InOrder, ReadIsStillSo, LogTellsHistory, AckedIsApplied,
                NumbersArePositions, Busy, Logged, Quiet, AppliedUpTo, Passed, RowOf,
                Valid, Target
<1> QED
  BY <1>4, <1>5, <1>6, <1>7, <1>8, <1>9, <1>10, <1>11, StepKinds
-----------------------------------------------------------------------------
\* The invariant holds of a process that has just started.
LEMMA InitHolds ==
  ASSUME Init
  PROVE  IInv
<1>1. /\ TypeOK
  BY DEF Init, TypeOK, NewMachine, Machine, Idle, Phases, LivePhases
<1>2. \A c \in Callers : ~Busy(c) /\ ~Logged(c) /\ call[c].at = "idle"
  BY DEF Init, Busy, Logged, Idle
<1>3. IdsAreOwn /\ MemoryIsWhole /\ ReadIsStillSo /\ StateFollowsHistory
  BY <1>2 DEF Init, IdsAreOwn, MemoryIsWhole, ReadIsStillSo, StateFollowsHistory,
              NewMachine
<1>4. Lost = {} /\ \A ev \in StateEvents : Uses(ev) = {} /\ OnTheWay(ev) = {} /\ AcksOf(ev) = {}
  BY <1>2 DEF Init, Lost, Uses, OnTheWay, AcksOf
<1>5. TearsPayForLoss
  BY <1>4, FS_EmptySet DEF Init, TearsPayForLoss
<1>8. AcksCover
  BY <1>4, FS_EmptySet DEF AcksCover
<1>6. Passed(Len(acked)) = {} /\ Len(history) = 0
  BY DEF Init, Passed
<1>7. LogTellsHistory
  <2>1. AppliedUpTo(Len(acked))
    BY <1>6, FS_EmptySet DEF AppliedUpTo
  <2>2. NumbersArePositions
    BY DEF Init, NumbersArePositions
  <2> QED
    BY <2>1, <2>2 DEF LogTellsHistory, AckedIsApplied
<1> QED
  BY <1>1, <1>3, <1>5, <1>7, <1>8 DEF IInv

\* Every step keeps the invariant.
LEMMA NextHolds ==
  ASSUME IInv, [Next]_vars
  PROVE  IInv'
<1>1. TypeOK' /\ MemoryIsWhole' /\ IdsAreOwn' /\ TearsPayForLoss' /\ AcksCover'
      /\ StateFollowsHistory'
  BY TypesKept, MemoryKept, IdsKept, LossKept, AcksKept, HistoryKept DEF IInv
<1>2. InOrder'
  BY OrderKept DEF IInv, InOrder
<1> QED
  BY <1>1, <1>2 DEF IInv, InOrder

\* The inductive invariant holds in every reachable state.
THEOREM Invariant == Spec => []IInv
<1>1. Init => IInv
  BY InitHolds
<1>2. IInv /\ [Next]_vars => IInv'
  BY NextHolds
<1> QED
  BY <1>1, <1>2, PTL DEF Spec

\* Machines, histories, logs and calls are what their types say, for any
\* callers, offers, evidence, event stores and number of records.
THEOREM TypeCorrect == Spec => []TypeOK
BY Invariant, PTL DEF IInv

\* Since the process started, transition() has applied no event more often
\* than its store acknowledged it; the machine is where its history leads, and
\* DONE only with evidence.
THEOREM AppliedCorrect == Spec => []NothingAppliedUnlogged
<1>1. IInv => NothingAppliedUnlogged
  <2> SUFFICES ASSUME IInv, NEW ev \in StateEvents
               PROVE  Cardinality(Uses(ev)) <= Cardinality(AcksOf(ev))
    BY DEF NothingAppliedUnlogged, AppliedIsAcked, IInv
  <2>1. IsFiniteSet(Uses(ev)) /\ IsFiniteSet(AcksOf(ev))
    <3>1. TypeOK
      BY DEF IInv
    <3>2. Len(acked) \in Nat /\ AcksOf(ev) \subseteq 1..Len(acked)
      BY <3>1, TypeFacts DEF AcksOf
    <3>3. Len(history) \in Nat /\ Uses(ev) \subseteq 1..Len(history)
      BY <3>1 DEF Uses, TypeOK
    <3> QED
      BY <3>2, <3>3, PositionsAreFinite
  <2>2. /\ IsFiniteSet(OnTheWay(ev))
        /\ Cardinality(Uses(ev)) + Cardinality(OnTheWay(ev)) <= Cardinality(AcksOf(ev))
    BY DEF IInv, AcksCover
  <2> QED
    BY <2>1, <2>2, FS_CardinalityType
<1> QED
  BY <1>1, Invariant, PTL

\* When calls take turns, what the store acknowledged is what was applied, in
\* order, but for what the gate refused; and the log is numbered in file order.
THEOREM LogCorrect == Spec => []LogTellsHistory
BY Invariant, PTL DEF IInv

\* An append that fails half way costs at most one acknowledged record.
THEOREM LossCorrect == Spec => []LossBounded
<1>1. IInv => LossBounded
  BY LostIsFinite DEF IInv, TearsPayForLoss, LossBounded, Lost, TypeOK
<1> QED
  BY <1>1, Invariant, PTL

-----------------------------------------------------------------------------
\* Memories: any number of records, of callers and of calls.

\* What the operations of the store and of the curator write.
UseCounts == Nat \cup {Unset}
UpdateSets ==
  {[status : {"STALE", "ARCHIVED"}], [importance : Nat], [unused : Nat, uses : UseCounts],
   [importance : Nat, unused : Nat, uses : UseCounts],
   [status : {"ACTIVE"}, unused : Nat, uses : UseCounts]}
Updates == UNION UpdateSets
PlainOps == {"succeeded", "failed", "promote", "markStale", "invalidate"}
Steps == [id : Memories, op : PlainOps, updates : {NoUpdates}]
           \cup [id : Memories, op : {"update"}, updates : Updates]
UseOps == {"succeeded", "failed"}
Activates(step) == \/ step.op = "promote"
                   \/ "status" \in DOMAIN step.updates /\ step.updates.status = "ACTIVE"
RowFields == {"kind", "source", "importance", "topic", "content", "tier", "access",
              "success", "recurrence", "unused", "uses", "status"}

\* An update names some of four fields, with values of theirs.
LEMMA UpdatesAre ==
  ASSUME NEW u \in Updates
  PROVE  /\ DOMAIN u \subseteq {"status", "importance", "unused", "uses"}
         /\ "status" \in DOMAIN u => u["status"] \in {"STALE", "ARCHIVED", "ACTIVE"}
         /\ "importance" \in DOMAIN u => u["importance"] \in Nat
         /\ "unused" \in DOMAIN u => u["unused"] \in Nat
         /\ "uses" \in DOMAIN u => u["uses"] \in UseCounts
<1>1. CASE u \in [status : {"STALE", "ARCHIVED"}]
  BY <1>1
<1>2. CASE u \in [importance : Nat]
  BY <1>2
<1>3. CASE u \in [unused : Nat, uses : UseCounts]
  BY <1>3
<1>4. CASE u \in [importance : Nat, unused : Nat, uses : UseCounts]
  BY <1>4
<1>5. CASE u \in [status : {"ACTIVE"}, unused : Nat, uses : UseCounts]
  BY <1>5
<1> QED
  BY <1>1, <1>2, <1>3, <1>4, <1>5 DEF Updates, UpdateSets

\* Records field by field.
LEMMA RowFieldsAre ==
  ASSUME NEW r \in MemoryRow
  PROVE  /\ DOMAIN r = RowFields /\ r = [f \in RowFields |-> r[f]]
         /\ r["kind"] \in STRING /\ r["source"] \in STRING /\ r["importance"] \in Nat
         /\ r["topic"] \in STRING /\ r["content"] \in STRING /\ r["tier"] \in Tiers
         /\ r["access"] \in Nat /\ r["success"] \in Nat /\ r["recurrence"] \in Nat
         /\ r["unused"] \in Nat /\ r["uses"] \in UseCounts /\ r["status"] \in Statuses
<1>1. DOMAIN r = RowFields /\ r = [f \in RowFields |-> r[f]]
  BY DEF MemoryRow, RowFields
<1>2. /\ r["kind"] \in STRING /\ r["source"] \in STRING /\ r["importance"] \in Nat
      /\ r["topic"] \in STRING /\ r["content"] \in STRING /\ r["tier"] \in Tiers
  BY DEF MemoryRow
<1>3. /\ r["access"] \in Nat /\ r["success"] \in Nat /\ r["recurrence"] \in Nat
      /\ r["unused"] \in Nat /\ r["uses"] \in UseCounts /\ r["status"] \in Statuses
  BY DEF MemoryRow, UseCounts
<1> QED
  BY <1>1, <1>2, <1>3

\* What has these fields is a record.
LEMMA IsRow ==
  ASSUME NEW w, DOMAIN w = RowFields, w = [f \in RowFields |-> w[f]],
         w["kind"] \in STRING, w["source"] \in STRING, w["importance"] \in Nat,
         w["topic"] \in STRING, w["content"] \in STRING, w["tier"] \in Tiers,
         w["access"] \in Nat, w["success"] \in Nat, w["recurrence"] \in Nat,
         w["unused"] \in Nat, w["uses"] \in UseCounts, w["status"] \in Statuses
  PROVE  w \in MemoryRow
<1>1. w = [kind |-> w["kind"], source |-> w["source"], importance |-> w["importance"],
           topic |-> w["topic"], content |-> w["content"], tier |-> w["tier"],
           access |-> w["access"], success |-> w["success"], recurrence |-> w["recurrence"],
           unused |-> w["unused"], uses |-> w["uses"], status |-> w["status"]]
  BY DEF RowFields
<1> QED
  BY <1>1 DEF MemoryRow, UseCounts

\* A record with another status and tier.
LEMMA PlacedIs ==
  ASSUME NEW r \in MemoryRow, NEW s \in Statuses, NEW t \in Tiers,
         NEW w, DOMAIN w = RowFields, w = [f \in RowFields |-> w[f]],
         \A f \in RowFields : w[f] = IF f = "tier" THEN t ELSE IF f = "status" THEN s ELSE r[f]
  PROVE  /\ w \in MemoryRow /\ w.status = s /\ w.tier = t
         /\ w.kind = r.kind /\ w.source = r.source /\ w.topic = r.topic /\ w.content = r.content
         /\ w.access = r.access /\ w.success = r.success /\ w.recurrence = r.recurrence
         /\ w.importance = r.importance
<1>4. /\ w["kind"] = r["kind"] /\ w["source"] = r["source"] /\ w["topic"] = r["topic"]
      /\ w["content"] = r["content"] /\ w["access"] = r["access"] /\ w["success"] = r["success"]
      /\ w["recurrence"] = r["recurrence"] /\ w["importance"] = r["importance"]
      /\ w["unused"] = r["unused"] /\ w["uses"] = r["uses"]
      /\ w["status"] = s /\ w["tier"] = t
  BY DEF RowFields
<1>5. w \in MemoryRow
  <2>1. /\ w["kind"] \in STRING /\ w["source"] \in STRING /\ w["importance"] \in Nat
        /\ w["topic"] \in STRING /\ w["content"] \in STRING /\ w["tier"] \in Tiers
    BY <1>4, RowFieldsAre
  <2>2. /\ w["access"] \in Nat /\ w["success"] \in Nat /\ w["recurrence"] \in Nat
        /\ w["unused"] \in Nat /\ w["uses"] \in UseCounts /\ w["status"] \in Statuses
    BY <1>4, RowFieldsAre
  <2> QED
    BY <2>1, <2>2, IsRow
<1> QED
  BY <1>4, <1>5

\* A record with some of its fields overwritten is one.
LEMMA UpdatedIs ==
  ASSUME NEW r \in MemoryRow, NEW u \in Updates, CountsFit(r),
         NEW w, w = [f \in DOMAIN r |-> IF f \in DOMAIN u THEN u[f] ELSE r[f]]
  PROVE  /\ w \in MemoryRow /\ CountsFit(w)
         /\ w.kind = r.kind /\ w.source = r.source /\ w.topic = r.topic /\ w.content = r.content
         /\ w.access = r.access /\ w.success = r.success
         /\ w.status = IF "status" \in DOMAIN u THEN u.status ELSE r.status
         /\ w.status = "PROMOTED" => r.status = "PROMOTED"
<1>1. DOMAIN r = RowFields
  BY RowFieldsAre
<1>2. \A f \in RowFields : w[f] = IF f \in DOMAIN u THEN u[f] ELSE r[f]
  BY <1>1
<1>3. /\ w["kind"] = r["kind"] /\ w["source"] = r["source"] /\ w["topic"] = r["topic"]
      /\ w["content"] = r["content"] /\ w["tier"] = r["tier"]
  BY <1>2, UpdatesAre DEF RowFields
<1>4. w["access"] = r["access"] /\ w["success"] = r["success"] /\ w["recurrence"] = r["recurrence"]
  BY <1>2, UpdatesAre DEF RowFields
<1>5. w["importance"] \in Nat
  BY <1>2, UpdatesAre, RowFieldsAre DEF RowFields
<1>6. w["unused"] \in Nat
  BY <1>2, UpdatesAre, RowFieldsAre DEF RowFields
<1>7. w["uses"] \in UseCounts
  BY <1>2, UpdatesAre, RowFieldsAre DEF RowFields
<1>8. /\ w["status"] = IF "status" \in DOMAIN u THEN u["status"] ELSE r["status"]
      /\ w["status"] \in Statuses
      /\ w["status"] = "PROMOTED" => r["status"] = "PROMOTED"
  BY <1>2, UpdatesAre, RowFieldsAre DEF RowFields, Statuses, Active
<1>9. DOMAIN w = RowFields /\ w = [f \in RowFields |-> w[f]]
  BY <1>1
<1>10. w \in MemoryRow
  BY <1>3, <1>4, <1>5, <1>6, <1>7, <1>8, <1>9, IsRow, RowFieldsAre
<1>11. CountsFit(w)
  BY <1>3, <1>4, <1>8 DEF CountsFit
<1> QED
  BY <1>3, <1>4, <1>8, <1>10, <1>11

\* What makes a tool's record active by itself.
Merits(r) == r.success >= 1 \/ r.access >= 2 \/ r.kind \in {"decision", "pattern"}

\* What a call makes of the record it has read.
LEMMA UsedIs ==
  ASSUME NEW r \in MemoryRow, CountsFit(r), NEW success \in BOOLEAN
  PROVE  LET w == Used(r, success) IN
         /\ w \in MemoryRow /\ CountsFit(w)
         /\ w.kind = r.kind /\ w.source = r.source /\ w.topic = r.topic /\ w.content = r.content
         /\ w.access = r.access + 1 /\ w.success >= r.success
         /\ w.status = "PROMOTED" /\ w.source = "tool" =>
              r.status = "PROMOTED" \/ Important(w) \/ Merits(w)
         /\ w.status # "PROMOTED" => w.status = r.status
         /\ r.status = "INVALIDATED" => w.status = "INVALIDATED"
<1> DEFINE c == [r EXCEPT !.access = @ + 1, !.recurrence = @ + 1,
                          !.success = @ + IF success THEN 1 ELSE 0]
<1> DEFINE more == IF success THEN 1 ELSE 0
<1>1. /\ c \in MemoryRow
      /\ c.access = r.access + 1 /\ c.recurrence = r.recurrence + 1
      /\ c.success = r.success + more
      /\ c.kind = r.kind /\ c.source = r.source /\ c.topic = r.topic /\ c.content = r.content
      /\ c.status = r.status /\ c.tier = r.tier /\ c.importance = r.importance
  <2>1. DOMAIN r = RowFields
    BY RowFieldsAre
  <2>2. DOMAIN c = RowFields /\ c = [f \in RowFields |-> c[f]]
    BY <2>1
  <2>3. \A f \in RowFields : f \notin {"access", "recurrence", "success"} => c[f] = r[f]
    BY <2>1
  <2>4. c["access"] = r["access"] + 1
    BY <2>1 DEF RowFields
  <2>5. c["recurrence"] = r["recurrence"] + 1
    BY <2>1 DEF RowFields
  <2>6. c["success"] = r["success"] + more
    BY <2>1 DEF RowFields
  <2> HIDE DEF c
  <2>7. /\ c["kind"] = r["kind"] /\ c["source"] = r["source"] /\ c["topic"] = r["topic"]
        /\ c["content"] = r["content"] /\ c["tier"] = r["tier"] /\ c["status"] = r["status"]
        /\ c["importance"] = r["importance"] /\ c["unused"] = r["unused"] /\ c["uses"] = r["uses"]
    BY <2>3 DEF RowFields
  <2>8. c["access"] \in Nat /\ c["recurrence"] \in Nat /\ c["success"] \in Nat
    BY <2>4, <2>5, <2>6, RowFieldsAre
  <2>9. c \in MemoryRow
    BY <2>2, <2>7, <2>8, IsRow, RowFieldsAre
  <2> QED
    BY <2>4, <2>5, <2>6, <2>7, <2>9
<1>2. c.recurrence = c.access + 1 /\ c.success <= c.access
  <2>1. r.access \in Nat /\ r.success \in Nat /\ more \in 0..1 /\ (more = 1 => success)
    BY RowFieldsAre
  <2>2. c.success <= c.access
    BY <1>1, <2>1 DEF CountsFit
  <2> QED
    BY <1>1, <2>2, RowFieldsAre DEF CountsFit
<1>3. Used(r, success) = IF ShouldPromote(c)
        THEN [c EXCEPT !.status = "PROMOTED", !.tier = PromotedTier(c)] ELSE c
  BY DEF Used
<1>9. c.success >= r.success
  BY <1>1, RowFieldsAre
<1> HIDE DEF c, more
<1>4. CASE ~ShouldPromote(c)
  <2>1. CountsFit(c)
    BY <1>2, <1>4 DEF CountsFit, ShouldPromote
  <2> QED
    BY <1>1, <1>3, <1>4, <1>9, <2>1
<1>5. CASE ShouldPromote(c)
  <2> DEFINE w == [c EXCEPT !.status = "PROMOTED", !.tier = PromotedTier(c)]
  <2>1. /\ PromotedTier(c) \in {"SEMANTIC", "PROCEDURAL"}
        /\ PromotedTier(c) \in Tiers /\ "PROMOTED" \in Statuses
    BY DEF PromotedTier, Tiers, Statuses, Active
  <2>7. w = [c EXCEPT !.status = "PROMOTED", !.tier = PromotedTier(c)]
    OBVIOUS
  <2>8. /\ DOMAIN w = RowFields /\ w = [f \in RowFields |-> w[f]]
        /\ \A f \in RowFields : w[f] = IF f = "tier" THEN PromotedTier(c)
                                      ELSE IF f = "status" THEN "PROMOTED" ELSE c[f]
    BY <1>1, RowFieldsAre
  <2> HIDE DEF w
  <2>2. /\ w \in MemoryRow
        /\ w.access = c.access /\ w.recurrence = c.recurrence /\ w.success = c.success
        /\ w.kind = c.kind /\ w.source = c.source /\ w.topic = c.topic /\ w.content = c.content
        /\ w.importance = c.importance /\ w.status = "PROMOTED" /\ w.tier = PromotedTier(c)
    BY <1>1, <2>1, <2>8, PlacedIs
  <2>3. CountsFit(w)
    BY <1>2, <2>1, <2>2 DEF CountsFit
  <2>4. /\ c.status # "INVALIDATED"
        /\ c.source = "tool" => Important(c) \/ Merits(c)
    BY <1>5 DEF ShouldPromote, Important, Merits
  <2>5. c.source = "tool" => Important(w) \/ Merits(w)
    BY <2>2, <2>4 DEF Important, Merits
  <2>6. Used(r, success) = w
    BY <1>3, <1>5, <2>7
  <2> QED
    BY <1>1, <1>9, <2>2, <2>3, <2>4, <2>5, <2>6
<1> QED
  BY <1>4, <1>5

\* A step keeps what a record is about, counts one use at most, and activates
\* only by decision, importance or merit.
LEMMA RewrittenIs ==
  ASSUME NEW r \in MemoryRow, CountsFit(r), NEW step \in Steps
  PROVE  LET w == Rewritten(step, r) IN
         /\ w \in MemoryRow /\ CountsFit(w)
         /\ w.kind = r.kind /\ w.source = r.source /\ w.topic = r.topic /\ w.content = r.content
         /\ w.access = r.access + (IF step.op \in UseOps THEN 1 ELSE 0)
         /\ w.success >= r.success
         /\ w.status \in Active /\ w.source = "tool" =>
              \/ r.status \in Active \/ Activates(step) \/ Important(w) \/ Merits(w)
         /\ step.op = "invalidate" => w.status = "INVALIDATED"
         /\ step.op \in UseOps /\ r.status = "INVALIDATED" => w.status = "INVALIDATED"
<1> DEFINE w == Rewritten(step, r)
<1> /\ r.access \in Nat /\ r.success \in Nat /\ r.status \in Statuses
  BY RowFieldsAre
<1>1. CASE step.op \in UseOps
  <2> DEFINE good == step.op = "succeeded"
  <2>1. w = Used(r, good) /\ good \in BOOLEAN
    BY <1>1 DEF Rewritten, UseOps
  <2>2. step.op # "invalidate"
    BY <1>1 DEF UseOps
  <2> HIDE DEF w, good
  <2>3. /\ w \in MemoryRow /\ CountsFit(w)
        /\ w.kind = r.kind /\ w.source = r.source /\ w.topic = r.topic /\ w.content = r.content
        /\ w.access = r.access + 1 /\ w.success >= r.success
        /\ w.status = "PROMOTED" /\ w.source = "tool" =>
             r.status = "PROMOTED" \/ Important(w) \/ Merits(w)
        /\ w.status # "PROMOTED" => w.status = r.status
        /\ r.status = "INVALIDATED" => w.status = "INVALIDATED"
    BY <2>1, UsedIs
  <2>4. w.status \in Active /\ w.source = "tool" =>
          r.status \in Active \/ Important(w) \/ Merits(w)
    BY <2>3 DEF Active
  <2> QED
    BY <1>1, <2>2, <2>3, <2>4 DEF w
<1>2. CASE step.op \in {"promote", "markStale", "invalidate"}
  <2>1. PromotedTier(r) \in Tiers /\ {"ACTIVE", "STALE", "INVALIDATED"} \subseteq Statuses
    BY DEF PromotedTier, Tiers, Statuses, Active
  <2>2. step.op \notin UseOps
    BY <1>2 DEF UseOps
  <2>3. CASE step.op = "promote"
    <3>1. w = [r EXCEPT !.status = "ACTIVE", !.tier = PromotedTier(r)]
      BY <2>3 DEF Rewritten
    <3>4. /\ DOMAIN w = RowFields /\ w = [f \in RowFields |-> w[f]]
          /\ \A f \in RowFields : w[f] = IF f = "tier" THEN PromotedTier(r)
                                        ELSE IF f = "status" THEN "ACTIVE" ELSE r[f]
      BY <3>1, RowFieldsAre
    <3> HIDE DEF w
    <3>2. /\ w \in MemoryRow /\ w.status = "ACTIVE"
          /\ w.kind = r.kind /\ w.source = r.source /\ w.topic = r.topic /\ w.content = r.content
          /\ w.access = r.access /\ w.success = r.success /\ w.recurrence = r.recurrence
      BY <2>1, <3>4, PlacedIs
    <3>3. CountsFit(w)
      BY <3>2 DEF CountsFit
    <3> QED
      BY <2>2, <2>3, <3>2, <3>3 DEF Activates, w
  <2>4. CASE step.op = "markStale"
    <3>1. w = [r EXCEPT !.status = "STALE"] /\ r.tier \in Tiers
      BY <2>4, RowFieldsAre DEF Rewritten
    <3>4. /\ DOMAIN w = RowFields /\ w = [f \in RowFields |-> w[f]]
          /\ \A f \in RowFields : w[f] = IF f = "tier" THEN r.tier
                                        ELSE IF f = "status" THEN "STALE" ELSE r[f]
      BY <3>1, RowFieldsAre
    <3> HIDE DEF w
    <3>2. /\ w \in MemoryRow /\ w.status = "STALE"
          /\ w.kind = r.kind /\ w.source = r.source /\ w.topic = r.topic /\ w.content = r.content
          /\ w.access = r.access /\ w.success = r.success /\ w.recurrence = r.recurrence
      BY <2>1, <3>1, <3>4, PlacedIs
    <3>3. CountsFit(w)
      BY <3>2 DEF CountsFit
    <3> QED
      BY <2>2, <2>4, <3>2, <3>3 DEF Active, w
  <2>5. CASE step.op = "invalidate"
    <3>1. w = [r EXCEPT !.status = "INVALIDATED"] /\ r.tier \in Tiers
      BY <2>5, RowFieldsAre DEF Rewritten
    <3>4. /\ DOMAIN w = RowFields /\ w = [f \in RowFields |-> w[f]]
          /\ \A f \in RowFields : w[f] = IF f = "tier" THEN r.tier
                                        ELSE IF f = "status" THEN "INVALIDATED" ELSE r[f]
      BY <3>1, RowFieldsAre
    <3> HIDE DEF w
    <3>2. /\ w \in MemoryRow /\ w.status = "INVALIDATED"
          /\ w.kind = r.kind /\ w.source = r.source /\ w.topic = r.topic /\ w.content = r.content
          /\ w.access = r.access /\ w.success = r.success /\ w.recurrence = r.recurrence
      BY <2>1, <3>1, <3>4, PlacedIs
    <3>3. CountsFit(w)
      BY <3>2 DEF CountsFit
    <3> QED
      BY <2>2, <2>5, <3>2, <3>3 DEF Active, w
  <2> QED
    BY <1>2, <2>3, <2>4, <2>5
<1>3. CASE step.op \notin UseOps \cup {"promote", "markStale", "invalidate"}
  <2>1. w = [f \in DOMAIN r |-> IF f \in DOMAIN step.updates THEN step.updates[f] ELSE r[f]]
    BY <1>3 DEF Rewritten, UseOps
  <2>2. step.updates \in Updates
    BY <1>3 DEF Steps, PlainOps, UseOps
  <2> HIDE DEF w
  <2>3. /\ w \in MemoryRow /\ CountsFit(w)
        /\ w.kind = r.kind /\ w.source = r.source /\ w.topic = r.topic /\ w.content = r.content
        /\ w.access = r.access /\ w.success = r.success
        /\ w.status = IF "status" \in DOMAIN step.updates THEN step.updates.status ELSE r.status
        /\ w.status = "PROMOTED" => r.status = "PROMOTED"
    BY <2>1, <2>2, UpdatedIs
  <2>4. w.status \in Active => r.status \in Active \/ Activates(step)
    BY <2>3 DEF Active, Activates
  <2> QED
    BY <1>3, <2>3, <2>4 DEF w
<1> QED
  BY <1>1, <1>2, <1>3

\* A record as it is created.
LEMMA CreatedIs ==
  ASSUME NEW draft \in DraftRow
  PROVE  LET r == Created(draft) IN
         /\ r \in MemoryRow /\ CountsFit(r) /\ r.access = 0
         /\ r.status \in Active /\ r.source = "tool" =>
              Important(r) \/ Merits(r) \/ Asserts(draft)
<1> DEFINE asked == [kind |-> draft.kind, source |-> draft.source, importance |-> draft.importance,
                topic |-> draft.topic, content |-> draft.content,
                tier |-> draft.tier, access |-> 0, success |-> 0, recurrence |-> 1,
                unused |-> 0, uses |-> Unset, status |-> FirstStatus(draft)]
<1>1. /\ asked \in MemoryRow /\ asked.access = 0 /\ asked.recurrence = 1 /\ asked.success = 0
      /\ asked.status \in Active /\ asked.source = "tool" =>
           asked.importance >= 70 \/ Asserts(draft)
  <2>1. /\ draft.kind \in STRING /\ draft.source \in STRING /\ draft.importance \in Nat
        /\ draft.topic \in STRING /\ draft.content \in STRING /\ draft.tier \in Tiers
        /\ draft.status \in Statuses \cup {"unnamed"}
    BY DEF DraftRow
  <2>2. DOMAIN asked = RowFields /\ asked = [f \in RowFields |-> asked[f]]
    BY DEF RowFields
  <2>3. /\ asked["kind"] = draft.kind /\ asked["source"] = draft.source
        /\ asked["importance"] = draft.importance /\ asked["topic"] = draft.topic
        /\ asked["content"] = draft.content /\ asked["tier"] = draft.tier
        /\ asked["access"] = 0 /\ asked["success"] = 0 /\ asked["recurrence"] = 1
        /\ asked["unused"] = 0 /\ asked["uses"] = Unset
        /\ asked["status"] = FirstStatus(draft)
    OBVIOUS
  <2> HIDE DEF asked
  <2>4. asked["tier"] \in Tiers /\ asked["status"] \in Statuses /\ asked["uses"] \in UseCounts
    BY <2>1, <2>3 DEF UseCounts, Statuses, Active, FirstStatus
  <2>5. asked \in MemoryRow
    BY <2>1, <2>2, <2>3, <2>4, IsRow
  <2>6. FirstStatus(draft) \in Active /\ draft.source = "tool" =>
          draft.importance >= 70 \/ Asserts(draft)
    BY <2>1 DEF FirstStatus, Asserts, Active
  <2> QED
    BY <2>1, <2>3, <2>5, <2>6
<1>2. Created(draft) = IF ShouldPromote(asked)
        THEN [asked EXCEPT !.status = "ACTIVE", !.tier = PromotedTier(asked)] ELSE asked
  BY DEF Created
<1> HIDE DEF asked
<1>3. CASE ~ShouldPromote(asked)
  BY <1>1, <1>2, <1>3 DEF CountsFit, Active, Important
<1>4. CASE ShouldPromote(asked)
  <2> DEFINE w == [asked EXCEPT !.status = "ACTIVE", !.tier = PromotedTier(asked)]
  <2>1. PromotedTier(asked) \in Tiers /\ "ACTIVE" \in Statuses
    BY DEF PromotedTier, Tiers, Statuses, Active
  <2>7. w = [asked EXCEPT !.status = "ACTIVE", !.tier = PromotedTier(asked)]
    OBVIOUS
  <2>8. /\ DOMAIN w = RowFields /\ w = [f \in RowFields |-> w[f]]
        /\ \A f \in RowFields : w[f] = IF f = "tier" THEN PromotedTier(asked)
                                      ELSE IF f = "status" THEN "ACTIVE" ELSE asked[f]
    BY <1>1, RowFieldsAre
  <2> HIDE DEF w
  <2>2. /\ w \in MemoryRow /\ w.access = asked.access /\ w.recurrence = asked.recurrence
        /\ w.success = asked.success /\ w.kind = asked.kind /\ w.source = asked.source
        /\ w.importance = asked.importance /\ w.status = "ACTIVE"
    BY <1>1, <2>1, <2>8, PlacedIs
  <2>3. CountsFit(w)
    BY <1>1, <2>2 DEF CountsFit
  <2>4. asked.source = "tool" => Important(asked) \/ Merits(asked)
    BY <1>4 DEF ShouldPromote, Important, Merits
  <2>5. w.source = "tool" => Important(w) \/ Merits(w)
    BY <2>2, <2>4 DEF Important, Merits
  <2>6. Created(draft) = w
    BY <1>2, <1>4, <2>7
  <2> QED
    BY <1>1, <2>2, <2>3, <2>5, <2>6
<1> QED
  BY <1>3, <1>4

\* What a caller is in the midst of.
CallRow ==
  [steps : Seq(Steps), read : MemoryRow \cup {NoMemory},
   settles : {<<>>} \cup (Memories \X Memories), creates : Memories \cup {NoMemory},
   record : MemoryRow \cup {NoMemory}, seen : SUBSET Memories, noted : BOOLEAN,
   asserts : BOOLEAN]
MemoryTypes ==
  /\ memory \in [Memories -> MemoryRow \cup {NoMemory}]
  /\ conflicts \subseteq Memories \X Memories
  /\ calls \in [Users -> CallRow]
  /\ told \in [raced : SUBSET Memories, dead : SUBSET Memories, granted : SUBSET Memories,
               important : SUBSET Memories, excused : SUBSET (SUBSET Memories),
               used : [Memories -> Nat]]

\* A contradiction on file, or one the store is excused from knowing of.
Known(a, b) ==
  {a, b} \in told.excused \/ <<a, b>> \in conflicts \/ <<b, a>> \in conflicts

\* What a call has read was as good as what is stored; what it is about to
\* create is not there yet, and what it has noted is still known.
ReadStands(m, r) ==
  IF memory[m] = NoMemory THEN m \in told.raced
                          ELSE memory[m].topic = r.topic /\ memory[m].content = r.content
CallFine(c) ==
  /\ c.read # NoMemory =>
       /\ c.steps # <<>> /\ CountsFit(c.read)
       /\ Earned(Head(c.steps).id, c.read) /\ ReadStands(Head(c.steps).id, c.read)
  /\ c.creates = NoMemory => ~c.noted
  /\ c.creates # NoMemory =>
       /\ c.record # NoMemory /\ CountsFit(c.record) /\ c.record.access = 0
       /\ c.record.status \in Active /\ c.record.source = "tool" =>
            Important(c.record) \/ Merits(c.record) \/ c.asserts
       /\ memory[c.creates] = NoMemory /\ c.creates \notin told.raced
       /\ c.noted => \A a \in c.seen : Known(a, c.creates)
\* A stored record is sound, with its uses counted unless calls raced on it.
RowFine(m) ==
  /\ memory[m] # NoMemory =>
       /\ CountsFit(memory[m]) /\ Earned(m, memory[m])
       /\ m \notin told.raced => memory[m].access = told.used[m]
       /\ m \in told.dead => memory[m].status = "INVALIDATED"
  /\ memory[m] = NoMemory /\ m \notin told.raced => told.used[m] = 0 /\ m \notin told.dead
\* Two callers never create the same record.
NoneTwice ==
  \A u, v \in Users : calls[u].creates = calls[v].creates /\ u # v => calls[u].creates = NoMemory
\* The inductive invariant.
MemoryInv ==
  /\ MemoryTypes
  /\ \A u \in Users : CallFine(calls[u])
  /\ \A m \in Memories : RowFine(m)
  /\ NoneTwice
  /\ \A a, b \in Memories :
       memory[a] # NoMemory /\ memory[b] # NoMemory /\ Contradict(memory[a], memory[b])
         => Known(a, b)

\* A caller at rest has read nothing and creates nothing.
LEMMA AtRestIs == AtRest \in CallRow /\ AtRest.read = NoMemory /\ AtRest.creates = NoMemory
                  /\ ~AtRest.noted
<1>1. <<>> \in Seq(Steps)
  OBVIOUS
<1> QED
  BY <1>1 DEF AtRest, CallRow

\* The invariant holds of a provider another store has filled.
LEMMA MemoryStart == MemoryInit => MemoryInv
<1> SUFFICES ASSUME MemoryInit PROVE MemoryInv
  OBVIOUS
<1>1. /\ memory \in [Memories -> MemoryRow \cup {NoMemory}]
      /\ \A m \in Memories : memory[m] # NoMemory => CountsFit(memory[m]) /\ memory[m] \in MemoryRow
  BY MemoryConstants DEF MemoryInit
<1>2. /\ conflicts = {} /\ \A u \in Users : calls[u] = AtRest
      /\ calls \in [Users -> CallRow]
  BY AtRestIs DEF MemoryInit
<1>3. /\ told.raced = {} /\ told.dead = {} /\ told.granted = Retrieved(Active)
      /\ told.important = {m \in Stored : Important(memory[m])}
      /\ told.excused = {{a, b} : a, b \in Stored}
      /\ told.used = [m \in Memories |-> IF m \in Stored THEN memory[m].access ELSE 0]
      /\ told = [raced |-> told.raced, dead |-> told.dead, granted |-> told.granted,
                 important |-> told.important, excused |-> told.excused, used |-> told.used]
  BY DEF MemoryInit
<1>4. Stored \subseteq Memories /\ \A m \in Memories : m \in Stored <=> memory[m] # NoMemory
  BY DEF Stored
<1>5. MemoryTypes
  <2>1. told.granted \subseteq Memories /\ told.important \subseteq Memories
    BY <1>3, <1>4 DEF Retrieved
  <2>2. told.excused \subseteq SUBSET Memories
    BY <1>3, <1>4
  <2>3. told.used \in [Memories -> Nat]
    <3>1. \A m \in Memories : (IF m \in Stored THEN memory[m].access ELSE 0) \in Nat
      BY <1>1, <1>4 DEF MemoryRow
    <3> QED
      BY <1>3, <3>1
  <2>4. told \in [raced : SUBSET Memories, dead : SUBSET Memories, granted : SUBSET Memories,
               important : SUBSET Memories, excused : SUBSET (SUBSET Memories),
               used : [Memories -> Nat]]
    <3>1. told.raced \in SUBSET Memories /\ told.dead \in SUBSET Memories
      BY <1>3
    <3> QED
      BY <1>3, <2>1, <2>2, <2>3, <3>1
  <2> QED
    BY <1>1, <1>2, <2>4 DEF MemoryTypes
<1>6. \A u \in Users : CallFine(calls[u])
  BY <1>2, AtRestIs DEF CallFine
<1>7. ASSUME NEW m \in Memories
      PROVE  RowFine(m)
  <2>1. CASE memory[m] # NoMemory
    <3>1. told.used[m] = memory[m].access
      BY <1>3, <1>4, <2>1
    <3>2. Earned(m, memory[m])
      BY <1>3, <1>4, <2>1 DEF Earned, Retrieved
    <3> QED
      BY <1>1, <1>3, <2>1, <3>1, <3>2 DEF RowFine
  <2>2. CASE memory[m] = NoMemory
    <3>1. told.used[m] = 0 /\ m \notin told.dead
      BY <1>3, <1>4, <2>2
    <3> QED
      BY <2>2, <3>1 DEF RowFine
  <2> QED
    BY <2>1, <2>2
<1>8. NoneTwice
  BY <1>2, AtRestIs DEF NoneTwice
<1>9. \A a, b \in Memories : memory[a] # NoMemory /\ memory[b] # NoMemory => Known(a, b)
  BY <1>3, <1>4 DEF Known
<1> QED
  BY <1>5, <1>6, <1>7, <1>8, <1>9 DEF MemoryInv

\* Only what one caller is in the midst of changes.
LEMMA CallMoves ==
  ASSUME MemoryInv, NEW u \in Users, NEW c \in CallRow, CallFine(c),
         calls' = [calls EXCEPT ![u] = c],
         memory' = memory, told' = told, conflicts' = conflicts,
         c.creates # NoMemory => \A v \in Users : v # u => calls[v].creates # c.creates
  PROVE  MemoryInv'
<1>1. calls \in [Users -> CallRow]
  BY DEF MemoryInv, MemoryTypes
<1>2. calls'[u] = c /\ \A v \in Users : v # u => calls'[v] = calls[v]
  BY <1>1
<1>3. MemoryTypes'
  BY <1>1 DEF MemoryInv, MemoryTypes
<1>4. \A a, b : Known(a, b)' <=> Known(a, b)
  BY DEF Known
<1>5. \A m \in Memories : RowFine(m)'
  BY DEF MemoryInv, RowFine, Earned
<1>6. ASSUME NEW v \in Users
      PROVE  CallFine(calls[v])'
  <2>1. CallFine(calls'[v])
    BY <1>2 DEF MemoryInv
  <2> QED
    BY <1>4, <2>1 DEF CallFine, Earned, ReadStands
<1>7. NoneTwice'
  BY <1>2 DEF MemoryInv, NoneTwice
<1>8. \A a, b \in Memories :
        memory'[a] # NoMemory /\ memory'[b] # NoMemory /\ Contradict(memory'[a], memory'[b])
          => Known(a, b)'
  BY <1>4 DEF MemoryInv
<1> QED
  BY <1>3, <1>5, <1>6, <1>7, <1>8 DEF MemoryInv

\* A finite set as a sequence.
LEMMA SetInSeq ==
  ASSUME NEW S, IsFiniteSet(S)
  PROVE  SetToSeq(S) \in Seq(S)
<1>1. Cardinality(S) \in Nat /\ ExistsBijection(1..Cardinality(S), S)
  BY FS_CardinalityType
<1>2. \E f \in [1..Cardinality(S) -> S] : IsInjective(f)
  BY <1>1 DEF ExistsBijection, Bijection, Injection
<1>3. SetToSeq(S) \in [1..Cardinality(S) -> S]
  BY <1>2 DEF SetToSeq
<1> QED
  BY <1>1, <1>3

\* The image of a set of memories.
LEMMA ImageInSeq ==
  ASSUME NEW D, D \subseteq Memories, NEW f \in [D -> Steps],
         NEW S, S = {f[m] : m \in D}
  PROVE  SetToSeq(S) \in Seq(Steps)
<1>1. IsFiniteSet(D)
  BY MemoryConstants, FS_Subset
<1>2. f \in Surjection(D, S)
  BY DEF Surjection
<1>3. IsFiniteSet(S)
  BY <1>1, <1>2, FS_Surjection
<1>4. S \subseteq Steps
  OBVIOUS
<1>5. SetToSeq(S) \in Seq(S)
  BY <1>3, SetInSeq
<1> QED
  BY <1>4, <1>5

\* A call with steps to take has read nothing yet.
LEMMA Starts ==
  ASSUME MemoryInv, NEW u \in Users, NEW steps \in Seq(Steps),
         NEW settles \in {<<>>} \cup (Memories \X Memories),
         StartSteps(u, steps, settles)
  PROVE  MemoryInv'
<1> DEFINE c == [AtRest EXCEPT !.steps = steps, !.settles = settles]
<1>1. c \in CallRow /\ c.read = NoMemory /\ c.creates = NoMemory /\ ~c.noted
  BY AtRestIs DEF AtRest, CallRow
<1>2. calls' = [calls EXCEPT ![u] = c]
  BY DEF StartSteps
<1>3. memory' = memory /\ told' = told /\ conflicts' = conflicts
  BY DEF StartSteps
<1> HIDE DEF c
<1>4. CallFine(c)
  BY <1>1 DEF CallFine
<1> QED
  BY <1>1, <1>2, <1>3, <1>4, CallMoves

\* Steps as they are built.
LEMMA PlainStep ==
  ASSUME NEW m \in Memories, NEW op \in PlainOps
  PROVE  Step(m, op, NoUpdates) \in Steps
BY DEF Step, Steps

LEMMA UpdateStep ==
  ASSUME NEW m \in Memories, NEW u \in Updates
  PROVE  Step(m, "update", u) \in Steps
BY DEF Step, Steps

LEMMA OneStep == ASSUME NEW s \in Steps PROVE <<s>> \in Seq(Steps)
OBVIOUS

\* Stored records and their counts.
LEMMA StoredAre ==
  ASSUME MemoryInv, NEW m \in Stored
  PROVE  /\ m \in Memories /\ memory[m] \in MemoryRow /\ memory[m].importance \in Nat
         /\ memory[m].access \in Nat /\ memory[m].unused \in Nat /\ memory[m].uses \in UseCounts
<1>1. m \in Memories /\ memory[m] \in MemoryRow
  BY DEF MemoryInv, MemoryTypes, Stored
<1> QED
  BY <1>1, RowFieldsAre

\* The calls that start a list of steps, one lemma each.
LEMMA Called ==
  ASSUME MemoryInv, NEW u \in Users, NEW m \in Memories, NEW op \in PlainOps, Call(u, m, op)
  PROVE  MemoryInv'
<1>1. <<Step(m, op, NoUpdates)>> \in Seq(Steps)
  BY PlainStep, OneStep
<1> QED
  BY <1>1, Starts DEF Call

LEMMA Resolves ==
  ASSUME MemoryInv, NEW u \in Users, NEW pair \in conflicts, NEW winner \in Memories,
         ResolveConflict(u, pair, winner)
  PROVE  MemoryInv'
<1> DEFINE loser == IF pair[1] = winner THEN pair[2] ELSE pair[1]
<1>1. pair \in Memories \X Memories
  BY DEF MemoryInv, MemoryTypes
<1>2. loser \in Memories
  BY <1>1
<1>3. StartSteps(u, <<Step(loser, "invalidate", NoUpdates),
                      Step(winner, "promote", NoUpdates)>>, pair)
  BY DEF ResolveConflict
<1> HIDE DEF loser
<1>4. /\ Step(loser, "invalidate", NoUpdates) \in Steps
      /\ Step(winner, "promote", NoUpdates) \in Steps
  BY <1>2, PlainStep DEF PlainOps
<1>5. <<Step(loser, "invalidate", NoUpdates), Step(winner, "promote", NoUpdates)>> \in Seq(Steps)
  BY <1>4
<1> QED
  BY <1>1, <1>3, <1>5, Starts

LEMMA Curates ==
  ASSUME MemoryInv, NEW u \in Users, Curate(u)
  PROVE  MemoryInv'
<1> DEFINE decided == {m \in Curated : Verdict(memory[m]) # NoUpdates}
           f == [m \in decided |-> Step(m, "update", Verdict(memory[m]))]
           S == {Step(m, "update", Verdict(memory[m])) : m \in decided}
<1>1. decided \subseteq Stored /\ decided \subseteq Memories
  BY DEF Curated, Retrieved, Stored
<1>2. ASSUME NEW m \in decided
      PROVE  Step(m, "update", Verdict(memory[m])) \in Steps
  <2>1. m \in Memories /\ memory[m].access \in Nat /\ memory[m].uses \in UseCounts
    BY <1>1, StoredAre
  <2>2. UseCount(memory[m]) \in Nat
    BY <2>1 DEF UseCount, UseCounts
  <2>3. Boosted(memory[m]) \in Nat
    BY <2>2 DEF Boosted
  <2>4. \/ Verdict(memory[m]) = [status |-> "ARCHIVED"] \/ Verdict(memory[m]) = [status |-> "STALE"]
        \/ Verdict(memory[m]) = [importance |-> Boosted(memory[m])]
    BY <1>2 DEF Verdict
  <2>5. \/ Verdict(memory[m]) \in [status : {"STALE", "ARCHIVED"}]
        \/ Verdict(memory[m]) \in [importance : Nat]
    BY <2>3, <2>4
  <2>6. Verdict(memory[m]) \in Updates
    BY <2>5 DEF Updates, UpdateSets
  <2> QED
    BY <2>1, <2>6, UpdateStep
<1>3. f \in [decided -> Steps]
  BY <1>2
<1>4. S = {f[m] : m \in decided}
  OBVIOUS
<1>5. StartSteps(u, SetToSeq(S), <<>>)
  BY DEF Curate
<1> HIDE DEF f, S, decided
<1>6. SetToSeq(S) \in Seq(Steps)
  BY <1>1, <1>3, <1>4, ImageInSeq
<1> QED
  BY <1>5, <1>6, Starts

LEMMA Advances ==
  ASSUME MemoryInv, NEW u \in Users, AdvanceIterationCounter(u)
  PROVE  MemoryInv'
<1> DEFINE updates(m) == [unused |-> memory[m].unused + 1, uses |-> memory[m].uses]
           f == [m \in Curated |-> Step(m, "update", updates(m))]
           S == {Step(m, "update", updates(m)) : m \in Curated}
<1>1. Curated \subseteq Stored /\ Curated \subseteq Memories
  BY DEF Curated, Retrieved, Stored
<1>2. ASSUME NEW m \in Curated
      PROVE  Step(m, "update", updates(m)) \in Steps
  <2>1. m \in Memories /\ memory[m].unused \in Nat /\ memory[m].uses \in UseCounts
    BY <1>1, StoredAre
  <2>2. updates(m) \in [unused : Nat, uses : UseCounts]
    BY <2>1
  <2>3. updates(m) \in Updates
    BY <2>2 DEF Updates, UpdateSets
  <2> QED
    BY <2>1, <2>3, UpdateStep
<1>3. f \in [Curated -> Steps]
  BY <1>2
<1>4. S = {f[m] : m \in Curated}
  OBVIOUS
<1>5. StartSteps(u, SetToSeq(S), <<>>)
  BY DEF AdvanceIterationCounter
<1> HIDE DEF f, S
<1>6. SetToSeq(S) \in Seq(Steps)
  BY <1>1, <1>3, <1>4, ImageInSeq
<1> QED
  BY <1>5, <1>6, Starts

LEMMA SkillUses ==
  ASSUME MemoryInv, NEW u \in Users, NEW m \in Memories, SkillUsed(u, m) \/ MarkPatternUsed(u, m)
  PROVE  MemoryInv'
<1> DEFINE r == memory[m]
           more == IF r.importance + 2 > 100 THEN 100 ELSE r.importance + 2
           one == [importance |-> more, unused |-> r.unused, uses |-> UseCount(r) + 1]
           two == [status |-> "ACTIVE", unused |-> 0,
                   uses |-> (IF r.uses = Unset THEN 0 ELSE r.uses) + 1]
<1>1. m \in Stored
  BY DEF SkillUsed, MarkPatternUsed
<1>2. r.importance \in Nat /\ r.access \in Nat /\ r.unused \in Nat /\ r.uses \in UseCounts
  BY <1>1, StoredAre
<1>3. UseCount(r) \in Nat
  BY <1>2 DEF UseCount, UseCounts
<1>4. one \in [importance : Nat, unused : Nat, uses : UseCounts]
  BY <1>2, <1>3 DEF UseCounts
<1>5. two \in [status : {"ACTIVE"}, unused : Nat, uses : UseCounts]
  BY <1>2 DEF UseCounts
<1>6. one \in Updates /\ two \in Updates
  BY <1>4, <1>5 DEF Updates, UpdateSets
<1>7. \/ StartSteps(u, <<Step(m, "update", one)>>, <<>>)
      \/ StartSteps(u, <<Step(m, "update", two)>>, <<>>)
  BY DEF SkillUsed, MarkPatternUsed
<1> HIDE DEF one, two
<1>8. <<Step(m, "update", one)>> \in Seq(Steps) /\ <<Step(m, "update", two)>> \in Seq(Steps)
  BY <1>6, UpdateStep, OneStep
<1> QED
  BY <1>7, <1>8, Starts

\* Calls have their type.
LEMMA CallIs ==
  ASSUME MemoryInv, NEW u \in Users
  PROVE  calls[u] \in CallRow /\ CallFine(calls[u])
BY DEF MemoryInv, MemoryTypes

\* createRecord has looked; its record is not stored yet.
LEMMA Creates ==
  ASSUME MemoryInv, NEW u \in Users, NEW m \in Memories, NEW draft \in Drafts,
         CreateRecord(u, m, draft)
  PROVE  MemoryInv'
<1> DEFINE seen == {a \in Retrieved(Active) : Contradict(memory[a], Created(draft))}
           c == [AtRest EXCEPT !.creates = m, !.record = Created(draft),
                               !.asserts = Asserts(draft), !.seen = seen]
<1>1. /\ Created(draft) \in MemoryRow /\ CountsFit(Created(draft)) /\ Created(draft).access = 0
      /\ Created(draft).status \in Active /\ Created(draft).source = "tool" =>
           Important(Created(draft)) \/ Merits(Created(draft)) \/ Asserts(draft)
      /\ Asserts(draft) \in BOOLEAN
  <2>1. draft \in DraftRow
    BY MemoryConstants
  <2> QED
    BY <2>1, CreatedIs DEF Asserts
<1>2. seen \in SUBSET Memories
  BY DEF Retrieved, Stored
<1> HIDE DEF seen
<1>3. /\ c \in CallRow /\ c.read = NoMemory /\ c.creates = m /\ ~c.noted
      /\ c.record = Created(draft) /\ c.asserts = Asserts(draft)
  BY <1>1, <1>2, AtRestIs DEF AtRest, CallRow
<1>4. /\ calls' = [calls EXCEPT ![u] = c] /\ memory' = memory /\ told' = told
      /\ conflicts' = conflicts
  BY DEF CreateRecord, seen
<1>5. memory[m] = NoMemory /\ m \notin told.raced /\ \A v \in Users : calls[v].creates # m
  BY DEF CreateRecord
<1> HIDE DEF c
<1>6. CallFine(c)
  <2>1. c.record # NoMemory
    BY <1>1, <1>3, MemoryConstants
  <2> QED
    BY <1>1, <1>3, <1>5, <2>1, MemoryConstants DEF CallFine
<1> QED
  BY <1>3, <1>4, <1>5, <1>6, CallMoves

\* What was just read stands.
LEMMA Reads ==
  ASSUME MemoryInv, NEW u \in Users, ReadRecord(u)
  PROVE  MemoryInv'
<1> DEFINE m == Head(calls[u].steps).id
           now == memory[m]
           c == [calls[u] EXCEPT !.read = now]
<1>1. calls[u] \in CallRow /\ CallFine(calls[u]) /\ calls[u].steps # <<>>
  BY CallIs DEF ReadRecord
<1>2. m \in Memories
  <2>1. Head(calls[u].steps) \in Steps
    BY <1>1 DEF CallRow
  <2> QED
    BY <2>1 DEF Steps
<1>3. /\ memory' = memory /\ told' = told /\ conflicts' = conflicts
      /\ calls' = [calls EXCEPT ![u] = IF now = NoMemory THEN AtRest ELSE c]
  BY DEF ReadRecord
<1>4. CASE now = NoMemory
  <2>1. CallFine(AtRest)
    BY AtRestIs DEF CallFine
  <2> QED
    BY <1>3, <1>4, <2>1, AtRestIs, CallMoves
<1>5. CASE now # NoMemory
  <2>1. now \in MemoryRow /\ RowFine(m)
    BY <1>2, <1>5 DEF MemoryInv, MemoryTypes
  <2> HIDE DEF now
  <2>2. /\ c \in CallRow /\ c.read = now /\ c.steps = calls[u].steps
        /\ c.creates = calls[u].creates /\ c.noted = calls[u].noted
        /\ c.record = calls[u].record /\ c.seen = calls[u].seen
        /\ c.asserts = calls[u].asserts
    BY <1>1, <2>1 DEF CallRow
  <2> HIDE DEF c
  <2>3. CallFine(c)
    <3>1. CountsFit(now) /\ Earned(m, now) /\ ReadStands(m, now)
      BY <1>5, <2>1 DEF RowFine, ReadStands, now
    <3> QED
      BY <1>1, <2>2, <3>1 DEF CallFine
  <2>4. c.creates # NoMemory => \A v \in Users : v # u => calls[v].creates # c.creates
    BY <2>2 DEF MemoryInv, NoneTwice
  <2> QED
    BY <1>3, <1>5, <2>2, <2>3, <2>4, CallMoves
<1> QED
  BY <1>4, <1>5

\* What a creation has seen is on file before it stores.
LEMMA NotesIt ==
  ASSUME MemoryInv, NEW u \in Users, NoteConflicts(u)
  PROVE  MemoryInv'
<1>15. PICK m : m = calls[u].creates
  OBVIOUS
<1>16. PICK c : c = [calls[u] EXCEPT !.noted = TRUE]
  OBVIOUS
<1>1. calls[u] \in CallRow /\ CallFine(calls[u]) /\ m # NoMemory
  BY <1>15, CallIs DEF NoteConflicts
<1>2. /\ memory' = memory /\ told' = told /\ calls' = [calls EXCEPT ![u] = c]
      /\ conflicts' = conflicts \cup {<<a, m>> : a \in calls[u].seen}
  BY <1>15, <1>16 DEF NoteConflicts
<1>3. m \in Memories /\ calls[u].seen \subseteq Memories
  BY <1>1, <1>15 DEF CallRow
<1>4. conflicts' \subseteq Memories \X Memories
  BY <1>2, <1>3 DEF MemoryInv, MemoryTypes
<1>5. /\ c \in CallRow /\ c.read = calls[u].read /\ c.steps = calls[u].steps
      /\ c.creates = m /\ c.noted = TRUE
      /\ c.record = calls[u].record /\ c.seen = calls[u].seen
      /\ c.asserts = calls[u].asserts
  BY <1>1, <1>15, <1>16 DEF CallRow
<1>6. calls \in [Users -> CallRow]
  BY DEF MemoryInv, MemoryTypes
<1>7. calls'[u] = c /\ \A v \in Users : v # u => calls'[v] = calls[v]
  BY <1>2, <1>6
<1>8. MemoryTypes'
  BY <1>2, <1>4, <1>5, <1>6 DEF MemoryInv, MemoryTypes
<1>9. \A a, b : Known(a, b) => Known(a, b)'
  BY <1>2 DEF Known
<1>10. \A a \in calls[u].seen : Known(a, m)'
  BY <1>2 DEF Known
<1>11. \A k \in Memories : RowFine(k)'
  BY <1>2 DEF MemoryInv, RowFine, Earned
<1>12. ASSUME NEW v \in Users
       PROVE  CallFine(calls[v])'
  <2>1. CASE v = u
    <3>1. CallFine(calls[u])
      BY <1>1
    <3>2. CallFine(c)'
      BY <1>1, <1>2, <1>5, <1>10, <1>15, <3>1 DEF CallFine, Earned, ReadStands
    <3> QED
      BY <1>7, <2>1, <3>2
  <2>2. CASE v # u
    <3>1. CallFine(calls[v]) /\ calls'[v] = calls[v]
      BY <1>7, <2>2 DEF MemoryInv
    <3> QED
      BY <1>2, <1>9, <3>1 DEF CallFine, Earned, ReadStands
  <2> QED
    BY <2>1, <2>2
<1>13. NoneTwice'
  BY <1>5, <1>7, <1>15 DEF MemoryInv, NoneTwice
<1>14. \A a, b \in Memories :
        memory'[a] # NoMemory /\ memory'[b] # NoMemory /\ Contradict(memory'[a], memory'[b])
          => Known(a, b)'
  BY <1>2, <1>9 DEF MemoryInv
<1> QED
  BY <1>8, <1>11, <1>12, <1>13, <1>14 DEF MemoryInv

\* The first of the steps, and the rest.
LEMMA HeadIs ==
  ASSUME NEW c \in CallRow, c.steps # <<>>
  PROVE  /\ Head(c.steps) \in Steps /\ Head(c.steps).id \in Memories
         /\ Tail(c.steps) \in Seq(Steps)
<1>1. Head(c.steps) \in Steps /\ Tail(c.steps) \in Seq(Steps)
  BY DEF CallRow
<1> QED
  BY <1>1 DEF Steps

\* A stored record contradicts what its creation saw, or what is excused.
LEMMA Stores ==
  ASSUME MemoryInv, NEW u \in Users, StoreRecord(u)
  PROVE  MemoryInv'
<1>1. PICK m, row, seen :
        m = calls[u].creates /\ row = calls[u].record /\ seen = calls[u].seen
  OBVIOUS
<1>2. calls[u] \in CallRow /\ CallFine(calls[u]) /\ calls[u].noted
  BY CallIs DEF StoreRecord
<1>3. /\ m \in Memories /\ m # NoMemory /\ row \in MemoryRow /\ row # NoMemory /\ CountsFit(row)
      /\ row.access = 0
      /\ row.status \in Active /\ row.source = "tool" =>
           Important(row) \/ Merits(row) \/ calls[u].asserts
      /\ memory[m] = NoMemory /\ m \notin told.raced
      /\ \A a \in seen : Known(a, m)
  BY <1>1, <1>2 DEF CallFine, CallRow
<1>4. /\ conflicts' = conflicts /\ memory' = [memory EXCEPT ![m] = row]
      /\ calls' = [calls EXCEPT ![u] = AtRest]
      /\ told' = [told EXCEPT !.excused = @ \cup {{a, m} : a \in Stored \ seen},
                              !.granted = IF calls[u].asserts THEN @ \cup {m} ELSE @,
                              !.important = IF Important(row) THEN @ \cup {m} ELSE @]
  BY <1>1 DEF StoreRecord
<1>5. /\ memory \in [Memories -> MemoryRow \cup {NoMemory}] /\ calls \in [Users -> CallRow]
      /\ told \in [raced : SUBSET Memories, dead : SUBSET Memories, granted : SUBSET Memories,
               important : SUBSET Memories, excused : SUBSET (SUBSET Memories),
               used : [Memories -> Nat]]
  BY DEF MemoryInv, MemoryTypes
<1>6. /\ told'.raced = told.raced /\ told'.dead = told.dead
      /\ told'.granted = IF calls[u].asserts THEN told.granted \cup {m} ELSE told.granted
      /\ told'.used = told.used
      /\ told'.important = IF Important(row) THEN told.important \cup {m} ELSE told.important
      /\ told'.excused = told.excused \cup {{a, m} : a \in Stored \ seen}
  BY <1>4, <1>5
<1>7. memory'[m] = row /\ \A k \in Memories : k # m => memory'[k] = memory[k]
  BY <1>3, <1>4, <1>5
<1>8. calls'[u] = AtRest /\ \A v \in Users : v # u => calls'[v] = calls[v]
  BY <1>4, <1>5
<1>9. MemoryTypes'
  <2>1. memory' \in [Memories -> MemoryRow \cup {NoMemory}] /\ calls' \in [Users -> CallRow]
    BY <1>3, <1>4, <1>5, AtRestIs
  <2>2. /\ told'.important \in SUBSET Memories /\ told'.excused \in SUBSET (SUBSET Memories)
        /\ told'.granted \in SUBSET Memories
    BY <1>3, <1>5, <1>6 DEF Stored
  <2>3. told' \in [raced : SUBSET Memories, dead : SUBSET Memories, granted : SUBSET Memories,
               important : SUBSET Memories, excused : SUBSET (SUBSET Memories),
               used : [Memories -> Nat]]
    BY <1>4, <1>5, <1>6, <2>2
  <2> QED
    BY <1>4, <2>1, <2>3 DEF MemoryInv, MemoryTypes
<1>10. \A a, b : Known(a, b) => Known(a, b)'
  BY <1>4, <1>6 DEF Known
<1>11. \A k, r : Earned(k, r) => Earned(k, r)'
  BY <1>6 DEF Earned
<1>12. ASSUME NEW v \in Users
       PROVE  CallFine(calls[v])'
  <2>1. CASE v = u
    BY <1>8, <2>1, AtRestIs DEF CallFine
  <2>2. CASE v # u
    <3>1. CallFine(calls[v]) /\ calls'[v] = calls[v]
      BY <1>8, <2>2 DEF MemoryInv
    <3>2. calls[v].creates # m /\ calls[v] \in CallRow
      BY <1>1, <1>3, <1>5, <2>2 DEF MemoryInv, NoneTwice
    <3>3. calls[v].creates # NoMemory => memory'[calls[v].creates] = NoMemory
      BY <1>7, <3>1, <3>2 DEF CallFine, CallRow
    <3>4. calls[v].read # NoMemory => Head(calls[v].steps).id \in Memories
      BY <3>1, <3>2, HeadIs DEF CallFine
    <3>5. calls[v].read # NoMemory =>
            ReadStands(Head(calls[v].steps).id, calls[v].read)'
      BY <1>3, <1>6, <1>7, <3>1, <3>4 DEF CallFine, ReadStands
    <3> QED
      BY <1>6, <1>10, <1>11, <3>1, <3>3, <3>5 DEF CallFine
  <2> QED
    BY <2>1, <2>2
<1>13. ASSUME NEW k \in Memories
       PROVE  RowFine(k)'
  <2>1. CASE k = m
    <3>1. told.used[m] = 0 /\ m \notin told.dead
      BY <1>3 DEF MemoryInv, RowFine
    <3>2. Earned(m, row)'
      BY <1>3, <1>6 DEF Earned, Merits
    <3> QED
      BY <1>3, <1>6, <1>7, <2>1, <3>1, <3>2 DEF RowFine
  <2>2. CASE k # m
    BY <1>6, <1>7, <1>11, <2>2 DEF MemoryInv, RowFine
  <2> QED
    BY <2>1, <2>2
<1>14. NoneTwice'
  BY <1>8, AtRestIs DEF MemoryInv, NoneTwice
<1>15. ASSUME NEW a \in Memories, memory[a] # NoMemory
       PROVE  Known(a, m)' /\ Known(m, a)'
  <2>1. CASE a \in seen
    <3>1. Known(a, m)'
      BY <1>3, <1>10, <2>1
    <3> QED
      BY <3>1 DEF Known
  <2>2. CASE a \notin seen
    <3>1. a \in Stored \ seen
      BY <1>15, <2>2 DEF Stored
    <3> QED
      BY <1>6, <3>1 DEF Known
  <2> QED
    BY <2>1, <2>2
<1>16. ASSUME NEW a \in Memories, NEW b \in Memories,
              memory'[a] # NoMemory, memory'[b] # NoMemory, Contradict(memory'[a], memory'[b])
       PROVE  Known(a, b)'
  <2>1. a # b
    BY <1>16 DEF Contradict
  <2>2. CASE a # m /\ b # m
    BY <1>7, <1>10, <1>16, <2>2 DEF MemoryInv
  <2>3. CASE a = m \/ b = m
    BY <1>7, <1>15, <1>16, <2>1, <2>3
  <2> QED
    BY <2>2, <2>3
<1> QED
  BY <1>9, <1>12, <1>13, <1>14, <1>16 DEF MemoryInv

\* A deletion leaves calls that have read the record, and counts as a race.
LEMMA Deletes ==
  ASSUME MemoryInv, NEW m \in Memories, DeleteRecord(m)
  PROVE  MemoryInv'
<1>1. /\ memory[m] # NoMemory /\ memory' = [memory EXCEPT ![m] = NoMemory]
      /\ told' = [told EXCEPT !.raced = @ \cup {m}]
      /\ conflicts' = conflicts /\ calls' = calls
  BY DEF DeleteRecord, Stored
<1>2. /\ memory \in [Memories -> MemoryRow \cup {NoMemory}]
      /\ told \in [raced : SUBSET Memories, dead : SUBSET Memories, granted : SUBSET Memories,
               important : SUBSET Memories, excused : SUBSET (SUBSET Memories),
               used : [Memories -> Nat]]
  BY DEF MemoryInv, MemoryTypes
<1>3. /\ told'.raced = told.raced \cup {m} /\ told'.dead = told.dead
      /\ told'.granted = told.granted /\ told'.used = told.used
      /\ told'.important = told.important /\ told'.excused = told.excused
  BY <1>1, <1>2
<1>4. memory'[m] = NoMemory /\ \A k \in Memories : k # m => memory'[k] = memory[k]
  BY <1>1, <1>2
<1>5. MemoryTypes'
  <2>1. memory' \in [Memories -> MemoryRow \cup {NoMemory}]
    BY <1>1, <1>2
  <2>2. told' \in [raced : SUBSET Memories, dead : SUBSET Memories, granted : SUBSET Memories,
               important : SUBSET Memories, excused : SUBSET (SUBSET Memories),
               used : [Memories -> Nat]]
    BY <1>1, <1>2, <1>3
  <2> QED
    BY <1>1, <2>1, <2>2 DEF MemoryInv, MemoryTypes
<1>6. \A a, b : Known(a, b) => Known(a, b)'
  BY <1>1, <1>3 DEF Known
<1>7. \A k, r : Earned(k, r) => Earned(k, r)'
  BY <1>3 DEF Earned
<1>8. ASSUME NEW v \in Users
      PROVE  CallFine(calls[v])'
  <2>1. CallFine(calls[v]) /\ calls[v] \in CallRow
    BY CallIs
  <2>2. calls[v].creates # NoMemory =>
          memory'[calls[v].creates] = NoMemory /\ calls[v].creates \notin told'.raced
    BY <1>1, <1>3, <1>4, <2>1 DEF CallFine, CallRow
  <2>3. calls[v].read # NoMemory => Head(calls[v].steps).id \in Memories
    BY <2>1, HeadIs DEF CallFine
  <2>4. calls[v].read # NoMemory =>
          ReadStands(Head(calls[v].steps).id, calls[v].read)'
    BY <1>1, <1>3, <1>4, <2>1, <2>3 DEF CallFine, ReadStands
  <2> QED
    BY <1>1, <1>6, <1>7, <2>1, <2>2, <2>4 DEF CallFine
<1>9. \A k \in Memories : RowFine(k)'
  BY <1>3, <1>4, <1>7 DEF MemoryInv, RowFine
<1>10. NoneTwice'
  BY <1>1 DEF MemoryInv, NoneTwice
<1>11. \A a, b \in Memories :
        memory'[a] # NoMemory /\ memory'[b] # NoMemory /\ Contradict(memory'[a], memory'[b])
          => Known(a, b)'
  BY <1>4, <1>6 DEF MemoryInv
<1> QED
  BY <1>5, <1>8, <1>9, <1>10, <1>11 DEF MemoryInv

\* What is written back is told of; a conflict is only taken off file when it
\* is settled.
LEMMA ToldIs ==
  ASSUME MemoryInv, NEW doing \in CallRow, doing.steps # <<>>, doing.read # NoMemory,
         NEW raced \in BOOLEAN, told' = Told(doing, raced)
  PROVE  LET step == Head(doing.steps)
             m == step.id
             w == Rewritten(step, doing.read)
         IN  /\ told' \in [raced : SUBSET Memories, dead : SUBSET Memories,
                           granted : SUBSET Memories, important : SUBSET Memories,
                           excused : SUBSET (SUBSET Memories), used : [Memories -> Nat]]
             /\ told'.raced = (IF raced THEN told.raced \cup {m} ELSE told.raced)
             /\ told.granted \subseteq told'.granted /\ (Activates(step) => m \in told'.granted)
             /\ told.important \subseteq told'.important /\ (Important(w) => m \in told'.important)
             /\ told.excused \subseteq told'.excused
             /\ Tail(doing.steps) = <<>> => ToSet(doing.settles) \in told'.excused
             /\ \A k \in Memories : k # m => (k \in told'.dead => k \in told.dead)
             /\ m \in told'.dead => step.op = "invalidate"
                                    \/ (m \in told.dead /\ ~raced /\ step.op \in UseOps)
             /\ told'.used = [told.used EXCEPT ![m] = @ + IF step.op \in UseOps THEN 1 ELSE 0]
<1> DEFINE step == Head(doing.steps)
           m == step.id
           w == Rewritten(step, doing.read)
<1>2. step \in Steps /\ m \in Memories
  BY HeadIs
<1>3. told \in [raced : SUBSET Memories, dead : SUBSET Memories, granted : SUBSET Memories,
                important : SUBSET Memories, excused : SUBSET (SUBSET Memories),
                used : [Memories -> Nat]]
  BY DEF MemoryInv, MemoryTypes
<1> DEFINE settled == IF Tail(doing.steps) = <<>> THEN {ToSet(doing.settles)} ELSE {}
           activates == \/ step.op = "promote"
                        \/ "status" \in DOMAIN step.updates /\ step.updates.status = "ACTIVE"
           R == IF raced THEN told.raced \cup {m} ELSE told.raced
           G == IF activates THEN told.granted \cup {m} ELSE told.granted
           D == IF step.op = "invalidate" THEN told.dead \cup {m}
                ELSE IF raced \/ step.op \notin {"succeeded", "failed"} THEN told.dead \ {m}
                ELSE told.dead
           I == IF Important(w) THEN told.important \cup {m} ELSE told.important
           X == told.excused \cup settled
                  \cup (IF activates THEN {{a, m} : a \in Memories \ {m}} ELSE {})
           n == told.used[m] + IF step.op \in {"succeeded", "failed"} THEN 1 ELSE 0
           U == [told.used EXCEPT ![m] = n]
<1>4. told' = [told EXCEPT !.raced = R, !.granted = G, !.dead = D, !.important = I,
                           !.excused = X, !.used = U]
  <2>1. told' = [told EXCEPT !.raced = R, !.granted = G, !.dead = D, !.important = I,
                             !.excused = X, !.used[m] = n]
    BY DEF Told
  <2> HIDE DEF R, G, D, I, X, n, m
  <2> QED
    BY <2>1
<1> HIDE DEF step, w
<1>5. R \in SUBSET Memories /\ G \in SUBSET Memories /\ D \in SUBSET Memories /\ I \in SUBSET Memories
  BY <1>2, <1>3
<1>6. X \in SUBSET (SUBSET Memories)
  <2>1. ToSet(doing.settles) \subseteq Memories
    <3>1. \A i \in DOMAIN doing.settles : doing.settles[i] \in Memories
      BY DEF CallRow
    <3> QED
      BY <3>1 DEF ToSet
  <2>2. settled \subseteq SUBSET Memories
    BY <2>1
  <2>3. \A a \in Memories : {a, m} \subseteq Memories
    BY <1>2
  <2> QED
    BY <1>3, <2>2, <2>3
<1>7. U \in [Memories -> Nat]
  BY <1>2, <1>3
<1>8. activates = Activates(step)
  BY DEF Activates
<1>9. ToSet(doing.settles) \in settled \/ Tail(doing.steps) # <<>>
  OBVIOUS
<1>10. settled \subseteq X /\ told.excused \subseteq X
  OBVIOUS
<1>11. U = [told.used EXCEPT ![m] = @ + IF step.op \in UseOps THEN 1 ELSE 0]
  BY DEF UseOps
<1>12. /\ (\A k \in Memories : k # m => (k \in D => k \in told.dead))
       /\ m \in D => step.op = "invalidate" \/ (m \in told.dead /\ ~raced /\ step.op \in UseOps)
  BY DEF UseOps
<1>13. /\ told.granted \subseteq G /\ (activates => m \in G)
       /\ told.important \subseteq I /\ (Important(w) => m \in I)
  OBVIOUS
<1>14. told' = [raced |-> R, dead |-> D, granted |-> G, important |-> I, excused |-> X, used |-> U]
  <2> HIDE DEF R, D, G, I, X, U
  <2> QED
    BY <1>3, <1>4
<1> HIDE DEF D, G, I, X, U, settled, activates
<1>15. /\ told' \in [raced : SUBSET Memories, dead : SUBSET Memories,
                           granted : SUBSET Memories, important : SUBSET Memories,
                           excused : SUBSET (SUBSET Memories), used : [Memories -> Nat]]
       /\ told'.dead = D /\ told'.granted = G /\ told'.important = I
       /\ told'.excused = X /\ told'.used = U /\ told'.raced = R
  <2> HIDE DEF R
  <2> QED
    BY <1>5, <1>6, <1>7, <1>14
<1> HIDE DEF R
<1>16. told'.raced = (IF raced THEN told.raced \cup {m} ELSE told.raced)
  BY <1>15 DEF R
<1> QED
  BY <1>8, <1>9, <1>10, <1>11, <1>12, <1>13, <1>15, <1>16 DEF step, w

\* A write of what an older reading became keeps the invariant.
LEMMA Writes ==
  ASSUME MemoryInv, NEW u \in Users, WriteRecord(u)
  PROVE  MemoryInv'
<1>1. PICK doing : doing = calls[u]
  OBVIOUS
<1>2. PICK step, r : step = Head(doing.steps) /\ r = doing.read
  OBVIOUS
<1>3. PICK m, w : m = step.id /\ w = Rewritten(step, r)
  OBVIOUS
<1>4. /\ doing \in CallRow /\ CallFine(doing) /\ r # NoMemory /\ doing.steps # <<>>
      /\ r \in MemoryRow /\ CountsFit(r) /\ Earned(m, r) /\ ReadStands(m, r)
  <2>1. doing \in CallRow /\ CallFine(doing) /\ r # NoMemory
    BY <1>1, <1>2, CallIs DEF WriteRecord
  <2> QED
    BY <1>2, <1>3, <2>1 DEF CallFine, CallRow
<1>5. step \in Steps /\ m \in Memories /\ Tail(doing.steps) \in Seq(Steps)
  BY <1>2, <1>3, <1>4, HeadIs
<1>6. CASE memory[m] = NoMemory
  <2>1. memory' = memory /\ conflicts' = conflicts /\ told' = told
        /\ calls' = [calls EXCEPT ![u] = AtRest]
    BY <1>1, <1>2, <1>3, <1>6 DEF WriteRecord
  <2>2. CallFine(AtRest)
    BY AtRestIs DEF CallFine
  <2> QED
    BY <2>1, <2>2, AtRestIs, CallMoves
<1>7. CASE memory[m] # NoMemory
  <2>1. PICK raced, c : /\ raced = (memory[m] # r)
                        /\ c = IF Tail(doing.steps) = <<>> THEN AtRest
                               ELSE [doing EXCEPT !.steps = Tail(doing.steps), !.read = NoMemory]
    OBVIOUS
  <2>2. /\ memory' = [memory EXCEPT ![m] = w] /\ calls' = [calls EXCEPT ![u] = c]
        /\ conflicts' = (IF Tail(doing.steps) = <<>> THEN conflicts \ {doing.settles} ELSE conflicts)
        /\ told' = Told(doing, raced) /\ raced \in BOOLEAN
    BY <1>1, <1>2, <1>3, <1>7, <2>1 DEF WriteRecord
  <2>3. /\ w \in MemoryRow /\ CountsFit(w)
        /\ w.kind = r.kind /\ w.source = r.source /\ w.topic = r.topic /\ w.content = r.content
        /\ w.access = r.access + (IF step.op \in UseOps THEN 1 ELSE 0)
        /\ w.success >= r.success
        /\ w.status \in Active /\ w.source = "tool" =>
             \/ r.status \in Active \/ Activates(step) \/ Important(w) \/ Merits(w)
        /\ step.op = "invalidate" => w.status = "INVALIDATED"
        /\ step.op \in UseOps /\ r.status = "INVALIDATED" => w.status = "INVALIDATED"
    BY <1>3, <1>4, <1>5, RewrittenIs
  <2>4. /\ told' \in [raced : SUBSET Memories, dead : SUBSET Memories,
                      granted : SUBSET Memories, important : SUBSET Memories,
                      excused : SUBSET (SUBSET Memories), used : [Memories -> Nat]]
        /\ told'.raced = (IF raced THEN told.raced \cup {m} ELSE told.raced)
        /\ told.granted \subseteq told'.granted /\ (Activates(step) => m \in told'.granted)
        /\ told.important \subseteq told'.important /\ (Important(w) => m \in told'.important)
        /\ told.excused \subseteq told'.excused
        /\ Tail(doing.steps) = <<>> => ToSet(doing.settles) \in told'.excused
        /\ \A k \in Memories : k # m => (k \in told'.dead => k \in told.dead)
        /\ m \in told'.dead => step.op = "invalidate"
                               \/ (m \in told.dead /\ ~raced /\ step.op \in UseOps)
        /\ told'.used = [told.used EXCEPT ![m] = @ + IF step.op \in UseOps THEN 1 ELSE 0]
    BY <1>2, <1>3, <1>4, <2>2, ToldIs
  <2>5. /\ memory \in [Memories -> MemoryRow \cup {NoMemory}] /\ calls \in [Users -> CallRow]
        /\ conflicts \subseteq Memories \X Memories /\ told.used \in [Memories -> Nat]
    BY DEF MemoryInv, MemoryTypes
  <2>6. memory'[m] = w /\ \A k \in Memories : k # m => memory'[k] = memory[k]
    BY <1>5, <2>2, <2>5
  <2>7. calls'[u] = c /\ \A v \in Users : v # u => calls'[v] = calls[v]
    BY <2>2, <2>5
  <2>8. /\ c \in CallRow /\ c.read = NoMemory
        /\ c = AtRest \/ (c.creates = doing.creates /\ c.noted = doing.noted
                          /\ c.record = doing.record /\ c.seen = doing.seen
                          /\ c.asserts = doing.asserts)
    <3>1. CASE Tail(doing.steps) = <<>>
      BY <2>1, <3>1, AtRestIs
    <3>2. CASE Tail(doing.steps) # <<>>
      BY <1>4, <1>5, <2>1, <3>2 DEF CallRow
    <3> QED
      BY <3>1, <3>2
  <2>9. MemoryTypes'
    <3>1. memory' \in [Memories -> MemoryRow \cup {NoMemory}] /\ calls' \in [Users -> CallRow]
      BY <1>5, <2>2, <2>3, <2>5, <2>8
    <3>2. conflicts' \subseteq Memories \X Memories
      BY <2>2, <2>5
    <3> QED
      BY <2>4, <3>1, <3>2 DEF MemoryTypes
  <2>10. ASSUME NEW a, NEW b, Known(a, b)
         PROVE  Known(a, b)'
    <3>1. CASE {a, b} \in told.excused
      BY <2>4, <3>1 DEF Known
    <3>2. ASSUME NEW x, NEW y, {x, y} = {a, b}, <<x, y>> \in conflicts
          PROVE  {a, b} \in told'.excused \/ <<x, y>> \in conflicts'
      <4>1. ToSet(<<x, y>>) = {x, y}
        BY DEF ToSet
      <4>2. CASE doing.settles = <<x, y>> /\ Tail(doing.steps) = <<>>
        BY <2>4, <3>2, <4>1, <4>2
      <4>3. CASE ~(doing.settles = <<x, y>> /\ Tail(doing.steps) = <<>>)
        BY <2>2, <3>2, <4>3
      <4> QED
        BY <4>2, <4>3
    <3>3. {b, a} = {a, b}
      OBVIOUS
    <3> QED
      BY <2>10, <3>1, <3>2, <3>3 DEF Known
  <2>11. \A k, x : Earned(k, x) => Earned(k, x)'
    BY <2>4 DEF Earned
  <2>12. memory'[m] # NoMemory /\ w.topic = r.topic /\ w.content = r.content
         /\ memory[m].topic = r.topic /\ memory[m].content = r.content
    BY <1>4, <1>7, <2>3, <2>6, MemoryConstants DEF ReadStands
  <2>13. ASSUME NEW k \in Memories, NEW x, ReadStands(k, x)
         PROVE  ReadStands(k, x)'
    <3>1. CASE k = m
      BY <1>7, <2>6, <2>12, <2>13, <3>1 DEF ReadStands
    <3>2. CASE k # m
      BY <2>4, <2>6, <2>13, <3>2 DEF ReadStands
    <3> QED
      BY <3>1, <3>2
  <2>14. ASSUME NEW x \in CallRow, CallFine(x), x.creates # NoMemory
         PROVE  memory'[x.creates] = NoMemory /\ x.creates \notin told'.raced
    <3>1. x.creates \in Memories /\ x.creates # m /\ memory[x.creates] = NoMemory
          /\ x.creates \notin told.raced
      BY <1>7, <2>14 DEF CallFine, CallRow
    <3> QED
      BY <2>4, <2>6, <3>1
  <2>15. ASSUME NEW v \in Users
         PROVE  CallFine(calls[v])'
    <3>1. CASE v = u
      <4>1. CASE c = AtRest
        BY <2>7, <3>1, <4>1, AtRestIs DEF CallFine
      <4>2. CASE c # AtRest
        <5>1. c.creates = doing.creates /\ c.noted = doing.noted /\ c.record = doing.record
              /\ c.seen = doing.seen /\ c.read = NoMemory /\ c.asserts = doing.asserts
          BY <2>8, <4>2
        <5>2. CASE c.creates = NoMemory
          BY <1>4, <2>7, <3>1, <5>1, <5>2 DEF CallFine
        <5>3. CASE c.creates # NoMemory
          <6>1. memory'[c.creates] = NoMemory /\ c.creates \notin told'.raced
            BY <1>4, <2>14, <5>1, <5>3
          <6> QED
            BY <1>4, <2>7, <2>10, <3>1, <5>1, <5>3, <6>1 DEF CallFine
        <5> QED
          BY <5>2, <5>3
      <4> QED
        BY <4>1, <4>2
    <3>2. CASE v # u
      <4>1. CallFine(calls[v]) /\ calls[v] \in CallRow /\ calls'[v] = calls[v]
        BY <2>7, <3>2, CallIs
      <4>2. calls[v].creates # NoMemory =>
              memory'[calls[v].creates] = NoMemory /\ calls[v].creates \notin told'.raced
        BY <2>14, <4>1
      <4>3. calls[v].read # NoMemory =>
              ReadStands(Head(calls[v].steps).id, calls[v].read)'
        <5>1. calls[v].read # NoMemory => Head(calls[v].steps).id \in Memories
          BY <4>1, HeadIs DEF CallFine
        <5>2. PICK k, x : k = Head(calls[v].steps).id /\ x = calls[v].read
          OBVIOUS
        <5>3. calls[v].read # NoMemory => ReadStands(k, x)'
          BY <2>13, <4>1, <5>1, <5>2 DEF CallFine
        <5> QED
          BY <4>1, <5>2, <5>3 DEF ReadStands
      <4> QED
        BY <2>10, <2>11, <4>1, <4>2, <4>3 DEF CallFine, ReadStands
    <3> QED
      BY <3>1, <3>2
  <2>16. ASSUME NEW k \in Memories
         PROVE  RowFine(k)'
    <3>1. CASE k # m
      <4>1. k \in told'.raced <=> k \in told.raced
        BY <2>4, <3>1
      <4>2. told'.used[k] = told.used[k]
        BY <2>4, <2>5, <3>1
      <4>3. RowFine(k) /\ memory'[k] = memory[k] /\ (k \in told'.dead => k \in told.dead)
        BY <2>4, <2>6, <3>1 DEF MemoryInv
      <4> QED
        BY <2>11, <4>1, <4>2, <4>3 DEF RowFine
    <3>2. CASE k = m
      <4>1. RowFine(m)
        BY <1>5 DEF MemoryInv
      <4>2. Earned(m, w)'
        <5>1. ASSUME w.status \in Active, w.source = "tool", ~Merits(w)
              PROVE  m \in told'.granted \cup told'.important
          <6>1. CASE Activates(step) \/ Important(w)
            BY <2>4, <6>1
          <6>2. CASE r.status \in Active
            <7>1. ~Merits(r)
              <8>1. r.success \in Nat /\ r.access \in Nat /\ w.success \in Nat
                BY <1>4, <2>3, RowFieldsAre
              <8> QED
                BY <2>3, <5>1, <8>1 DEF Merits
            <7> QED
              BY <1>4, <2>3, <2>4, <5>1, <6>2, <7>1 DEF Earned, Merits
          <6> QED
            BY <2>3, <5>1, <6>1, <6>2
        <5> QED
          BY <5>1 DEF Earned, Merits
      <4>3. m \notin told'.raced => w.access = told'.used[m]
        <5>1. ASSUME m \notin told'.raced
              PROVE  r.access = told.used[m]
          BY <1>7, <2>1, <2>4, <4>1, <5>1 DEF RowFine
        <5>2. told'.used[m] = told.used[m] + IF step.op \in UseOps THEN 1 ELSE 0
          BY <1>5, <2>4, <2>5
        <5> QED
          BY <2>3, <5>1, <5>2
      <4>4. m \in told'.dead => w.status = "INVALIDATED"
        BY <1>7, <2>1, <2>3, <2>4, <4>1 DEF RowFine
      <4> QED
        BY <2>3, <2>6, <2>12, <3>2, <4>2, <4>3, <4>4 DEF RowFine
    <3> QED
      BY <3>1, <3>2
  <2>17. NoneTwice'
    <3>1. c.creates = doing.creates \/ c.creates = NoMemory
      BY <2>8, AtRestIs
    <3> QED
      BY <1>1, <2>7, <3>1 DEF MemoryInv, NoneTwice
  <2>18. ASSUME NEW a \in Memories, NEW b \in Memories,
                memory'[a] # NoMemory, memory'[b] # NoMemory, Contradict(memory'[a], memory'[b])
         PROVE  Known(a, b)'
    <3>1. ASSUME NEW k \in Memories, memory'[k] # NoMemory
          PROVE  /\ memory[k] # NoMemory
                 /\ memory'[k].topic = memory[k].topic /\ memory'[k].content = memory[k].content
      BY <1>7, <2>6, <2>12, <3>1
    <3>2. memory[a] # NoMemory /\ memory[b] # NoMemory /\ Contradict(memory[a], memory[b])
      BY <2>18, <3>1 DEF Contradict
    <3>3. Known(a, b)
      BY <3>2 DEF MemoryInv
    <3> QED
      BY <2>10, <3>3
  <2> QED
    BY <2>9, <2>15, <2>16, <2>17, <2>18 DEF MemoryInv
<1> QED
  BY <1>6, <1>7

\* Every step of the memory store keeps the invariant.
LEMMA MemoryStep == MemoryInv /\ [MemoryNext]_memoryVars => MemoryInv'
<1> SUFFICES ASSUME MemoryInv, [MemoryNext]_memoryVars PROVE MemoryInv'
  OBVIOUS
<1>1. CASE UNCHANGED memoryVars
  <2>1. /\ memory' = memory /\ conflicts' = conflicts /\ calls' = calls /\ told' = told
    BY <1>1 DEF memoryVars
  <2> QED
    BY <2>1 DEF MemoryInv, MemoryTypes, CallFine, RowFine, NoneTwice, Known, Earned, ReadStands
<1>2. ASSUME NEW u \in Users, NEW m \in Memories, NEW draft \in Drafts, CreateRecord(u, m, draft)
      PROVE  MemoryInv'
  BY <1>2, Creates
<1>3. ASSUME NEW u \in Users, NoteConflicts(u) \/ StoreRecord(u)
      PROVE  MemoryInv'
  BY <1>3, NotesIt, Stores
<1>4. ASSUME NEW u \in Users, NEW m \in Memories,
             NEW op \in {"succeeded", "failed", "promote", "markStale", "invalidate"}, Call(u, m, op)
      PROVE  MemoryInv'
  BY <1>4, Called DEF PlainOps
<1>5. ASSUME NEW u \in Users, NEW pair \in conflicts, NEW winner \in Memories,
             ResolveConflict(u, pair, winner)
      PROVE  MemoryInv'
  BY <1>5, Resolves
<1>6. ASSUME NEW u \in Users, Curate(u) \/ AdvanceIterationCounter(u)
      PROVE  MemoryInv'
  BY <1>6, Curates, Advances
<1>7. ASSUME NEW u \in Users, NEW m \in Memories, MarkPatternUsed(u, m) \/ SkillUsed(u, m)
      PROVE  MemoryInv'
  BY <1>7, SkillUses
<1>8. ASSUME NEW u \in Users, ReadRecord(u) \/ WriteRecord(u)
      PROVE  MemoryInv'
  BY <1>8, Reads, Writes
<1>9. ASSUME NEW m \in Memories, DeleteRecord(m)
      PROVE  MemoryInv'
  BY <1>9, Deletes
<1> QED
  BY <1>1, <1>2, <1>3, <1>4, <1>5, <1>6, <1>7, <1>8, <1>9 DEF MemoryNext

\* Long-term memory, however calls overlap: counts fit together, nothing a tool
\* returned is active unearned, what is invalidated stays so unless a call with
\* an older reading writes it back, and contradictions are on file or excused.
THEOREM MemoryCorrect == MemorySpec => []MemoryHolds
<1>1. MemoryInit => MemoryInv
  BY MemoryStart
<1>2. MemoryInv /\ [MemoryNext]_memoryVars => MemoryInv'
  BY MemoryStep
<1>3. MemoryInv => MemoryHolds
  <2> SUFFICES ASSUME MemoryInv PROVE MemoryHolds
    OBVIOUS
  <2>1. \A m \in Stored : m \in Memories /\ memory[m] # NoMemory /\ RowFine(m)
    BY DEF MemoryInv, Stored
  <2>2. CountsTogether /\ OnlyEarned /\ InvalidatedStays
    BY <2>1 DEF CountsTogether, OnlyEarned, InvalidatedStays, RowFine
  <2>3. NoSilentContradiction
    <3>1. \A a, b \in Retrieved(Active) :
            Contradict(memory[a], memory[b]) => Known(a, b)
      BY DEF MemoryInv, Retrieved, Stored
    <3> QED
      BY <3>1 DEF NoSilentContradiction, Known
  <2> QED
    BY <2>2, <2>3 DEF MemoryHolds
<1> QED
  BY <1>1, <1>2, <1>3, PTL DEF MemorySpec
-----------------------------------------------------------------------------
Boundaried == Nat \cup {-1}

\* The first n entries of two sequences are the same.
Alike(n, s, t) == n <= Len(s) /\ n <= Len(t) /\ \A i \in 1..n : s[i] = t[i]
Pre(s, t) == Alike(Len(s), s, t)

\* What an event becomes in a row; there it stays the same.
AsRow(e) == [e EXCEPT !.type = IF @ = "user_message" THEN @ ELSE "custom"]
LEMMA AsRowIs ==
  ASSUME NEW e \in SessionEvent
  PROVE  AsRow(e) \in SessionEvent /\ AsRow(AsRow(e)) = AsRow(e)
<1>1. /\ AsRow(e) = [type |-> IF e.type = "user_message" THEN e.type ELSE "custom", nr |-> e.nr]
      /\ AsRow(e) \in SessionEvent
  BY DEF AsRow, SessionEvent, Types
<1>2. AsRow(AsRow(e)) = [type |-> IF AsRow(e).type = "user_message" THEN AsRow(e).type ELSE "custom",
                         nr |-> AsRow(e).nr]
  BY <1>1 DEF AsRow, SessionEvent, Types
<1> QED
  BY <1>1, <1>2

LEMMA AsStoredIs ==
  ASSUME NEW events \in Seq(SessionEvent)
  PROVE  /\ AsStored(events) \in Seq(SessionEvent) /\ Len(AsStored(events)) = Len(events)
         /\ \A i \in 1..Len(events) : AsStored(events)[i] = AsRow(events[i])
         /\ AsStored(AsStored(events)) = AsStored(events)
<1>1. AsStored(events) = [i \in 1..Len(events) |-> AsRow(events[i])]
  BY DEF AsStored, AsRow
<1>2. \A i \in 1..Len(events) : AsRow(events[i]) \in SessionEvent
  BY AsRowIs
<1>3. AsStored(events) \in Seq(SessionEvent) /\ Len(AsStored(events)) = Len(events)
  BY <1>1, <1>2
<1>4. AsStored(AsStored(events)) = [i \in 1..Len(events) |-> AsRow(AsStored(events)[i])]
  BY <1>3 DEF AsStored, AsRow
<1>5. \A i \in 1..Len(events) : AsRow(AsStored(events)[i]) = AsStored(events)[i]
  BY <1>1, AsRowIs
<1>6. AsStored(AsStored(events)) = [i \in 1..Len(events) |-> AsStored(events)[i]]
  BY <1>4, <1>5
<1> QED
  BY <1>1, <1>3, <1>6

LEMMA PrefixIs ==
  ASSUME NEW S, NEW s \in Seq(S), NEW t \in Seq(S)
  PROVE  IsPrefix(s, t) <=> Pre(s, t)
<1>1. CASE Len(s) <= Len(t)
  <2>1. SubSeq(s, 1, Len(s)) = [i \in 1..Len(s) |-> s[i]]
    OBVIOUS
  <2>2. SubSeq(t, 1, Len(s)) = [i \in 1..Len(s) |-> t[i]]
    BY <1>1
  <2>3. SubSeq(s, 1, Len(s)) = SubSeq(t, 1, Len(s)) <=> \A i \in 1..Len(s) : s[i] = t[i]
    BY <2>1, <2>2
  <2> QED
    BY <1>1, <2>3 DEF IsPrefix, Pre, Alike
<1>2. CASE ~(Len(s) <= Len(t))
  BY <1>2 DEF IsPrefix, Pre, Alike
<1> QED
  BY <1>1, <1>2

\* Beginnings of beginnings, and two beginnings of one sequence.
LEMMA PreFacts ==
  ASSUME NEW S, NEW s \in Seq(S), NEW t \in Seq(S), NEW u \in Seq(S)
  PROVE  /\ Pre(s, s)
         /\ Pre(s, t) /\ Pre(t, u) => Pre(s, u)
         /\ Pre(s, u) /\ Pre(t, u) => Pre(s, t) \/ Pre(t, s)
         /\ \A n \in Nat : Alike(n, s, t) /\ Pre(t, u) => Alike(n, s, u)
         /\ \A n \in Nat : Alike(n, s, t) /\ Alike(n, t, u) => Alike(n, s, u)
         /\ \A n \in Nat : Alike(n, s, t) => Alike(n, t, s)
BY DEF Pre, Alike

LEMMA RestIs ==
  ASSUME NEW S, NEW s \in Seq(S), NEW n \in Nat
  PROVE  LET rest == SubSeq(s, n + 1, Len(s)) IN
         /\ Len(s) <= n => rest = <<>>
         /\ \A i \in 1..Len(rest) : rest[i] = s[n + i] /\ n + i \in 1..Len(s)
<1> DEFINE rest == SubSeq(s, n + 1, Len(s))
<1>1. PICK k \in Int : k = Len(s) /\ k \in Nat
  OBVIOUS
<1>2. PICK m \in Int : m = n + 1
  OBVIOUS
<1>3. \A i \in m..k : s[i] \in S
  BY <1>1, <1>2
<1>4. /\ Len(SubSeq(s, m, k)) = IF m <= k THEN k - m + 1 ELSE 0
      /\ \A i \in 1..(k - m + 1) : SubSeq(s, m, k)[i] = s[m + i - 1]
  BY <1>3, SubSeqProperties
<1>5. k < m => SubSeq(s, m, k) = <<>>
  BY SubSeqEmpty
<1>6. rest = SubSeq(s, m, k)
  BY <1>1, <1>2
<1> HIDE DEF rest
<1>7. \A i \in 1..Len(rest) : i \in 1..(k - m + 1) /\ m + i - 1 = n + i /\ n + i \in 1..k
  BY <1>1, <1>2, <1>4, <1>6
<1>8. \A i \in 1..Len(rest) : rest[i] = s[n + i] /\ n + i \in 1..Len(s)
  BY <1>1, <1>4, <1>6, <1>7
<1>9. Len(s) <= n => rest = <<>>
  BY <1>1, <1>2, <1>5, <1>6
<1> QED
  BY <1>8, <1>9 DEF rest

\* What is saved over a row.
LEMMA UpsertedIs ==
  ASSUME NEW o, o.log \in Seq(SessionEvent), NEW old \in Seq(SessionEvent)
  PROVE  LET kept == AsStored(o.log) w == Upserted(o, old) IN
         /\ w \in Seq(SessionEvent) /\ Pre(kept, w)
         /\ Pre(old, kept) => w = kept
         /\ AsStored(old) = old => AsStored(w) = w
<1> DEFINE kept == AsStored(o.log)
           more == SubSeq(old, Len(o.log) + 1, Len(old))
           w == Upserted(o, old)
<1>1. kept \in Seq(SessionEvent) /\ Len(kept) = Len(o.log) /\ AsStored(kept) = kept
  BY AsStoredIs
<1>2. more \in Seq(SessionEvent)
  OBVIOUS
<1>3. w = kept \o more
  BY DEF Upserted
<1>4. /\ \A i \in 1..Len(more) : more[i] = old[Len(o.log) + i] /\ Len(o.log) + i \in 1..Len(old)
      /\ Len(old) <= Len(o.log) => more = <<>>
  <2>1. Len(o.log) \in Nat
    OBVIOUS
  <2> QED
    BY <2>1, RestIs
<1> HIDE DEF kept, more, w
<1>6. w \in Seq(SessionEvent) /\ Len(w) = Len(kept) + Len(more)
  BY <1>1, <1>2, <1>3
<1>7. /\ \A i \in 1..Len(kept) : w[i] = kept[i]
      /\ \A i \in 1..Len(more) : w[Len(kept) + i] = more[i]
  BY <1>1, <1>2, <1>3
<1>8. Pre(kept, w)
  BY <1>1, <1>2, <1>6, <1>7 DEF Pre, Alike
<1>9. ASSUME Pre(old, kept) PROVE w = kept
  <2>1. more = <<>>
    BY <1>1, <1>4, <1>9 DEF Pre, Alike
  <2> QED
    BY <1>1, <1>3, <2>1
<1>10. ASSUME AsStored(old) = old PROVE AsStored(w) = w
  <2>1. \A i \in 1..Len(w) : AsRow(w[i]) = w[i]
    <3>1. ASSUME NEW i \in 1..Len(w) PROVE AsRow(w[i]) = w[i]
      <4>1. CASE i <= Len(kept)
        <5>1. AsRow(kept[i]) = kept[i]
          BY <1>1, <4>1, AsStoredIs
        <5> QED
          BY <1>1, <1>7, <4>1, <5>1
      <4>2. CASE i > Len(kept)
        <5>1. PICK j \in 1..Len(more) : i = Len(kept) + j
          <6>1. i - Len(kept) \in 1..Len(more) /\ i = Len(kept) + (i - Len(kept))
            BY <1>1, <1>2, <1>6, <4>2
          <6> QED
            BY <6>1
        <5>2. AsRow(old[Len(o.log) + j]) = old[Len(o.log) + j]
          BY <1>4, <1>10, AsStoredIs
        <5> QED
          BY <1>4, <1>7, <5>1, <5>2
      <4> QED
        BY <1>1, <4>1, <4>2
    <3> QED
      BY <3>1
  <2>2. AsStored(w) = [i \in 1..Len(w) |-> AsRow(w[i])]
    BY <1>6 DEF AsStored, AsRow
  <2> QED
    BY <1>6, <2>1, <2>2
<1> QED
  BY <1>6, <1>8, <1>9, <1>10 DEF kept, w

Holds(h, p) == object[h] # NoRow /\ object[h].id = p
Copies == {rows[id] : id \in TreeRows} \cup ({object[h] : h \in Holders} \ {NoRow})
            \cup ({branching} \ {NoRow})

LineageRow ==
  [used : SUBSET Ids, appends : Nat, saves : Nat, diverged : SUBSET Ids, shared : SUBSET Ids,
   last : [Ids -> Seq(SessionEvent)]]
TreeTypes ==
  /\ rows \in [Ids -> SessionRow \cup {NoRow}]
  /\ object \in [Holders -> SessionObject \cup {NoRow}]
  /\ branching \in SessionObject \cup {NoRow}
  /\ lineage \in LineageRow

LEMMA LineageGoesOn ==
  ASSUME NEW l \in LineageRow, NEW S \in SUBSET Ids, NEW w,
         \/ w = [l EXCEPT !.appends = @ + 1] \/ w = [l EXCEPT !.saves = @ + 1]
         \/ w = [l EXCEPT !.saves = @ + 1, !.shared = @ \cup S]
  PROVE  w \in LineageRow
<1>1. PICK n \in Nat : n = l.saves + 1
  BY DEF LineageRow
<1>2. PICK k \in Nat : k = l.appends + 1
  BY DEF LineageRow
<1>3. PICK T \in SUBSET Ids : T = l.shared \cup S
  BY DEF LineageRow
<1>4. \/ w = [l EXCEPT !.appends = k] \/ w = [l EXCEPT !.saves = n]
      \/ w = [l EXCEPT !.saves = n, !.shared = T]
  BY <1>1, <1>2, <1>3
<1>5. /\ [l EXCEPT !.appends = k] \in LineageRow
      /\ [l EXCEPT !.saves = n] \in LineageRow
  BY DEF LineageRow
<1>6. [l EXCEPT !.saves = n, !.shared = T] \in LineageRow
  BY DEF LineageRow
<1> QED
  BY <1>4, <1>5, <1>6

\* A copy of a session knows where it was branched off, and from whom.
CopyFine(x) ==
  /\ x.branch + 1 <= Len(x.log)
  /\ x.parent # NoRow => x.parent \in lineage.used
ObjectFine(o) == o # NoRow => o.id \in lineage.used /\ o.parent # o.id
RowKept(id) ==
  /\ id \in lineage.used /\ AsStored(rows[id].log) = rows[id].log
  /\ rows[id].parent \in (TreeRows \cup {NoRow}) \ {id}

\* What x was branched off is what t has there.
From(x, t) == Alike(x.branch + 1, AsStored(x.log), t)

\* The log of a session in use is that of its object, or else of its row; its
\* other copies are beginnings of it, and its branches begin with it.
Current(p, t) ==
  \/ \E h \in Holders : Holds(h, p) /\ t = AsStored(object[h].log)
  \/ p \in TreeRows /\ (\A h \in Holders : ~Holds(h, p)) /\ t = rows[p].log
Unfolds(p, t) ==
  /\ p \in TreeRows => Pre(rows[p].log, t)
  /\ branching # NoRow /\ branching.id = p => Pre(branching.log, t)
  /\ \A x \in Copies : x.parent = p => From(x, t)
InOneHand(p) ==
  /\ \A h, k \in Holders : Holds(h, p) /\ Holds(k, p) => h = k
  /\ \A t : Current(p, t) => Unfolds(p, t)

TreeInv ==
  /\ TreeTypes
  /\ \A x \in Copies : CopyFine(x)
  /\ \A h \in Holders : ObjectFine(object[h])
  /\ ObjectFine(branching) /\ (branching # NoRow => AsStored(branching.log) = branching.log)
  /\ \A id \in TreeRows : RowKept(id)
  /\ \A p \in Ids \ lineage.shared : InOneHand(p)
  /\ ReadBack

LEMMA CopiesAre ==
  ASSUME NEW x \in SessionRow \cup SessionObject
  PROVE  /\ x.parent \in Ids \cup {NoRow} /\ x.branch \in Boundaried
         /\ x.log \in Seq(SessionEvent) /\ x.branch + 1 \in Nat
<1>1. x \in SessionRow \/ x \in SessionObject
  OBVIOUS
<1>2. x \in SessionRow => /\ x.parent \in Ids \cup {NoRow} /\ x.branch \in Boundaried
                          /\ x.log \in Seq(SessionEvent)
  BY DEF SessionRow, Boundaried
<1>3. x \in SessionObject => /\ x.parent \in Ids \cup {NoRow} /\ x.branch \in Boundaried
                             /\ x.log \in Seq(SessionEvent)
  BY DEF SessionObject, Boundaried
<1>4. x.branch \in Boundaried => x.branch + 1 \in Nat
  BY DEF Boundaried
<1> QED
  BY <1>1, <1>2, <1>3, <1>4

LEMMA CopiesTyped == TreeTypes => Copies \subseteq SessionRow \cup SessionObject
BY DEF Copies, TreeTypes, TreeRows

LEMMA CurrentIs ==
  ASSUME TreeTypes, NEW p \in Ids, NEW t, Current(p, t)
  PROVE  t \in Seq(SessionEvent)
<1>1. ASSUME NEW h \in Holders, Holds(h, p)
      PROVE  AsStored(object[h].log) \in Seq(SessionEvent)
  BY <1>1, AsStoredIs DEF TreeTypes, Holds, SessionObject
<1>2. p \in TreeRows => rows[p].log \in Seq(SessionEvent)
  BY DEF TreeTypes, TreeRows, SessionRow
<1> QED
  BY <1>1, <1>2 DEF Current

\* What carries over: a log that went on, copies that were there or begin alike.
LEMMA StillUnfolds ==
  ASSUME TreeInv, TreeTypes', NEW p \in Ids \ lineage.shared, NEW t, Current(p, t),
         NEW w \in Seq(SessionEvent), Pre(t, w),
         (p \in TreeRows)' => Pre(rows'[p].log, w),
         (branching # NoRow)' /\ (branching.id = p)' => Pre(branching'.log, w),
         \A x \in Copies' : x.parent = p =>
           \/ From(x, w)
           \/ \E y \in Copies : /\ y.parent = p /\ y.branch = x.branch
                                /\ Alike(x.branch + 1, AsStored(x.log), AsStored(y.log))
  PROVE  Unfolds(p, w)'
<1>1. TreeTypes /\ Unfolds(p, t) /\ t \in Seq(SessionEvent)
  BY CurrentIs DEF TreeInv, InOneHand
<1>3. Copies' \subseteq SessionRow \cup SessionObject
  BY DEF Copies, TreeTypes, TreeRows
<1>2. ASSUME NEW x \in Copies', x.parent = p
      PROVE  From(x, w)
  <2>1. x.log \in Seq(SessionEvent) /\ x.branch + 1 \in Nat
    BY <1>3, CopiesAre
  <2>2. ASSUME NEW y \in Copies, y.parent = p, y.branch = x.branch,
               Alike(x.branch + 1, AsStored(x.log), AsStored(y.log))
        PROVE  From(x, w)
    <3>1. Alike(x.branch + 1, AsStored(y.log), t)
      BY <1>1, <2>2 DEF Unfolds, From
    <3>2. y.log \in Seq(SessionEvent)
      BY <1>1, CopiesTyped, CopiesAre
    <3>3. AsStored(x.log) \in Seq(SessionEvent) /\ AsStored(y.log) \in Seq(SessionEvent)
      BY <2>1, <3>2, AsStoredIs
    <3>4. Alike(x.branch + 1, AsStored(x.log), t)
      BY <1>1, <2>1, <2>2, <3>1, <3>3, PreFacts
    <3>5. Alike(x.branch + 1, AsStored(x.log), w)
      BY <1>1, <2>1, <3>3, <3>4, PreFacts
    <3> QED
      BY <3>5 DEF From
  <2> QED
    BY <1>2, <2>2
<1> QED
  BY <1>2 DEF Unfolds, From

LEMMA NoParent == NoRow \notin Ids /\ NoRow \notin SessionRow /\ NoRow \notin SessionObject
BY StoresConstants

LEMMA TreeStart == TreeInit => TreeInv
<1> SUFFICES ASSUME TreeInit PROVE TreeInv
  OBVIOUS
<1>1. /\ rows = [id \in Ids |-> NoRow] /\ object = [h \in Holders |-> NoRow] /\ branching = NoRow
      /\ TreeRows = {} /\ Copies = {}
  BY DEF TreeInit, TreeRows, Copies
<1>2. lineage \in LineageRow
  <2>1. [id \in Ids |-> NoLog] \in [Ids -> Seq(SessionEvent)]
    BY DEF NoLog
  <2> QED
    BY <2>1 DEF TreeInit, LineageRow
<1>3. TreeTypes
  BY <1>1, <1>2 DEF TreeTypes
<1>4. \A h \in Holders : \A p : ~Holds(h, p)
  BY <1>1 DEF Holds
<1>5. \A p \in Ids : InOneHand(p)
  BY <1>1, <1>4 DEF InOneHand, Current
<1>6. /\ \A x \in Copies : CopyFine(x)
      /\ \A h \in Holders : ObjectFine(object[h])
      /\ ObjectFine(branching) /\ branching = NoRow
      /\ \A id \in TreeRows : RowKept(id)
      /\ ReadBack
  BY <1>1 DEF ObjectFine, ReadBack
<1> QED
  BY <1>3, <1>5, <1>6 DEF TreeInv

\* A holder takes another session, or goes on with its own.
LEMMA Takes ==
  ASSUME TreeInv, TreeTypes', NEW h \in Holders, NEW c \in SessionObject,
         object' = [object EXCEPT ![h] = c], rows' = rows, branching' = branching,
         lineage.used \subseteq lineage'.used, c.id \in lineage'.used,
         lineage'.last = lineage.last, lineage'.diverged = lineage.diverged,
         lineage.shared \subseteq lineage'.shared,
         c.branch + 1 <= Len(c.log), c.parent # NoRow => c.parent \in lineage'.used,
         c.parent # c.id,
         \A p \in Ids \ lineage'.shared :
           /\ p # c.id => p \notin Abandoned(h)
           /\ p = c.id => /\ \A k \in Holders : k # h => ~Holds(k, p)
                          /\ \/ \E t : Current(p, t) /\ Pre(t, AsStored(c.log))
                             \/ p \notin lineage.used
           /\ c.parent = p => \/ \E y \in Copies :
                                   /\ y.parent = p /\ y.branch = c.branch
                                   /\ Alike(c.branch + 1, AsStored(c.log), AsStored(y.log))
                              \/ \A t : Current(p, t) => From(c, t)
  PROVE  TreeInv'
<1>1. object'[h] = c /\ \A k \in Holders : k # h => object'[k] = object[k]
  BY DEF TreeInv, TreeTypes
<1>2. TreeRows' = TreeRows /\ c # NoRow /\ NoRow \notin Ids
  BY NoParent DEF TreeRows
<1>3. Copies' \subseteq Copies \cup {c}
  BY <1>1, <1>2 DEF Copies
<1>4. \A x \in Copies' : CopyFine(x)'
  BY <1>3 DEF TreeInv, CopyFine
<1>5. \A k \in Holders : ObjectFine(object[k])'
  BY <1>1 DEF TreeInv, ObjectFine
<1>6. ObjectFine(branching)' /\ (branching' # NoRow => AsStored(branching'.log) = branching'.log)
  BY DEF TreeInv, ObjectFine
<1>7. \A id \in TreeRows' : RowKept(id)'
  BY <1>2 DEF TreeInv, RowKept
<1>8. ReadBack'
  BY <1>2 DEF TreeInv, ReadBack
<1>9. ASSUME NEW p \in Ids \ lineage'.shared
      PROVE  InOneHand(p)'
  <2>1. InOneHand(p) /\ p \in Ids \ lineage.shared
    BY <1>9 DEF TreeInv
  <2>2. \A k \in Holders : Holds(k, p)' <=> IF k = h THEN c.id = p ELSE Holds(k, p)
    BY <1>1, <1>2 DEF Holds
  <2>3. \A k, l \in Holders : Holds(k, p)' /\ Holds(l, p)' => k = l
    BY <2>1, <2>2 DEF InOneHand
  <2>4. ASSUME NEW w, Current(p, w)'
        PROVE  Unfolds(p, w)'
    <3>1. w \in Seq(SessionEvent) /\ Pre(w, w)
      <4>1. w \in Seq(SessionEvent)
        <5>1. ASSUME NEW k \in Holders, Holds(k, p)'
              PROVE  AsStored(object'[k].log) \in Seq(SessionEvent)
          BY <5>1, AsStoredIs DEF TreeTypes, Holds, SessionObject
        <5>2. (p \in TreeRows)' => rows'[p].log \in Seq(SessionEvent)
          BY DEF TreeTypes, TreeRows, SessionRow
        <5> QED
          BY <2>4, <5>1, <5>2 DEF Current
      <4> QED
        BY <4>1, PreFacts
    <3>2. CASE p # c.id
      <4>1. Current(p, w)
        <5>1. CASE \E k \in Holders : Holds(k, p)' /\ w = AsStored(object'[k].log)
          <6>1. PICK k \in Holders : Holds(k, p)' /\ w = AsStored(object'[k].log)
            BY <5>1
          <6>2. k # h /\ Holds(k, p) /\ w = AsStored(object[k].log)
            BY <1>1, <2>2, <3>2, <6>1
          <6> QED
            BY <6>2 DEF Current
        <5>2. CASE p \in TreeRows /\ (\A k \in Holders : ~Holds(k, p)') /\ w = rows[p].log
          <6>1. CASE Holds(h, p)
            <7>1. AsStored(object[h].log) = rows[p].log
              BY <3>2, <5>2, <6>1 DEF Holds, Abandoned
            <7> QED
              BY <5>2, <6>1, <7>1 DEF Current
          <6>2. CASE ~Holds(h, p)
            <7>1. \A k \in Holders : ~Holds(k, p)
              BY <2>2, <5>2, <6>2
            <7> QED
              BY <5>2, <7>1 DEF Current
          <6> QED
            BY <6>1, <6>2
        <5> QED
          BY <1>2, <2>4, <5>1, <5>2 DEF Current
      <4>2. Unfolds(p, w)
        BY <2>1, <4>1 DEF InOneHand
      <4>3. ASSUME NEW x \in Copies', x.parent = p
            PROVE  \/ From(x, w)
                   \/ \E y \in Copies : /\ y.parent = p /\ y.branch = x.branch
                                        /\ Alike(x.branch + 1, AsStored(x.log), AsStored(y.log))
        <5>1. CASE x \in Copies
          BY <4>2, <4>3, <5>1 DEF Unfolds
        <5>2. CASE x = c
          BY <4>1, <4>3, <5>2
        <5> QED
          BY <1>3, <5>1, <5>2
      <4>4. (p \in TreeRows)' => Pre(rows'[p].log, w)
        BY <1>2, <4>2 DEF Unfolds
      <4>5. (branching # NoRow)' /\ (branching.id = p)' => Pre(branching'.log, w)
        BY <4>2 DEF Unfolds
      <4> QED
        BY <2>1, <3>1, <4>1, <4>3, <4>4, <4>5, StillUnfolds
    <3>3. CASE p = c.id
      <4>1. w = AsStored(c.log)
        <5>1. Holds(h, p)' /\ \A k \in Holders : Holds(k, p)' => k = h
          BY <2>2, <2>3, <3>3
        <5> QED
          BY <1>1, <2>4, <5>1 DEF Current
      <4>2. CASE p \notin lineage.used
        <5>1. p \notin TreeRows /\ ~(branching # NoRow /\ branching.id = p)
          BY <4>2 DEF TreeInv, RowKept, ObjectFine
        <5>2. \A x \in Copies : x.parent # p
          BY <1>2, <4>2 DEF TreeInv, CopyFine
        <5>3. \A x \in Copies' : x.parent # p
          BY <1>3, <3>3, <5>2
        <5> QED
          BY <1>2, <5>1, <5>3 DEF Unfolds
      <4>3. CASE p \in lineage.used
        <5>1. PICK t : Current(p, t) /\ Pre(t, AsStored(c.log))
          BY <3>3, <4>3
        <5>2. Unfolds(p, t) /\ t \in Seq(SessionEvent) /\ TreeTypes
          BY <2>1, <5>1, CurrentIs DEF InOneHand, TreeInv
        <5>3. ASSUME NEW x \in Copies', x.parent = p
              PROVE  \E y \in Copies : /\ y.parent = p /\ y.branch = x.branch
                                       /\ Alike(x.branch + 1, AsStored(x.log), AsStored(y.log))
          <6>1. x \in Copies
            BY <1>3, <3>3, <5>3
          <6>2. CopyFine(x) /\ x.log \in Seq(SessionEvent) /\ x.branch + 1 \in Nat
            BY <5>2, <6>1, CopiesTyped, CopiesAre DEF TreeInv
          <6>3. Alike(x.branch + 1, AsStored(x.log), AsStored(x.log))
            BY <6>2, AsStoredIs DEF Alike, CopyFine
          <6> QED
            BY <5>3, <6>1, <6>3
        <5>4. (p \in TreeRows)' => Pre(rows'[p].log, w)
          <6>1. p \in TreeRows => rows[p].log \in Seq(SessionEvent)
            BY <5>2 DEF TreeTypes, TreeRows, SessionRow
          <6> QED
            BY <1>2, <3>1, <4>1, <5>1, <5>2, <6>1, PreFacts DEF Unfolds
        <5>5. (branching # NoRow)' /\ (branching.id = p)' => Pre(branching'.log, w)
          <6>1. branching # NoRow => branching.log \in Seq(SessionEvent)
            BY <5>2 DEF TreeTypes, SessionObject
          <6> QED
            BY <3>1, <4>1, <5>1, <5>2, <6>1, PreFacts DEF Unfolds
        <5> QED
          BY <2>1, <3>1, <4>1, <5>1, <5>3, <5>4, <5>5, StillUnfolds
      <4> QED
        BY <4>2, <4>3
    <3> QED
      BY <3>2, <3>3
  <2> QED
    BY <2>3, <2>4 DEF InOneHand
<1> QED
  BY <1>4, <1>5, <1>6, <1>7, <1>8, <1>9 DEF TreeInv

LEMMA SessionCreated ==
  ASSUME TreeInv, NEW h \in Holders, NEW id \in Ids, CreateSession(h, id)
  PROVE  TreeInv'
<1> DEFINE c == [id |-> id, parent |-> NoRow, branch |-> -1, log |-> NoLog]
<1>1. /\ lineage.used = {} /\ object' = [object EXCEPT ![h] = c]
      /\ lineage' = [lineage EXCEPT !.used = {id}] /\ rows' = rows /\ branching' = branching
  BY DEF CreateSession
<1>2. c \in SessionObject /\ c.id = id /\ c.parent = NoRow /\ c.branch + 1 <= Len(c.log)
  BY DEF SessionObject, NoLog
<1>3. /\ lineage'.used = {id} /\ lineage'.last = lineage.last /\ lineage'.diverged = lineage.diverged
      /\ lineage'.shared = lineage.shared
  BY <1>1 DEF TreeInv, TreeTypes, LineageRow
<1> HIDE DEF c
<1>4. TreeTypes'
  <2>1. lineage' \in LineageRow
    BY <1>1 DEF TreeInv, TreeTypes, LineageRow
  <2> QED
    BY <1>1, <1>2, <2>1 DEF TreeInv, TreeTypes
<1>5. \A k \in Holders : object[k] = NoRow
  BY <1>1 DEF TreeInv, ObjectFine
<1>6. NoRow \notin Ids
  BY NoParent
<1>7. \A p \in Ids : p \notin Abandoned(h) /\ \A k \in Holders : ~Holds(k, p)
  BY <1>5 DEF Abandoned, Holds
<1> QED
  BY <1>1, <1>2, <1>3, <1>4, <1>6, <1>7, Takes

LEMMA EventAppended ==
  ASSUME TreeInv, NEW h \in Holders, NEW type \in Types, AppendTo(h, type)
  PROVE  TreeInv'
<1>1. PICK o, e : o = object[h] /\ e = [type |-> type, nr |-> lineage.appends]
  OBVIOUS
<1>2. o \in SessionObject /\ o # NoRow /\ e \in SessionEvent /\ o.log \in Seq(SessionEvent)
  BY <1>1 DEF AppendTo, TreeInv, TreeTypes, LineageRow, SessionObject, SessionEvent, Types
<1> DEFINE c == [o EXCEPT !.log = Append(o.log, e)]
<1>3. /\ object' = [object EXCEPT ![h] = c]
      /\ lineage' = [lineage EXCEPT !.appends = @ + 1] /\ rows' = rows /\ branching' = branching
  BY <1>1 DEF AppendTo
<1>4. /\ c \in SessionObject /\ c.id = o.id /\ c.parent = o.parent /\ c.branch = o.branch
      /\ c.log = Append(o.log, e)
  BY <1>2 DEF SessionObject
<1>5. /\ lineage'.used = lineage.used /\ lineage'.last = lineage.last
      /\ lineage'.diverged = lineage.diverged /\ lineage'.shared = lineage.shared
  BY <1>3 DEF TreeInv, TreeTypes, LineageRow
<1> HIDE DEF c
<1>6. TreeTypes'
  <2>1. lineage' \in LineageRow
    <3>1. lineage \in LineageRow
      BY DEF TreeInv, TreeTypes
    <3> QED
      BY <3>1, <1>3, LineageGoesOn
  <2> QED
    BY <1>3, <1>4, <2>1 DEF TreeInv, TreeTypes
<1>7. /\ o \in Copies /\ CopyFine(o) /\ o.id \in lineage.used /\ o.parent # o.id
  BY <1>1, <1>2 DEF Copies, TreeInv, ObjectFine
<1>8. /\ Len(c.log) = Len(o.log) + 1 /\ \A i \in 1..Len(o.log) : c.log[i] = o.log[i]
      /\ c.log \in Seq(SessionEvent)
  BY <1>2, <1>4
<1>9. \A n \in Nat : n <= Len(o.log) =>
        Alike(n, AsStored(c.log), AsStored(o.log)) /\ Alike(n, AsStored(o.log), AsStored(c.log))
  <2>1. /\ Len(AsStored(o.log)) = Len(o.log) /\ Len(AsStored(c.log)) = Len(c.log)
        /\ \A i \in 1..Len(o.log) : AsStored(o.log)[i] = AsRow(o.log[i])
        /\ \A i \in 1..Len(c.log) : AsStored(c.log)[i] = AsRow(c.log[i])
    BY <1>2, <1>8, AsStoredIs
  <2>2. \A i \in 1..Len(o.log) : AsStored(c.log)[i] = AsStored(o.log)[i]
    BY <1>2, <1>8, <2>1
  <2> QED
    BY <1>2, <1>8, <2>1, <2>2 DEF Alike
<1>10. Pre(AsStored(o.log), AsStored(c.log))
  BY <1>2, <1>9, AsStoredIs DEF Pre
<1>11. o.branch + 1 \in Nat /\ o.branch + 1 <= Len(o.log)
  BY <1>2, <1>7, CopiesAre DEF CopyFine
<1>12. c.branch + 1 <= Len(c.log)
  BY <1>2, <1>4, <1>8, <1>11 DEF SessionObject
<1>13. Alike(c.branch + 1, AsStored(c.log), AsStored(o.log))
  BY <1>4, <1>9, <1>11
<1>14. ASSUME NEW p \in Ids \ lineage'.shared
       PROVE  /\ p # c.id => p \notin Abandoned(h)
              /\ p = c.id => /\ \A k \in Holders : k # h => ~Holds(k, p)
                             /\ \E t : Current(p, t) /\ Pre(t, AsStored(c.log))
  <2>1. InOneHand(p)
    BY <1>5, <1>14 DEF TreeInv
  <2>2. p # c.id => p \notin Abandoned(h)
    BY <1>1, <1>4 DEF Abandoned
  <2>3. p = c.id => Holds(h, p)
    BY <1>1, <1>2, <1>4 DEF Holds
  <2>4. p = c.id => Current(p, AsStored(o.log))
    BY <1>1, <2>3 DEF Current
  <2> QED
    BY <1>10, <2>1, <2>2, <2>3, <2>4 DEF InOneHand
<1>15. c.parent # NoRow => c.parent \in lineage'.used
  BY <1>4, <1>5, <1>7 DEF CopyFine
<1>16. c.id \in lineage'.used /\ c.parent # c.id
  BY <1>4, <1>5, <1>7
<1>17. \A p : c.parent = p => \E y \in Copies : /\ y.parent = p /\ y.branch = c.branch
                                /\ Alike(c.branch + 1, AsStored(c.log), AsStored(y.log))
  BY <1>4, <1>7, <1>13
<1> QED
  BY <1>3, <1>4, <1>5, <1>6, <1>12, <1>14, <1>15, <1>16, <1>17, Takes

LEMMA SessionLoaded ==
  ASSUME TreeInv, NEW h \in Holders, NEW id \in Ids, LoadSession(h, id)
  PROVE  TreeInv'
<1>1. PICK c : c = ObjectOf(id)
  OBVIOUS
<1>2. PICK S : S = Abandoned(h) \cup {s \in {id} : \E other \in Holders \ {h} :
                                        object[other] # NoRow /\ object[other].id = s}
  OBVIOUS
<1>3. /\ id \in TreeRows /\ object' = [object EXCEPT ![h] = c] /\ rows' = rows
      /\ branching' = branching
      /\ lineage' = [lineage EXCEPT !.saves = @ + 1, !.shared = @ \cup S]
  BY <1>1, <1>2 DEF LoadSession
<1>4. rows[id] \in SessionRow /\ RowKept(id) /\ rows[id] \in Copies /\ CopyFine(rows[id])
  BY <1>3 DEF TreeInv, TreeTypes, TreeRows, Copies
<1>5. /\ c \in SessionObject /\ c.id = id /\ c.parent = rows[id].parent
      /\ c.branch = rows[id].branch /\ c.log = rows[id].log
  BY <1>1, <1>4 DEF ObjectOf, SessionObject, SessionRow
<1>6. S \subseteq Ids
  BY <1>2 DEF Abandoned, TreeRows
<1>7. /\ lineage'.used = lineage.used /\ lineage'.last = lineage.last
      /\ lineage'.diverged = lineage.diverged /\ lineage'.shared = lineage.shared \cup S
  BY <1>3 DEF TreeInv, TreeTypes, LineageRow
<1>8. TreeTypes'
  <2>1. lineage' \in LineageRow
    <3>1. lineage \in LineageRow
      BY DEF TreeInv, TreeTypes
    <3> QED
      BY <3>1, <1>3, <1>6, LineageGoesOn
  <2> QED
    BY <1>3, <1>5, <2>1 DEF TreeInv, TreeTypes
<1>9. /\ c.branch + 1 <= Len(c.log) /\ (c.parent # NoRow => c.parent \in lineage'.used)
      /\ c.id \in lineage'.used /\ c.parent # c.id
  BY <1>4, <1>5, <1>7 DEF CopyFine, RowKept
<1>10. c.log \in Seq(SessionEvent) /\ AsStored(c.log) = c.log /\ c.branch + 1 \in Nat
  BY <1>4, <1>5, CopiesAre DEF RowKept, SessionObject
<1>11. Alike(c.branch + 1, AsStored(c.log), AsStored(rows[id].log))
  BY <1>5, <1>9, <1>10 DEF Alike
<1>12. ASSUME NEW p \in Ids \ lineage'.shared
       PROVE  /\ p # c.id => p \notin Abandoned(h)
              /\ p = c.id => /\ \A k \in Holders : k # h => ~Holds(k, p)
                             /\ \E t : Current(p, t) /\ Pre(t, AsStored(c.log))
  <2>1. p \notin S /\ p \notin Abandoned(h)
    BY <1>2, <1>7, <1>12
  <2>2. p = id => \A k \in Holders : k # h => ~Holds(k, p)
    BY <1>2, <2>1 DEF Holds
  <2>3. p = id => Current(p, c.log)
    <3>1. CASE Holds(h, id)
      <4>1. p = id => AsStored(object[h].log) = rows[id].log
        BY <1>3, <2>1, <3>1 DEF Holds, Abandoned
      <4> QED
        BY <1>5, <3>1, <4>1 DEF Current
    <3>2. CASE ~Holds(h, id)
      <4>1. p = id => \A k \in Holders : ~Holds(k, p)
        BY <2>2, <3>2
      <4> QED
        BY <1>3, <1>5, <4>1 DEF Current
    <3> QED
      BY <3>1, <3>2
  <2>4. Pre(c.log, AsStored(c.log))
    BY <1>10, PreFacts
  <2> QED
    BY <1>5, <2>1, <2>2, <2>3, <2>4
<1>13. \A p : c.parent = p => \E y \in Copies : /\ y.parent = p /\ y.branch = c.branch
                                /\ Alike(c.branch + 1, AsStored(c.log), AsStored(y.log))
  BY <1>4, <1>5, <1>11
<1> QED
  BY <1>3, <1>5, <1>7, <1>8, <1>9, <1>12, <1>13, Takes

\* What a child is seeded with.
LEMMA BranchIs ==
  ASSUME NEW o \in SessionObject, NEW boundary \in Int, boundary \in -1..(Len(o.log) - 1),
         NEW child \in Ids
  PROVE  LET c == BranchOf(o, boundary, child) IN
         /\ c \in SessionObject /\ c.id = child /\ c.parent = o.id
         /\ c.branch + 1 \in Nat /\ c.branch + 1 = Len(c.log)
         /\ From(c, AsStored(o.log))
<1>1. o.id \in Ids /\ o.log \in Seq(SessionEvent)
  BY DEF SessionObject
<1>2. PICK n \in Nat : n = boundary + 1 /\ n <= Len(o.log)
  BY <1>1
<1>3. boundary \in Nat \cup {-1}
  BY <1>1
<1> DEFINE c == BranchOf(o, boundary, child)
           seed == SubSeq(o.log, 1, n)
<1>4. c = [id |-> child, parent |-> o.id, branch |-> boundary, log |-> seed]
  BY <1>2 DEF BranchOf
<1>5. seed \in Seq(SessionEvent) /\ Len(seed) = n /\ \A i \in 1..n : seed[i] = o.log[i]
  <2>1. \A i \in 1..n : o.log[i] \in SessionEvent
    BY <1>1, <1>2
  <2>2. /\ seed \in Seq(SessionEvent) /\ Len(seed) = (IF 1 <= n THEN n - 1 + 1 ELSE 0)
        /\ \A i \in 1..(n - 1 + 1) : seed[i] = o.log[1 + i - 1]
    BY <2>1, SubSeqProperties
  <2> QED
    BY <2>2
<1> HIDE DEF c, seed
<1>6. c \in SessionObject
  BY <1>1, <1>3, <1>4, <1>5 DEF SessionObject
<1>7. Alike(n, AsStored(seed), AsStored(o.log))
  <2>1. /\ Len(AsStored(o.log)) = Len(o.log) /\ Len(AsStored(seed)) = Len(seed)
        /\ \A i \in 1..Len(o.log) : AsStored(o.log)[i] = AsRow(o.log[i])
        /\ \A i \in 1..Len(seed) : AsStored(seed)[i] = AsRow(seed[i])
    BY <1>1, <1>5, AsStoredIs
  <2>2. \A i \in 1..n : AsStored(seed)[i] = AsStored(o.log)[i]
    BY <1>1, <1>2, <1>5, <2>1
  <2> QED
    BY <1>1, <1>2, <1>5, <2>1, <2>2 DEF Alike
<1>8. c.id = child /\ c.parent = o.id /\ c.log = seed /\ c.branch + 1 = n
  BY <1>2, <1>4
<1>9. From(c, AsStored(o.log))
  BY <1>7, <1>8 DEF From
<1> QED
  BY <1>5, <1>6, <1>8, <1>9 DEF c

LEMMA ObjectForked ==
  ASSUME TreeInv, NEW h \in Holders, NEW other \in Holders, NEW boundary \in Int,
         NEW child \in Ids, ForkObject(h, other, boundary, child)
  PROVE  TreeInv'
<1>1. PICK o, c, S : o = object[h] /\ c = BranchOf(o, boundary, child) /\ S = Abandoned(other)
  OBVIOUS
<1>2. /\ o # NoRow /\ child \notin lineage.used /\ boundary \in -1..(Len(o.log) - 1)
      /\ object' = [object EXCEPT ![other] = c] /\ rows' = rows /\ branching' = branching
      /\ lineage' = [lineage EXCEPT !.used = @ \cup {child}, !.shared = @ \cup S]
  BY <1>1 DEF ForkObject
<1>3. o \in SessionObject /\ o.id \in lineage.used
  BY <1>1, <1>2 DEF TreeInv, TreeTypes, ObjectFine
<1>4. /\ c \in SessionObject /\ c.id = child /\ c.parent = o.id /\ c.branch + 1 = Len(c.log)
      /\ c.branch + 1 \in Nat /\ From(c, AsStored(o.log))
  BY <1>1, <1>2, <1>3, BranchIs
<1>5. S \subseteq Ids
  BY <1>1 DEF Abandoned, TreeRows
<1>6. /\ lineage'.used = lineage.used \cup {child} /\ lineage'.last = lineage.last
      /\ lineage'.diverged = lineage.diverged /\ lineage'.shared = lineage.shared \cup S
  BY <1>2 DEF TreeInv, TreeTypes, LineageRow
<1>7. TreeTypes'
  <2>1. lineage' \in LineageRow
    BY <1>2, <1>5 DEF TreeInv, TreeTypes, LineageRow
  <2> QED
    BY <1>2, <1>4, <2>1 DEF TreeInv, TreeTypes
<1>8. ASSUME NEW p \in Ids \ lineage'.shared
      PROVE  /\ p # c.id => p \notin Abandoned(other)
             /\ p = c.id => (\A k \in Holders : k # other => ~Holds(k, p)) /\ p \notin lineage.used
             /\ c.parent = p => \A t : Current(p, t) => From(c, t)
  <2>1. p \notin Abandoned(other) /\ InOneHand(p)
    BY <1>1, <1>6, <1>8 DEF TreeInv
  <2>2. p = c.id => (\A k \in Holders : k # other => ~Holds(k, p)) /\ p \notin lineage.used
    BY <1>2, <1>4 DEF Holds, TreeInv, ObjectFine
  <2>3. ASSUME c.parent = p, NEW t, Current(p, t) PROVE From(c, t)
    <3>1. Holds(h, p)
      BY <1>1, <1>2, <1>4, <2>3 DEF Holds
    <3>2. t = AsStored(o.log)
      BY <1>1, <2>1, <2>3, <3>1 DEF Current, InOneHand
    <3> QED
      BY <1>4, <3>2
  <2> QED
    BY <2>1, <2>2, <2>3
<1>9. c.branch + 1 <= Len(c.log)
  BY <1>4
<1>10. c.parent # c.id /\ c.parent \in lineage'.used /\ c.id \in lineage'.used
  BY <1>2, <1>3, <1>4, <1>6
<1> QED
  BY <1>2, <1>4, <1>6, <1>7, <1>8, <1>9, <1>10, Takes

LEMMA BranchLoaded ==
  ASSUME TreeInv, NEW id \in Ids, BranchLoads(id)
  PROVE  TreeInv'
<1>1. PICK c : c = ObjectOf(id)
  OBVIOUS
<1>2. /\ id \in TreeRows /\ branching = NoRow /\ branching' = c /\ rows' = rows /\ object' = object
      /\ lineage' = [lineage EXCEPT !.saves = @ + 1]
  BY <1>1 DEF BranchLoads
<1>3. rows[id] \in SessionRow /\ RowKept(id) /\ rows[id] \in Copies /\ CopyFine(rows[id])
  BY <1>2 DEF TreeInv, TreeTypes, TreeRows, Copies
<1>4. /\ c \in SessionObject /\ c.id = id /\ c.parent = rows[id].parent /\ c # NoRow
      /\ c.branch = rows[id].branch /\ c.log = rows[id].log
  BY <1>1, <1>3, NoParent DEF ObjectOf, SessionObject, SessionRow
<1>5. lineage \in LineageRow /\ lineage.saves \in Nat
  BY DEF TreeInv, TreeTypes, LineageRow
<1>6. /\ lineage' \in LineageRow /\ lineage'.used = lineage.used /\ lineage'.last = lineage.last
      /\ lineage'.diverged = lineage.diverged /\ lineage'.shared = lineage.shared
  <2>1. lineage' \in LineageRow
    BY <1>2, <1>5, LineageGoesOn
  <2> QED
    BY <1>2, <1>5, <2>1 DEF LineageRow
<1>7. TreeTypes'
  BY <1>2, <1>4, <1>6 DEF TreeInv, TreeTypes
<1>8. TreeRows' = TreeRows /\ Copies' \subseteq Copies \cup {c}
  BY <1>2 DEF TreeRows, Copies
<1>9. \A x \in Copies' : CopyFine(x)'
  BY <1>3, <1>4, <1>6, <1>8 DEF TreeInv, CopyFine
<1>10. /\ \A k \in Holders : ObjectFine(object[k])'
       /\ ObjectFine(branching)' /\ AsStored(branching'.log) = branching'.log
  BY <1>2, <1>3, <1>4, <1>6 DEF TreeInv, ObjectFine, RowKept
<1>11. /\ \A i \in TreeRows' : RowKept(i)'
       /\ ReadBack'
  BY <1>2, <1>6, <1>8 DEF TreeInv, RowKept, ReadBack
<1>12. ASSUME NEW p \in Ids \ lineage'.shared
       PROVE  InOneHand(p)'
  <2>1. InOneHand(p) /\ p \in Ids \ lineage.shared
    BY <1>6, <1>12 DEF TreeInv
  <2>2. \A k : Holds(k, p)' <=> Holds(k, p)
    BY <1>2 DEF Holds
  <2>3. ASSUME NEW w, Current(p, w)'
        PROVE  Unfolds(p, w)'
    <3>1. Current(p, w)
      BY <1>2, <1>8, <2>2, <2>3 DEF Current
    <3>2. Unfolds(p, w) /\ w \in Seq(SessionEvent) /\ Pre(w, w)
      <4>1. w \in Seq(SessionEvent)
        BY <3>1, CurrentIs DEF TreeInv
      <4> QED
        BY <2>1, <3>1, <4>1, PreFacts DEF InOneHand
    <3>3. ASSUME NEW x \in Copies', x.parent = p
          PROVE  From(x, w)
      <4>1. CASE x \in Copies
        BY <3>2, <3>3, <4>1 DEF Unfolds
      <4>2. CASE x = c
        BY <1>3, <1>4, <3>2, <3>3, <4>2 DEF Unfolds, From
      <4> QED
        BY <1>8, <4>1, <4>2
    <3>4. (p \in TreeRows)' => Pre(rows'[p].log, w)
      BY <1>2, <1>8, <3>2 DEF Unfolds
    <3>5. (branching # NoRow)' /\ (branching.id = p)' => Pre(branching'.log, w)
      BY <1>2, <1>4, <3>2 DEF Unfolds
    <3> QED
      BY <3>3, <3>4, <3>5 DEF Unfolds, From
  <2> QED
    BY <2>1, <2>2, <2>3 DEF InOneHand
<1> QED
  BY <1>7, <1>9, <1>10, <1>11, <1>12 DEF TreeInv

LEMMA SessionDeleted ==
  ASSUME TreeInv, NEW id \in Ids, DeleteSession(id)
  PROVE  TreeInv'
<1> DEFINE Left(s) == IF s = id THEN NoRow
                      ELSE IF s \in TreeRows /\ rows[s].parent = id THEN [rows[s] EXCEPT !.parent = NoRow]
                      ELSE rows[s]
<1>1. /\ rows' = [s \in Ids |-> Left(s)] /\ object' = object /\ branching' = branching
      /\ lineage' = [lineage EXCEPT !.saves = @ + 1]
  BY DEF DeleteSession
<1>2. lineage \in LineageRow /\ lineage.saves \in Nat
  BY DEF TreeInv, TreeTypes, LineageRow
<1>3. /\ lineage' \in LineageRow /\ lineage'.used = lineage.used /\ lineage'.last = lineage.last
      /\ lineage'.diverged = lineage.diverged /\ lineage'.shared = lineage.shared
  <2>1. lineage' \in LineageRow
    BY <1>1, <1>2, LineageGoesOn
  <2> QED
    BY <1>1, <1>2, <2>1 DEF LineageRow
<1>4. \A s \in TreeRows : s \in Ids /\ rows[s] \in SessionRow /\ rows[s] # NoRow
  BY DEF TreeInv, TreeTypes, TreeRows
<1>5. ASSUME NEW s \in TreeRows, s # id
      PROVE  /\ Left(s) \in SessionRow /\ Left(s) # NoRow
             /\ Left(s).branch = rows[s].branch /\ Left(s).log = rows[s].log
             /\ Left(s).parent = IF rows[s].parent = id THEN NoRow ELSE rows[s].parent
  <2>1. /\ rows[s].parent = id => Left(s) = [rows[s] EXCEPT !.parent = NoRow]
        /\ rows[s].parent # id => Left(s) = rows[s]
    BY <1>5
  <2> HIDE DEF Left
  <2>2. Left(s) \in SessionRow
    BY <1>4, <1>5, <2>1 DEF SessionRow
  <2> QED
    BY <1>4, <1>5, <2>1, <2>2, NoParent DEF SessionRow
<1>6. \A s \in Ids : s \notin TreeRows \/ s = id => Left(s) = NoRow
  BY DEF TreeRows
<1>7. \A s \in Ids : rows'[s] = Left(s)
  BY <1>1
<1>13. rows' = [s \in Ids |-> rows'[s]]
  BY <1>1
<1> HIDE DEF Left
<1>8. TreeRows' = TreeRows \ {id}
  BY <1>4, <1>5, <1>6, <1>7 DEF TreeRows
<1>9. TreeTypes'
  <2>1. \A s \in Ids : rows'[s] \in SessionRow \cup {NoRow}
    BY <1>5, <1>6, <1>7
  <2>2. rows' \in [Ids -> SessionRow \cup {NoRow}]
    BY <1>13, <2>1
  <2> QED
    BY <1>1, <1>3, <2>2 DEF TreeInv, TreeTypes
<1>10. ASSUME NEW x \in Copies'
       PROVE  \E y \in Copies : x.branch = y.branch /\ x.log = y.log /\ x.parent \in {y.parent, NoRow}
  <2>1. CASE x \in {rows'[s] : s \in TreeRows'}
    <3>1. PICK s \in TreeRows \ {id} : x = rows'[s]
      BY <1>8, <2>1
    <3>2. rows[s] \in Copies
      BY DEF Copies
    <3> QED
      BY <1>4, <1>5, <1>7, <3>1, <3>2
  <2>2. CASE x \in Copies
    BY <2>2
  <2> QED
    BY <1>1, <2>1, <2>2 DEF Copies
<1>11. \A x \in Copies' : CopyFine(x)'
  BY <1>3, <1>10 DEF TreeInv, CopyFine
<1>12. /\ \A k \in Holders : ObjectFine(object[k])'
       /\ ObjectFine(branching)' /\ (branching' # NoRow => AsStored(branching'.log) = branching'.log)
  BY <1>1, <1>3 DEF TreeInv, ObjectFine
<1>14. ASSUME NEW s \in TreeRows'
       PROVE  RowKept(s)'
  <2>1. s \in TreeRows /\ s # id /\ RowKept(s)
    BY <1>8 DEF TreeInv
  <2>2. /\ rows'[s].log = rows[s].log
        /\ rows'[s].parent = IF rows[s].parent = id THEN NoRow ELSE rows[s].parent
    BY <1>4, <1>5, <1>7, <2>1
  <2>3. rows'[s].parent \in (TreeRows' \cup {NoRow}) \ {s}
    BY <1>4, <1>8, <2>1, <2>2, NoParent DEF RowKept
  <2> QED
    BY <1>3, <2>1, <2>2, <2>3 DEF RowKept
<1>15. ReadBack'
  BY <1>3, <1>4, <1>5, <1>7, <1>8 DEF TreeInv, ReadBack
<1>16. ASSUME NEW p \in Ids \ lineage'.shared
       PROVE  InOneHand(p)'
  <2>1. InOneHand(p) /\ p \in Ids \ lineage.shared
    BY <1>3, <1>16 DEF TreeInv
  <2>2. \A k : Holds(k, p)' <=> Holds(k, p)
    BY <1>1 DEF Holds
  <2>3. ASSUME NEW w, Current(p, w)'
        PROVE  Unfolds(p, w)'
    <3>1. Current(p, w)
      BY <1>1, <1>4, <1>5, <1>7, <1>8, <2>2, <2>3 DEF Current
    <3>2. Unfolds(p, w)
      BY <2>1, <3>1 DEF InOneHand
    <3>3. ASSUME NEW x \in Copies', x.parent = p
          PROVE  From(x, w)
      <4>1. PICK y \in Copies : x.branch = y.branch /\ x.log = y.log /\ x.parent \in {y.parent, NoRow}
        BY <1>10
      <4> QED
        BY <3>2, <3>3, <4>1, NoParent DEF Unfolds, From
    <3>4. (p \in TreeRows)' => Pre(rows'[p].log, w)
      BY <1>4, <1>5, <1>7, <1>8, <3>2 DEF Unfolds
    <3>5. (branching # NoRow)' /\ (branching.id = p)' => Pre(branching'.log, w)
      BY <1>1, <3>2 DEF Unfolds
    <3> QED
      BY <3>3, <3>4, <3>5 DEF Unfolds, From
  <2> QED
    BY <2>1, <2>2, <2>3 DEF InOneHand
<1> QED
  BY <1>9, <1>11, <1>12, <1>14, <1>15, <1>16 DEF TreeInv

LEMMA BranchFailed ==
  ASSUME TreeInv, BranchFails
  PROVE  TreeInv'
<1>1. rows' = rows /\ object' = object /\ lineage' = lineage /\ branching' = NoRow
  BY DEF BranchFails
<1>2. TreeRows' = TreeRows /\ Copies' \subseteq Copies
  BY <1>1 DEF TreeRows, Copies
<1>3. TreeTypes'
  BY <1>1 DEF TreeInv, TreeTypes
<1>4. /\ \A x \in Copies' : CopyFine(x)'
      /\ \A k \in Holders : ObjectFine(object[k])'
      /\ ObjectFine(branching)' /\ branching' = NoRow
      /\ \A id \in TreeRows' : RowKept(id)'
      /\ ReadBack'
  BY <1>1, <1>2 DEF TreeInv, CopyFine, ObjectFine, RowKept, ReadBack
<1>5. \A p \in Ids \ lineage'.shared : InOneHand(p)'
  <2>1. \A k, p : Holds(k, p)' <=> Holds(k, p)
    BY <1>1 DEF Holds
  <2>2. \A p, t : Current(p, t)' <=> Current(p, t)
    BY <1>1, <1>2, <2>1 DEF Current
  <2>3. \A p, t : Unfolds(p, t) => Unfolds(p, t)'
    BY <1>1, <1>2 DEF Unfolds, From
  <2> QED
    BY <1>1, <2>1, <2>2, <2>3 DEF TreeInv, InOneHand
<1> QED
  BY <1>3, <1>4, <1>5 DEF TreeInv

\* What a save leaves: a row with the log of the object, and what the old row
\* had beyond it.
SavedRow(o) ==
  LET old == IF rows[o.id] = NoRow THEN NoLog ELSE rows[o.id].log
  IN  [parent |-> o.parent, branch |-> o.branch, log |-> Upserted(o, old)]

LEMMA PersistedIs ==
  ASSUME TreeInv, NEW o \in SessionObject, NEW left \in SUBSET Ids, Persisted(o, left),
         o.parent # o.id, o.branch + 1 <= Len(o.log)
  PROVE  LET w == SavedRow(o) IN
         /\ rows' = [rows EXCEPT ![o.id] = w] /\ rows' \in [Ids -> SessionRow \cup {NoRow}]
         /\ w \in SessionRow /\ w # NoRow /\ w.parent = o.parent /\ w.branch = o.branch
         /\ o.parent \in TreeRows \cup {NoRow}
         /\ TreeRows' = TreeRows \cup {o.id}
         /\ lineage' \in LineageRow /\ lineage'.used = lineage.used \cup {o.id}
         /\ lineage'.shared = lineage.shared \cup left
         /\ AsStored(w.log) = w.log
         /\ Alike(w.branch + 1, AsStored(w.log), AsStored(o.log))
         /\ w.branch + 1 <= Len(w.log)
         /\ o.id \notin TreeRows => w.log = AsStored(o.log)
         /\ o.id \in TreeRows /\ Pre(rows[o.id].log, AsStored(o.log)) => w.log = AsStored(o.log)
         /\ \A id \in TreeRows' : RowKept(id)'
         /\ ReadBack'
<1>1. PICK old : old = IF rows[o.id] = NoRow THEN NoLog ELSE rows[o.id].log
  OBVIOUS
<1>2. PICK w : w = SavedRow(o)
  OBVIOUS
<1>3. o.id \in Ids /\ o.log \in Seq(SessionEvent) /\ o.branch + 1 \in Nat
  BY CopiesAre DEF SessionObject
<1>4. /\ rows' = [rows EXCEPT ![o.id] = w] /\ o.parent \in TreeRows \cup {NoRow}
      /\ w = [parent |-> o.parent, branch |-> o.branch, log |-> Upserted(o, old)]
      /\ lineage' = [lineage EXCEPT !.saves = @ + 1, !.used = @ \cup {o.id},
                    !.shared = @ \cup left, !.last[o.id] = AsStored(o.log),
                    !.diverged = IF IsPrefix(old, AsStored(o.log)) THEN @ ELSE @ \cup {o.id}]
  BY <1>1, <1>2 DEF Persisted, SavedRow
<1>5. TreeTypes /\ lineage \in LineageRow /\ \A id \in TreeRows : RowKept(id)
  BY DEF TreeInv, TreeTypes
<1>6. /\ old \in Seq(SessionEvent) /\ AsStored(old) = old
      /\ o.id \in TreeRows => old = rows[o.id].log
      /\ o.id \notin TreeRows => old = <<>>
  <2>1. CASE o.id \in TreeRows
    BY <1>1, <1>3, <1>5, <2>1 DEF TreeTypes, TreeRows, SessionRow, RowKept
  <2>2. CASE o.id \notin TreeRows
    <3>1. old = <<>>
      BY <1>1, <1>3, <2>2 DEF TreeRows, NoLog
    <3>2. old \in Seq(SessionEvent) /\ Len(old) = 0
      BY <3>1
    <3>3. AsStored(old) \in Seq(SessionEvent) /\ Len(AsStored(old)) = 0
      BY <3>2, AsStoredIs
    <3>4. AsStored(old) = <<>>
      BY <3>3
    <3> QED
      BY <2>2, <3>1, <3>2, <3>4
  <2> QED
    BY <2>1, <2>2
<1>7. PICK kept : kept = AsStored(o.log)
  OBVIOUS
<1>8. kept \in Seq(SessionEvent) /\ Len(kept) = Len(o.log) /\ AsStored(kept) = kept
  BY <1>3, <1>7, AsStoredIs
<1>9. PICK events : events = Upserted(o, old)
  OBVIOUS
<1>10. /\ events \in Seq(SessionEvent) /\ Pre(kept, events) /\ AsStored(events) = events
       /\ Pre(old, kept) => events = kept
  BY <1>3, <1>6, <1>7, <1>9, UpsertedIs
<1>11. /\ w \in SessionRow /\ w # NoRow /\ w.parent = o.parent /\ w.branch = o.branch /\ w.log = events
  BY <1>4, <1>9, <1>10, NoParent DEF SessionRow, SessionObject
<1>12. rows' \in [Ids -> SessionRow \cup {NoRow}] /\ TreeRows' = TreeRows \cup {o.id}
  <2>1. rows \in [Ids -> SessionRow \cup {NoRow}]
    BY <1>5 DEF TreeTypes
  <2>2. rows' \in [Ids -> SessionRow \cup {NoRow}]
    BY <1>4, <1>11, <2>1
  <2>3. TreeRows' = TreeRows \cup {o.id}
    BY <1>3, <1>4, <1>11, <2>1 DEF TreeRows
  <2> QED
    BY <2>2, <2>3
<1>13. PICK n \in Nat, U \in SUBSET Ids, H \in SUBSET Ids, D \in SUBSET Ids,
            L \in [Ids -> Seq(SessionEvent)] :
         /\ n = lineage.saves + 1 /\ U = lineage.used \cup {o.id} /\ H = lineage.shared \cup left
         /\ D = (IF IsPrefix(old, kept) THEN lineage.diverged ELSE lineage.diverged \cup {o.id})
         /\ L = [lineage.last EXCEPT ![o.id] = kept]
  <2>1. /\ lineage.saves + 1 \in Nat /\ lineage.used \cup {o.id} \in SUBSET Ids
        /\ lineage.shared \cup left \in SUBSET Ids
        /\ lineage.diverged \in SUBSET Ids /\ lineage.diverged \cup {o.id} \in SUBSET Ids
        /\ lineage.last \in [Ids -> Seq(SessionEvent)]
    BY <1>3, <1>5 DEF LineageRow
  <2>2. [lineage.last EXCEPT ![o.id] = kept] \in [Ids -> Seq(SessionEvent)]
    BY <1>8, <2>1
  <2> QED
    BY <2>1, <2>2
<1>14. lineage' = [lineage EXCEPT !.saves = n, !.used = U, !.shared = H, !.last = L, !.diverged = D]
  BY <1>4, <1>7, <1>13
<1>15. /\ lineage' \in LineageRow /\ lineage'.used = U /\ lineage'.shared = H
       /\ lineage'.last = L /\ lineage'.diverged = D
  BY <1>5, <1>14 DEF LineageRow
<1>16. Alike(w.branch + 1, AsStored(w.log), kept) /\ w.branch + 1 <= Len(w.log)
  BY <1>3, <1>8, <1>10, <1>11 DEF Pre, Alike
<1>17. \A id \in TreeRows : id # o.id => rows'[id] = rows[id]
  BY <1>4
<1>18. rows'[o.id] = w
  BY <1>3, <1>4, <1>5 DEF TreeTypes
<1>19. ASSUME NEW id \in TreeRows' PROVE RowKept(id)'
  <2>1. CASE id = o.id
    BY <1>4, <1>10, <1>11, <1>12, <1>13, <1>15, <1>18, <2>1 DEF RowKept
  <2>2. CASE id # o.id
    BY <1>5, <1>12, <1>13, <1>15, <1>17, <2>2 DEF RowKept
  <2> QED
    BY <2>1, <2>2
<1>20. ReadBack'
  <2>1. ASSUME NEW id \in TreeRows', id \notin lineage'.diverged
        PROVE  rows'[id].log = lineage'.last[id]
    <3>1. CASE id = o.id
      <4>1. IsPrefix(old, kept)
        BY <1>13, <1>15, <2>1, <3>1
      <4>2. Pre(old, kept)
        BY <1>6, <1>8, <4>1, PrefixIs
      <4>3. lineage'.last[o.id] = kept
        BY <1>3, <1>5, <1>13, <1>15 DEF LineageRow
      <4> QED
        BY <1>10, <1>11, <1>18, <3>1, <4>2, <4>3
    <3>2. CASE id # o.id
      <4>1. id \in TreeRows /\ id \notin lineage.diverged
        BY <1>12, <1>13, <1>15, <2>1, <3>2
      <4>2. lineage'.last[id] = lineage.last[id]
        BY <1>5, <1>13, <1>15, <3>2, <4>1 DEF LineageRow, TreeRows
      <4> QED
        BY <1>17, <3>2, <4>1, <4>2 DEF TreeInv, ReadBack
    <3> QED
      BY <3>1, <3>2
  <2> QED
    BY <2>1 DEF ReadBack
<1>21. o.id \notin TreeRows => w.log = kept
  <2>1. o.id \notin TreeRows => Pre(old, kept)
    BY <1>6, <1>8 DEF Pre, Alike
  <2> QED
    BY <1>10, <1>11, <2>1
<1>22. o.id \in TreeRows /\ Pre(rows[o.id].log, kept) => w.log = kept
  BY <1>6, <1>10, <1>11
<1>23. /\ rows' = [rows EXCEPT ![o.id] = w] /\ rows' \in [Ids -> SessionRow \cup {NoRow}]
       /\ w \in SessionRow /\ w # NoRow /\ w.parent = o.parent /\ w.branch = o.branch
       /\ o.parent \in TreeRows \cup {NoRow}
       /\ TreeRows' = TreeRows \cup {o.id} /\ AsStored(w.log) = w.log
  BY <1>4, <1>10, <1>11, <1>12
<1>24. /\ lineage' \in LineageRow /\ lineage'.used = lineage.used \cup {o.id}
       /\ lineage'.shared = lineage.shared \cup left
  BY <1>13, <1>15
<1> QED
  BY <1>2, <1>7, <1>16, <1>19, <1>20, <1>21, <1>22, <1>23, <1>24

LEMMA SessionSaved ==
  ASSUME TreeInv, NEW h \in Holders, SaveSession(h)
  PROVE  TreeInv'
<1>1. PICK o, w : o = object[h] /\ w = SavedRow(o)
  OBVIOUS
<1>2. o # NoRow /\ Persisted(o, {}) /\ object' = object /\ branching' = branching
  BY <1>1 DEF SaveSession
<1>3. /\ o \in SessionObject /\ o \in Copies /\ CopyFine(o) /\ o.parent # o.id
      /\ o.id \in lineage.used /\ Holds(h, o.id) /\ TreeTypes
  BY <1>1, <1>2 DEF TreeInv, TreeTypes, Copies, ObjectFine, Holds
<1>4. o.branch + 1 <= Len(o.log) /\ o.id \in Ids
  BY <1>3 DEF CopyFine, SessionObject
<1>5. /\ rows' = [rows EXCEPT ![o.id] = w] /\ rows' \in [Ids -> SessionRow \cup {NoRow}]
      /\ w \in SessionRow /\ w # NoRow /\ w.parent = o.parent /\ w.branch = o.branch
      /\ TreeRows' = TreeRows \cup {o.id}
      /\ lineage' \in LineageRow /\ lineage'.used = lineage.used \cup {o.id}
      /\ lineage'.shared = lineage.shared \cup {}
      /\ Alike(w.branch + 1, AsStored(w.log), AsStored(o.log))
      /\ w.branch + 1 <= Len(w.log)
      /\ o.id \notin TreeRows => w.log = AsStored(o.log)
      /\ o.id \in TreeRows /\ Pre(rows[o.id].log, AsStored(o.log)) => w.log = AsStored(o.log)
      /\ \A id \in TreeRows' : RowKept(id)'
      /\ ReadBack'
  BY <1>1, <1>2, <1>3, <1>4, PersistedIs
<1>6. TreeTypes'
  BY <1>2, <1>3, <1>5 DEF TreeTypes
<1>7. rows'[o.id] = w /\ \A id \in Ids : id # o.id => rows'[id] = rows[id]
  BY <1>3, <1>4, <1>5 DEF TreeTypes
<1>8. Copies' \subseteq Copies \cup {w}
  BY <1>2, <1>5, <1>7 DEF Copies, TreeRows
<1>9. \A x \in Copies' : CopyFine(x)'
  BY <1>3, <1>5, <1>8 DEF TreeInv, CopyFine
<1>10. /\ \A k \in Holders : ObjectFine(object[k])'
       /\ ObjectFine(branching)' /\ (branching' # NoRow => AsStored(branching'.log) = branching'.log)
  BY <1>2, <1>5 DEF TreeInv, ObjectFine
<1>11. ASSUME NEW p \in Ids \ lineage'.shared
       PROVE  InOneHand(p)'
  <2>1. InOneHand(p) /\ p \in Ids \ lineage.shared
    BY <1>5, <1>11 DEF TreeInv
  <2>2. \A k : Holds(k, p)' <=> Holds(k, p)
    BY <1>2 DEF Holds
  <2>3. ASSUME NEW t, Current(p, t)'
        PROVE  Unfolds(p, t)'
    <3>1. Current(p, t)
      <4>1. CASE \E k \in Holders : Holds(k, p)
        BY <1>2, <2>2, <2>3, <4>1 DEF Current
      <4>2. CASE \A k \in Holders : ~Holds(k, p)
        <5>1. p # o.id
          BY <1>3, <4>2
        <5> QED
          BY <1>5, <1>7, <2>2, <2>3, <4>2, <5>1 DEF Current
      <4> QED
        BY <4>1, <4>2
    <3>2. Unfolds(p, t) /\ t \in Seq(SessionEvent) /\ Pre(t, t)
      <4>1. t \in Seq(SessionEvent)
        BY <1>3, <3>1, CurrentIs
      <4> QED
        BY <2>1, <3>1, <4>1, PreFacts DEF InOneHand
    <3>3. ASSUME NEW x \in Copies', x.parent = p
          PROVE  \/ From(x, t)
                 \/ \E y \in Copies : /\ y.parent = p /\ y.branch = x.branch
                                      /\ Alike(x.branch + 1, AsStored(x.log), AsStored(y.log))
      <4>1. CASE x \in Copies
        BY <3>2, <3>3, <4>1 DEF Unfolds
      <4>2. CASE x = w
        BY <1>3, <1>5, <3>3, <4>2
      <4> QED
        BY <1>8, <4>1, <4>2
    <3>4. (p \in TreeRows)' => Pre(rows'[p].log, t)
      <4>1. CASE p = o.id
        <5>1. t = AsStored(o.log)
          BY <1>1, <1>3, <2>1, <3>1, <4>1 DEF Current, InOneHand
        <5>2. w.log = AsStored(o.log)
          BY <1>5, <3>2, <4>1, <5>1 DEF Unfolds
        <5> QED
          BY <1>7, <3>2, <4>1, <5>1, <5>2
      <4>2. CASE p # o.id
        BY <1>5, <1>7, <3>2, <4>2 DEF Unfolds
      <4> QED
        BY <4>1, <4>2
    <3>5. (branching # NoRow)' /\ (branching.id = p)' => Pre(branching'.log, t)
      BY <1>2, <3>2 DEF Unfolds
    <3> QED
      BY <1>6, <2>1, <3>1, <3>2, <3>3, <3>4, <3>5, StillUnfolds
  <2> QED
    BY <2>1, <2>2, <2>3 DEF InOneHand
<1> QED
  BY <1>5, <1>6, <1>9, <1>10, <1>11 DEF TreeInv

LEMMA BranchSaved ==
  ASSUME TreeInv, NEW h \in Holders, NEW boundary \in Int, NEW child \in Ids,
         BranchSaves(h, boundary, child)
  PROVE  TreeInv'
<1>1. PICK o, c, w, S : /\ o = branching /\ c = BranchOf(o, boundary, child)
                        /\ w = SavedRow(c) /\ S = Abandoned(h)
  OBVIOUS
<1>2. /\ o # NoRow /\ child \notin lineage.used /\ boundary \in -1..(Len(o.log) - 1)
      /\ Persisted(c, S) /\ object' = [object EXCEPT ![h] = c] /\ branching' = NoRow
  BY <1>1 DEF BranchSaves
<1>3. /\ o \in SessionObject /\ o.id \in lineage.used /\ TreeTypes /\ o \in Copies
      /\ AsStored(o.log) = o.log
  BY <1>1, <1>2 DEF TreeInv, TreeTypes, ObjectFine, Copies
<1>4. /\ c \in SessionObject /\ c.id = child /\ c.parent = o.id /\ c.branch + 1 = Len(c.log)
      /\ c.branch + 1 \in Nat /\ From(c, o.log) /\ c # NoRow /\ c.parent # c.id
      /\ c.log \in Seq(SessionEvent) /\ o.log \in Seq(SessionEvent)
  <2>1. /\ c \in SessionObject /\ c.id = child /\ c.parent = o.id /\ c.branch + 1 = Len(c.log)
        /\ c.branch + 1 \in Nat /\ From(c, AsStored(o.log))
    BY <1>1, <1>2, <1>3, BranchIs
  <2> QED
    BY <1>2, <1>3, <2>1, NoParent DEF SessionObject
<1>5. S \in SUBSET Ids /\ c.branch + 1 <= Len(c.log)
  BY <1>1, <1>4 DEF Abandoned, TreeRows
<1>6. child \notin TreeRows /\ (\A k \in Holders : ~Holds(k, child)) /\ \A x \in Copies : x.parent # child
  BY <1>2, NoParent DEF TreeInv, RowKept, ObjectFine, Holds, CopyFine
<1>7. /\ rows' = [rows EXCEPT ![child] = w] /\ rows' \in [Ids -> SessionRow \cup {NoRow}]
      /\ w \in SessionRow /\ w # NoRow /\ w.parent = o.id /\ w.branch = c.branch
      /\ o.id \in TreeRows \cup {NoRow}
      /\ TreeRows' = TreeRows \cup {child}
      /\ lineage' \in LineageRow /\ lineage'.used = lineage.used \cup {child}
      /\ lineage'.shared = lineage.shared \cup S
      /\ Alike(w.branch + 1, AsStored(w.log), AsStored(c.log))
      /\ w.branch + 1 <= Len(w.log)
      /\ w.log = AsStored(c.log) /\ AsStored(w.log) = w.log
      /\ \A id \in TreeRows' : RowKept(id)'
      /\ ReadBack'
  BY <1>1, <1>2, <1>4, <1>5, <1>6, PersistedIs
<1>8. TreeTypes'
  BY <1>2, <1>3, <1>4, <1>7 DEF TreeTypes
<1>9. /\ rows'[child] = w /\ \A id \in Ids : id # child => rows'[id] = rows[id]
      /\ object'[h] = c /\ \A k \in Holders : k # h => object'[k] = object[k]
  BY <1>2, <1>3, <1>7 DEF TreeTypes
<1>10. Copies' \subseteq Copies \cup {c, w}
  BY <1>2, <1>7, <1>9 DEF Copies, TreeRows
<1>11. \A x \in Copies' : CopyFine(x)'
  BY <1>3, <1>4, <1>5, <1>7, <1>10 DEF TreeInv, CopyFine
<1>12. /\ \A k \in Holders : ObjectFine(object[k])'
       /\ ObjectFine(branching)' /\ branching' = NoRow
  BY <1>2, <1>4, <1>7, <1>9 DEF TreeInv, ObjectFine
<1>13. ASSUME NEW p \in Ids \ lineage'.shared
       PROVE  InOneHand(p)'
  <2>1. InOneHand(p) /\ p \in Ids \ lineage.shared /\ p \notin Abandoned(h)
    BY <1>1, <1>7, <1>13 DEF TreeInv
  <2>2. \A k \in Holders : Holds(k, p)' <=> IF k = h THEN child = p ELSE Holds(k, p)
    BY <1>4, <1>9 DEF Holds
  <2>3. \A k, l \in Holders : Holds(k, p)' /\ Holds(l, p)' => k = l
    BY <1>6, <2>1, <2>2 DEF InOneHand
  <2>4. ASSUME NEW t, Current(p, t)'
        PROVE  Unfolds(p, t)'
    <3>1. CASE p = child
      <4>1. t = AsStored(c.log)
        <5>1. Holds(h, p)' /\ \A k \in Holders : Holds(k, p)' => k = h
          BY <2>2, <2>3, <3>1
        <5> QED
          BY <1>9, <2>4, <5>1 DEF Current
      <4>2. Pre(rows'[p].log, t)
        <5>1. t \in Seq(SessionEvent)
          BY <1>4, <4>1, AsStoredIs
        <5> QED
          BY <1>7, <1>9, <3>1, <4>1, <5>1, PreFacts
      <4>3. \A x \in Copies' : x.parent # p
        BY <1>4, <1>6, <1>7, <1>10, <3>1
      <4> QED
        BY <1>2, <4>2, <4>3 DEF Unfolds
    <3>2. CASE p # child
      <4>1. Current(p, t)
        <5>1. CASE \E k \in Holders : Holds(k, p)' /\ t = AsStored(object'[k].log)
          <6>1. PICK k \in Holders : Holds(k, p)' /\ t = AsStored(object'[k].log)
            BY <5>1
          <6>2. k # h /\ Holds(k, p) /\ t = AsStored(object[k].log)
            BY <1>9, <2>2, <3>2, <6>1
          <6> QED
            BY <6>2 DEF Current
        <5>2. CASE p \in TreeRows' /\ (\A k \in Holders : ~Holds(k, p)') /\ t = rows'[p].log
          <6>1. p \in TreeRows /\ t = rows[p].log
            BY <1>7, <1>9, <3>2, <5>2
          <6>2. CASE Holds(h, p)
            <7>1. AsStored(object[h].log) = rows[p].log
              BY <2>1, <6>1, <6>2 DEF Holds, Abandoned
            <7> QED
              BY <6>1, <6>2, <7>1 DEF Current
          <6>3. CASE ~Holds(h, p)
            <7>1. \A k \in Holders : ~Holds(k, p)
              BY <2>2, <5>2, <6>3
            <7> QED
              BY <6>1, <7>1 DEF Current
          <6> QED
            BY <6>2, <6>3
        <5> QED
          BY <2>4, <5>1, <5>2 DEF Current
      <4>2. Unfolds(p, t) /\ t \in Seq(SessionEvent) /\ Pre(t, t)
        <5>1. t \in Seq(SessionEvent)
          BY <1>3, <4>1, CurrentIs
        <5> QED
          BY <2>1, <4>1, <5>1, PreFacts DEF InOneHand
      <4>3. c.parent = p => From(c, t)
        <5>1. c.parent = p => Pre(o.log, t)
          BY <1>1, <1>2, <1>4, <4>2 DEF Unfolds
        <5>2. AsStored(c.log) \in Seq(SessionEvent)
          BY <1>4, AsStoredIs
        <5> QED
          BY <1>4, <4>2, <5>1, <5>2, PreFacts DEF From
      <4>4. w.parent = p => From(w, t)
        BY <1>4, <1>7, <4>3 DEF From
      <4>5. \A x \in Copies' : x.parent = p => From(x, t)
        BY <1>10, <4>2, <4>3, <4>4 DEF Unfolds
      <4>6. p \in TreeRows' => Pre(rows'[p].log, t)
        BY <1>7, <1>9, <3>2, <4>2 DEF Unfolds
      <4> QED
        BY <1>2, <4>5, <4>6 DEF Unfolds, From
    <3> QED
      BY <3>1, <3>2
  <2> QED
    BY <2>3, <2>4 DEF InOneHand
<1> QED
  BY <1>7, <1>8, <1>11, <1>12, <1>13 DEF TreeInv

LEMMA TreeStep == TreeInv /\ [TreeNext]_treeVars => TreeInv'
<1> SUFFICES ASSUME TreeInv, [TreeNext]_treeVars PROVE TreeInv'
  OBVIOUS
<1>1. CASE UNCHANGED treeVars
  <2>1. TreeRows' = TreeRows /\ Copies' = Copies
    BY <1>1 DEF treeVars, TreeRows, Copies
  <2>2. \A k, p : Holds(k, p)' <=> Holds(k, p)
    BY <1>1 DEF treeVars, Holds
  <2>3. \A p, t : Current(p, t)' <=> Current(p, t)
    BY <1>1, <2>1, <2>2 DEF treeVars, Current
  <2>4. \A p, t : Unfolds(p, t) => Unfolds(p, t)'
    BY <1>1, <2>1 DEF treeVars, Unfolds, From
  <2>5. \A p \in Ids : InOneHand(p) => InOneHand(p)'
    BY <2>2, <2>3, <2>4 DEF InOneHand
  <2>6. TreeTypes'
    BY <1>1 DEF treeVars, TreeInv, TreeTypes
  <2>7. /\ \A x \in Copies' : CopyFine(x)'
        /\ \A k \in Holders : ObjectFine(object[k])'
        /\ ObjectFine(branching)' /\ (branching' # NoRow => AsStored(branching'.log) = branching'.log)
        /\ \A id \in TreeRows' : RowKept(id)'
        /\ ReadBack'
    BY <1>1, <2>1 DEF treeVars, TreeInv, CopyFine, ObjectFine, RowKept, ReadBack
  <2> QED
    BY <1>1, <2>5, <2>6, <2>7 DEF TreeInv, treeVars
<1>2. ASSUME NEW h \in Holders, NEW id \in Ids, CreateSession(h, id) \/ LoadSession(h, id)
      PROVE  TreeInv'
  BY <1>2, SessionCreated, SessionLoaded
<1>3. ASSUME NEW h \in Holders, NEW type \in Types, AppendTo(h, type)
      PROVE  TreeInv'
  BY <1>3, EventAppended
<1>4. ASSUME NEW h \in Holders, SaveSession(h)
      PROVE  TreeInv'
  BY <1>4, SessionSaved
<1>5. ASSUME NEW h \in Holders, NEW other \in Holders, NEW boundary \in Int, NEW child \in Ids,
             ForkObject(h, other, boundary, child)
      PROVE  TreeInv'
  BY <1>5, ObjectForked
<1>6. ASSUME NEW id \in Ids, BranchLoads(id) \/ DeleteSession(id)
      PROVE  TreeInv'
  BY <1>6, BranchLoaded, SessionDeleted
<1>7. ASSUME NEW h \in Holders, NEW boundary \in Int, NEW child \in Ids,
             BranchSaves(h, boundary, child)
      PROVE  TreeInv'
  BY <1>7, BranchSaved
<1>8. CASE BranchFails
  BY <1>8, BranchFailed
<1>9. ASSUME TreeNext PROVE TreeInv'
  <2>1. \A i \in -1..MaxAppends : i \in Int
    OBVIOUS
  <2> QED
    BY <1>2, <1>3, <1>4, <1>5, <1>6, <1>7, <1>8, <1>9, <2>1 DEF TreeNext
<1> QED
  BY <1>1, <1>9

\* Sessions: ReadBack and Branches.
LEMMA TreeHolds == TreeInv => ReadBack /\ Branches
<1> SUFFICES ASSUME TreeInv PROVE Branches
  BY DEF TreeInv
<1>1. ASSUME NEW id \in TreeRows
      PROVE  LET r == rows[id] IN
             /\ r.branch + 1 <= Len(r.log)
             /\ r.parent # NoRow => r.parent \in TreeRows \ {id}
             /\ r.parent # NoRow /\ r.parent \notin lineage.shared =>
                  LET shared == SubSeq(r.log, 1, r.branch + 1)
                  IN  IsPrefix(shared, rows[r.parent].log) \/ IsPrefix(rows[r.parent].log, shared)
  <2>1. PICK r : r = rows[id]
    OBVIOUS
  <2>2. /\ r \in SessionRow /\ r \in Copies /\ CopyFine(r) /\ TreeTypes
        /\ AsStored(r.log) = r.log /\ r.parent \in (TreeRows \cup {NoRow}) \ {id}
    BY <2>1 DEF TreeInv, TreeTypes, TreeRows, Copies, RowKept
  <2>3. PICK n \in Nat : n = r.branch + 1
    BY <2>2, CopiesAre
  <2>4. r.log \in Seq(SessionEvent) /\ n <= Len(r.log)
    BY <2>2, <2>3 DEF SessionRow, CopyFine
  <2>5. PICK shared : shared = SubSeq(r.log, 1, n)
    OBVIOUS
  <2>6. shared \in Seq(SessionEvent) /\ Len(shared) = n /\ \A i \in 1..n : shared[i] = r.log[i]
    <3>1. \A i \in 1..n : r.log[i] \in SessionEvent
      BY <2>4
    <3>2. /\ SubSeq(r.log, 1, n) \in Seq(SessionEvent)
          /\ Len(SubSeq(r.log, 1, n)) = (IF 1 <= n THEN n - 1 + 1 ELSE 0)
          /\ \A i \in 1..(n - 1 + 1) : SubSeq(r.log, 1, n)[i] = r.log[1 + i - 1]
      BY <3>1, SubSeqProperties
    <3> QED
      BY <2>5, <3>2
  <2>7. ASSUME r.parent # NoRow, r.parent \notin lineage.shared
        PROVE  IsPrefix(shared, rows[r.parent].log) \/ IsPrefix(rows[r.parent].log, shared)
    <3>1. PICK p : p = r.parent
      OBVIOUS
    <3>2. /\ p \in TreeRows /\ p \in Ids \ lineage.shared /\ InOneHand(p)
          /\ rows[p].log \in Seq(SessionEvent)
      BY <2>2, <2>7, <3>1 DEF TreeInv, TreeTypes, TreeRows, SessionRow
    <3>3. PICK t : Current(p, t)
      <4>1. CASE \E h \in Holders : Holds(h, p)
        BY <4>1 DEF Current
      <4>2. CASE \A h \in Holders : ~Holds(h, p)
        BY <3>2, <4>2 DEF Current
      <4> QED
        BY <4>1, <4>2
    <3>4. t \in Seq(SessionEvent) /\ Pre(rows[p].log, t) /\ From(r, t)
      BY <2>2, <3>1, <3>2, <3>3, CurrentIs DEF InOneHand, Unfolds
    <3>5. Pre(shared, t)
      BY <2>2, <2>3, <2>6, <3>4 DEF From, Pre, Alike
    <3>6. Pre(shared, rows[p].log) \/ Pre(rows[p].log, shared)
      BY <2>6, <3>2, <3>4, <3>5, PreFacts
    <3> QED
      BY <2>6, <3>1, <3>2, <3>6, PrefixIs
  <2> QED
    BY <2>1, <2>2, <2>3, <2>4, <2>5, <2>7
<1> QED
  BY <1>1 DEF Branches

\* Sessions, however objects are created, loaded, forked, saved and deleted: a
\* session is read back as it was last saved unless another copy of it had been,
\* and a branch begins with what its parent has.
THEOREM TreeCorrect == TreeSpec => [](ReadBack /\ Branches)
<1>1. TreeSpec => []TreeInv
  BY TreeStart, TreeStep, PTL DEF TreeSpec
<1> QED
  BY <1>1, TreeHolds, PTL
-----------------------------------------------------------------------------
NoteRow == [said : SUBSET Nat, status : {"active", "stale", "archived"}, accessed : Nat, sweeps : 0..2]
KeyRow == [expires : Nat] \cup {NoRow}
NotesTypes ==
  /\ kv \in [Keys -> KeyRow] /\ day \in Nat
  /\ notes = [n \in DOMAIN notes |-> notes[n]] /\ \A n \in DOMAIN notes : notes[n] \in NoteRow
  /\ merging \in [said : SUBSET Nat] \cup {NoRow}
  /\ facts \in [kept : SUBSET Nat, gone : SUBSET Nat, writes : Nat]

\* A note is as old as the sweeps it has seen, and one consolidated today is
\* still active.
NoteFine(n, note) ==
  /\ note.status = "archived" => note.sweeps = 2
  /\ note.status = "stale" => note.sweeps > 0
  /\ \A d \in Nat : n = <<"consolidated", d>> =>
       d <= note.accessed /\ d <= day /\ (note.status # "active" => d < day)

\* What is kept is in a note, and while a consolidation waits in one it will
\* not delete or among what it has listed; what is gone is nowhere.
Tells(n, f) == n \in DOMAIN notes /\ f \in notes[n].said
KeptSomewhere ==
  /\ \A f \in facts.kept : \E n : Tells(n, f)
  /\ merging # NoRow => \A f \in facts.kept :
       f \in merging.said \/ \E n : Tells(n, f) /\ notes[n].status # "active"
GoneEverywhere ==
  /\ \A f \in facts.gone : \A n : ~Tells(n, f)
  /\ merging # NoRow => \A f \in facts.gone : f \notin merging.said
FactsAreOld ==
  /\ \A f \in facts.kept \cup facts.gone : f < facts.writes
  /\ \A n, f : Tells(n, f) => f < facts.writes
  /\ merging # NoRow => \A f \in merging.said : f < facts.writes
NotesInv ==
  /\ NotesTypes /\ \A n \in DOMAIN notes : NoteFine(n, notes[n])
  /\ KeptSomewhere /\ GoneEverywhere /\ FactsAreOld

LEMMA SaidIs == ASSUME NEW k, NEW f PROVE f \in Said(k) <=> \E n \in DOMAIN k : f \in k[n].said
BY DEF Said
LEMMA WithIs ==
  ASSUME NEW k, NEW n, NEW note
  PROVE  /\ DOMAIN With(k, n, note) = DOMAIN k \cup {n}
         /\ With(k, n, note) = [m \in DOMAIN k \cup {n} |-> With(k, n, note)[m]]
         /\ With(k, n, note)[n] = note
         /\ \A m \in DOMAIN k : m # n => With(k, n, note)[m] = k[m]
BY DEF With
LEMMA WithoutIs ==
  ASSUME NEW k, NEW gone
  PROVE  /\ DOMAIN Without(k, gone) = DOMAIN k \ gone
         /\ Without(k, gone) = [m \in DOMAIN k \ gone |-> Without(k, gone)[m]]
         /\ \A m \in DOMAIN k \ gone : Without(k, gone)[m] = k[m]
BY DEF Without
LEMMA WritesOne ==
  ASSUME NEW n, NEW note, notes' = With(notes, n, note)
  PROVE  /\ DOMAIN notes' = DOMAIN notes \cup {n} /\ notes'[n] = note
         /\ notes' = [m \in DOMAIN notes' |-> notes'[m]]
         /\ \A m \in DOMAIN notes : m # n => notes'[m] = notes[m]
BY DEF With
LEMMA RemovedIs ==
  ASSUME NEW n, NEW f
  PROVE  f \in Removed(n) <=> merging = NoRow /\ Tells(n, f) /\ \A m : m # n => ~Tells(m, f)
<1>1. f \in SaidIn(n) <=> Tells(n, f)
  BY DEF SaidIn, Tells
<1>2. f \in Said(Without(notes, {n})) <=> \E m : m # n /\ Tells(m, f)
  <2>1. PICK W : W = Without(notes, {n})
    OBVIOUS
  <2>2. f \in Said(W) <=> \E m \in DOMAIN W : f \in W[m].said
    BY SaidIs
  <2>3. DOMAIN W = DOMAIN notes \ {n} /\ \A m \in DOMAIN notes \ {n} : W[m] = notes[m]
    BY <2>1, WithoutIs
  <2> QED
    BY <2>1, <2>2, <2>3 DEF Tells
<1> QED
  BY <1>1, <1>2 DEF Removed
LEMMA NewNoteIs ==
  ASSUME NEW said \in SUBSET Nat, day \in Nat
  PROVE  /\ NewNote(said) \in NoteRow /\ NewNote(said).said = said
         /\ NewNote(said).status = "active" /\ NewNote(said).accessed = day
BY DEF NewNote, NoteRow

LEMMA NotesStart == NotesInit => NotesInv
<1> SUFFICES ASSUME NotesInit PROVE NotesInv
  OBVIOUS
<1>1. /\ kv = [k \in Keys |-> NoRow] /\ DOMAIN notes = {} /\ notes = [n \in DOMAIN notes |-> notes[n]]
      /\ merging = NoRow /\ day = 0 /\ facts = [kept |-> {}, gone |-> {}, writes |-> 0]
  BY DEF NotesInit
<1>2. NotesTypes
  BY <1>1 DEF NotesTypes, KeyRow
<1> QED
  BY <1>1, <1>2 DEF NotesInv, KeptSomewhere, GoneEverywhere, FactsAreOld, Tells

\* What leaves the notes as they are, or only the date and the keys.
LEMMA NotesStay ==
  ASSUME NotesInv, notes' = notes, merging' = merging, day' \in Nat, day <= day',
         kv' \in [Keys -> KeyRow],
         facts'.kept = facts.kept, facts'.gone = facts.gone, facts'.writes >= facts.writes,
         facts' \in [kept : SUBSET Nat, gone : SUBSET Nat, writes : Nat]
  PROVE  NotesInv'
<1>1. NotesTypes'
  BY DEF NotesInv, NotesTypes
<1>2. \A n \in DOMAIN notes' : NoteFine(n, notes[n])'
  BY DEF NotesInv, NotesTypes, NoteFine
<1>3. \A n, f : Tells(n, f)' <=> Tells(n, f)
  BY DEF Tells
<1>4. KeptSomewhere' /\ GoneEverywhere'
  BY <1>3 DEF NotesInv, KeptSomewhere, GoneEverywhere
<1>5. FactsAreOld'
  <2>1. \A f \in Nat : f < facts.writes => f < facts'.writes
    BY DEF NotesInv, NotesTypes
  <2>2. \A n, f : Tells(n, f) => f \in Nat
    BY DEF NotesInv, NotesTypes, Tells, NoteRow
  <2>3. merging # NoRow => \A f \in merging.said : f \in Nat
    BY DEF NotesInv, NotesTypes
  <2> QED
    BY <1>3, <2>1, <2>2, <2>3 DEF NotesInv, NotesTypes, FactsAreOld
<1> QED
  BY <1>1, <1>2, <1>4, <1>5 DEF NotesInv

\* A finite set of positions has a largest one.
LEMMA MaxIn ==
  ASSUME NEW n \in Nat, NEW S, S \subseteq 1..n, S # {}
  PROVE  Max(S) \in S
<1> DEFINE R == OpToRel(<, Nat)
           T == {n - x : x \in S}
<1>1. IsWellFoundedOn(R, Nat)
  BY NatLessThanWellFounded
<1>2. \A x, y \in Nat : x < y => <<x, y>> \in R
  BY DEF OpToRel
<1>3. T \subseteq Nat /\ T # {}
  <2>1. \A x \in S : n - x \in Nat
    OBVIOUS
  <2> QED
    BY <2>1
<1> HIDE DEF R
<1>4. PICK y \in T : \A z \in T : ~(<<z, y>> \in R)
  <2> HIDE DEF T
  <2> QED
    BY <1>1, <1>3, WFMin
<1>5. \A z \in T : ~(z < y)
  BY <1>2, <1>3, <1>4
<1>6. PICK x \in S : y = n - x
  BY <1>4
<1>7. \A z \in S : x >= z
  <2>1. ASSUME NEW z \in S PROVE x >= z
    <3>1. n - z \in T
      OBVIOUS
    <3> QED
      BY <1>5, <1>6, <3>1
  <2> QED
    BY <2>1
<1> QED
  BY <1>6, <1>7 DEF Max

LEMMA KeysPut ==
  ASSUME NotesInv, NEW ops \in Batches, Batch(ops)
  PROVE  NotesInv'
<1>1. /\ kv' = [k \in Keys |-> LET at == {i \in DOMAIN ops : ops[i].key = k}
                               IN  IF at = {} THEN kv[k] ELSE Put(ops[Max(at)])]
      /\ facts' = [facts EXCEPT !.writes = @ + 1]
      /\ notes' = notes /\ merging' = merging /\ day' = day
  BY DEF Batch
<1>2. NotesTypes
  BY DEF NotesInv
<1>3. ops \in Seq([key : Keys, ttl : Int])
  BY StoresConstants
<1>4. \A i \in DOMAIN ops : Put(ops[i]) \in KeyRow
  <2>1. ASSUME NEW i \in DOMAIN ops PROVE Put(ops[i]) \in KeyRow
    <3>0. ops[i] \in [key : Keys, ttl : Int]
      <4>1. PICK S : S = [key : Keys, ttl : Int]
        OBVIOUS
      <4>2. ops \in Seq(S)
        BY <1>3, <4>1
      <4>3. ops[i] \in S
        BY <4>2
      <4> QED
        BY <4>1, <4>3
    <3>1. ops[i].ttl \in Int /\ day \in Nat
      BY <1>2, <3>0 DEF NotesTypes
    <3>2. CASE ops[i].ttl < 0
      BY <3>2 DEF Put, KeyRow
    <3>3. CASE ~(ops[i].ttl < 0)
      <4>1. (IF ops[i].ttl = 0 THEN 0 ELSE day + ops[i].ttl) \in Nat
        BY <3>1, <3>3
      <4> QED
        BY <3>3, <4>1 DEF Put, KeyRow
    <3> QED
      BY <3>2, <3>3
  <2> QED
    BY <2>1
<1>5. kv' \in [Keys -> KeyRow]
  <2>1. ASSUME NEW k \in Keys, NEW at, at = {i \in DOMAIN ops : ops[i].key = k}
        PROVE  (IF at = {} THEN kv[k] ELSE Put(ops[Max(at)])) \in KeyRow
    <3>1. CASE at = {}
      BY <1>2, <3>1 DEF NotesTypes
    <3>2. CASE at # {}
      <4>1. Len(ops) \in Nat /\ at \subseteq 1..Len(ops) /\ DOMAIN ops = 1..Len(ops)
        BY <1>3, <2>1
      <4>2. Max(at) \in at
        BY <3>2, <4>1, MaxIn
      <4> QED
        BY <1>4, <2>1, <3>2, <4>2
    <3> QED
      BY <3>1, <3>2
  <2> QED
    BY <1>1, <2>1
<1>6. /\ facts'.kept = facts.kept /\ facts'.gone = facts.gone /\ facts'.writes >= facts.writes
      /\ facts' \in [kept : SUBSET Nat, gone : SUBSET Nat, writes : Nat]
  <2>1. PICK n \in Nat : n = facts.writes + 1
    BY <1>2 DEF NotesTypes
  <2>2. facts' = [facts EXCEPT !.writes = n]
    BY <1>1, <2>1
  <2> QED
    BY <1>2, <2>1, <2>2 DEF NotesTypes
<1>7. day' \in Nat /\ day <= day'
  BY <1>1, <1>2 DEF NotesTypes
<1> QED
  BY <1>1, <1>5, <1>6, <1>7, NotesStay

LEMMA KeyGot ==
  ASSUME NotesInv, NEW k \in Keys, GetKey(k)
  PROVE  NotesInv'
<1>1. kv' = [kv EXCEPT ![k] = NoRow] /\ notes' = notes /\ merging' = merging /\ day' = day /\ facts' = facts
  BY DEF GetKey
<1>2. NotesTypes
  BY DEF NotesInv
<1>3. kv' \in [Keys -> KeyRow] /\ day' \in Nat /\ day <= day'
  BY <1>1, <1>2 DEF NotesTypes, KeyRow
<1>4. facts.writes >= facts.writes
  BY <1>2 DEF NotesTypes
<1> QED
  BY <1>1, <1>2, <1>3, <1>4, NotesStay DEF NotesTypes

LEMMA TimePasses ==
  ASSUME NotesInv, DayPasses
  PROVE  NotesInv'
<1>1. kv' = kv /\ notes' = notes /\ merging' = merging /\ day' = day + 1 /\ facts' = facts
  BY DEF DayPasses
<1>2. NotesTypes
  BY DEF NotesInv
<1>3. day' \in Nat /\ day <= day' /\ facts.writes >= facts.writes
  BY <1>1, <1>2 DEF NotesTypes
<1> QED
  BY <1>1, <1>2, <1>3, NotesStay DEF NotesTypes

\* One note is written, or found and so becomes active.
LEMMA NoteSet ==
  ASSUME NotesInv, NEW name, SetNote(<<name, -1>>)
  PROVE  NotesInv'
<1>1. PICK n, said, note : n = <<name, -1>> /\ said = {facts.writes} /\ note = NewNote(said)
  OBVIOUS
<1>2. NotesTypes
  BY DEF NotesInv
<1>3. said \in SUBSET Nat /\ day \in Nat /\ facts.writes \in Nat
  BY <1>1, <1>2 DEF NotesTypes
<1>4. note \in NoteRow /\ note.said = said /\ note.status = "active"
  BY <1>1, <1>3, NewNoteIs
<1>5. PICK new, lost : new = {f \in said : merging = NoRow} /\ lost = Removed(n)
  OBVIOUS
<1>6. /\ notes' = With(notes, n, note)
      /\ facts' = [kept |-> (facts.kept \ SaidIn(n)) \cup new, gone |-> facts.gone \cup lost,
                   writes |-> facts.writes + 1]
      /\ kv' = kv /\ merging' = merging /\ day' = day
  BY <1>1, <1>5 DEF SetNote
<1>0. /\ DOMAIN notes' = DOMAIN notes \cup {n} /\ notes'[n] = note
      /\ notes' = [m \in DOMAIN notes' |-> notes'[m]]
      /\ \A m \in DOMAIN notes : m # n => notes'[m] = notes[m]
  BY <1>6, WritesOne
<1>7. \A m, f : Tells(m, f)' <=> IF m = n THEN f \in said ELSE Tells(m, f)
  BY <1>0, <1>4 DEF Tells
<1>8. \A f : f \in lost <=> merging = NoRow /\ Tells(n, f) /\ \A m : m # n => ~Tells(m, f)
  BY <1>5, RemovedIs
<1>9. \A f : f \in SaidIn(n) <=> Tells(n, f)
  BY DEF SaidIn, Tells
<1>10. /\ facts'.kept = (facts.kept \ SaidIn(n)) \cup new /\ facts'.gone = facts.gone \cup lost
       /\ facts'.writes = facts.writes + 1
  BY <1>6
<1>11. \A m, f : Tells(m, f) => f \in Nat /\ f < facts.writes
  BY <1>2 DEF NotesInv, FactsAreOld, NotesTypes, Tells, NoteRow
<1>12. NotesTypes'
  <2>1. notes' = [m \in DOMAIN notes' |-> notes'[m]] /\ \A m \in DOMAIN notes' : notes'[m] \in NoteRow
    BY <1>0, <1>2, <1>4 DEF NotesTypes
  <2>2. lost \subseteq Nat /\ new \subseteq Nat
    BY <1>3, <1>5, <1>8, <1>11
  <2>3. facts' \in [kept : SUBSET Nat, gone : SUBSET Nat, writes : Nat]
    BY <1>2, <1>3, <1>6, <2>2 DEF NotesTypes
  <2> QED
    BY <1>2, <1>6, <2>1, <2>3 DEF NotesTypes
<1>13. ASSUME NEW m \in DOMAIN notes' PROVE NoteFine(m, notes[m])'
  <2>1. CASE m = n
    <3>1. notes'[m] = note
      BY <1>0, <2>1
    <3>2. \A d \in Nat : m # <<"consolidated", d>>
      BY <1>1, <2>1
    <3> QED
      BY <1>4, <3>1, <3>2 DEF NoteFine
  <2>2. CASE m # n
    <3>1. m \in DOMAIN notes /\ notes'[m] = notes[m]
      BY <1>0, <2>2
    <3> QED
      BY <1>6, <3>1 DEF NotesInv, NoteFine
  <2> QED
    BY <2>1, <2>2
<1>14. \A m : m # n => notes'[m].status = notes[m].status \/ m \notin DOMAIN notes
  BY <1>0
<1>15. KeptSomewhere'
  <2>1. ASSUME NEW f \in facts'.kept PROVE \E m : Tells(m, f)'
    <3>1. CASE f \in new
      BY <1>5, <1>7, <3>1
    <3>2. CASE f \in facts.kept /\ ~Tells(n, f)
      BY <1>7, <3>2 DEF NotesInv, KeptSomewhere
    <3> QED
      BY <1>9, <1>10, <2>1, <3>1, <3>2
  <2>2. ASSUME merging' # NoRow, NEW f \in facts'.kept
        PROVE  f \in merging'.said \/ \E m : Tells(m, f)' /\ notes'[m].status # "active"
    <3>1. f \in facts.kept /\ ~Tells(n, f)
      BY <1>5, <1>6, <1>9, <1>10, <2>2
    <3>2. CASE f \in merging.said
      BY <1>6, <3>2
    <3>3. CASE f \notin merging.said
      <4>1. PICK m : Tells(m, f) /\ notes[m].status # "active"
        BY <1>6, <2>2, <3>1, <3>3 DEF NotesInv, KeptSomewhere
      <4> QED
        BY <1>7, <1>14, <3>1, <4>1 DEF Tells
    <3> QED
      BY <3>2, <3>3
  <2> QED
    BY <2>1, <2>2 DEF KeptSomewhere
<1>16. GoneEverywhere'
  <2>1. ASSUME NEW f \in facts'.gone, NEW m PROVE ~Tells(m, f)'
    <3>1. CASE f \in lost
      BY <1>1, <1>7, <1>8, <1>11, <3>1
    <3>2. CASE f \in facts.gone
      <4>1. ~Tells(m, f) /\ f \notin said
        BY <1>1, <1>2, <3>2 DEF NotesInv, GoneEverywhere, FactsAreOld, NotesTypes
      <4> QED
        BY <1>7, <4>1
    <3> QED
      BY <1>10, <2>1, <3>1, <3>2
  <2>2. ASSUME merging' # NoRow, NEW f \in facts'.gone PROVE f \notin merging'.said
    BY <1>6, <1>8, <1>10, <2>2 DEF NotesInv, GoneEverywhere
  <2> QED
    BY <2>1, <2>2 DEF GoneEverywhere
<1>17. FactsAreOld'
  <2>1. \A f \in facts'.kept \cup facts'.gone : f < facts'.writes
    BY <1>1, <1>2, <1>5, <1>8, <1>10, <1>11 DEF NotesInv, FactsAreOld, NotesTypes
  <2>2. \A m, f : Tells(m, f)' => f < facts'.writes
    BY <1>1, <1>3, <1>7, <1>10, <1>11
  <2>3. merging' # NoRow => \A f \in merging'.said : f < facts'.writes
    BY <1>2, <1>6, <1>10 DEF NotesInv, FactsAreOld, NotesTypes
  <2> QED
    BY <2>1, <2>2, <2>3 DEF FactsAreOld
<1> QED
  BY <1>12, <1>13, <1>15, <1>16, <1>17 DEF NotesInv

\* What of a note its reader may change: not what it says.
LEMMA Retells ==
  ASSUME DOMAIN notes' = DOMAIN notes, \A m \in DOMAIN notes : notes'[m].said = notes[m].said
  PROVE  \A m, f : Tells(m, f)' <=> Tells(m, f)
BY DEF Tells

\* What no longer counts as kept is not asked for.
LEMMA NoteGot ==
  ASSUME NotesInv, NEW n \in DOMAIN notes, GetNote(n)
  PROVE  NotesInv'
<1>1. NotesTypes
  BY DEF NotesInv
<1>2. notes[n] \in NoteRow /\ day \in Nat
  BY <1>1 DEF NotesTypes
<1>3. PICK status : status = IF notes[n].status = "stale" THEN "active" ELSE notes[n].status
  OBVIOUS
<1>4. PICK sweeps : sweeps = IF notes[n].status = "archived" THEN notes[n].sweeps ELSE 0
  OBVIOUS
<1>5. PICK note : note = [notes[n] EXCEPT !.accessed = day, !.status = status, !.sweeps = sweeps]
  OBVIOUS
<1>6. notes' = [notes EXCEPT ![n] = note]
  BY <1>1, <1>2, <1>3, <1>4, <1>5 DEF GetNote, NotesTypes, NoteRow
<1>7. kv' = kv /\ merging' = merging /\ day' = day
  BY DEF GetNote
<1>8. note \in NoteRow /\ note.said = notes[n].said /\ note.status = status
      /\ note.accessed = day /\ note.sweeps = sweeps
  <2>1. /\ notes[n].status \in {"active", "stale", "archived"} /\ notes[n].sweeps \in 0..2
        /\ DOMAIN notes[n] = {"said", "status", "accessed", "sweeps"}
        /\ notes[n].said \in SUBSET Nat
    BY <1>2 DEF NoteRow
  <2>2. status \in {"active", "stale", "archived"} /\ sweeps \in 0..2
    BY <1>3, <1>4, <2>1
  <2>3. /\ note.said = notes[n].said /\ note.status = status
        /\ note.accessed = day /\ note.sweeps = sweeps
    BY <1>5, <2>1
  <2>4. note \in NoteRow
    BY <1>2, <1>5, <2>2 DEF NoteRow
  <2> QED
    BY <2>3, <2>4
<1>9. /\ DOMAIN notes' = DOMAIN notes /\ notes'[n] = note
      /\ notes' = [m \in DOMAIN notes' |-> notes'[m]]
      /\ \A m \in DOMAIN notes : m # n => notes'[m] = notes[m]
  BY <1>6
<1>10. \A m, f : Tells(m, f)' <=> Tells(m, f)
  BY <1>8, <1>9, Retells
<1>11. /\ facts'.kept = IF merging # NoRow /\ notes[n].status = "stale"
                       THEN facts.kept \ (notes[n].said \ merging.said) ELSE facts.kept
       /\ facts'.gone = facts.gone /\ facts'.writes = facts.writes
       /\ facts' \in [kept : SUBSET Nat, gone : SUBSET Nat, writes : Nat]
  <2>1. PICK kept : kept = facts.kept \ (notes[n].said \ merging.said)
    OBVIOUS
  <2>2. facts' = IF merging # NoRow /\ notes[n].status = "stale" THEN [facts EXCEPT !.kept = kept] ELSE facts
    BY <1>1, <2>1 DEF GetNote, NotesTypes
  <2>3. facts \in [kept : SUBSET Nat, gone : SUBSET Nat, writes : Nat] /\ kept \subseteq facts.kept
    BY <1>1, <2>1 DEF NotesTypes
  <2> QED
    BY <2>1, <2>2, <2>3
<1>12. NotesTypes'
  BY <1>1, <1>7, <1>8, <1>9, <1>11 DEF NotesTypes
<1>13. ASSUME NEW m \in DOMAIN notes' PROVE NoteFine(m, notes[m])'
  <2>1. NoteFine(m, notes[m])
    BY <1>9 DEF NotesInv
  <2>2. CASE m # n
    BY <1>7, <1>9, <2>1, <2>2 DEF NoteFine
  <2>3. CASE m = n
    <3>1. notes'[m] = note
      BY <1>9, <2>3
    <3>2. (note.status = "archived" => note.sweeps = 2) /\ note.status # "stale"
      BY <1>2, <1>3, <1>4, <1>8, <2>1, <2>3 DEF NoteFine
    <3>3. note.status # "active" => notes[n].status # "active"
      BY <1>3, <1>8
    <3> QED
      BY <1>2, <1>7, <1>8, <2>1, <2>3, <3>1, <3>2, <3>3 DEF NoteFine
  <2> QED
    BY <2>2, <2>3
<1>14. KeptSomewhere'
  <2>1. ASSUME NEW f \in facts'.kept PROVE \E m : Tells(m, f)'
    BY <1>10, <1>11, <2>1 DEF NotesInv, KeptSomewhere
  <2>2. ASSUME merging' # NoRow, NEW f \in facts'.kept
        PROVE  f \in merging'.said \/ \E m : Tells(m, f)' /\ notes'[m].status # "active"
    <3>1. f \in facts.kept
      BY <1>11, <2>2
    <3>2. CASE f \in merging.said
      BY <1>7, <3>2
    <3>3. CASE f \notin merging.said
      <4>1. PICK m : Tells(m, f) /\ notes[m].status # "active"
        BY <1>7, <2>2, <3>1, <3>3 DEF NotesInv, KeptSomewhere
      <4>2. CASE m # n
        BY <1>9, <1>10, <4>1, <4>2 DEF Tells
      <4>3. CASE m = n
        <5>1. notes[n].status = "archived"
          BY <1>2, <1>7, <1>11, <2>2, <3>3, <4>1, <4>3 DEF Tells, NoteRow
        <5> QED
          BY <1>3, <1>8, <1>9, <1>10, <4>1, <4>3, <5>1
      <4> QED
        BY <4>2, <4>3
    <3> QED
      BY <3>2, <3>3
  <2> QED
    BY <2>1, <2>2 DEF KeptSomewhere
<1>15. GoneEverywhere'
  BY <1>7, <1>10, <1>11 DEF NotesInv, GoneEverywhere
<1>16. FactsAreOld'
  BY <1>7, <1>10, <1>11 DEF NotesInv, FactsAreOld
<1> QED
  BY <1>12, <1>13, <1>14, <1>15, <1>16 DEF NotesInv

LEMMA NoteDeleted ==
  ASSUME NotesInv, NEW n \in DOMAIN notes, DeleteNote(n)
  PROVE  NotesInv'
<1>1. NotesTypes
  BY DEF NotesInv
<1>2. PICK lost : lost = Removed(n)
  OBVIOUS
<1>3. /\ notes' = Without(notes, {n}) /\ kv' = kv /\ merging' = merging /\ day' = day
      /\ facts' = [facts EXCEPT !.kept = @ \ notes[n].said, !.gone = @ \cup lost]
  BY <1>2 DEF DeleteNote
<1>4. /\ DOMAIN notes' = DOMAIN notes \ {n} /\ notes' = [m \in DOMAIN notes' |-> notes'[m]]
      /\ \A m \in DOMAIN notes' : notes'[m] = notes[m]
  BY <1>3 DEF Without
<1>5. \A m, f : Tells(m, f)' <=> m # n /\ Tells(m, f)
  BY <1>4 DEF Tells
<1>6. \A f : f \in lost <=> merging = NoRow /\ Tells(n, f) /\ \A m : m # n => ~Tells(m, f)
  BY <1>2, RemovedIs
<1>7. /\ facts \in [kept : SUBSET Nat, gone : SUBSET Nat, writes : Nat]
      /\ \A m, f : Tells(m, f) => f \in Nat /\ f < facts.writes
  BY <1>1 DEF NotesTypes, NotesInv, FactsAreOld, Tells, NoteRow
<1>8. /\ facts'.kept = facts.kept \ notes[n].said /\ facts'.gone = facts.gone \cup lost
      /\ facts'.writes = facts.writes
      /\ facts' \in [kept : SUBSET Nat, gone : SUBSET Nat, writes : Nat]
  <2>1. PICK kept, gone : kept = facts.kept \ notes[n].said /\ gone = facts.gone \cup lost
    OBVIOUS
  <2>2. facts' = [facts EXCEPT !.kept = kept, !.gone = gone]
    BY <1>3, <1>7, <2>1
  <2>3. kept \in SUBSET Nat /\ gone \in SUBSET Nat
    BY <1>6, <1>7, <2>1
  <2> QED
    BY <1>7, <2>1, <2>2, <2>3
<1>9. NotesTypes'
  BY <1>1, <1>3, <1>4, <1>8 DEF NotesTypes
<1>10. ASSUME NEW m \in DOMAIN notes' PROVE NoteFine(m, notes[m])'
  BY <1>3, <1>4 DEF NotesInv, NoteFine
<1>11. KeptSomewhere'
  <2>1. \A f \in facts'.kept : f \in facts.kept /\ ~Tells(n, f)
    BY <1>8 DEF Tells
  <2>3. ASSUME NEW f \in facts'.kept PROVE \E m : Tells(m, f)'
    BY <1>5, <2>1, <2>3 DEF NotesInv, KeptSomewhere
  <2>4. ASSUME merging' # NoRow, NEW f \in facts'.kept
        PROVE  f \in merging'.said \/ \E m : Tells(m, f)' /\ notes'[m].status # "active"
    <3>1. CASE f \in merging.said
      BY <1>3, <3>1
    <3>2. CASE f \notin merging.said
      <4>1. PICK m : Tells(m, f) /\ notes[m].status # "active"
        BY <1>3, <2>1, <2>4, <3>2 DEF NotesInv, KeptSomewhere
      <4> QED
        BY <1>4, <1>5, <2>1, <2>4, <4>1 DEF Tells
    <3> QED
      BY <3>1, <3>2
  <2> QED
    BY <2>3, <2>4 DEF KeptSomewhere
<1>12. GoneEverywhere'
  <2>1. ASSUME NEW f \in facts'.gone, NEW m PROVE ~Tells(m, f)'
    BY <1>5, <1>6, <1>8, <2>1 DEF NotesInv, GoneEverywhere
  <2>2. ASSUME merging' # NoRow, NEW f \in facts'.gone PROVE f \notin merging'.said
    BY <1>3, <1>6, <1>8, <2>2 DEF NotesInv, GoneEverywhere
  <2> QED
    BY <2>1, <2>2 DEF GoneEverywhere
<1>13. FactsAreOld'
  <2>1. \A f \in facts'.kept \cup facts'.gone : f < facts'.writes
    BY <1>6, <1>7, <1>8 DEF NotesInv, FactsAreOld
  <2>2. \A m, f : Tells(m, f)' => f < facts'.writes
    BY <1>5, <1>7, <1>8
  <2>3. merging' # NoRow => \A f \in merging'.said : f < facts'.writes
    BY <1>3, <1>8 DEF NotesInv, FactsAreOld
  <2> QED
    BY <2>1, <2>2, <2>3 DEF FactsAreOld
<1> QED
  BY <1>9, <1>10, <1>11, <1>12, <1>13 DEF NotesInv

\* A sweep makes nothing active again.
LEMMA NotesSwept ==
  ASSUME NotesInv, Sweep
  PROVE  NotesInv'
<1>1. NotesTypes
  BY DEF NotesInv
<1>2. kv' = kv /\ merging' = merging /\ day' = day /\ facts' = facts
  BY DEF Sweep
<1>3. PICK stale, archive : stale = day - StaleDays /\ archive = day - ArchiveDays
  OBVIOUS
<1>4. stale \in Int /\ archive \in Int /\ day \in Nat /\ stale <= day /\ archive <= day
  <2>1. StaleDays \in Nat /\ ArchiveDays \in Nat
    BY StoresConstants
  <2>2. day \in Nat
    BY <1>1 DEF NotesTypes
  <2> QED
    BY <1>3, <2>1, <2>2
<1>5. DOMAIN notes' = DOMAIN notes /\ notes' = [m \in DOMAIN notes' |-> notes'[m]]
  BY DEF Sweep
<1>6. ASSUME NEW m \in DOMAIN notes
      PROVE  /\ notes'[m] \in NoteRow /\ notes'[m].said = notes[m].said
             /\ notes[m].status # "active" => notes'[m].status # "active"
             /\ NoteFine(m, notes[m])'
  <2>1. notes[m] \in NoteRow /\ NoteFine(m, notes[m])
    BY <1>1 DEF NotesTypes, NotesInv
  <2>2. PICK status : status = Swept(notes[m], stale, archive)
    OBVIOUS
  <2>3. PICK sweeps : sweeps = IF notes[m].sweeps < 2 THEN notes[m].sweeps + 1 ELSE notes[m].sweeps
    OBVIOUS
  <2>4. notes'[m] = [notes[m] EXCEPT !.status = status, !.sweeps = sweeps]
    BY <1>3, <2>1, <2>2, <2>3 DEF Sweep, NoteRow
  <2>5. /\ notes[m].status \in {"active", "stale", "archived"} /\ notes[m].accessed \in Nat
        /\ notes[m].sweeps \in 0..2
    BY <2>1 DEF NoteRow
  <2>6. /\ status \in {"active", "stale", "archived"}
        /\ status = "active" => notes[m].status = "active"
        /\ status = "archived" => notes[m].status \in {"stale", "archived"}
        /\ status # notes[m].status => notes[m].accessed < day
    BY <1>4, <2>2, <2>5 DEF Swept
  <2>7. sweeps \in 0..2 /\ sweeps > 0 /\ (notes[m].sweeps > 0 => sweeps = 2)
    BY <2>3, <2>5
  <2>8. /\ notes'[m] \in NoteRow /\ notes'[m].said = notes[m].said /\ notes'[m].status = status
        /\ notes'[m].accessed = notes[m].accessed /\ notes'[m].sweeps = sweeps
    BY <2>1, <2>4, <2>6, <2>7 DEF NoteRow
  <2>9. NoteFine(m, notes[m])'
    <3>1. notes'[m].status = "archived" => notes'[m].sweeps = 2
      BY <2>1, <2>5, <2>6, <2>7, <2>8 DEF NoteFine
    <3>2. notes'[m].status = "stale" => notes'[m].sweeps > 0
      BY <2>7, <2>8
    <3>3. ASSUME NEW d \in Nat, m = <<"consolidated", d>>
          PROVE  d <= notes'[m].accessed /\ d <= day' /\ (notes'[m].status # "active" => d < day')
      <4>1. d <= notes[m].accessed /\ d <= day /\ (notes[m].status # "active" => d < day)
        BY <2>1, <3>3 DEF NoteFine
      <4> QED
        BY <1>2, <1>4, <2>5, <2>6, <2>8, <4>1
    <3> QED
      BY <3>1, <3>2, <3>3 DEF NoteFine
  <2> QED
    BY <2>6, <2>8, <2>9
<1>7. \A m, f : Tells(m, f)' <=> Tells(m, f)
  BY <1>5, <1>6, Retells
<1>8. NotesTypes'
  BY <1>1, <1>2, <1>5, <1>6 DEF NotesTypes
<1>9. \A m \in DOMAIN notes' : NoteFine(m, notes[m])'
  BY <1>5, <1>6
<1>10. KeptSomewhere'
  BY <1>2, <1>6, <1>7 DEF NotesInv, KeptSomewhere, Tells
<1>11. GoneEverywhere' /\ FactsAreOld'
  BY <1>2, <1>7 DEF NotesInv, GoneEverywhere, FactsAreOld
<1> QED
  BY <1>8, <1>9, <1>10, <1>11 DEF NotesInv

\* What is active is listed, and nothing else is: the rest stays.
LEMMA NotesListed ==
  ASSUME NotesInv, ConsolidateLists
  PROVE  NotesInv'
<1>1. NotesTypes
  BY DEF NotesInv
<1>2. PICK said : said = UNION {notes[n].said : n \in ActiveNotes}
  OBVIOUS
<1>3. /\ kv' = kv /\ notes' = notes /\ day' = day /\ merging = NoRow
      /\ merging' = [said |-> said] /\ facts' = [facts EXCEPT !.writes = @ + 1]
  BY <1>2 DEF ConsolidateLists
<1>4. \A f : f \in said <=> \E n : Tells(n, f) /\ notes[n].status = "active"
  BY <1>2 DEF ActiveNotes, Tells
<1>5. \A n, f : Tells(n, f) => f \in Nat /\ f < facts.writes
  BY <1>1 DEF NotesInv, FactsAreOld, NotesTypes, Tells, NoteRow
<1>6. said \in SUBSET Nat
  BY <1>4, <1>5
<1>7. merging' \in [said : SUBSET Nat] /\ merging'.said = said /\ merging' # NoRow
  <2>1. merging' \in [said : SUBSET Nat] /\ merging'.said = said
    BY <1>3, <1>6
  <2>2. NoRow \notin [said : SUBSET Nat]
    BY StoresConstants
  <2> QED
    BY <2>1, <2>2
<1>8. facts \in [kept : SUBSET Nat, gone : SUBSET Nat, writes : Nat]
  BY <1>1 DEF NotesTypes
<1>9. /\ facts' \in [kept : SUBSET Nat, gone : SUBSET Nat, writes : Nat]
      /\ facts'.kept = facts.kept /\ facts'.gone = facts.gone /\ facts'.writes = facts.writes + 1
  <2>1. PICK n \in Nat : n = facts.writes + 1
    BY <1>8
  <2>2. facts' = [facts EXCEPT !.writes = n]
    BY <1>3, <2>1
  <2> QED
    BY <1>8, <2>1, <2>2
<1>10. NotesTypes'
  BY <1>1, <1>3, <1>7, <1>9 DEF NotesTypes
<1>11. \A m, f : Tells(m, f)' <=> Tells(m, f)
  BY <1>3 DEF Tells
<1>12. \A m \in DOMAIN notes' : NoteFine(m, notes[m])'
  BY <1>3 DEF NotesInv, NoteFine
<1>13. KeptSomewhere'
  BY <1>3, <1>4, <1>7, <1>9, <1>11 DEF NotesInv, KeptSomewhere
<1>14. GoneEverywhere'
  BY <1>4, <1>7, <1>9, <1>11 DEF NotesInv, GoneEverywhere
<1>15. FactsAreOld'
  <2>1. \A f \in facts.kept \cup facts.gone : f \in Nat /\ f < facts.writes
    BY <1>8 DEF NotesInv, FactsAreOld
  <2> QED
    BY <1>4, <1>5, <1>7, <1>8, <1>9, <1>11, <2>1 DEF FactsAreOld
<1> QED
  BY <1>10, <1>12, <1>13, <1>14, <1>15 DEF NotesInv

\* A note consolidated on the same day is active, and so deleted first.
LEMMA NotesMerged ==
  ASSUME NotesInv, ConsolidateWrites
  PROVE  NotesInv'
<1>1. NotesTypes
  BY DEF NotesInv
<1>2. PICK n, said, note : n = <<"consolidated", day>> /\ said = merging.said /\ note = NewNote(said)
  OBVIOUS
<1>3. merging # NoRow /\ merging' = NoRow /\ kv' = kv /\ day' = day /\ facts' = facts
  BY DEF ConsolidateWrites
<1>4. said \in SUBSET Nat /\ day \in Nat
  BY <1>1, <1>2, <1>3 DEF NotesTypes
<1>5. note \in NoteRow /\ note.said = said /\ note.status = "active" /\ note.accessed = day
  BY <1>2, <1>4, NewNoteIs
<1>6. /\ DOMAIN notes' = (DOMAIN notes \ ActiveNotes) \cup {n} /\ notes'[n] = note
      /\ notes' = [m \in DOMAIN notes' |-> notes'[m]]
      /\ \A m \in DOMAIN notes \ ActiveNotes : m # n => notes'[m] = notes[m]
  <2>1. PICK W : W = Without(notes, ActiveNotes)
    OBVIOUS
  <2>2. DOMAIN W = DOMAIN notes \ ActiveNotes /\ \A m \in DOMAIN W : W[m] = notes[m]
    BY <2>1 DEF Without
  <2>3. notes' = With(W, n, note)
    BY <1>2, <2>1 DEF ConsolidateWrites
  <2> QED
    BY <2>2, <2>3 DEF With
<1>7. n \notin DOMAIN notes \ ActiveNotes
  <2>1. SUFFICES ASSUME n \in DOMAIN notes, notes[n].status # "active" PROVE FALSE
    BY DEF ActiveNotes
  <2>2. NoteFine(n, notes[n])
    BY <2>1 DEF NotesInv
  <2>3. day < day
    BY <1>2, <1>4, <2>1, <2>2 DEF NoteFine
  <2> QED
    BY <1>4, <2>3
<1>8. \A m, f : Tells(m, f)' <=> \/ m = n /\ f \in said
                                 \/ m # n /\ Tells(m, f) /\ notes[m].status # "active"
  BY <1>5, <1>6, <1>7 DEF Tells, ActiveNotes
<1>9. NotesTypes'
  <2>1. \A m \in DOMAIN notes' : notes'[m] \in NoteRow
    BY <1>1, <1>5, <1>6 DEF NotesTypes
  <2> QED
    BY <1>1, <1>3, <1>6, <2>1 DEF NotesTypes
<1>10. ASSUME NEW m \in DOMAIN notes' PROVE NoteFine(m, notes[m])'
  <2>1. CASE m = n
    <3>1. notes'[m] = note
      BY <1>6, <2>1
    <3>2. \A d \in Nat : m = <<"consolidated", d>> => d = day
      BY <1>2, <2>1
    <3> QED
      BY <1>3, <1>4, <1>5, <3>1, <3>2 DEF NoteFine
  <2>2. CASE m # n
    <3>1. m \in DOMAIN notes /\ notes'[m] = notes[m]
      BY <1>6, <1>10, <2>2
    <3> QED
      BY <1>3, <3>1 DEF NotesInv, NoteFine
  <2> QED
    BY <2>1, <2>2
<1>11. KeptSomewhere'
  <2>1. ASSUME NEW f \in facts'.kept PROVE \E m : Tells(m, f)'
    <3>1. f \in said \/ \E m : Tells(m, f) /\ notes[m].status # "active"
      BY <1>2, <1>3, <2>1 DEF NotesInv, KeptSomewhere
    <3>2. \A m : Tells(m, f) /\ notes[m].status # "active" => m # n
      BY <1>7 DEF Tells, ActiveNotes
    <3> QED
      BY <1>8, <3>1, <3>2
  <2> QED
    BY <1>3, <2>1 DEF KeptSomewhere
<1>12. GoneEverywhere'
  BY <1>2, <1>3, <1>8 DEF NotesInv, GoneEverywhere
<1>13. FactsAreOld'
  BY <1>2, <1>3, <1>8 DEF NotesInv, FactsAreOld
<1> QED
  BY <1>9, <1>10, <1>11, <1>12, <1>13 DEF NotesInv

LEMMA NotesStep == NotesInv /\ [NotesNext]_noteVars => NotesInv'
<1> SUFFICES ASSUME NotesInv, [NotesNext]_noteVars PROVE NotesInv'
  OBVIOUS
<1>1. CASE UNCHANGED noteVars
  <2>1. facts.writes >= facts.writes /\ day <= day
    BY DEF NotesInv, NotesTypes
  <2> QED
    BY <1>1, <2>1, NotesStay DEF noteVars, NotesInv, NotesTypes
<1>2. CASE \E ops \in Batches : Batch(ops)
  BY <1>2, KeysPut
<1>3. CASE \E k \in Keys : GetKey(k)
  BY <1>3, KeyGot
<1>4. CASE \E n \in Notes : SetNote(<<n, -1>>)
  BY <1>4, NoteSet
<1>5. CASE \E n \in DOMAIN notes : GetNote(n) \/ DeleteNote(n)
  BY <1>5, NoteGot, NoteDeleted
<1>6. CASE Sweep \/ ConsolidateLists \/ ConsolidateWrites \/ DayPasses
  BY <1>6, NotesSwept, NotesListed, NotesMerged, TimePasses
<1> QED
  BY <1>1, <1>2, <1>3, <1>4, <1>5, <1>6 DEF NotesNext

LEMMA NotesHold == NotesInv => ListAgrees /\ NothingForgotten /\ AgesByStep
<1> SUFFICES ASSUME NotesInv PROVE ListAgrees /\ NothingForgotten /\ AgesByStep
  OBVIOUS
<1>1. ListAgrees
  <2>1. ASSUME NEW k \in Keys, kv[k] # NoRow
        PROVE  (kv[k].expires = 0 \/ kv[k].expires > day) <=> ~Expired(kv[k])
    <3>1. kv[k] \in [expires : Nat] /\ day \in Nat
      BY <2>1 DEF NotesInv, NotesTypes, KeyRow
    <3> QED
      BY <3>1 DEF Expired
  <2> QED
    BY <2>1 DEF ListAgrees, Listed
<1>2. NothingForgotten
  <2>1. \A f : f \in Said(notes) <=> \E n : Tells(n, f)
    BY SaidIs DEF Tells
  <2> QED
    BY <2>1 DEF NotesInv, KeptSomewhere, GoneEverywhere, NothingForgotten
<1>3. AgesByStep
  BY DEF NotesInv, NoteFine, AgesByStep
<1> QED
  BY <1>1, <1>2, <1>3

\* Whatever is set, read, deleted, swept and consolidated, list shows what get
\* returns; what was noted is found until it is overwritten or deleted, and
\* then no more; and no note is archived before its second idle sweep.
THEOREM NotesCorrect == NotesSpec => [](ListAgrees /\ NothingForgotten /\ AgesByStep)
<1>1. NotesSpec => []NotesInv
  BY NotesStart, NotesStep, PTL DEF NotesSpec
<1> QED
  BY <1>1, NotesHold, PTL
-----------------------------------------------------------------------------
Experience == [task : Tasks \cup {""}, score : 0..1, created : Nat, accessed : Nat, uses : Nat]
TableTypes == experiences \in [Traces -> Experience] /\ today \in Nat
TableInv == TableTypes /\ PruningSound /\ FindingSound

LEMMA TraceHas ==
  ASSUME TableTypes, NEW t \in Traces
  PROVE  /\ experiences[t] \in Experience /\ experiences[t].score \in Int
         /\ experiences[t].created \in Nat /\ experiences[t].accessed \in Nat
         /\ experiences[t].uses \in Nat
<1>1. experiences[t] \in Experience
  BY DEF TableTypes
<1>2. PICK e, T : e = experiences[t] /\ T = Tasks \cup {""}
  OBVIOUS
<1>3. e \in [task : T, score : 0..1, created : Nat, accessed : Nat, uses : Nat]
  BY <1>1, <1>2 DEF Experience
<1>4. e.score \in 0..1
  BY <1>3
<1>5. e.created \in Nat /\ e.accessed \in Nat /\ e.uses \in Nat
  BY <1>3
<1>6. \A n \in 0..1 : n \in Int
  OBVIOUS
<1> QED
  BY <1>1, <1>2, <1>4, <1>5, <1>6

LEMMA TableStart == TableInit => TableInv
<1> SUFFICES ASSUME TableInit PROVE TableInv
  OBVIOUS
<1>1. experiences = [t \in Traces |-> NoExperience] /\ today = 1 /\ lastQuery.op = "none"
  BY DEF TableInit, NoQuery
<1>2. NoExperience \in Experience
  BY DEF NoExperience, Experience
<1>3. TableTypes
  BY <1>1, <1>2 DEF TableTypes
<1> QED
  BY <1>1, <1>3 DEF TableInv, PruningSound, FindingSound

\* A step that is no query leaves nothing to say of one.
LEMMA QueryForgotten ==
  ASSUME DidNoQuery
  PROVE  PruningSound' /\ FindingSound'
BY DEF DidNoQuery, NoQuery, PruningSound, FindingSound

LEMMA TraceSaved ==
  ASSUME TableInv, NEW t \in Traces, NEW task \in Tasks, NEW score \in 0..1, NEW accessed \in {1, today},
         SaveExperience(t, task, score, accessed)
  PROVE  TableInv'
<1>1. TableTypes
  BY DEF TableInv
<1>2. PICK created : created = IF t \in KnownTraces THEN experiences[t].created ELSE today
  OBVIOUS
<1>3. PICK row : row = [task |-> task, score |-> score, accessed |-> accessed, uses |-> 0, created |-> created]
  OBVIOUS
<1>4. experiences' = [experiences EXCEPT ![t] = row] /\ today' = today
  BY <1>1, <1>2, <1>3 DEF SaveExperience, TableTypes
<1>5. created \in Nat /\ accessed \in Nat
  <2>1. experiences[t].created \in Nat /\ today \in Nat
    BY <1>1, TraceHas DEF TableTypes
  <2> QED
    BY <1>2, <2>1
<1>6. row \in Experience
  BY <1>3, <1>5 DEF Experience
<1>7. TableTypes'
  BY <1>1, <1>4, <1>6 DEF TableTypes
<1> QED
  BY <1>7, QueryForgotten DEF SaveExperience, TableInv

LEMMA AccessTyped ==
  ASSUME TableTypes, NEW ids, Accessed(ids), today' = today
  PROVE  TableTypes'
<1>1. ASSUME NEW t \in Traces PROVE experiences'[t] \in Experience
  <2>1. experiences[t] \in Experience /\ today \in Nat
    BY DEF TableTypes
  <2>2. PICK uses : uses = experiences[t].uses + 1
    OBVIOUS
  <2>3. uses \in Nat
    BY <2>2, TraceHas
  <2>4. experiences'[t] = IF t \notin ids THEN experiences[t]
                         ELSE [experiences[t] EXCEPT !.accessed = today, !.uses = uses]
    BY <2>1, <2>2 DEF Accessed, Experience
  <2> QED
    BY <2>1, <2>3, <2>4 DEF Experience
<1>2. experiences' = [t \in Traces |-> experiences'[t]]
  BY DEF Accessed
<1> QED
  BY <1>1, <1>2 DEF TableTypes

\* What a lookup finds, without the order it was found by.
FoundFor(task, similar, found) ==
  /\ found \subseteq similar /\ \A t \in found, u \in similar \ found : ~Closer(task, u, t)
  /\ Accessed(found) /\ Did("found", task, found)
SimilarTo(task, minScore) ==
  {t \in KnownTraces : experiences[t].task = task \/ experiences[t].score >= minScore}
LEMMA FoundIs ==
  ASSUME NEW task, NEW minScore, FindSimilar(task, minScore)
  PROVE  today' = today /\ \E found : FoundFor(task, SimilarTo(task, minScore), found)
BY DEF FindSimilar, FirstOf, SimilarTo, FoundFor
LEMMA TraceFound ==
  ASSUME TableInv, NEW task \in Tasks, NEW minScore \in 0..1, FindSimilar(task, minScore)
  PROVE  TableInv'
<1>1. TableTypes
  BY DEF TableInv
<1>0. today' = today /\ \E found : FoundFor(task, SimilarTo(task, minScore), found)
  BY FoundIs
<1>2. PICK similar, found :
        /\ similar = {t \in KnownTraces : experiences[t].task = task \/ experiences[t].score >= minScore}
        /\ found \subseteq similar /\ \A t \in found, u \in similar \ found : ~Closer(task, u, t)
        /\ Accessed(found) /\ Did("found", task, found) /\ today' = today
  BY <1>0 DEF FoundFor, SimilarTo
<1>3. TableTypes'
  BY <1>1, <1>2, AccessTyped
<1>4. lastQuery'.op = "found" /\ lastQuery'.task = task /\ lastQuery'.before = experiences
      /\ lastQuery'.rows = found
  BY <1>2 DEF Did
<1>5. ASSUME NEW t \in Traces \ found, experiences[t].task = task, NEW u \in found
      PROVE  experiences[u].task = experiences[t].task /\ experiences[u].score >= experiences[t].score
  <2>1. task # ""
    BY StoresConstants
  <2>2. t \in similar
    <3>1. NoExperience.task = ""
      BY DEF NoExperience
    <3> QED
      BY <1>2, <1>5, <2>1, <3>1 DEF KnownTraces
  <2>3. ~Closer(task, t, u)
    BY <1>2, <2>2
  <2>4. t \in Traces /\ u \in Traces
    BY <1>2 DEF KnownTraces
  <2>5. experiences[t].score \in Int /\ experiences[u].score \in Int
    BY <1>1, <2>4, TraceHas
  <2>6. experiences[u].task = task
    BY <1>5, <2>3 DEF Closer
  <2>7. ~(experiences[t].score > experiences[u].score)
    BY <1>5, <2>3, <2>6 DEF Closer
  <2> QED
    BY <1>5, <2>5, <2>6, <2>7
<1>6. FindingSound'
  BY <1>4, <1>5 DEF FindingSound
<1>7. PruningSound'
  BY <1>4 DEF PruningSound
<1> QED
  BY <1>3, <1>6, <1>7 DEF TableInv

\* What is pruned beyond age is what a full table has too many.
LEMMA TracesPruned ==
  ASSUME TableInv, Prune
  PROVE  TableInv'
<1>1. TableTypes
  BY DEF TableInv
<1>2. PICK gone \in Prunable :
        /\ experiences' = [t \in Traces |-> IF t \in gone THEN NoExperience ELSE experiences[t]]
        /\ Did("pruned", "", gone)
  BY DEF Prune
<1>3. today' = today
  BY DEF Prune
<1>4. PICK young, excess, m : /\ young = KnownTraces \ TooOld /\ excess = Cardinality(young) - MaxEntries
                              /\ m = IF excess > 0 THEN excess ELSE 0
  OBVIOUS
<1>5. PICK rest \in FirstOf(young, LessUseful, m) : gone = TooOld \cup rest
  BY <1>2, <1>4 DEF Prunable
<1>6. /\ rest \subseteq young /\ Cardinality(rest) = (IF Cardinality(young) < m THEN Cardinality(young) ELSE m)
      /\ \A t \in rest, u \in young \ rest : ~LessUseful(u, t)
  BY <1>5 DEF FirstOf
<1>7. TableTypes'
  <2>1. NoExperience \in Experience
    BY DEF NoExperience, Experience
  <2> QED
    BY <1>1, <1>2, <1>3, <2>1 DEF TableTypes
<1>8. /\ lastQuery'.op = "pruned" /\ lastQuery'.before = experiences /\ lastQuery'.rows = gone
  BY <1>2 DEF Did
<1>9. KnownTraces' = young \ rest
  BY <1>2, <1>4, <1>5 DEF KnownTraces
<1>10. \A t \in young \ rest : t \in Traces /\ experiences'[t] = experiences[t]
  BY <1>2, <1>4, <1>5 DEF KnownTraces, TooOld
<1>11. \A t \in Traces : /\ experiences[t].accessed \in Int /\ experiences[t].score \in Int
  BY <1>1, TraceHas
<1>12. today \in Int /\ MaxAge \in Int /\ MaxEntries \in Nat /\ IsFiniteSet(Traces)
  <2>1. MaxAge \in Int /\ MaxEntries \in Nat /\ IsFiniteSet(Traces)
    BY StoresConstants
  <2>2. today \in Int
    BY <1>1 DEF TableTypes
  <2> QED
    BY <2>1, <2>2
<1>13. TooOld' = {}
  <2>1. \A t \in young \ rest : ~(experiences[t].accessed < today - MaxAge)
    BY <1>4 DEF TooOld
  <2> QED
    BY <1>3, <1>9, <1>10, <2>1 DEF TooOld
<1>14. /\ Cardinality(KnownTraces') <= MaxEntries
       /\ rest # {} => Cardinality(KnownTraces') = MaxEntries
  <2>1. young \subseteq Traces
    BY <1>4 DEF KnownTraces
  <2>2. IsFiniteSet(young) /\ Cardinality(young) \in Nat
    BY <1>12, <2>1, FS_Subset, FS_CardinalityType
  <2>3. IsFiniteSet(rest) /\ Cardinality(rest) \in Nat
    BY <1>6, <2>2, FS_Subset, FS_CardinalityType
  <2>4. Cardinality(young \ rest) = Cardinality(young) - Cardinality(young \cap rest)
    BY <2>2, <2>3, FS_Difference
  <2>5. young \cap rest = rest
    BY <1>6
  <2>6. rest # {} => Cardinality(rest) # 0
    BY <2>3, FS_EmptySet
  <2>7. PICK a, b, c : a = Cardinality(young) /\ b = Cardinality(rest) /\ c = Cardinality(KnownTraces')
    OBVIOUS
  <2>8. a \in Nat /\ b \in Nat /\ c = a - b /\ b = (IF a < m THEN a ELSE m)
        /\ m = (IF a - MaxEntries > 0 THEN a - MaxEntries ELSE 0)
    BY <1>4, <1>6, <1>9, <2>2, <2>3, <2>4, <2>5, <2>7
  <2>9. c <= MaxEntries /\ (b # 0 => c = MaxEntries)
    BY <1>12, <2>8
  <2> QED
    BY <2>6, <2>7, <2>9
<1>15. \A t \in gone : experiences[t].accessed >= today - MaxAge => t \in rest
  BY <1>5, <1>11, <1>12 DEF TooOld, KnownTraces
<1>16. \A t \in rest, u \in young \ rest : experiences[t].score <= experiences'[u].score
  <2>1. ASSUME NEW t \in rest, NEW u \in young \ rest PROVE experiences[t].score <= experiences'[u].score
    <3>1. t \in Traces /\ u \in Traces /\ experiences'[u] = experiences[u]
      BY <1>4, <1>6, <1>10 DEF KnownTraces
    <3>2. ~(experiences[u].score < experiences[t].score)
      BY <1>6 DEF LessUseful
    <3> QED
      BY <1>11, <3>1, <3>2
  <2> QED
    BY <2>1
<1>17. PruningSound'
  <2>3. {t \in lastQuery'.rows : lastQuery'.before[t].accessed >= today' - MaxAge} \subseteq rest
    BY <1>3, <1>8, <1>15
  <2>4. \A t \in rest, u \in KnownTraces' : lastQuery'.before[t].score <= experiences'[u].score
    BY <1>8, <1>9, <1>16
  <2> QED
    BY <1>13, <1>14, <2>3, <2>4 DEF PruningSound
<1>18. FindingSound'
  BY <1>8 DEF FindingSound
<1> QED
  BY <1>7, <1>17, <1>18 DEF TableInv

LEMMA TableStep == TableInv /\ [TableNext]_tableVars => TableInv'
<1> SUFFICES ASSUME TableInv, [TableNext]_tableVars PROVE TableInv'
  OBVIOUS
<1>1. CASE UNCHANGED tableVars
  BY <1>1 DEF tableVars, TableInv, TableTypes, PruningSound, FindingSound, TooOld, KnownTraces
<1>2. CASE \E t \in Traces, task \in Tasks, score \in 0..1, accessed \in {1, today} :
             SaveExperience(t, task, score, accessed)
  BY <1>2, TraceSaved
<1>3. CASE \E t \in Traces : GetExperience(t)
  BY <1>3, AccessTyped, QueryForgotten DEF GetExperience, TableInv
<1>4. CASE \E task \in Tasks, minScore \in 0..1 : FindSimilar(task, minScore)
  BY <1>4, TraceFound
<1>5. CASE Prune
  BY <1>5, TracesPruned
<1>6. CASE TodayEnds
  <2>1. TableTypes'
    BY <1>6 DEF TodayEnds, TableInv, TableTypes
  <2> QED
    BY <1>6, <2>1, QueryForgotten DEF TodayEnds, TableInv
<1> QED
  BY <1>1, <1>2, <1>3, <1>4, <1>5, <1>6 DEF TableNext

\* Pruning keeps the table within its limits and gives up the least useful
\* rows only for the number's sake; a lookup passes over a row of the task
\* itself only for others of that task that did no worse.
THEOREM TableCorrect == TableSpec => [](PruningSound /\ FindingSound)
<1>1. TableSpec => []TableInv
  BY TableStart, TableStep, PTL DEF TableSpec
<1>2. TableInv => PruningSound /\ FindingSound
  BY DEF TableInv
<1> QED
  BY <1>1, <1>2, PTL

\* The three stores together, which share no state.
THEOREM StoresCorrect == TreeSpec /\ NotesSpec /\ TableSpec => []StoresHold
<1>1. (ReadBack /\ Branches) /\ (ListAgrees /\ NothingForgotten /\ AgesByStep)
        /\ (PruningSound /\ FindingSound) => StoresHold
  BY DEF StoresHold
<1> QED
  BY <1>1, TreeCorrect, NotesCorrect, TableCorrect, PTL
=============================================================================
