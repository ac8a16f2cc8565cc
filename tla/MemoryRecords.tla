--------------------------- MODULE MemoryRecords ---------------------------
(***************************************************************************)
(* Long-term memory: InMemoryMemoryStore with its provider, the promotion  *)
(* rules, conflicts, and the curator of patterns.  Every operation reads   *)
(* a record, awaits, and writes the whole record it has made of what it    *)
(* read: nothing keeps two of them apart.                                  *)
(***************************************************************************)
EXTENDS Integers, FiniteSets, Sequences, SequencesExt, FiniteSetsExt

CONSTANTS Memories,   \* ids, each created once
          Drafts,     \* what records are created from
          Earlier,    \* what a provider may hold that the store is given
          Users,      \* callers of the store
          NoMemory,
          StaleAfter, ArchiveAfter, \* thresholds of the curator
          MaxCalls    \* bound: calls made after the records were created

Unset == -1
Active == {"ACTIVE", "PROMOTED"}
Tiers == {"SHORT_TERM", "EPISODIC", "SEMANTIC", "PROCEDURAL"}
Statuses == Active \cup {"CANDIDATE", "STALE", "INVALIDATED", "ARCHIVED", "EXPIRED"}
\* A draft without a tier asks for SHORT_TERM; it may name a status.
DraftRow == [kind : STRING, source : STRING, importance : Nat, topic : STRING,
             content : STRING, tier : Tiers, status : Statuses \cup {"unnamed"}]
MemoryRow == [kind : STRING, source : STRING, importance : Nat, topic : STRING,
              content : STRING, tier : Tiers, access : Nat, success : Nat,
              recurrence : Nat, unused : Nat, uses : Nat \cup {Unset}, status : Statuses]
\* The counts of a record fit together, and what is promoted and has been used
\* with success or twice is in a tier that lasts.
CountsFit(r) ==
  /\ r.recurrence = r.access + 1 /\ r.success <= r.access
  /\ r.status = "PROMOTED" /\ (r.success >= 1 \/ r.access >= 2) =>
       r.tier \in {"SEMANTIC", "PROCEDURAL"}

\* A provider holds what a store has written before.
ASSUME MemoryConstants ==
  /\ IsFiniteSet(Memories)
  /\ NoMemory \notin Memories /\ NoMemory \notin MemoryRow
  /\ Drafts \subseteq DraftRow
  /\ Earlier \subseteq [Memories -> MemoryRow \cup {NoMemory}]
  /\ \A held \in Earlier, m \in Memories : held[m] # NoMemory => CountsFit(held[m])

VARIABLES memory,    \* the provider's records
          conflicts, \* pairs <<existing, new>>
          calls,     \* what each caller is in the midst of
          made,      \* calls made
          told       \* what happened, for the properties

memoryVars == <<memory, conflicts, calls, made, told>>
-----------------------------------------------------------------------------
\* MemoryLifecycle.  A draft has a kind, which stands for type and tags.

AnyStatus(r) == \* mutant of ShouldPromote: what is outdated is promoted as well
  r.kind \in {"decision", "pattern"} \/ r.success >= 1 \/ r.access >= 2
ShouldPromote(r) ==
  /\ r.status \notin {"STALE", "INVALIDATED", "ARCHIVED"}
  /\ \/ r.source = "user"
     \/ r.kind \in {"decision", "pattern"}
     \/ r.importance >= 70 /\ r.recurrence >= 2
     \/ r.success >= 1 \/ r.access >= 2
PromotedTier(r) == IF r.kind \in {"pattern", "skill"} THEN "PROCEDURAL" ELSE "SEMANTIC"

\* createRecord, before it looks for conflicts.
FirstStatus(draft) ==
  CASE draft.status # "unnamed" -> draft.status
    [] draft.status = "unnamed" /\ draft.tier = "SHORT_TERM" /\ draft.importance < 70
         /\ draft.source = "tool" -> "CANDIDATE"
    [] OTHER -> "ACTIVE"
Created(draft) ==
  LET asked == [kind |-> draft.kind, source |-> draft.source, importance |-> draft.importance,
                topic |-> draft.topic, content |-> draft.content,
                tier |-> draft.tier, access |-> 0, success |-> 0, recurrence |-> 1,
                unused |-> 0, uses |-> Unset, status |-> FirstStatus(draft)]
  IN  IF ShouldPromote(asked)
      THEN [asked EXCEPT !.status = "ACTIVE", !.tier = PromotedTier(asked)] ELSE asked

Used(r, success) ==
  LET counted == [r EXCEPT !.access = @ + 1, !.recurrence = @ + 1,
                           !.success = @ + IF success THEN 1 ELSE 0]
  IN  IF ShouldPromote(counted)
      THEN [counted EXCEPT !.status = "PROMOTED", !.tier = PromotedTier(counted)]
      ELSE counted

\* What a call makes of the record it has read; updates name fields.
Rewritten(step, r) ==
  CASE step.op \in {"succeeded", "failed"} -> Used(r, step.op = "succeeded")
    [] step.op = "promote" -> [r EXCEPT !.status = "ACTIVE", !.tier = PromotedTier(r)]
    [] step.op = "markStale" -> [r EXCEPT !.status = "STALE"]
    [] step.op = "invalidate" -> [r EXCEPT !.status = "INVALIDATED"]
    [] OTHER -> [f \in DOMAIN r |-> IF f \in DOMAIN step.updates THEN step.updates[f] ELSE r[f]]
-----------------------------------------------------------------------------
\* MemoryRetriever, of records without an expiry date.
Stored == {m \in Memories : memory[m] # NoMemory}
Retrieved(statuses) == {m \in Stored : memory[m].status \in statuses}
Contradict(a, b) == a.topic # "" /\ a.topic = b.topic /\ a.content # b.content

Step(id, op, updates) == [id |-> id, op |-> op, updates |-> updates]
NoUpdates == [status |-> "none"]
AtRest == [steps |-> <<>>, read |-> NoMemory, settles |-> <<>>,
         creates |-> NoMemory, record |-> NoMemory, seen |-> {}, noted |-> FALSE,
         asserts |-> FALSE]
Important(r) == r.importance >= 70

MemoryInit ==
  /\ memory \in Earlier /\ conflicts = {}
  /\ calls = [u \in Users |-> AtRest]
  /\ made = 0
  /\ told = [raced |-> {}, dead |-> {}, granted |-> Retrieved(Active),
             important |-> {m \in Stored : Important(memory[m])},
             excused |-> {{a, b} : a, b \in Stored},
             used |-> [m \in Memories |-> IF m \in Stored THEN memory[m].access ELSE 0]]

\* The creator has named an active status, or a tier other than the first.
Asserts(draft) ==
  \/ draft.status \in Active
  \/ draft.status = "unnamed" /\ draft.tier # "SHORT_TERM"

\* createRecord: it looks, notes the conflicts it has seen, and stores.
CreateRecord(u, m, draft) ==
  /\ calls[u] = AtRest /\ memory[m] = NoMemory
  /\ \A other \in Users : calls[other].creates # m
  /\ m \notin told.raced
  /\ calls' = [calls EXCEPT ![u] = [AtRest EXCEPT !.creates = m, !.record = Created(draft),
                 !.asserts = Asserts(draft), !.seen = {a \in Retrieved(Active) : Contradict(memory[a], Created(draft))}]]
  /\ UNCHANGED <<memory, conflicts, made, told>>
NoteConflicts(u) ==
  /\ calls[u].creates # NoMemory /\ ~calls[u].noted
  /\ conflicts' = conflicts \cup {<<a, calls[u].creates>> : a \in calls[u].seen}
  /\ calls' = [calls EXCEPT ![u].noted = TRUE]
  /\ UNCHANGED <<memory, made, told>>
StoreRecord(u) ==
  LET m == calls[u].creates
  IN  /\ calls[u].noted
      /\ memory' = [memory EXCEPT ![m] = calls[u].record]
      /\ told' = [told EXCEPT !.excused = @ \cup {{a, m} : a \in Stored \ calls[u].seen},
                              !.granted = IF calls[u].asserts THEN @ \cup {m} ELSE @,
                              !.important = IF Important(calls[u].record) THEN @ \cup {m} ELSE @]
      /\ calls' = [calls EXCEPT ![u] = AtRest]
      /\ UNCHANGED <<conflicts, made>>

\* Every other call is a list of steps, each of which reads and then writes.
StartSteps(u, steps, settles) ==
  /\ calls[u] = AtRest /\ steps # <<>>
  /\ made < MaxCalls /\ made' = made + 1
  /\ calls' = [calls EXCEPT ![u] = [AtRest EXCEPT !.steps = steps, !.settles = settles]]
  /\ UNCHANGED <<memory, conflicts, told>>

Call(u, m, op) == m \in Stored /\ StartSteps(u, <<Step(m, op, NoUpdates)>>, <<>>)

\* resolveConflict: a winner that is not part of it costs the existing record.
ResolveConflict(u, pair, winner) ==
  /\ pair \in conflicts
  /\ LET loser == IF pair[1] = winner THEN pair[2] ELSE pair[1]
     IN  StartSteps(u, <<Step(loser, "invalidate", NoUpdates), Step(winner, "promote", NoUpdates)>>, pair)

\* SkillCurator: decisions on what retrieve() returned, written one by one.
Curated == {m \in Retrieved(Active \cup {"STALE"}) : memory[m].kind \in {"pattern", "skill"}}
UseCount(r) == IF r.uses = Unset THEN r.access ELSE r.uses
Boosted(r) == LET target == 70 + 5 * UseCount(r) IN IF target > 100 THEN 100 ELSE target
Verdict(r) ==
  CASE r.unused >= ArchiveAfter -> [status |-> "ARCHIVED"]
    [] r.unused < ArchiveAfter /\ r.unused >= StaleAfter /\ r.status \in Active ->
         [status |-> "STALE"]
    [] r.unused < StaleAfter /\ UseCount(r) >= 3 /\ r.importance < Boosted(r) ->
         [importance |-> Boosted(r)]
    [] OTHER -> NoUpdates
Curate(u) ==
  LET decided == {m \in Curated : Verdict(memory[m]) # NoUpdates}
      steps == {Step(m, "update", Verdict(memory[m])) : m \in decided}
  IN  StartSteps(u, SetToSeq(steps), <<>>)
AdvanceIterationCounter(u) ==
  LET steps == {Step(m, "update", [unused |-> memory[m].unused + 1, uses |-> memory[m].uses]) :
                  m \in Curated}
  IN  StartSteps(u, SetToSeq(steps), <<>>)
\* SkillExtractor.recordUsage: the count of idle iterations goes on.
SkillUsed(u, m) ==
  /\ m \in Stored
  /\ LET r == memory[m]
         more == IF r.importance + 2 > 100 THEN 100 ELSE r.importance + 2
     IN  StartSteps(u, <<Step(m, "update", [importance |-> more, unused |-> r.unused,
                                       uses |-> UseCount(r) + 1])>>, <<>>)
MarkPatternUsed(u, m) ==
  /\ m \in Stored
  /\ StartSteps(u, <<Step(m, "update", [status |-> "ACTIVE", unused |-> 0,
                    uses |-> (IF memory[m].uses = Unset THEN 0 ELSE memory[m].uses) + 1])>>, <<>>)

\* A record that is gone makes the call throw, and leave its conflict.
ReadRecord(u) ==
  /\ calls[u].steps # <<>> /\ calls[u].read = NoMemory
  /\ LET now == memory[Head(calls[u].steps).id]
     IN  calls' = [calls EXCEPT ![u] = IF now = NoMemory THEN AtRest ELSE [@ EXCEPT !.read = now]]
  /\ UNCHANGED <<memory, conflicts, made, told>>

Told(call, raced) ==
  LET step == Head(call.steps)
      m == step.id
      settled == IF Tail(call.steps) = <<>> THEN {ToSet(call.settles)} ELSE {}
      activates == \/ step.op = "promote"
                   \/ "status" \in DOMAIN step.updates /\ step.updates.status = "ACTIVE"
  IN  [told EXCEPT
        !.raced = IF raced THEN @ \cup {m} ELSE @,
        !.granted = IF activates THEN @ \cup {m} ELSE @,
        !.dead = IF step.op = "invalidate" THEN @ \cup {m}
                 ELSE IF raced \/ step.op \notin {"succeeded", "failed"} THEN @ \ {m} ELSE @,
        !.important = IF Important(Rewritten(step, call.read)) THEN @ \cup {m} ELSE @,
        !.excused = @ \cup settled \cup (IF activates THEN {{a, m} : a \in Memories \ {m}} ELSE {}),
        !.used[m] = @ + IF step.op \in {"succeeded", "failed"} THEN 1 ELSE 0]
WriteRecord(u) ==
  LET call == calls[u]
      step == Head(call.steps)
      gone == memory[step.id] = NoMemory
      last == Tail(call.steps) = <<>>
  IN  /\ call.read # NoMemory
      /\ memory' = IF gone THEN memory
                   ELSE [memory EXCEPT ![step.id] = Rewritten(step, call.read)]
      /\ calls' = [calls EXCEPT ![u] = IF gone \/ last THEN AtRest
                     ELSE [call EXCEPT !.steps = Tail(call.steps), !.read = NoMemory]]
      /\ conflicts' = IF ~gone /\ last THEN conflicts \ {call.settles} ELSE conflicts
      /\ told' = IF gone THEN told ELSE Told(call, memory[step.id] # call.read)
      /\ UNCHANGED made

DeleteRecord(m) ==
  /\ m \in Stored
  /\ made < MaxCalls /\ made' = made + 1
  /\ memory' = [memory EXCEPT ![m] = NoMemory]
  /\ told' = [told EXCEPT !.raced = @ \cup {m}]
  /\ UNCHANGED <<conflicts, calls>>

MemoryNext ==
  \/ \E u \in Users, m \in Memories, draft \in Drafts : CreateRecord(u, m, draft)
  \/ \E u \in Users : NoteConflicts(u) \/ StoreRecord(u)
  \/ \E u \in Users, m \in Memories,
        op \in {"succeeded", "failed", "promote", "markStale", "invalidate"} : Call(u, m, op)
  \/ \E u \in Users, pair \in conflicts, winner \in Memories : ResolveConflict(u, pair, winner)
  \/ \E u \in Users : Curate(u) \/ AdvanceIterationCounter(u)
  \/ \E u \in Users, m \in Memories : MarkPatternUsed(u, m) \/ SkillUsed(u, m)
  \/ \E u \in Users : ReadRecord(u) \/ WriteRecord(u)
  \/ \E m \in Memories : DeleteRecord(m)

MemorySpec == MemoryInit /\ [][MemoryNext]_memoryVars
-----------------------------------------------------------------------------
\* Whatever overlaps, the counts of a record fit together, and a record that
\* is promoted and was used with success or twice is in a tier that lasts;
\* without overlap every use is counted.
CountsTogether ==
  \A m \in Stored : /\ CountsFit(memory[m])
                     /\ m \notin told.raced => memory[m].access = told.used[m]

\* What a tool returned is not active for that alone: somebody decided so, its
\* creator included, the record is or was important, or it has been used with
\* success or twice.  (It need not be important still: an update writes what it
\* had made of an earlier reading.)
Earned(m, r) ==
  r.status \in Active /\ r.source = "tool" =>
    \/ m \in told.granted \cup told.important
    \/ r.success >= 1 \/ r.access >= 2 \/ r.kind \in {"decision", "pattern"}
OnlyEarned == \A m \in Stored : Earned(m, memory[m])

\* A record invalidated stays so while it is only used, unless a call that had
\* read it before writes it back.
InvalidatedStays == \A m \in Stored : m \in told.dead => memory[m].status = "INVALIDATED"

\* Two active records that contradict each other are a conflict on file, but
\* for those the store cannot know of: held by the provider before, created at
\* the same time, not active when the second was created, or activated by
\* decision since; and for those settled, also in favour of a third record.
NoSilentContradiction ==
  \A a, b \in Retrieved(Active) :
    Contradict(memory[a], memory[b]) /\ {a, b} \notin told.excused =>
      <<a, b>> \in conflicts \/ <<b, a>> \in conflicts

MemoryHolds == CountsTogether /\ OnlyEarned /\ InvalidatedStays /\ NoSilentContradiction
=============================================================================
