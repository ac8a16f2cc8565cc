---------------------------- MODULE SqliteStores ----------------------------
(***************************************************************************)
(* What is kept in SQLite: the tree of sessions, whose objects live in     *)
(* memory and are saved as a whole; keys with a time to live; scoped       *)
(* notes, which a curator ages and consolidates; and traces of tasks with  *)
(* a score, which are looked up, counted as used, and pruned by age and by *)
(* number.  A statement or a transaction is one step; consolidate() awaits *)
(* between its two.  Rows that are equal in the order of a query come in   *)
(* any order.                                                              *)
(***************************************************************************)
EXTENDS Integers, FiniteSets, Sequences, SequencesExt, FiniteSetsExt

CONSTANTS Ids,        \* of sessions; the first to be created has no parent
          Holders,    \* objects of the host
          NoRow,      \* no row, no object, no parent
          MaxAppends, \* bound: events appended
          MaxSaves,   \* bound: saves, loads, branches and deletions
          Keys, Notes, \* keys of the store and of notes, these with a day behind
          Batches,    \* sequences of [key, ttl], ttl < 0 for a deletion
          Threshold, StaleDays, ArchiveDays,
          LastDay,    \* bound: the clock
          MaxNotes,   \* bound: writes of keys and notes, and consolidations
          Traces,     \* ids of traces
          Tasks,      \* task hashes
          MaxAge, MaxEntries, Limit,
          MaxDays, MaxTraceUses \* bounds: the clock of the traces, and their uses

Types == {"user_message", "tool/result"} \* "agent_message" is kept like the first
SessionEvent == [type : Types \cup {"custom"}, nr : Nat]
SessionRow == [parent : Ids \cup {NoRow}, branch : Nat \cup {-1}, log : Seq(SessionEvent)]
SessionObject == [id : Ids, parent : Ids \cup {NoRow}, branch : Nat \cup {-1},
                  log : Seq(SessionEvent)]

\* Days, ages and limits count; a task has a name.
ASSUME StoresConstants ==
  /\ NoRow \notin Ids \cup SessionRow \cup SessionObject
  /\ NoRow \notin [said : SUBSET Nat] /\ NoRow \notin [expires : Nat]
  /\ Batches \subseteq Seq([key : Keys, ttl : Int])
  /\ StaleDays \in Nat /\ ArchiveDays \in Nat
  /\ IsFiniteSet(Traces) /\ "" \notin Tasks
  /\ MaxAge \in Int /\ MaxEntries \in Nat /\ Limit \in Nat

VARIABLES rows,   \* sessions and messages
          object, \* what each holder works on
          branching, \* a session that was loaded to be branched
          lineage, \* what happened, for the properties
          kv, notes,
          merging, \* what a consolidation has listed
          day,
          facts,  \* what should be found in the notes, and the writes
          experiences, \* a row, or NoExperience, for each trace
          today,
          lastQuery \* of traces: the query that was done last, for the properties

treeVars == <<rows, object, branching, lineage>>
noteVars == <<kv, notes, merging, day, facts>>
tableVars == <<experiences, today, lastQuery>>
-----------------------------------------------------------------------------
\* Sessions.

NoLog == <<>>
AsStored(log) ==
  [i \in DOMAIN log |-> [log[i] EXCEPT !.type =
     IF @ = "user_message" THEN @ ELSE "custom"]]
TreeRows == {id \in Ids : rows[id] # NoRow}

TreeInit ==
  /\ rows = [id \in Ids |-> NoRow]
  /\ object = [h \in Holders |-> NoRow]
  /\ branching = NoRow
  /\ lineage = [used |-> {}, appends |-> 0, saves |-> 0, diverged |-> {}, shared |-> {},
             last |-> [id \in Ids |-> NoLog]]

\* The session of a holder that takes another one, when it has unsaved events.
Abandoned(h) ==
  {id \in TreeRows : object[h] # NoRow /\ object[h].id = id /\ AsStored(object[h].log) # rows[id].log}

CreateSession(h, id) ==
  /\ lineage.used = {}
  /\ object' = [object EXCEPT ![h] = [id |-> id, parent |-> NoRow, branch |-> -1, log |-> NoLog]]
  /\ lineage' = [lineage EXCEPT !.used = {id}]
  /\ UNCHANGED <<rows, branching>>

AppendTo(h, type) ==
  /\ object[h] # NoRow /\ lineage.appends < MaxAppends
  /\ object' = [object EXCEPT ![h].log = Append(@, [type |-> type, nr |-> lineage.appends])]
  /\ lineage' = [lineage EXCEPT !.appends = @ + 1]
  /\ UNCHANGED <<rows, branching>>

\* saveSession: the header and every event are upserted; what the row has
\* beyond the log stays.  The parent must have a row, or nothing is lineage.
LiveOnly(o, old) == \* mutant of Upserted: what a branch was seeded with is left out
  SubSeq(AsStored(o.log), o.branch + 2, Len(o.log))
Upserted(o, old) == AsStored(o.log) \o SubSeq(old, Len(o.log) + 1, Len(old))
Persisted(o, left) ==
  LET old == IF rows[o.id] = NoRow THEN NoLog ELSE rows[o.id].log
  IN  /\ o.parent \in TreeRows \cup {NoRow}
      /\ rows' = [rows EXCEPT ![o.id] =
                    [parent |-> o.parent, branch |-> o.branch, log |-> Upserted(o, old)]]
      /\ lineage' = [lineage EXCEPT !.saves = @ + 1, !.used = @ \cup {o.id},
                    !.shared = @ \cup left, !.last[o.id] = AsStored(o.log),
                    !.diverged = IF IsPrefix(old, AsStored(o.log)) THEN @ ELSE @ \cup {o.id}]
SaveSession(h) ==
  /\ object[h] # NoRow /\ lineage.saves < MaxSaves
  /\ Persisted(object[h], {})
  /\ UNCHANGED <<object, branching>>

ObjectOf(id) == [id |-> id, parent |-> rows[id].parent, branch |-> rows[id].branch,
               log |-> rows[id].log]
LoadSession(h, id) ==
  /\ id \in TreeRows /\ lineage.saves < MaxSaves
  /\ object' = [object EXCEPT ![h] = ObjectOf(id)]
  /\ lineage' = [lineage EXCEPT !.saves = @ + 1,
       !.shared = @ \cup Abandoned(h)
         \cup {s \in {id} : \E other \in Holders \ {h} : object[other] # NoRow /\ object[other].id = s}]
  /\ UNCHANGED <<rows, branching>>

\* fork and branchSession, which loads, awaits, and saves the child.
BranchOf(o, boundary, child) ==
  [id |-> child, parent |-> o.id, branch |-> boundary, log |-> SubSeq(o.log, 1, boundary + 1)]
ForkObject(h, other, boundary, child) ==
  /\ object[h] # NoRow /\ child \notin lineage.used
  /\ boundary \in -1..(Len(object[h].log) - 1)
  /\ object' = [object EXCEPT ![other] = BranchOf(object[h], boundary, child)]
  /\ lineage' = [lineage EXCEPT !.used = @ \cup {child}, !.shared = @ \cup Abandoned(other)]
  /\ UNCHANGED <<rows, branching>>
BranchLoads(id) ==
  /\ id \in TreeRows /\ branching = NoRow /\ lineage.saves < MaxSaves
  /\ branching' = ObjectOf(id)
  /\ lineage' = [lineage EXCEPT !.saves = @ + 1]
  /\ UNCHANGED <<rows, object>>
BranchSaves(h, boundary, child) ==
  /\ branching # NoRow /\ child \notin lineage.used
  /\ boundary \in -1..(Len(branching.log) - 1)
  /\ Persisted(BranchOf(branching, boundary, child), Abandoned(h))
  /\ object' = [object EXCEPT ![h] = BranchOf(branching, boundary, child)]
  /\ branching' = NoRow
BranchFails ==
  /\ branching # NoRow /\ branching.id \notin TreeRows
  /\ branching' = NoRow
  /\ UNCHANGED <<rows, object, lineage>>

\* Messages go with their session, children lose their parent.
DeleteSession(id) ==
  /\ id \in TreeRows /\ lineage.saves < MaxSaves
  /\ rows' = [s \in Ids |->
       IF s = id THEN NoRow
       ELSE IF s \in TreeRows /\ rows[s].parent = id THEN [rows[s] EXCEPT !.parent = NoRow]
       ELSE rows[s]]
  /\ lineage' = [lineage EXCEPT !.saves = @ + 1]
  /\ UNCHANGED <<object, branching>>

TreeNext ==
  \/ \E h \in Holders, id \in Ids : CreateSession(h, id) \/ LoadSession(h, id)
  \/ \E h \in Holders, type \in Types : AppendTo(h, type)
  \/ \E h \in Holders : SaveSession(h)
  \/ \E h, other \in Holders, boundary \in -1..MaxAppends, child \in Ids :
       ForkObject(h, other, boundary, child)
  \/ \E id \in Ids : BranchLoads(id) \/ DeleteSession(id)
  \/ \E h \in Holders, boundary \in -1..MaxAppends, child \in Ids :
       BranchSaves(h, boundary, child)
  \/ BranchFails

TreeSpec == TreeInit /\ [][TreeNext]_treeVars

\* A session is read back as it was last saved, unless a copy of it had been
\* saved with other events: then the two logs are mixed.  A parent has a row
\* of its own, and a branch begins with what its parent has, unless the parent
\* was loaded while another object of it was in use or had been left unsaved.
ReadBack == \A id \in TreeRows : id \notin lineage.diverged => rows[id].log = lineage.last[id]
Branches ==
  \A id \in TreeRows : LET r == rows[id] IN
    /\ r.branch + 1 <= Len(r.log)
    /\ r.parent # NoRow => r.parent \in TreeRows \ {id}
    /\ r.parent # NoRow /\ r.parent \notin lineage.shared =>
         LET shared == SubSeq(r.log, 1, r.branch + 1)
         IN  IsPrefix(shared, rows[r.parent].log) \/ IsPrefix(rows[r.parent].log, shared)
-----------------------------------------------------------------------------
\* Keys with a time to live, and notes.

NotesInit ==
  /\ kv = [k \in Keys |-> NoRow] /\ notes = [n \in {} |-> NoRow]
  /\ merging = NoRow /\ day = 0
  /\ facts = [kept |-> {}, gone |-> {}, writes |-> 0]
MayWrite == facts.writes < MaxNotes

\* Writes: set, delete and batch, of which the last write of a key stays; 0
\* stands for a key that never expires.
Put(op) == IF op.ttl < 0 THEN NoRow
           ELSE [expires |-> IF op.ttl = 0 THEN 0 ELSE day + op.ttl]
Batch(ops) ==
  /\ MayWrite
  /\ kv' = [k \in Keys |->
       LET at == {i \in DOMAIN ops : ops[i].key = k}
       IN  IF at = {} THEN kv[k] ELSE Put(ops[Max(at)])]
  /\ facts' = [facts EXCEPT !.writes = @ + 1]
  /\ UNCHANGED <<notes, merging, day>>
Expired(row) == row.expires > 0 /\ row.expires <= day
GetKey(k) ==
  /\ kv[k] # NoRow /\ Expired(kv[k])
  /\ kv' = [kv EXCEPT ![k] = NoRow]
  /\ UNCHANGED <<notes, merging, day, facts>>

NewNote(said) == [said |-> said, status |-> "active", accessed |-> day, sweeps |-> 0]
Said(kept) == UNION {kept[n].said : n \in DOMAIN kept}
With(kept, n, note) == [m \in DOMAIN kept \cup {n} |-> IF m = n THEN note ELSE kept[m]]
Without(kept, gone) == [m \in DOMAIN kept \ gone |-> kept[m]]
SaidIn(n) == IF n \in DOMAIN notes THEN notes[n].said ELSE {}

\* What goes with a note, unless a consolidation has already listed it.
Removed(n) == IF merging = NoRow THEN SaidIn(n) \ Said(Without(notes, {n})) ELSE {}

SetNote(n) ==
  /\ MayWrite
  /\ notes' = With(notes, n, NewNote({facts.writes}))
  /\ facts' = [kept |-> (facts.kept \ SaidIn(n)) \cup {f \in {facts.writes} : merging = NoRow},
                gone |-> facts.gone \cup Removed(n), writes |-> facts.writes + 1]
  /\ UNCHANGED <<kv, merging, day>>
\* A stale note is active again, an archived one stays archived.  What becomes
\* active while a consolidation waits goes with what it has listed.
GetNote(n) ==
  /\ n \in DOMAIN notes
  /\ facts' = IF merging # NoRow /\ notes[n].status = "stale"
              THEN [facts EXCEPT !.kept = @ \ (notes[n].said \ merging.said)] ELSE facts
  /\ notes' = [notes EXCEPT ![n].accessed = day,
                 ![n].status = IF @ = "stale" THEN "active" ELSE @,
                 ![n].sweeps = IF notes[n].status = "archived" THEN @ ELSE 0]
  /\ UNCHANGED <<kv, merging, day>>
DeleteNote(n) ==
  /\ n \in DOMAIN notes
  /\ notes' = Without(notes, {n})
  /\ facts' = [facts EXCEPT !.kept = @ \ notes[n].said, !.gone = @ \cup Removed(n)]
  /\ UNCHANGED <<kv, merging, day>>

\* sweep: what is stale first, then what is active.
SweptTwice(n, stale, archive) == \* mutant of Swept: what is active first
  CASE n.status \in {"active", "stale"} /\ n.accessed < archive -> "archived"
    [] n.status = "active" /\ n.accessed < stale /\ n.accessed >= archive -> "stale"
    [] OTHER -> n.status
Swept(n, stale, archive) ==
  CASE n.status = "stale" /\ n.accessed < archive -> "archived"
    [] n.status = "active" /\ n.accessed < stale -> "stale"
    [] OTHER -> n.status
Sweep ==
  /\ notes' = [n \in DOMAIN notes |-> [notes[n] EXCEPT
       !.status = Swept(notes[n], day - StaleDays, day - ArchiveDays),
       !.sweeps = IF @ < 2 THEN @ + 1 ELSE @]]
  /\ UNCHANGED <<kv, merging, day, facts>>

\* consolidate lists what is active, awaits, then deletes what is active by
\* now and writes what it has listed.
ActiveNotes == {n \in DOMAIN notes : notes[n].status = "active"}
ConsolidateLists ==
  /\ merging = NoRow /\ Cardinality(ActiveNotes) > Threshold
  /\ MayWrite
  /\ merging' = [said |-> UNION {notes[n].said : n \in ActiveNotes}]
  /\ facts' = [facts EXCEPT !.writes = @ + 1]
  /\ UNCHANGED <<kv, notes, day>>
ConsolidateWrites ==
  /\ merging # NoRow
  /\ notes' = With(Without(notes, ActiveNotes), <<"consolidated", day>>, NewNote(merging.said))
  /\ merging' = NoRow
  /\ UNCHANGED <<kv, day, facts>>

DayPasses == day < LastDay /\ day' = day + 1 /\ UNCHANGED <<kv, notes, merging, facts>>

NotesNext ==
  \/ \E ops \in Batches : Batch(ops)
  \/ \E k \in Keys : GetKey(k)
  \/ \E n \in Notes : SetNote(<<n, -1>>)
  \/ \E n \in DOMAIN notes : GetNote(n) \/ DeleteNote(n)
  \/ Sweep \/ ConsolidateLists \/ ConsolidateWrites \/ DayPasses

NotesSpec == NotesInit /\ [][NotesNext]_noteVars

\* list shows just the keys that get returns, to the very millisecond.
Listed == {k \in Keys : kv[k] # NoRow /\ (kv[k].expires = 0 \/ kv[k].expires > day)}
ListAgrees == \A k \in Keys : k \in Listed <=> kv[k] # NoRow /\ ~Expired(kv[k])

\* What was noted is found in some note, whatever is swept and consolidated,
\* until it is overwritten or deleted, and after that in none; but for what is
\* written, removed or read back from stale between the two steps of a
\* consolidation.
NothingForgotten == facts.kept \subseteq Said(notes) /\ facts.gone \cap Said(notes) = {}
\* A note is not archived before two sweeps have found it unused.
AgesByStep ==
  \A n \in DOMAIN notes : /\ notes[n].status = "archived" => notes[n].sweeps = 2
                          /\ notes[n].status = "stale" => notes[n].sweeps > 0
-----------------------------------------------------------------------------
\* Traces of experience.

NoExperience == [task |-> "", score |-> 0, created |-> 0, accessed |-> 0, uses |-> 0]
NoQuery == [op |-> "none", task |-> "", before |-> [t \in Traces |-> NoExperience], rows |-> {}]
TableInit ==
  /\ experiences = [t \in Traces |-> NoExperience] /\ today = 1
  /\ lastQuery = NoQuery

KnownTraces == {t \in Traces : experiences[t] # NoExperience}
Did(op, task, found) == lastQuery' = [op |-> op, task |-> task, before |-> experiences, rows |-> found]
DidNoQuery == lastQuery' = NoQuery

\* A trace saved again keeps the time of its creation; its uses and its last
\* access are what the caller says, or none and now.
SaveExperience(t, task, score, accessed) ==
  /\ experiences' = [experiences EXCEPT ![t] =
       [task |-> task, score |-> score, accessed |-> accessed, uses |-> 0,
        created |-> IF t \in KnownTraces THEN @.created ELSE today]]
  /\ DidNoQuery /\ UNCHANGED today
Accessed(ids) ==
  experiences' = [t \in Traces |->
    IF t \notin ids THEN experiences[t]
    ELSE [experiences[t] EXCEPT !.accessed = today, !.uses = @ + 1]]
GetExperience(t) ==
  /\ t \in KnownTraces /\ experiences[t].uses < MaxTraceUses
  /\ Accessed({t}) /\ DidNoQuery /\ UNCHANGED today

\* The rows a query with an order and a limit may give.
FirstOf(ids, Before(_, _), n) ==
  {s \in SUBSET ids : /\ Cardinality(s) = (IF Cardinality(ids) < n THEN Cardinality(ids) ELSE n)
                      /\ \A t \in s, u \in ids \ s : ~Before(u, t)}
\* Exact matches first; with the default minimum of 0 every row is similar.
Closer(task, t, u) ==
  LET match(x) == experiences[x].task = task
  IN  IF match(t) # match(u) THEN match(t)
      ELSE \/ experiences[t].score > experiences[u].score
           \/ /\ experiences[t].score = experiences[u].score
              /\ experiences[t].uses > experiences[u].uses
FindSimilar(task, minScore) ==
  LET similar == {t \in KnownTraces : experiences[t].task = task \/ experiences[t].score >= minScore}
  IN  /\ \E found \in FirstOf(similar, LAMBDA t, u : Closer(task, t, u), Limit) :
           /\ \A t \in found : experiences[t].uses < MaxTraceUses
           /\ Accessed(found) /\ Did("found", task, found)
      /\ UNCHANGED today

TooOld == {t \in KnownTraces : experiences[t].accessed < today - MaxAge}
LessUseful(t, u) ==
  LET a == experiences[t] b == experiences[u]
  IN  \/ a.score < b.score
      \/ a.score = b.score /\ a.uses < b.uses
      \/ a.score = b.score /\ a.uses = b.uses /\ a.created < b.created
TrimmedFirst == \* mutant of Prunable: the number of rows is looked at before the age
  LET excess == Cardinality(KnownTraces) - MaxEntries
  IN  {TooOld \cup rest : rest \in FirstOf(KnownTraces, LessUseful, IF excess > 0 THEN excess ELSE 0)}
Prunable ==
  LET young == KnownTraces \ TooOld
      excess == Cardinality(young) - MaxEntries
  IN  {TooOld \cup rest : rest \in FirstOf(young, LessUseful, IF excess > 0 THEN excess ELSE 0)}
Prune ==
  /\ \E gone \in Prunable :
       /\ experiences' = [t \in Traces |-> IF t \in gone THEN NoExperience ELSE experiences[t]]
       /\ Did("pruned", "", gone)
  /\ UNCHANGED today
TodayEnds ==
  /\ today < MaxDays /\ today' = today + 1
  /\ DidNoQuery /\ UNCHANGED experiences

TableNext ==
  \/ \E t \in Traces, task \in Tasks, score \in 0..1, accessed \in {1, today} :
       SaveExperience(t, task, score, accessed)
  \/ \E t \in Traces : GetExperience(t)
  \/ \E task \in Tasks, minScore \in 0..1 : FindSimilar(task, minScore)
  \/ Prune \/ TodayEnds

TableSpec == TableInit /\ [][TableNext]_tableVars
-----------------------------------------------------------------------------
\* Pruning leaves no more than the limit, no row too old, and takes a young
\* one only for the limit's sake, and no more useful one than it leaves.
PruningSound ==
  lastQuery.op = "pruned" =>
    LET before == lastQuery.before
        young == {t \in lastQuery.rows : before[t].accessed >= today - MaxAge}
    IN  /\ Cardinality(KnownTraces) <= MaxEntries
        /\ TooOld = {}
        /\ young # {} => Cardinality(KnownTraces) = MaxEntries
        /\ \A t \in young, u \in KnownTraces : before[t].score <= experiences[u].score

\* A trace of the task itself is passed over only for others of that task
\* which did no worse.
FindingSound ==
  lastQuery.op = "found" =>
    \A t \in Traces \ lastQuery.rows :
      LET was == lastQuery.before[t]
      IN  was.task = lastQuery.task =>
            \A u \in lastQuery.rows : /\ lastQuery.before[u].task = was.task
                                      /\ lastQuery.before[u].score >= was.score

StoresHold == /\ ReadBack /\ Branches /\ ListAgrees /\ NothingForgotten
              /\ AgesByStep /\ PruningSound /\ FindingSound
=============================================================================
