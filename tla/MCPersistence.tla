---------------------------- MODULE MCPersistence ----------------------------
(* What is kept: the state store with its event log, session files,          *)
(* memories, the SQLite stores and the record of runs, as parts that share   *)
(* no state: a behaviour is one of one of them.                              *)
EXTENDS DurableState, SessionLog, MemoryRecords, SqliteStores, ExperienceIndex, TLC

VARIABLE part

filesVars == <<vars, sessionVars>>
stores == <<treeVars, noteVars, tableVars, experienceVars>>
all == <<filesVars, memoryVars, stores, part>>

\* The shortest way to DONE, with and without evidence, and events that are
\* valid in more than one phase.
Offer(ev, evidence) == [event |-> ev, llm |-> FALSE, evidence |-> evidence]
ToDone == {Offer("START", {}), Offer("PLAN_READY", {}),
           Offer("IMPLEMENTATION_COMPLETE", {}), Offer("CANCEL", {}),
           Offer("MARK_DONE", {}), Offer("MARK_DONE", EvidenceIds)}
CallerSymmetry == Permutations(Callers)

\* user/message takes part in nothing that assistant/message does not.
SomeKinds == {"turn/start", "turn/end", "step/start", "step/end", "tool/call",
              "tool/result", "assistant/message", "compaction/summary"}

\* A skill a tool brought, a fact of the user that contradicts it, and one that a
\* tool brought and the creator of the record calls promoted; a provider that is
\* empty, and one whose skill has been used twice.
Draft(kind, source, importance, content) ==
  [kind |-> kind, source |-> source, importance |-> importance, topic |-> "db",
   content |-> content, tier |-> "SHORT_TERM", status |-> "unnamed"]
SomeDrafts == {Draft("skill", "tool", 50, "one"), Draft("fact", "user", 80, "two"),
               [Draft("fact", "tool", 50, "two") EXCEPT
                  !.status = "PROMOTED", !.topic = ""]}
Empty == [m \in Memories |-> NoMemory]
TwiceUsed == [Created(Draft("skill", "tool", 50, "one")) EXCEPT
                !.access = 2, !.recurrence = 3, !.success = 1,
                !.status = "PROMOTED", !.tier = "PROCEDURAL"]
SomeEarlier == {Empty, [Empty EXCEPT !["m1"] = TwiceUsed]}

\* One key without an end, a renewal next to a second key, and a deletion.
Op(key, ttl) == [key |-> key, ttl |-> ttl]
SomeBatches == {<<Op("k", 0)>>, <<Op("k", 1), Op("l", 2)>>, <<Op("k", -1), Op("l", 0)>>}

AllInit == /\ Init /\ SessionInit /\ MemoryInit
           /\ TreeInit /\ NotesInit /\ TableInit /\ ExperienceInit
           /\ part \in {"state", "sessions", "memory", "tree", "notes", "traces", "runs"}
           /\ part # "state" => backend = "memory" /\ serial
           /\ part # "memory" => memory = Empty
StatePart == part = "state" /\ Next /\ UNCHANGED sessionVars
SessionPart == part = "sessions" /\ SessionNext /\ UNCHANGED vars
MemoryPart == part = "memory" /\ MemoryNext /\ UNCHANGED <<filesVars, stores>>
TreePart == part = "tree" /\ TreeNext /\ UNCHANGED <<noteVars, tableVars, experienceVars>>
NotesPart == part = "notes" /\ NotesNext /\ UNCHANGED <<treeVars, tableVars, experienceVars>>
TracesPart == part = "traces" /\ TableNext /\ UNCHANGED <<treeVars, noteVars, experienceVars>>
RunsPart == part = "runs" /\ ExperienceNext /\ UNCHANGED <<treeVars, noteVars, tableVars>>

AllNext ==
  \/ (StatePart \/ SessionPart) /\ UNCHANGED <<memoryVars, stores, part>>
  \/ MemoryPart /\ UNCHANGED part
  \/ (TreePart \/ NotesPart \/ TracesPart \/ RunsPart) /\ UNCHANGED <<filesVars, memoryVars, part>>
AllSpec == AllInit /\ [][AllNext]_all

\* Sessions, memories, SQLite stores and the record of runs keep what they
\* promise: SessionsSound, MemoryHolds, StoresHold and ExperienceHolds, each in
\* the behaviours of its part (in the others its state never changes).
RecordsHold ==
  /\ part = "sessions" => SessionsSound
  /\ part = "memory" => MemoryHolds
  /\ part \in {"tree", "notes", "traces"} => StoresHold
  /\ part = "runs" => ExperienceHolds
=============================================================================
