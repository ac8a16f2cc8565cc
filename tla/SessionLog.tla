----------------------------- MODULE SessionLog -----------------------------
(***************************************************************************)
(* Sessions: append-only event logs in a tree, kept as one JSONL file each *)
(* and as objects in the store's map.  resume() and get() build objects of *)
(* their own from the file, so a session can be held more than once.  The  *)
(* host writes every event of the object it uses behind the file as well.  *)
(***************************************************************************)
EXTENDS Integers, FiniteSets, SequencesExt

CONSTANTS Sessions,   \* session ids; one is created, the others are forks
          ToolCalls,      \* ids of tool calls
          NoSession,  \* no object, no file, no parent
          InMap,      \* the host works on the object in the map
          Kinds,      \* bound: the kinds of events that are logged
          MaxEvents,  \* bound: events logged in all sessions
          Boundaries, \* bound: where to fork, apart from the end
          MaxBreaks   \* bound: deaths of the process and resumptions

VARIABLES mem,   \* inMemoryStore.sessions
          held,  \* the object the host works on
          files, \* the JSONL files
          breaks \* deaths of the process and resumptions

sessionVars == <<mem, held, files, breaks>>

\* A summary stands for all events before it: its toSeq is seq - 1.  lost is
\* the reason "interrupted" of a synthetic end.
Event(type, seq, call) == [type |-> type, seq |-> seq, call |-> call, lost |-> FALSE]
Synthetic(type, seq) == [Event(type, seq, "-") EXCEPT !.lost = TRUE]

\* DefaultSession: its log, and of its header what relates it to others.
NewSession == [log |-> <<>>, parent |-> NoSession, seed |-> 0, depth |-> 0]
Appended(session, type, call) ==
  [session EXCEPT !.log = Append(@, Event(type, Len(@), call))]
Forked(session, id, boundary) ==
  [log |-> SubSeq(session.log, 1, boundary + 1), parent |-> id,
   seed |-> boundary + 1, depth |-> session.depth + 1]
-----------------------------------------------------------------------------
\* What a crash left open.

LastOf(log, types) ==
  LET at == {i \in DOMAIN log : log[i].type \in types}
  IN  IF at = {} THEN "-" ELSE log[CHOOSE i \in at : \A j \in at : j <= i].type
TurnOpen(log) == LastOf(log, {"turn/start", "turn/end"}) = "turn/start"
StepOpen(log) == LastOf(log, {"step/start", "step/end"}) = "step/start"

\* recoverInterruptedSession.
TurnOnly(log) == \* mutant of Recovered: the step stays open
  IF TurnOpen(log) THEN Append(log, Synthetic("turn/end", Len(log))) ELSE log
Recovered(log) ==
  LET closed == IF TurnOpen(log) /\ StepOpen(log)
                THEN Append(log, Synthetic("step/end", Len(log))) ELSE log
  IN  IF TurnOpen(log) THEN Append(closed, Synthetic("turn/end", Len(closed))) ELSE log
-----------------------------------------------------------------------------
\* What a model is shown: deriveMessages.

\* Summaries stand where what they summarise stood.
Projected(log) ==
  LET shadowed == UNION {0..(i - 2) : i \in {j \in DOMAIN log :
                                          log[j].type = "compaction/summary"}}
      place(e) == IF e.type = "compaction/summary" THEN 0 ELSE e.seq
      shown(e) == e.type = "compaction/summary" \/ e.seq \notin shadowed
  IN  SortSeq(SelectSeq(log, shown),
              LAMBDA a, b : place(a) < place(b) \/ (place(a) = place(b) /\ a.seq < b.seq))

Message(role, calls) == [role |-> role, calls |-> calls]
Shown(messages, e) ==
  CASE e.type = "user/message" -> Append(messages, Message("USER", {}))
    [] e.type = "compaction/summary" -> Append(messages, Message("SYSTEM", {}))
    [] e.type = "assistant/message" -> Append(messages, Message("ASSISTANT", {}))
    [] e.type = "tool/result" -> Append(messages, Message("TOOL", {e.call}))
    [] e.type = "tool/call" ->
         IF messages # <<>> /\ Last(messages).role = "ASSISTANT"
         THEN [messages EXCEPT ![Len(messages)].calls = @ \cup {e.call}]
         ELSE Append(messages, Message("ASSISTANT", {e.call}))
    [] OTHER -> messages
DeriveMessages(log) == FoldLeft(Shown, <<>>, Projected(log))

\* assertModelHistoryReconstructable: roles, contents and toolCallIds agree.
Reconstructable(log, sending) ==
  LET said(messages) == [i \in DOMAIN messages |->
        IF messages[i].role = "TOOL" THEN messages[i] ELSE Message(messages[i].role, {})]
  IN  said(DeriveMessages(log)) = said(sending)
-----------------------------------------------------------------------------
\* The store.

NoFile == [session |-> NoSession, torn |-> FALSE]
Readable(id) == files[id].session # NoSession /\ ~files[id].torn
FileOf(session) == [session |-> session, torn |-> FALSE]

\* deserializeSession with autoRecoverCrash, which is the default.
Loaded(id) == [files[id].session EXCEPT !.log = Recovered(@)]

\* get: of a file that is torn it throws, which is not NoSession.
Get(id) == IF mem[id] # NoSession THEN mem[id]
           ELSE IF Readable(id) THEN Loaded(id) ELSE NoSession
Throws(id) == mem[id] = NoSession /\ files[id].torn

\* The host's object of a session.
Object(id) == IF held[id] = InMap THEN mem[id] ELSE held[id]

\* findAncestors, from the session to its root.
Ancestors(id) ==
  LET up[n \in 0..Cardinality(Sessions)] ==
        IF n = 0 THEN <<id>>
        ELSE LET parent == Get(Last(up[n - 1])).parent
             IN  IF parent = NoSession \/ Get(parent) = NoSession
                 THEN up[n - 1] ELSE Append(up[n - 1], parent)
  IN  up[Cardinality(Sessions)]
CommonAncestor(a, b) ==
  LET shared == SelectSeq(Ancestors(a), LAMBDA s : s \in ToSet(Ancestors(b)))
  IN  IF shared = <<>> THEN NoSession ELSE Head(shared)
FindChildren(id) ==
  {s \in Sessions : files[s].session # NoSession /\ files[s].session.parent = id}

Create(id) ==
  /\ \A s \in Sessions : files[s] = NoFile
  /\ mem' = [mem EXCEPT ![id] = NewSession]
  /\ held' = [held EXCEPT ![id] = InMap]
  /\ files' = [files EXCEPT ![id] = FileOf(NewSession)]
  /\ UNCHANGED breaks

\* The child's id is a fresh one.  A parent that is not in the map is read
\* from its file and put there; by default all of it is inherited.
Fork(id, child) ==
  /\ ~Throws(id) /\ Get(id) # NoSession
  /\ files[child] = NoFile
  /\ LET end == Len(Get(id).log) - 1
     IN  \E boundary \in {end} \cup {b \in Boundaries : b < end} :
           LET forked == Forked(Get(id), id, boundary)
           IN  /\ mem' = [mem EXCEPT ![id] = Get(id), ![child] = forked]
               /\ files' = [files EXCEPT ![child] = FileOf(forked)]
  /\ held' = [held EXCEPT ![child] = InMap]
  /\ UNCHANGED breaks

\* The repaired session is written back and given to the host; the map keeps
\* the object it has.
Resume(id) ==
  /\ breaks < MaxBreaks
  /\ Readable(id)
  /\ held' = [held EXCEPT ![id] = Loaded(id)]
  /\ files' = [files EXCEPT ![id] = FileOf(Loaded(id))]
  /\ breaks' = breaks + 1
  /\ UNCHANGED mem
-----------------------------------------------------------------------------
\* The host.

Named(log, type) == {log[i].call : i \in {j \in DOMAIN log : log[j].type = type}}
Open(log) == \* calls of the step that have no result
  LET step == SelectInSeq(Reverse(log), LAMBDA e : e.type = "step/start")
      now  == SubSeq(log, Len(log) + 1 - step, Len(log))
  IN  Named(now, "tool/call") \ Named(now, "tool/result")

\* It logs turns of steps, answers every call before it ends the step, and
\* summarises between steps.
Logs(log, type, call) ==
  CASE type = "turn/start" -> ~TurnOpen(log) /\ call = "-"
    [] type = "compaction/summary" -> log # <<>> /\ ~StepOpen(log) /\ call = "-"
    [] type = "user/message" -> call = "-" /\ TurnOpen(log) /\ Last(log).type = "turn/start"
    [] type \in {"step/start", "turn/end"} -> call = "-" /\ TurnOpen(log) /\ ~StepOpen(log)
    [] type = "step/end" -> call = "-" /\ StepOpen(log) /\ TurnOpen(log)
                            /\ Open(log) = {}
    [] type = "assistant/message" -> call = "-" /\ StepOpen(log) /\ Last(log).type = "step/start"
    [] type = "tool/call" -> /\ call \in ToolCalls \ Named(log, "tool/call")
                             /\ StepOpen(log)
    [] type = "tool/result" -> call \in Open(log) /\ StepOpen(log)

FileSize == FoldFunction(LAMBDA file, n : IF file = NoFile THEN n
                          ELSE n + Len(file.session.log) - file.session.seed, 0, files)

\* append and, unless the process dies in it, appendEventToFileSync.
Record(id, type, call) ==
  /\ held[id] # NoSession
  /\ FileSize < MaxEvents
  /\ Logs(Object(id).log, type, call)
  /\ LET next == Appended(Object(id), type, call)
     IN  /\ IF held[id] = InMap
            THEN mem' = [mem EXCEPT ![id] = next] /\ UNCHANGED held
            ELSE held' = [held EXCEPT ![id] = next] /\ UNCHANGED mem
         /\ files' = [files EXCEPT ![id].session.log = Append(@, Last(next.log))]
  /\ UNCHANGED breaks

\* Objects are gone; the write that was under way may have left half a line.
Die(torn) ==
  /\ breaks < MaxBreaks
  /\ Cardinality(torn) <= 1
  /\ \A id \in torn : held[id] # NoSession
  /\ mem' = [id \in Sessions |-> NoSession]
  /\ held' = [id \in Sessions |-> NoSession]
  /\ files' = [id \in Sessions |-> [files[id] EXCEPT !.torn = @ \/ id \in torn]]
  /\ breaks' = breaks + 1

SessionInit ==
  /\ mem = [id \in Sessions |-> NoSession]
  /\ held = [id \in Sessions |-> NoSession]
  /\ files = [id \in Sessions |-> NoFile]
  /\ breaks = 0

SessionNext ==
  \/ \E id \in Sessions : \/ Create(id) \/ Resume(id)
                          \/ \E child \in Sessions : Fork(id, child)
                          \/ \E type \in Kinds, call \in ToolCalls \cup {"-"} :
                               Record(id, type, call)
  \/ \E torn \in SUBSET Sessions : Die(torn)
-----------------------------------------------------------------------------
Logged == {files[id].session.log : id \in {s \in Sessions : files[s] # NoFile}}

\* Numbers are positions and turns and steps nest, also where a crash cut
\* them: the repair closes the step before the turn (crash-recovery.ts).
Nested(log) ==
  \A i \in DOMAIN log :
    LET before == SubSeq(log, 1, i - 1)
    IN  /\ log[i].seq = i - 1
        /\ log[i].type = "turn/start" => ~TurnOpen(before)
        /\ log[i].type = "step/start" => TurnOpen(before) /\ ~StepOpen(before)
        /\ log[i].type = "turn/end" => TurnOpen(before) /\ ~StepOpen(before)

\* A model is never shown a result without the call before it nor a call
\* twice, and what a repair adds it is not shown at all.
Conversational(log) ==
  LET said == DeriveMessages(log)
      callsAt(i) == IF said[i].role = "ASSISTANT" THEN said[i].calls ELSE {}
  IN  /\ \A i \in DOMAIN said :
           /\ said[i].role = "TOOL" => \E j \in 1..(i - 1) : said[i].calls \subseteq callsAt(j)
           /\ \A j \in 1..(i - 1) : callsAt(i) \cap callsAt(j) = {}
      /\ Reconstructable(Recovered(log), said)

\* A fork has a prefix of what its parent's file says, up to ends its parent
\* had written for it when it was taken for interrupted.
SharesHistory(id) ==
  LET child == files[id].session
      own   == SelectSeq(SubSeq(child.log, 1, child.seed), LAMBDA e : ~e.lost)
  IN  child.parent # NoSession =>
        IsPrefix(own, SelectSeq(files[child.parent].session.log, LAMBDA e : ~e.lost))

\* A session is as deep as it has ancestors, as long as they can be read.
Placed(id) ==
  (\A s \in Sessions : ~files[s].torn) =>
    /\ Len(Ancestors(id)) = files[id].session.depth + 1
    /\ \A other \in Sessions : files[other] # NoFile =>
         CommonAncestor(id, other) = CommonAncestor(other, id)
    /\ \A child \in FindChildren(id) : CommonAncestor(id, child) = id

SessionsSound ==
  /\ \A log \in Logged : Nested(log) /\ Conversational(log)
  /\ \A id \in Sessions : files[id] # NoFile => SharesHistory(id) /\ Placed(id)
=============================================================================
