-------------------------- MODULE ExperienceIndex --------------------------
(***************************************************************************)
(* The experience store of the outer loop: four files for each run, and    *)
(* two shared files, the index of the runs and the history of tuning, that *)
(* are read, extended in memory and written as a whole.                    *)
(* fs.promises.writeFile empties the file, awaits, and writes.             *)
(***************************************************************************)
EXTENDS Integers, Sequences, SequencesExt, FiniteSetsExt

CONSTANTS Runs,       \* ids of runs
          Recorders,  \* processes of the host that record
          MaxRecordings, \* bound: calls
          MaxDeaths   \* bound: deaths of the process

\* A run has a name.
ASSUME RunsHaveNames == "" \notin Runs

VARIABLES disk,     \* file -> what it holds
          recorder, \* what each caller is in the midst of
          recorded, \* the last call of each run to return, and the decisions logged
          begun,    \* calls, each with a number of its own
          deaths,
          unsafe    \* shared files that two callers, or a death, got at

experienceVars == <<disk, recorder, recorded, begun, deaths, unsafe>>

Index == <<"index", "">>
History == <<"history", "">>
Shared == {Index, History}
IndexFirst(run) == \* mutant of FilesOf
  <<Index, <<"config", run>>, <<"scores", run>>, <<"summary", run>>, <<"traces", run>>>>
FilesOf(run) ==
  <<<<"config", run>>, <<"scores", run>>, <<"summary", run>>, <<"traces", run>>, Index>>
Files == Shared \cup {<<kind, run>> : kind \in {"config", "scores", "summary", "traces"}, run \in Runs}

\* A file of a run holds the number of the call that wrote it; a shared file
\* holds entries.
Holding(state, by, entries) == [state |-> state, by |-> by, entries |-> entries]
Absent == Holding("absent", 0, <<>>)
Broken == Holding("broken", 0, <<>>)

AtRestRecorder == [run |-> "", by |-> 0, todo |-> <<>>, read |-> FALSE, opened |-> FALSE, entries |-> <<>>]
ExperienceInit ==
  /\ disk = [f \in Files |-> Absent]
  /\ recorder = [u \in Recorders |-> AtRestRecorder]
  /\ recorded = [last |-> [run \in Runs |-> 0], decisions |-> 0]
  /\ begun = 0 /\ deaths = 0 /\ unsafe = {}

StartRecording(u, run, todo) ==
  /\ recorder[u] = AtRestRecorder
  /\ begun < MaxRecordings /\ begun' = begun + 1
  /\ recorder' = [recorder EXCEPT ![u] =
       [AtRestRecorder EXCEPT !.run = run, !.by = begun + 1, !.todo = todo]]
  /\ UNCHANGED <<disk, recorded, deaths, unsafe>>
\* A run is recorded by its execution, so never twice at once.
RecordRun(u, run) ==
  /\ \A other \in Recorders : recorder[other].run # run
  /\ StartRecording(u, run, FilesOf(run))
LogTuningDecision(u) == StartRecording(u, "", <<History>>)

\* appendToIndex and logTuningDecision: what cannot be read counts as empty.
ReadAs(f) == IF disk[f].state = "whole" THEN disk[f].entries ELSE <<>>
At(entries, run) == {i \in DOMAIN entries : entries[i].run = run}
Extended(entries, run, by) ==
  LET at == At(entries, run)
  IN  IF run = "" \/ at = {} THEN Append(entries, [run |-> run, by |-> by])
      ELSE [entries EXCEPT ![Min(at)].by = by]
ReadShared(u) ==
  LET call == recorder[u]
      f == Head(call.todo)
  IN  /\ call.todo # <<>> /\ f \in Shared /\ ~call.read
      /\ recorder' = [recorder EXCEPT ![u].read = TRUE,
                        ![u].entries = Extended(ReadAs(f), call.run, call.by)]
      /\ unsafe' = IF \E other \in Recorders :
                        recorder[other].read /\ Head(recorder[other].todo) = f
                   THEN unsafe \cup {f} ELSE unsafe
      /\ UNCHANGED <<disk, recorded, begun, deaths>>

OpenFile(u) ==
  LET call == recorder[u]
  IN  /\ call.todo # <<>> /\ ~call.opened
      /\ Head(call.todo) \in Shared => call.read
      /\ disk' = [disk EXCEPT ![Head(call.todo)] = Broken]
      /\ recorder' = [recorder EXCEPT ![u].opened = TRUE]
      /\ UNCHANGED <<recorded, begun, deaths, unsafe>>

\* What another has written since this one emptied the file may be longer:
\* its end then stays behind the new text.
WriteFile(u, longer) ==
  LET call == recorder[u]
      f == Head(call.todo)
      rest == Tail(call.todo)
  IN  /\ call.opened
      /\ longer => disk[f].state = "whole"
      /\ disk' = [disk EXCEPT ![f] =
                    IF longer THEN Broken ELSE Holding("whole", call.by, call.entries)]
      /\ recorder' = [recorder EXCEPT ![u] = IF rest = <<>> THEN AtRestRecorder
                        ELSE [@ EXCEPT !.todo = rest, !.opened = FALSE, !.read = FALSE]]
      /\ recorded' = IF rest # <<>> THEN recorded
                     ELSE IF f = History THEN [recorded EXCEPT !.decisions = @ + 1]
                     ELSE [recorded EXCEPT !.last[call.run] = call.by]
      /\ UNCHANGED <<begun, deaths, unsafe>>

\* The process dies: a file that was open keeps what it has.
ProcessDies ==
  /\ deaths < MaxDeaths /\ deaths' = deaths + 1
  /\ recorder' = [u \in Recorders |-> AtRestRecorder]
  /\ unsafe' = unsafe \cup {f \in Shared : disk[f].state = "broken"}
  /\ UNCHANGED <<disk, recorded, begun>>

ExperienceNext ==
  \/ \E u \in Recorders : \/ \E run \in Runs : RecordRun(u, run)
                          \/ LogTuningDecision(u)
                          \/ ReadShared(u) \/ OpenFile(u)
                          \/ \E longer \in BOOLEAN : WriteFile(u, longer)
  \/ ProcessDies

ExperienceSpec == ExperienceInit /\ [][ExperienceNext]_experienceVars
-----------------------------------------------------------------------------
\* getRun: the first entry of the index, or what the scores say.
EntryOf(run) ==
  LET at == At(ReadAs(Index), run)
  IN  IF at = {} THEN disk[<<"scores", run>>].by ELSE ReadAs(Index)[Min(at)].by
GetRun(run) ==
  [scores |-> disk[<<"scores", run>>], traces |-> disk[<<"traces", run>>], entry |-> EntryOf(run)]
Untouched(run) == \A u \in Recorders : recorder[u].run # run
\* A call for the run died or is under way.
Unfinished(run) == \E f \in Files : f[2] = run /\ disk[f].by # recorded.last[run]

\* What was recorded is found again, even after the index is lost; the index
\* has every run once, and every decision is in the history, unless two callers
\* wrote one of them at once or a death broke it.
FoundAgain ==
  \A run \in Runs : Untouched(run) /\ ~Unfinished(run) /\ recorded.last[run] > 0 =>
    /\ GetRun(run).scores = Holding("whole", recorded.last[run], <<>>)
    /\ GetRun(run).traces = Holding("whole", recorded.last[run], <<>>)
    /\ Index \notin unsafe => GetRun(run).entry = recorded.last[run]
Intact(f) == f \notin unsafe /\ disk[f].state # "broken"
RunsListed ==
  Intact(Index) =>
    /\ \A i, j \in DOMAIN ReadAs(Index) : i # j => ReadAs(Index)[i].run # ReadAs(Index)[j].run
    /\ {e.run : e \in ToSet(ReadAs(Index))} = {run \in Runs : recorded.last[run] > 0}
DecisionsListed == Intact(History) => Len(ReadAs(History)) = recorded.decisions

\* The index names a run only when its files are written: what an entry says
\* is in the files or was overwritten by a later call.
FilesBeforeIndex ==
  \A e \in ToSet(ReadAs(Index)) : \A kind \in {"config", "scores", "summary", "traces"} :
    LET file == disk[<<kind, e.run>>]
    IN  file.state # "absent" /\ (file.state = "whole" => file.by >= e.by)

ExperienceHolds == FoundAgain /\ RunsListed /\ DecisionsListed /\ FilesBeforeIndex
=============================================================================
