------------------------- MODULE CrashRecoveryProofs -------------------------
(***************************************************************************)
(* Proofs about CrashRecovery for every set of actions and any number of   *)
(* crashes and reviews.  What recovery promises is not inductive: that a   *)
(* destructive action is not repeated needs to know, wherever the action   *)
(* may still run without a human (Entitled), that no effect was spent on   *)
(* it yet; that recovery escalates needs to know what an analysis half way *)
(* through has noted or has still to look at (Noted, Pending).             *)
(* Then about ExperienceIndex for any runs, recorders, calls and deaths:   *)
(* who has a file open decides what may be in it (ExperienceInv).          *)
(***************************************************************************)
EXTENDS CrashRecovery, ExperienceIndex, TLAPS

InProgress == {"PROPOSED", "AUTHORIZED", "STARTED"}

\* Who is at work on an action is the executor, on an unfinished entry, and a
\* tool is only run after its start was logged.
Busy ==
  \A a \in Actions : doing[a] \notin {"propose", "rest"} =>
    /\ mode = "working" /\ Known(a) /\ journal[a].status \in InProgress
    /\ doing[a] \in {"run", "report"} => journal[a].status = "STARTED"

\* A destructive action that may still run without a human has spent no more
\* effects than humans approved.
Entitled ==
  \A a \in Actions :
    /\ ~Known(a) => effects[a] = 0
    /\ Known(a) /\ Destructive(a) =>
         /\ journal[a].status \in {"PROPOSED", "AUTHORIZED"}
              => effects[a] <= approved[a]
         /\ mode = "working" /\ doing[a] \in {"authorize", "start", "run"}
              => effects[a] <= approved[a]
         /\ mode = "decided" => journal[a].status # "STARTED"

\* An analysis has yet to look at what is unfinished and destructive, and has
\* noted, or will, what is unknown.
Pending ==
  mode = "analyzing" =>
    /\ todo \subseteq Interrupted
    /\ \A a \in Actions \ todo : Known(a) =>
         /\ journal[a].status \in InProgress => ~Destructive(a)
         /\ journal[a].status = "UNKNOWN" => found.destructive \/ found.unknown

IInv == /\ TypeOK /\ Busy /\ Entitled /\ Pending
        /\ NoSilentRepeat /\ EscalatedUntilReviewed
-----------------------------------------------------------------------------
LEMMA StatusTypes ==
  ASSUME NEW e \in JournalEntry, NEW s \in ActionExecutionStatus
  PROVE  /\ [e EXCEPT !.status = s] \in JournalEntry
         /\ [e EXCEPT !.status = s].status = s
         /\ [e EXCEPT !.status = s].isDestructive = e.isDestructive
BY DEF JournalEntry

\* What a step that logs a status for one known action does to the journal.
LEMMA LoggedEntry ==
  ASSUME TypeOK, NEW a \in Actions, NEW s \in ActionExecutionStatus,
         Known(a), Logged(a, s)
  PROVE  /\ journal' \in [Actions -> JournalEntry \cup {NoEntry}]
         /\ journal'[a] # NoEntry /\ journal'[a] \in JournalEntry
         /\ journal'[a].status = s
         /\ journal'[a].isDestructive = journal[a].isDestructive
         /\ \A b \in Actions \ {a} : journal'[b] = journal[b]
<1>1. journal[a] \in JournalEntry
  BY DEF TypeOK, Known
<1>2. journal' = [journal EXCEPT ![a] = [journal[a] EXCEPT !.status = s]]
  BY DEF Logged
<1>3. journal'[a] = [journal[a] EXCEPT !.status = s]
  BY <1>2 DEF TypeOK
<1>4. journal'[a] \in JournalEntry /\ journal'[a].status = s
      /\ journal'[a].isDestructive = journal[a].isDestructive
  BY <1>1, <1>3, StatusTypes
<1>5. QED
  BY <1>2, <1>4, RecoveryConstants DEF TypeOK

LEMMA InitHolds == Init => IInv
BY RecoveryConstants
   DEF Init, IInv, TypeOK, Busy, Entitled, Pending, NoSilentRepeat,
       EscalatedUntilReviewed, Known, Destructive

\* The executor's steps.
LEMMA ExecuteKeeps ==
  ASSUME IInv, NEW a \in Actions, Execute(a)
  PROVE  IInv'
<1> USE DEF Known, Destructive, Goes, Working, Unrecovered
<1>0. TypeOK /\ Busy /\ Entitled /\ Pending /\ NoSilentRepeat
  BY DEF IInv
<1>1. ASSUME NEW f \in BOOLEAN, LogProposal(a, f)
      PROVE  IInv'
  <2> DEFINE e == [status |-> "PROPOSED", isDestructive |-> f]
  <2>1. e \in JournalEntry /\ e.status = "PROPOSED" /\ e # NoEntry
    BY RecoveryConstants DEF JournalEntry, ActionExecutionStatus
  <2>2. /\ journal' = [journal EXCEPT ![a] = e]
        /\ doing' = [doing EXCEPT ![a] = "authorize"]
        /\ mode = "working" /\ mode' = "working" /\ doing[a] = "propose"
        /\ UNCHANGED <<todo, found, decision, effects, approved, crashes, reviews>>
    BY <1>1 DEF LogProposal
  <2> HIDE DEF e
  <2>3. effects[a] = 0 /\ effects[a] \in Nat /\ approved[a] \in Nat
    BY <1>0, <2>2 DEF TypeOK, Entitled
  <2>4. TypeOK'
    BY <1>0, <2>1, <2>2 DEF TypeOK
  <2>5. Busy'
    BY <1>0, <2>1, <2>2 DEF TypeOK, Busy, InProgress
  <2>6. Entitled'
    BY <1>0, <2>1, <2>2, <2>3 DEF TypeOK, Entitled
  <2>7. NoSilentRepeat'
    BY <1>0, <2>1, <2>2, <2>3 DEF TypeOK, NoSilentRepeat
  <2> QED
    BY <2>2, <2>4, <2>5, <2>6, <2>7 DEF IInv, Pending, EscalatedUntilReviewed
<1>2. ASSUME NEW s \in ActionExecutionStatus, NEW at, NEW next,
             mode = "working", mode' = "working", doing[a] = at, Known(a),
             Logged(a, s), doing' = [doing EXCEPT ![a] = next],
             \/ at = "authorize" /\ s = "AUTHORIZED" /\ next = "start"
             \/ at = "start" /\ s = "STARTED" /\ next = "run"
             \/ at \in {"report", "run"} /\ next = "rest"
                /\ s \in {"COMPLETED", "FAILED", "UNKNOWN"},
             UNCHANGED <<todo, found, decision, effects, approved, crashes, reviews>>
      PROVE  IInv'
  <2>1. /\ journal' \in [Actions -> JournalEntry \cup {NoEntry}]
        /\ journal'[a] # NoEntry /\ journal'[a].status = s
        /\ journal'[a].isDestructive = journal[a].isDestructive
        /\ \A b \in Actions \ {a} : journal'[b] = journal[b]
    BY <1>0, <1>2, LoggedEntry
  <2>2. TypeOK'
    BY <1>0, <1>2, <2>1 DEF TypeOK
  <2>3. Busy'
    BY <1>0, <1>2, <2>1 DEF TypeOK, Busy, InProgress
  <2>4. Entitled'
    BY <1>0, <1>2, <2>1 DEF TypeOK, Entitled
  <2>5. NoSilentRepeat'
    BY <1>0, <1>2, <2>1 DEF TypeOK, NoSilentRepeat
  <2> QED
    BY <1>2, <2>2, <2>3, <2>4, <2>5 DEF IInv, Pending, EscalatedUntilReviewed
<1>3. CASE LogAuthorization(a)
  <2>1. Known(a)
    BY <1>0, <1>3 DEF TypeOK, LogAuthorization
  <2> QED
    BY <1>2, <1>3, <2>1 DEF LogAuthorization, ActionExecutionStatus
<1>4. CASE LogStart(a)
  <2>1. Known(a)
    BY <1>0, <1>4 DEF TypeOK, LogStart
  <2> QED
    BY <1>2, <1>4, <2>1 DEF LogStart, ActionExecutionStatus
<1>5. CASE RunTool(a)
  <2>1. /\ Known(a) /\ mode = "working" /\ doing[a] = "run"
        /\ effects[a] \in Nat /\ approved[a] \in Nat
        /\ Destructive(a) => effects[a] <= approved[a]
        /\ journal[a].status = "STARTED"
    BY <1>0, <1>5 DEF RunTool, TypeOK, Entitled, Busy
  <2>2. /\ effects' \in [Actions -> Nat] /\ effects'[a] = effects[a] + 1
        /\ \A b \in Actions \ {a} : effects'[b] = effects[b]
        /\ doing' = [doing EXCEPT ![a] = "report"]
        /\ UNCHANGED <<journal, mode, todo, found, decision, approved, crashes, reviews>>
    BY <1>0, <1>5 DEF RunTool, TypeOK
  <2>4. TypeOK' /\ Busy'
    BY <1>0, <2>1, <2>2 DEF TypeOK, Busy
  <2>5. Entitled' /\ NoSilentRepeat'
    BY <1>0, <2>1, <2>2 DEF TypeOK, Entitled, NoSilentRepeat
  <2> QED
    BY <2>1, <2>2, <2>4, <2>5 DEF IInv, Pending, EscalatedUntilReviewed
<1>6. ASSUME NEW s \in {"COMPLETED", "FAILED", "UNKNOWN"}, Report(a, s)
      PROVE  IInv'
  <2>1. Known(a)
    BY <1>0, <1>6 DEF TypeOK, Report
  <2> QED
    BY <1>2, <1>6, <2>1 DEF Report, ActionExecutionStatus
<1>7. QED
  BY <1>1, <1>3, <1>4, <1>5, <1>6 DEF Execute
-----------------------------------------------------------------------------
LEMMA CrashKeeps ==
  ASSUME IInv, Crash
  PROVE  IInv'
BY RecoveryConstants
   DEF IInv, Crash, TypeOK, Busy, Entitled, Pending, NoSilentRepeat,
       EscalatedUntilReviewed, Known, Destructive

\* analyzeCrash: its beginning, one entry, the decision; then the caller.
LEMMA RecoverKeeps ==
  ASSUME IInv, Recover
  PROVE  IInv'
<1> USE DEF Known, Destructive
<1>0. TypeOK /\ Busy /\ Entitled /\ Pending /\ NoSilentRepeat /\ EscalatedUntilReviewed
  BY DEF IInv
<1>1. CASE AnalyzeCrash
  <2>1. /\ mode = "crashed" /\ mode' = "analyzing" /\ todo' = Interrupted
        /\ found' = [destructive |-> FALSE, unknown |-> FALSE]
        /\ UNCHANGED <<journal, doing, decision, effects, approved, crashes, reviews>>
    BY <1>1 DEF AnalyzeCrash
  <2>2. Interrupted' = Interrupted
        /\ Interrupted \subseteq {a \in Actions : Known(a)}
    BY <2>1 DEF Interrupted
  <2>3. TypeOK'
    BY <1>0, <2>1, <2>2 DEF TypeOK
  <2>4. Pending'
    BY <2>1, <2>2 DEF Pending, Interrupted, InterruptedStatuses, InProgress
  <2> QED
    BY <1>0, <2>1, <2>3, <2>4
       DEF IInv, Busy, Entitled, NoSilentRepeat, EscalatedUntilReviewed
<1>2. ASSUME NEW a \in Actions, Classify(a)
      PROVE  IInv'
  <2>1. /\ mode = "analyzing" /\ mode' = "analyzing" /\ a \in todo
        /\ todo' = todo \ {a} /\ Known(a) /\ journal[a] \in JournalEntry
        /\ journal[a].status \in InterruptedStatuses
        /\ UNCHANGED <<doing, decision, effects, approved, crashes, reviews>>
    BY <1>0, <1>2 DEF Classify, TypeOK, Pending, Interrupted
  <2>2. CASE journal[a].status # "UNKNOWN" /\ Destructive(a)
    <3>1. Logged(a, "UNKNOWN") /\ found' = [found EXCEPT !.destructive = TRUE]
      BY <1>2, <2>2 DEF Classify, MarkUnknown
    <3>2. /\ journal' \in [Actions -> JournalEntry \cup {NoEntry}]
          /\ journal'[a] # NoEntry /\ journal'[a].status = "UNKNOWN"
          /\ journal'[a].isDestructive = journal[a].isDestructive
          /\ \A b \in Actions \ {a} : journal'[b] = journal[b]
      BY <1>0, <2>1, <3>1, LoggedEntry DEF ActionExecutionStatus
    <3>3. TypeOK' /\ found'.destructive = TRUE
      BY <1>0, <2>1, <3>1, <3>2 DEF TypeOK
    <3>4. Busy'
      BY <1>0, <2>1, <3>2 DEF Busy, TypeOK
    <3>5. Entitled' /\ NoSilentRepeat'
      BY <1>0, <2>1, <3>2 DEF Entitled, NoSilentRepeat, TypeOK
    <3>6. Pending'
      BY <1>0, <2>1, <3>2, <3>3
         DEF Pending, Interrupted, InterruptedStatuses, InProgress
    <3> QED
      BY <2>1, <3>3, <3>4, <3>5, <3>6 DEF IInv, EscalatedUntilReviewed
  <2>3. CASE ~(journal[a].status # "UNKNOWN" /\ Destructive(a))
    <3> DEFINE noted == [destructive |-> found.destructive \/ Destructive(a),
                         unknown |-> TRUE]
    <3>0. found \in [destructive: BOOLEAN, unknown: BOOLEAN]
          /\ noted \in [destructive: BOOLEAN, unknown: BOOLEAN] /\ noted.unknown = TRUE
      BY <1>0, <2>1 DEF TypeOK, JournalEntry
    <3>1. journal' = journal /\ found' = IF journal[a].status = "UNKNOWN" THEN noted ELSE found
      BY <1>2, <2>3 DEF Classify
    <3> HIDE DEF noted
    <3>2. /\ journal' = journal /\ found' \in [destructive: BOOLEAN, unknown: BOOLEAN]
          /\ journal[a].status = "UNKNOWN" => found'.unknown = TRUE
          /\ found.destructive \/ found.unknown => found'.destructive \/ found'.unknown
      BY <3>0, <3>1
    <3>3. TypeOK'
      BY <1>0, <2>1, <3>2 DEF TypeOK
    <3>4. Pending'
      BY <1>0, <2>1, <2>3, <3>2
         DEF Pending, Interrupted, InProgress
    <3> QED
      BY <1>0, <2>1, <3>2, <3>3, <3>4
         DEF IInv, Busy, Entitled, NoSilentRepeat, EscalatedUntilReviewed
  <2> QED BY <2>2, <2>3
<1>3. CASE Decide
  <2>1. /\ mode = "analyzing" /\ todo = {} /\ mode' = "decided"
        /\ decision' \in {"ESCALATE", "RETRY_ACTION", "RESUME"}
        /\ decision' # "ESCALATE" => ~found.destructive /\ ~found.unknown
        /\ UNCHANGED <<journal, doing, todo, found, effects, approved, crashes, reviews>>
    BY <1>3 DEF Decide
  <2>2. \A a \in Actions : Known(a) =>
           /\ journal[a].status \in InProgress => ~Destructive(a)
           /\ journal[a].status = "UNKNOWN" => decision' = "ESCALATE"
    BY <1>0, <2>1 DEF Pending
  <2>3. TypeOK'
    BY <1>0, <2>1 DEF TypeOK
  <2>4. Entitled'
    BY <1>0, <2>1, <2>2 DEF Entitled, InProgress
  <2>5. EscalatedUntilReviewed'
    BY <2>1, <2>2 DEF EscalatedUntilReviewed, InProgress
  <2> QED
    BY <1>0, <2>1, <2>3, <2>4, <2>5 DEF IInv, Busy, Pending, NoSilentRepeat
<1>4. CASE Proceed
  <2>1. /\ mode = "decided" /\ mode' = "working"
        /\ doing' = [a \in Actions |-> IF a \in Interrupted
                       THEN StepAfter(journal[a].status) ELSE doing[a]]
        /\ UNCHANGED <<journal, todo, found, decision, effects, approved, crashes, reviews>>
    BY <1>4 DEF Proceed
  <2>2. \A a \in Interrupted :
           /\ a \in Actions /\ Known(a) /\ journal[a].status \in InProgress
           /\ doing'[a] \in {"authorize", "start"}
    BY <1>0, <1>4, <2>1
       DEF Proceed, EscalatedUntilReviewed, Interrupted, InterruptedStatuses,
           InProgress, StepAfter
  <2>3. \A a \in Actions \ Interrupted : doing'[a] = doing[a] /\ doing[a] \in {"propose", "rest"}
    BY <1>0, <2>1 DEF Busy, TypeOK
  <2>4. TypeOK'
    BY <1>0, <2>1, <2>2, <2>3 DEF TypeOK, Interrupted
  <2>5. Busy'
    BY <2>1, <2>2, <2>3 DEF Busy
  <2>6. Entitled'
    <3>1. \A a \in Interrupted : Destructive(a) => effects[a] <= approved[a]
      BY <1>0, <2>1, <2>2 DEF Entitled, InProgress
    <3> QED
      BY <1>0, <2>1, <2>3, <3>1 DEF Entitled
  <2> QED
    BY <1>0, <2>1, <2>4, <2>5, <2>6
       DEF IInv, Pending, NoSilentRepeat, EscalatedUntilReviewed
<1>5. QED
  BY <1>1, <1>2, <1>3, <1>4 DEF Recover

LEMMA ReviewKeeps ==
  ASSUME IInv, NEW a \in Actions, NEW verdict \in {"COMPLETED", "FAILED", "AUTHORIZED"},
         Review(a, verdict)
  PROVE  IInv'
<1> USE DEF Known, Destructive
<1>0. TypeOK /\ Busy /\ Entitled /\ Pending /\ NoSilentRepeat
  BY DEF IInv
<1>1. /\ mode = "decided" /\ decision = "ESCALATE" /\ reviews < MaxReviews
      /\ reviews' = reviews + 1 /\ Known(a) /\ Logged(a, verdict)
      /\ approved' = [approved EXCEPT ![a] =
                        IF verdict = "AUTHORIZED" THEN @ + 1 ELSE @]
      /\ UNCHANGED <<doing, mode, todo, found, decision, effects, crashes>>
  BY DEF Review, Interrupted
<1>2. /\ journal' \in [Actions -> JournalEntry \cup {NoEntry}]
      /\ journal'[a] # NoEntry /\ journal'[a].status = verdict
      /\ journal'[a].isDestructive = journal[a].isDestructive
      /\ \A b \in Actions \ {a} : journal'[b] = journal[b]
  BY <1>0, <1>1, LoggedEntry DEF ActionExecutionStatus
<1>3. /\ effects[a] \in Nat /\ approved[a] \in Nat
      /\ approved' \in [Actions -> Nat]
      /\ verdict = "AUTHORIZED" => approved'[a] = approved[a] + 1
      /\ verdict # "AUTHORIZED" => approved'[a] = approved[a]
      /\ \A b \in Actions \ {a} : approved'[b] = approved[b]
  BY <1>0, <1>1 DEF TypeOK
<1>4. TypeOK'
  BY <1>0, <1>1, <1>2, <1>3, RecoveryConstants DEF TypeOK
<1>5. Busy'
  BY <1>0, <1>1 DEF Busy
<1>6. NoSilentRepeat'
  BY <1>0, <1>1, <1>2, <1>3 DEF NoSilentRepeat
<1>7. Entitled'
  BY <1>0, <1>1, <1>2, <1>3 DEF Entitled, NoSilentRepeat
<1>8. QED
  BY <1>1, <1>4, <1>5, <1>6, <1>7 DEF IInv, Pending, EscalatedUntilReviewed
-----------------------------------------------------------------------------
\* The inductive invariant of executor, recovery and human.
THEOREM Invariance == Spec => []IInv
<1>1. IInv /\ [Next]_vars => IInv'
  <2>1. IInv /\ UNCHANGED vars => IInv'
    BY DEF vars, IInv, TypeOK, Busy, Entitled, Pending, NoSilentRepeat,
           EscalatedUntilReviewed, Known, Destructive, Interrupted
  <2>2. QED
    BY <2>1, ExecuteKeeps, CrashKeeps, RecoverKeeps, ReviewKeeps
       DEF Next, HumanReviews
<1>2. QED
  BY <1>1, InitHolds, PTL DEF Spec

\* Entries, steps and counters keep their types: an action is proposed anew
\* exactly as long as the journal has no entry of it.
THEOREM TypeCorrect == Spec => []TypeOK
<1>1. IInv => TypeOK
  BY DEF IInv
<1>2. QED
  BY <1>1, Invariance, PTL

\* A destructive action takes effect once, and once more for every retry a
\* human approved, however often executor and recovery crash.
THEOREM RepeatsApproved == Spec => []NoSilentRepeat
<1>1. IInv => NoSilentRepeat
  BY DEF IInv
<1>2. QED
  BY <1>1, Invariance, PTL

\* analyzeCrash escalates as long as a destructive action is unfinished or an
\* outcome unknown, also when an earlier analysis crashed half way.
THEOREM RecoveryEscalates == Spec => []EscalatedUntilReviewed
<1>1. IInv => EscalatedUntilReviewed
  BY DEF IInv
<1>2. QED
  BY <1>1, Invariance, PTL

\* No step of executor, recovery or human touches an entry that is completed
\* or failed, or runs its tool again.
THEOREM FinishedStays == Spec => FinishedIsFinal
<1> DEFINE Final(a) == Known(a) /\ journal[a].status \in {"COMPLETED", "FAILED"}
           Kept(a) == journal'[a] = journal[a] /\ effects'[a] = effects[a]
<1>1. IInv /\ [Next]_vars => \A a \in Actions : Final(a) => Kept(a)
  <2> SUFFICES ASSUME IInv, [Next]_vars, NEW a \in Actions, Final(a)
               PROVE  Kept(a)
    OBVIOUS
  <2>1. ASSUME NEW b \in Actions, Execute(b) PROVE Kept(a)
    <3>1. a # b
      BY <2>1 DEF Execute, LogProposal, LogAuthorization, LogStart, RunTool, Report,
                  Working, IInv, Busy, TypeOK, InProgress, Known
    <3> QED
      BY <2>1, <3>1 DEF Execute, LogProposal, LogAuthorization, LogStart, RunTool,
                        Report, Logged, Unrecovered, IInv, TypeOK
  <2>2. ASSUME NEW b \in Actions, Classify(b) PROVE Kept(a)
    <3>1. a # b
      BY <2>2 DEF Classify, IInv, Pending, Interrupted, InterruptedStatuses
    <3> QED
      BY <2>2, <3>1 DEF Classify, MarkUnknown, Logged, IInv, TypeOK
  <2>3. ASSUME NEW b \in Actions, NEW verdict, Review(b, verdict) PROVE Kept(a)
    BY <2>3 DEF Review, Logged, IInv, TypeOK
  <2>4. CASE Crash \/ AnalyzeCrash \/ Decide \/ Proceed \/ UNCHANGED vars
    BY <2>4 DEF Crash, AnalyzeCrash, Decide, Proceed, vars
  <2> QED
    BY <2>1, <2>2, <2>3, <2>4 DEF Next, Recover, HumanReviews
<1>2. QED
  BY <1>1, Invariance, PTL DEF Spec, FinishedIsFinal
-----------------------------------------------------------------------------
\* The experience store
Kinds4 == {"config", "scores", "summary", "traces"}
RunFile(kind, run) == <<kind, run>>
Entry == [run : Runs \cup {""}, by : Nat]
FileRow == [state : {"absent", "broken", "whole"}, by : Nat, entries : Seq(Entry)]

\* What is left to write of a run.
T2(run) == <<<<"scores", run>>, <<"summary", run>>, <<"traces", run>>, Index>>
T3(run) == <<<<"summary", run>>, <<"traces", run>>, Index>>
T4(run) == <<<<"traces", run>>, Index>>
ToDo(run) ==
  IF run = "" THEN {<<History>>} ELSE {FilesOf(run), T2(run), T3(run), T4(run), <<Index>>}
Call == [run : Runs \cup {""}, by : Nat \ {0}, todo : UNION {ToDo(run) : run \in Runs \cup {""}},
         read : BOOLEAN, opened : BOOLEAN, entries : Seq(Entry)]
Active(u) == recorder[u] # AtRestRecorder
Next1(u) == Head(recorder[u].todo)

ExperienceTypes ==
  /\ disk \in [Files -> FileRow]
  /\ DOMAIN recorder = Recorders /\ recorder = [u \in Recorders |-> recorder[u]]
  /\ \A u \in Recorders : Active(u) => recorder[u] \in Call /\ recorder[u].todo \in ToDo(recorder[u].run)
  /\ recorded \in [last : [Runs -> Nat], decisions : Nat]
  /\ begun \in Nat /\ unsafe \subseteq Shared

\* A caller has read just the shared file it is about to write.
CallOrdered(u) ==
  /\ recorder[u].by <= begun
  /\ recorder[u].read => Next1(u) \in Shared
  /\ ~recorder[u].read => recorder[u].entries = <<>>
  /\ recorder[u].opened /\ Next1(u) \in Shared => recorder[u].read

\* A run has one caller, whose files hold what it wrote, and a shared file that
\* is safe has one that has read it; what a caller has open is broken.
OneCaller ==
  \A u, v \in Recorders : Active(u) /\ Active(v) /\ recorder[u].run = recorder[v].run /\ recorder[u].run # "" => u = v
OneReader ==
  \A u, v \in Recorders :
    Active(u) /\ Active(v) /\ recorder[u].read /\ recorder[v].read /\ Next1(u) = Next1(v) /\ Next1(u) \notin unsafe
      => u = v
OpenIsBroken ==
  \A u \in Recorders : Active(u) /\ recorder[u].opened /\ Next1(u) \notin unsafe => disk[Next1(u)].state = "broken"
BrokenIsOpen ==
  \A f \in Shared \ unsafe : disk[f].state = "broken" =>
    \E u \in Recorders : Active(u) /\ recorder[u].opened /\ Next1(u) = f
OneEach == OneCaller /\ OneReader /\ OpenIsBroken /\ BrokenIsOpen
LeftOf(u) == {recorder[u].todo[i] : i \in DOMAIN recorder[u].todo}
RunFilesFine ==
  \A run \in Runs, kind \in Kinds4 : LET f == RunFile(kind, run) IN
    /\ disk[f].entries = <<>> /\ (disk[f].by > 0 => disk[f].state = "whole") /\ disk[f].by <= begun
    /\ \A u \in Recorders : Active(u) /\ recorder[u].run = run =>
         /\ disk[f].by <= recorder[u].by
         /\ f \notin LeftOf(u) => disk[f].state = "whole" /\ disk[f].by = recorder[u].by

\* What the shared files hold while they are safe, or their caller will write.
OnceEach(entries) == \A i, j \in DOMAIN entries : i # j => entries[i].run # entries[j].run
Matches(entries, last) ==
  /\ OnceEach(entries)
  /\ \A i \in DOMAIN entries : entries[i].run \in Runs /\ entries[i].by > 0 /\ last[entries[i].run] = entries[i].by
  /\ \A run \in Runs : last[run] > 0 => \E i \in DOMAIN entries : entries[i].run = run
SharedMatch ==
  /\ Intact(Index) => Matches(ReadAs(Index), recorded.last)
  /\ Intact(History) => Len(ReadAs(History)) = recorded.decisions
  /\ \A u \in Recorders : Active(u) /\ recorder[u].read /\ Next1(u) \notin unsafe =>
       /\ Next1(u) = Index =>
            Matches(recorder[u].entries, [recorded.last EXCEPT ![recorder[u].run] = recorder[u].by])
       /\ Next1(u) = History => Len(recorder[u].entries) = recorded.decisions + 1

\* An entry comes after the files of its run.
EntryBacked(e) ==
  /\ e.run \in Runs /\ e.by <= begun
  /\ \A kind \in Kinds4 : LET file == disk[RunFile(kind, e.run)] IN
       file.state # "absent" /\ (file.state = "whole" => file.by >= e.by)
  /\ \A u \in Recorders : Active(u) /\ recorder[u].run = e.run => e.by <= recorder[u].by
AllBacked(entries) == OnceEach(entries) /\ \A i \in DOMAIN entries : EntryBacked(entries[i])
IndexBacked ==
  /\ disk[Index].state = "whole" => AllBacked(disk[Index].entries)
  /\ \A u \in Recorders : Active(u) /\ recorder[u].read /\ Next1(u) = Index => AllBacked(recorder[u].entries)

ExperienceInv ==
  /\ ExperienceTypes /\ \A u \in Recorders : Active(u) => CallOrdered(u)
  /\ OneEach /\ RunFilesFine /\ SharedMatch /\ IndexBacked
LEMMA FilesAre ==
  /\ Shared = {Index, History} /\ Shared \subseteq Files /\ Index # History
  /\ \A kind \in Kinds4, run \in Runs : RunFile(kind, run) \in Files \ Shared
  /\ \A kind, other, run, one : RunFile(kind, run) = RunFile(other, one) => kind = other /\ run = one
  /\ \A f \in Files \ Shared : \E kind \in Kinds4, run \in Runs : f = RunFile(kind, run)
<1>1. Files = Shared \cup {RunFile(kind, run) : kind \in Kinds4, run \in Runs}
  BY DEF Files, RunFile, Kinds4
<1>2. \A kind, other, run, one : RunFile(kind, run) = RunFile(other, one) => kind = other /\ run = one
  BY DEF RunFile
<1>3. Index # History /\ Shared = {Index, History}
  BY DEF Index, History, Shared
<1>4. \A kind \in Kinds4 : \A run : RunFile(kind, run) \notin Shared
  BY DEF Shared, Index, History, RunFile, Kinds4
<1> QED
  BY <1>1, <1>2, <1>3, <1>4
LEMMA RunFileOf ==
  ASSUME NEW kind, NEW other, NEW run, NEW one, RunFile(kind, run) = RunFile(other, one)
  PROVE  kind = other /\ run = one
BY DEF RunFile

\* The files that a sequence of them holds.
Held(files) == {files[i] : i \in DOMAIN files}
LEMMA OneToDo ==
  ASSUME NEW f, NEW files, files = <<f>>
  PROVE  files # <<>> /\ Head(files) = f /\ Tail(files) = <<>> /\ Held(files) = {f}
<1>1. files # <<>> /\ Head(files) = f /\ Tail(files) = <<>> /\ DOMAIN files = 1..1 /\ files[1] = f
  OBVIOUS
<1> QED
  BY <1>1 DEF Held
LEMMA TwoToDo ==
  ASSUME NEW run, NEW files, files = T4(run)
  PROVE  /\ files # <<>> /\ Head(files) = RunFile("traces", run) /\ Tail(files) = <<Index>>
         /\ Held(files) = {RunFile("traces", run), Index}
<1>1. PICK t, i :
          /\ t = RunFile("traces", run) /\ i = Index
  OBVIOUS
<1>2. files = <<t, i>> /\ <<Index>> = <<i>>
  BY <1>1 DEF T4, RunFile
<1>3. files # <<>> /\ Head(files) = t /\ Tail(files) = <<i>>
  BY <1>2
<1>4. DOMAIN files = 1..2 /\ files[1] = t /\ files[2] = i
  BY <1>2
<1>5. Held(files) = {files[n] : n \in 1..2}
  BY <1>4 DEF Held
<1>6. 1..2 = {1, 2}
  OBVIOUS
<1> QED
  BY <1>1, <1>2, <1>3, <1>4, <1>5, <1>6
LEMMA ThreeToDo ==
  ASSUME NEW run, NEW files, files = T3(run)
  PROVE  /\ files # <<>> /\ Head(files) = RunFile("summary", run) /\ Tail(files) = T4(run)
         /\ Held(files) = {RunFile("summary", run), RunFile("traces", run), Index}
<1>1. PICK m, t, i :
          /\ m = RunFile("summary", run) /\ t = RunFile("traces", run) /\ i = Index
  OBVIOUS
<1>2. files = <<m, t, i>> /\ T4(run) = <<t, i>>
  BY <1>1 DEF T3, T4, RunFile
<1>3. files # <<>> /\ Head(files) = m /\ Tail(files) = <<t, i>>
  BY <1>2
<1>4. DOMAIN files = 1..3 /\ files[1] = m /\ files[2] = t /\ files[3] = i
  BY <1>2
<1>5. Held(files) = {files[n] : n \in 1..3}
  BY <1>4 DEF Held
<1>6. 1..3 = {1, 2, 3}
  OBVIOUS
<1> QED
  BY <1>1, <1>2, <1>3, <1>4, <1>5, <1>6
LEMMA FourToDo ==
  ASSUME NEW run, NEW files, files = T2(run)
  PROVE  /\ files # <<>> /\ Head(files) = RunFile("scores", run) /\ Tail(files) = T3(run)
         /\ Held(files) = {RunFile("scores", run), RunFile("summary", run), RunFile("traces", run), Index}
<1>1. PICK s, m, t, i :
          /\ s = RunFile("scores", run) /\ m = RunFile("summary", run) /\ t = RunFile("traces", run) /\ i = Index
  OBVIOUS
<1>2. files = <<s, m, t, i>> /\ T3(run) = <<m, t, i>>
  BY <1>1 DEF T2, T3, RunFile
<1>3. files # <<>> /\ Head(files) = s /\ Tail(files) = <<m, t, i>>
  BY <1>2
<1>4. DOMAIN files = 1..4 /\ files[1] = s /\ files[2] = m /\ files[3] = t /\ files[4] = i
  BY <1>2
<1>5. Held(files) = {files[n] : n \in 1..4}
  BY <1>4 DEF Held
<1>6. 1..4 = {1, 2, 3, 4}
  OBVIOUS
<1> QED
  BY <1>1, <1>2, <1>3, <1>4, <1>5, <1>6
LEMMA FiveToDo ==
  ASSUME NEW run, NEW files, files = FilesOf(run)
  PROVE  /\ files # <<>> /\ Head(files) = RunFile("config", run) /\ Tail(files) = T2(run)
         /\ Held(files) = {RunFile("config", run), RunFile("scores", run), RunFile("summary", run), RunFile("traces", run), Index}
<1>1. PICK c, s, m, t, i :
          /\ c = RunFile("config", run) /\ s = RunFile("scores", run) /\ m = RunFile("summary", run)
          /\ t = RunFile("traces", run) /\ i = Index
  OBVIOUS
<1>2. files = <<c, s, m, t, i>> /\ T2(run) = <<s, m, t, i>>
  BY <1>1 DEF FilesOf, T2, RunFile
<1>3. files # <<>> /\ Head(files) = c /\ Tail(files) = <<s, m, t, i>>
  BY <1>2
<1>4. DOMAIN files = 1..5 /\ files[1] = c /\ files[2] = s /\ files[3] = m /\ files[4] = t /\ files[5] = i
  BY <1>2
<1>5. Held(files) = {files[n] : n \in 1..5}
  BY <1>4 DEF Held
<1>6. 1..5 = {1, 2, 3, 4, 5}
  OBVIOUS
<1> QED
  BY <1>1, <1>2, <1>3, <1>4, <1>5, <1>6

LEMMA ToDoIs ==
  ASSUME NEW run \in Runs \cup {""}, NEW files \in ToDo(run)
  PROVE  /\ files # <<>> /\ Head(files) \in Files /\ Head(files) \in Held(files)
         /\ Tail(files) = <<>> <=> Head(files) \in Shared
         /\ Tail(files) # <<>> => Tail(files) \in ToDo(run) /\ Held(files) = Held(Tail(files)) \cup {Head(files)}
         /\ Head(files) = History <=> run = ""
         /\ Head(files) = Index => run \in Runs
         /\ Head(files) \in Shared => Held(files) = {Head(files)}
         /\ Head(files) \notin Shared => run \in Runs /\ \E kind \in Kinds4 : Head(files) = RunFile(kind, run)
<1>1. CASE run = ""
  <2>1. PICK h : h = History
    OBVIOUS
  <2>2. files = <<h>> /\ h \in Files
    BY <1>1, <2>1, FilesAre DEF ToDo
  <2>3. Head(files) = History /\ Tail(files) = <<>> /\ files # <<>> /\ Held(files) = {History}
    BY <2>1, <2>2, OneToDo
  <2>4. "" \notin Runs
    BY RunsHaveNames
  <2> QED
    BY <1>1, <2>1, <2>2, <2>3, <2>4, FilesAre
<1>2. CASE run # ""
  <2>1. run \in Runs
    BY <1>2
  <2>2. PICK c, s, m, t, i : /\ c = RunFile("config", run) /\ s = RunFile("scores", run)
                             /\ m = RunFile("summary", run) /\ t = RunFile("traces", run) /\ i = Index
    OBVIOUS
  <2>3. /\ c \in Files \ Shared /\ s \in Files \ Shared /\ m \in Files \ Shared /\ t \in Files \ Shared
        /\ i \in Shared /\ i # History /\ i \in Files /\ History \in Shared
    <3>1. /\ "config" \in Kinds4 /\ "scores" \in Kinds4 /\ "summary" \in Kinds4 /\ "traces" \in Kinds4
      BY DEF Kinds4
    <3>2. c \in Files \ Shared /\ s \in Files \ Shared
      BY <2>1, <2>2, <3>1, FilesAre
    <3>3. m \in Files \ Shared /\ t \in Files \ Shared
      BY <2>1, <2>2, <3>1, FilesAre
    <3>4. i \in Shared /\ i # History /\ i \in Files /\ History \in Shared
      BY <2>2, FilesAre
    <3> QED
      BY <3>2, <3>3, <3>4
  <2>4. PICK a, b, d, e, f : a = <<Index>> /\ b = T4(run) /\ d = T3(run) /\ e = T2(run) /\ f = FilesOf(run)
    OBVIOUS
  <2>5. ToDo(run) = {a, b, d, e, f}
    BY <1>2, <2>4 DEF ToDo
  <2>7. a # <<>> /\ Head(a) = i /\ Tail(a) = <<>> /\ Held(a) = {i}
    BY <2>2, <2>4, OneToDo
  <2>8. b # <<>> /\ Head(b) = t /\ Tail(b) = a /\ Held(b) = {t, i}
    BY <2>2, <2>4, TwoToDo
  <2>9. d # <<>> /\ Head(d) = m /\ Tail(d) = b /\ Held(d) = {m, t, i}
    BY <2>2, <2>4, ThreeToDo
  <2>10. e # <<>> /\ Head(e) = s /\ Tail(e) = d /\ Held(e) = {s, m, t, i}
    BY <2>2, <2>4, FourToDo
  <2>11. f # <<>> /\ Head(f) = c /\ Tail(f) = e /\ Held(f) = {c, s, m, t, i}
    BY <2>2, <2>4, FiveToDo
  <2>12. \A x \in {c, s, m, t} : \E kind \in Kinds4 : x = RunFile(kind, run)
    BY <2>2 DEF Kinds4
  <2>13. files \in {a, b, d, e, f}
    BY <2>5
  <2> HIDE DEF ToDo
  <2>14. CASE files = a
    BY <1>2, <2>1, <2>2, <2>3, <2>7, <2>14
  <2>15. CASE files \in {b, d, e, f}
    <3>1. /\ Tail(files) \in {a, b, d, e} /\ Tail(files) # <<>> /\ Head(files) \in {c, s, m, t}
          /\ Held(files) = Held(Tail(files)) \cup {Head(files)}
      <4>1. CASE files = b
        BY <2>7, <2>8, <4>1
      <4>2. CASE files = d
        BY <2>8, <2>9, <4>2
      <4>3. CASE files = e
        BY <2>9, <2>10, <4>3
      <4>4. CASE files = f
        BY <2>10, <2>11, <4>4
      <4> QED
        BY <2>15, <4>1, <4>2, <4>3, <4>4
    <3>2. files # <<>> /\ Tail(files) \in ToDo(run)
      BY <2>5, <2>8, <2>9, <2>10, <2>11, <2>15, <3>1
    <3>3. Head(files) \in Files \ Shared /\ Head(files) \in Held(files)
      BY <2>3, <3>1
    <3>4. \E kind \in Kinds4 : Head(files) = RunFile(kind, run)
      BY <2>12, <3>1
    <3> QED
      BY <1>2, <2>1, <2>2, <2>3, <3>1, <3>2, <3>3, <3>4
  <2> QED
    BY <2>13, <2>14, <2>15
<1> QED
  BY <1>1, <1>2
LEMMA AllToDo ==
  ASSUME NEW run \in Runs, NEW kind \in Kinds4
  PROVE  RunFile(kind, run) \in Held(FilesOf(run))
<1>1. /\ FilesOf(run)[1] = RunFile("config", run) /\ FilesOf(run)[2] = RunFile("scores", run)
      /\ FilesOf(run)[3] = RunFile("summary", run) /\ FilesOf(run)[4] = RunFile("traces", run)
      /\ DOMAIN FilesOf(run) = 1..5
  BY DEF FilesOf, RunFile
<1>2. \A n \in 1..5 : FilesOf(run)[n] \in Held(FilesOf(run))
  BY <1>1 DEF Held
<1> QED
  BY <1>1, <1>2 DEF Kinds4

LEMMA FileIs ==
  ASSUME ExperienceTypes, NEW f \in Files
  PROVE  disk[f].state \in {"absent", "broken", "whole"} /\ disk[f].by \in Nat /\ disk[f].entries \in Seq(Entry)
<1>1. disk[f] \in FileRow
  BY DEF ExperienceTypes
<1> QED
  BY <1>1 DEF FileRow
LEMMA CallIs ==
  ASSUME ExperienceTypes, NEW u \in Recorders, Active(u)
  PROVE  /\ recorder[u] \in Call
         /\ recorder[u].run \in Runs \cup {""} /\ recorder[u].by \in Nat /\ recorder[u].by > 0
         /\ recorder[u].todo \in ToDo(recorder[u].run)
         /\ recorder[u].read \in BOOLEAN /\ recorder[u].opened \in BOOLEAN
         /\ recorder[u].entries \in Seq(Entry)
<1>1. recorder[u] \in Call /\ recorder[u].todo \in ToDo(recorder[u].run)
  BY DEF ExperienceTypes
<1>2. PICK T : T = UNION {ToDo(run) : run \in Runs \cup {""}}
  OBVIOUS
<1>3. PICK c, R : c = recorder[u] /\ R = Runs \cup {""}
  OBVIOUS
<1>4. c \in [run : R, by : Nat \ {0}, todo : T, read : BOOLEAN, opened : BOOLEAN, entries : Seq(Entry)]
  BY <1>1, <1>2, <1>3 DEF Call
<1>5. /\ c.run \in R /\ c.by \in Nat /\ c.by # 0 /\ c.read \in BOOLEAN /\ c.opened \in BOOLEAN
      /\ c.entries \in Seq(Entry)
  BY <1>4
<1>6. c.by > 0
  BY <1>5
<1> QED
  BY <1>1, <1>3, <1>5, <1>6

\* A run that is listed gets its entry replaced, another one a new entry.
Upserts(new, entries, run, by) ==
  /\ new \in Seq(Entry) /\ OnceEach(new)
  /\ \A i \in DOMAIN new : \/ new[i].run = run /\ new[i].by = by
                           \/ \E j \in DOMAIN entries : new[i] = entries[j] /\ entries[j].run # run
  /\ \A j \in DOMAIN entries : \E i \in DOMAIN new : new[i].run = entries[j].run
  /\ \E i \in DOMAIN new : new[i].run = run
LEMMA ExtendedIs ==
  ASSUME NEW entries \in Seq(Entry), NEW run \in Runs, NEW by \in Nat, by > 0, OnceEach(entries)
  PROVE  Upserts(Extended(entries, run, by), entries, run, by)
<1>0. PICK new : new = Extended(entries, run, by)
  OBVIOUS
<1>1. PICK e : e = [run |-> run, by |-> by]
  OBVIOUS
<1>2. e \in Entry /\ e.run = run /\ e.by = by
  BY <1>1 DEF Entry
<1>3. run # ""
  BY RunsHaveNames
<1>4. CASE At(entries, run) = {}
  <2>1. new = Append(entries, e)
    BY <1>0, <1>1, <1>3, <1>4 DEF Extended
  <2>2. /\ new \in Seq(Entry) /\ Len(new) = Len(entries) + 1 /\ new[Len(entries) + 1] = e
        /\ \A i \in 1..Len(entries) : new[i] = entries[i]
    BY <1>2, <2>1
  <2>3. \A i \in 1..Len(entries) : entries[i].run # run
    BY <1>4 DEF At
  <2>4. DOMAIN new = 1..(Len(entries) + 1) /\ DOMAIN entries = 1..Len(entries) /\ Len(entries) \in Nat
    BY <2>2
  <2>5. OnceEach(new)
    <3>1. ASSUME NEW i \in DOMAIN new, NEW j \in DOMAIN new, i # j PROVE new[i].run # new[j].run
      <4>1. CASE i \in DOMAIN entries /\ j \in DOMAIN entries
        BY <2>2, <2>4, <3>1, <4>1 DEF OnceEach
      <4>2. CASE ~(i \in DOMAIN entries /\ j \in DOMAIN entries)
        BY <1>2, <2>2, <2>3, <2>4, <3>1, <4>2
      <4> QED
        BY <4>1, <4>2
    <3> QED
      BY <3>1 DEF OnceEach
  <2>6. \A i \in DOMAIN new : i = Len(entries) + 1 \/ i \in DOMAIN entries
    BY <2>4
  <2> QED
    BY <1>0, <1>2, <2>2, <2>3, <2>4, <2>5, <2>6 DEF Upserts
<1>5. CASE At(entries, run) # {}
  <2>1. PICK k : k \in DOMAIN entries /\ entries[k].run = run
    BY <1>5 DEF At
  <2>2. At(entries, run) = {k}
    BY <2>1 DEF At, OnceEach
  <2>3. k \in 1..Len(entries) /\ Min({k}) = k
    BY <2>1 DEF Min
  <2>4. new = [entries EXCEPT ![k].by = by]
    BY <1>0, <1>3, <1>5, <2>2, <2>3 DEF Extended
  <2>5. entries[k] \in Entry
    BY <2>3
  <2>6. PICK d : d = [entries[k] EXCEPT !.by = by]
    OBVIOUS
  <2>7. d \in Entry /\ d.run = run /\ d.by = by
    BY <2>1, <2>5, <2>6 DEF Entry
  <2>8. new = [entries EXCEPT ![k] = d]
    BY <2>4, <2>6
  <2>9. /\ new \in Seq(Entry) /\ DOMAIN new = DOMAIN entries /\ new[k] = d
        /\ \A i \in DOMAIN entries : i # k => new[i] = entries[i]
    BY <2>3, <2>7, <2>8
  <2>10. \A i \in DOMAIN entries : new[i].run = entries[i].run
    BY <2>1, <2>7, <2>9
  <2>11. OnceEach(new)
    BY <2>9, <2>10 DEF OnceEach
  <2>12. \A i \in DOMAIN entries : i # k => entries[i].run # run
    BY <2>1 DEF OnceEach
  <2> QED
    BY <1>0, <2>1, <2>7, <2>9, <2>10, <2>11, <2>12 DEF Upserts
<1> QED
  BY <1>4, <1>5
LEMMA MatchesOn ==
  ASSUME NEW entries \in Seq(Entry), NEW run \in Runs, NEW by \in Nat, by > 0, NEW last \in [Runs -> Nat],
         Matches(entries, last), NEW new, new = Extended(entries, run, by)
  PROVE  Matches(new, [last EXCEPT ![run] = by])
<1>1. OnceEach(entries)
  BY DEF Matches
<1>2. PICK now : now = [last EXCEPT ![run] = by]
  OBVIOUS
<1>3. now[run] = by /\ \A other \in Runs : other # run => now[other] = last[other]
  BY <1>2
<1>4. Upserts(new, entries, run, by)
  BY <1>1, ExtendedIs
<1>5. ASSUME NEW i \in DOMAIN new
      PROVE  new[i].run \in Runs /\ new[i].by > 0 /\ now[new[i].run] = new[i].by
  <2>1. CASE new[i].run = run /\ new[i].by = by
    BY <1>3, <2>1
  <2>2. CASE ~(new[i].run = run /\ new[i].by = by)
    <3>1. PICK j \in DOMAIN entries : new[i] = entries[j] /\ entries[j].run # run
      BY <1>4, <2>2 DEF Upserts
    <3> QED
      BY <1>3, <3>1 DEF Matches
  <2> QED
    BY <2>1, <2>2
<1>6. ASSUME NEW other \in Runs, now[other] > 0 PROVE \E i \in DOMAIN new : new[i].run = other
  <2>1. CASE other = run
    BY <1>4, <2>1 DEF Upserts
  <2>2. CASE other # run
    <3>1. PICK j \in DOMAIN entries : entries[j].run = other
      BY <1>3, <1>6, <2>2 DEF Matches
    <3> QED
      BY <1>4, <3>1 DEF Upserts
  <2> QED
    BY <2>1, <2>2
<1> QED
  BY <1>2, <1>4, <1>5, <1>6 DEF Matches, Upserts
LEMMA EntryIs ==
  ASSUME NEW entries \in Seq(Entry), NEW i \in DOMAIN entries
  PROVE  entries[i] \in Entry /\ entries[i].run \in Runs \cup {""} /\ entries[i].by \in Nat
<1>1. entries[i] \in Entry
  OBVIOUS
<1>2. PICK e, R : e = entries[i] /\ R = Runs \cup {""}
  OBVIOUS
<1>3. e \in [run : R, by : Nat]
  BY <1>1, <1>2 DEF Entry
<1> QED
  BY <1>1, <1>2, <1>3
LEMMA AtRest ==
  /\ AtRestRecorder.todo = <<>> /\ AtRestRecorder.run = "" /\ AtRestRecorder.by = 0
  /\ ~AtRestRecorder.read /\ ~AtRestRecorder.opened /\ AtRestRecorder.entries = <<>>
BY DEF AtRestRecorder

LEMMA ExperienceStart == ExperienceInit => ExperienceInv
<1> SUFFICES ASSUME ExperienceInit PROVE ExperienceInv
  OBVIOUS
<1>1. /\ disk = [f \in Files |-> Absent] /\ recorder = [u \in Recorders |-> AtRestRecorder]
      /\ recorded = [last |-> [run \in Runs |-> 0], decisions |-> 0] /\ begun = 0 /\ unsafe = {}
  BY DEF ExperienceInit
<1>2. Absent \in FileRow /\ Absent.state = "absent" /\ Absent.by = 0 /\ Absent.entries = <<>>
  BY DEF Absent, Holding, FileRow
<1>3. \A u \in Recorders : ~Active(u)
  BY <1>1 DEF Active
<1>4. ExperienceTypes
  <2>1. recorded \in [last : [Runs -> Nat], decisions : Nat]
    BY <1>1
  <2>2. disk \in [Files -> FileRow]
    BY <1>1, <1>2
  <2>3. recorder = [u \in Recorders |-> recorder[u]] /\ DOMAIN recorder = Recorders
    BY <1>1
  <2> QED
    BY <1>1, <1>3, <2>1, <2>2, <2>3 DEF ExperienceTypes
<1>5. \A f \in Files : disk[f].state = "absent" /\ disk[f].by = 0 /\ disk[f].entries = <<>>
  BY <1>1, <1>2
<1>6. OneEach
  BY <1>3, <1>5, FilesAre DEF OneEach, OneCaller, OneReader, OpenIsBroken, BrokenIsOpen
<1>7. RunFilesFine
  <2>1. ASSUME NEW run \in Runs, NEW kind \in Kinds4, NEW f, f = RunFile(kind, run)
        PROVE  disk[f].entries = <<>> /\ ~(disk[f].by > 0) /\ disk[f].by <= begun
    <3>1. f \in Files
      BY <2>1, FilesAre
    <3> QED
      BY <1>1, <1>5, <3>1
  <2> QED
    BY <1>3, <2>1 DEF RunFilesFine
<1>8. SharedMatch
  <2>1. ReadAs(Index) = <<>> /\ ReadAs(History) = <<>>
    BY <1>5, FilesAre DEF ReadAs
  <2>2. Matches(<<>>, recorded.last)
    <3>1. recorded.last = [run \in Runs |-> 0] /\ DOMAIN <<>> = {}
      BY <1>1
    <3> QED
      BY <3>1 DEF Matches, OnceEach
  <2>3. Len(<<>>) = recorded.decisions
    BY <1>1
  <2> QED
    BY <1>3, <2>1, <2>2, <2>3 DEF SharedMatch
<1>9. IndexBacked
  BY <1>3, <1>5, FilesAre DEF IndexBacked
<1> QED
  BY <1>3, <1>4, <1>6, <1>7, <1>8, <1>9 DEF ExperienceInv

AsksFor(run, files) ==
  /\ run \in Runs \cup {""}
  /\ run # "" => files = FilesOf(run) /\ \A v \in Recorders : recorder[v].run # run
  /\ run = "" => files = <<History>>
\* A new call has a number above all others, and its run to itself.
LEMMA RecordingStarts ==
  ASSUME ExperienceInv, NEW u \in Recorders, NEW run, NEW files,
         AsksFor(run, files), StartRecording(u, run, files)
  PROVE  ExperienceInv'
<1>1. PICK c : c = [AtRestRecorder EXCEPT !.run = run, !.by = begun + 1, !.todo = files]
  OBVIOUS
<1>2. /\ recorder' = [recorder EXCEPT ![u] = c] /\ recorder[u] = AtRestRecorder /\ begun' = begun + 1
      /\ disk' = disk /\ recorded' = recorded /\ unsafe' = unsafe
  BY <1>1 DEF StartRecording
<1>3. ExperienceTypes /\ begun \in Nat
  BY DEF ExperienceInv, ExperienceTypes
<1>4. files \in ToDo(run)
  BY DEF ToDo, AsksFor
<1>41. run \in Runs \cup {""}
  BY DEF AsksFor
<1>5. /\ c.run = run /\ c.by = begun + 1 /\ c.todo = files /\ ~c.read /\ ~c.opened /\ c.entries = <<>>
      /\ c.read = FALSE /\ c.opened = FALSE
  BY <1>1 DEF AtRestRecorder
<1>6. c \in Call /\ c # AtRestRecorder
  <2>1. c = [run |-> run, by |-> begun + 1, todo |-> files, read |-> FALSE, opened |-> FALSE, entries |-> <<>>]
    BY <1>1 DEF AtRestRecorder
  <2>2. files \in UNION {ToDo(r) : r \in Runs \cup {""}}
    BY <1>4, <1>41
  <2>3. begun + 1 \in Nat \ {0} /\ <<>> \in Seq(Entry)
    BY <1>3
  <2>4. c \in Call
    BY <1>41, <2>1, <2>2, <2>3 DEF Call
  <2>5. c.by # 0
    BY <1>3, <1>5
  <2> QED
    BY <2>4, <2>5, AtRest
<1>7. /\ DOMAIN recorder' = Recorders /\ recorder' = [v \in Recorders |-> recorder'[v]]
      /\ recorder'[u] = c /\ \A v \in Recorders : v # u => recorder'[v] = recorder[v]
  BY <1>2, <1>3 DEF ExperienceTypes
<1>8. ~Active(u) /\ Active(u)' /\ \A v \in Recorders : v # u => (Active(v)' <=> Active(v))
  BY <1>2, <1>6, <1>7 DEF Active
<1>9. \A v \in Recorders : v # u /\ Active(v) => recorder[v].by <= begun /\ recorder[v].by \in Nat
  BY <1>3, CallIs DEF ExperienceInv, CallOrdered
<1>10. ExperienceTypes'
  BY <1>2, <1>3, <1>4, <1>5, <1>6, <1>7, <1>8 DEF ExperienceTypes
<1>11. ASSUME NEW v \in Recorders, Active(v)' PROVE CallOrdered(v)'
  <2>1. CASE v = u
    BY <1>2, <1>3, <1>5, <1>7, <2>1 DEF CallOrdered
  <2>2. CASE v # u
    <3>1. CallOrdered(v) /\ Active(v) /\ recorder'[v] = recorder[v]
      BY <1>7, <1>8, <1>11, <2>2 DEF ExperienceInv
    <3> QED
      BY <1>2, <1>3, <1>9, <2>2, <3>1 DEF CallOrdered, Next1
  <2> QED
    BY <2>1, <2>2
<1>12. OneEach'
  <2>1. \A v \in Recorders : v # u /\ Active(v)' => Active(v) /\ recorder'[v] = recorder[v] /\ Next1(v)' = Next1(v)
    BY <1>7, <1>8 DEF Next1
  <2>2. c.run # "" => \A v \in Recorders : recorder[v].run # c.run
    BY <1>5 DEF AsksFor
  <2>3. OneCaller /\ OneReader /\ OpenIsBroken /\ BrokenIsOpen
    BY DEF ExperienceInv, OneEach
  <2>4. OneCaller'
    <3>1. SUFFICES ASSUME NEW v \in Recorders, NEW w \in Recorders, Active(v)', Active(w)',
                          recorder'[v].run = recorder'[w].run, recorder'[v].run # "", v # w
                   PROVE  FALSE
      BY DEF OneCaller
    <3>2. CASE v = u
      BY <1>7, <2>1, <2>2, <3>1, <3>2
    <3>3. CASE w = u
      BY <1>7, <2>1, <2>2, <3>1, <3>3
    <3>4. CASE v # u /\ w # u
      BY <1>7, <2>1, <2>3, <3>1, <3>4 DEF OneCaller
    <3> QED
      BY <3>2, <3>3, <3>4
  <2>5. \A v \in Recorders : Active(v)' /\ (recorder'[v].read \/ recorder'[v].opened) =>
           Active(v) /\ recorder'[v] = recorder[v] /\ Next1(v)' = Next1(v)
    BY <1>5, <1>7, <2>1
  <2>6. OneReader'
    BY <1>2, <2>3, <2>5 DEF OneReader
  <2>7. OpenIsBroken'
    <3>1. ASSUME NEW v \in Recorders, Active(v)', recorder'[v].opened, NEW f, f = Next1(v)', f \notin unsafe'
          PROVE  disk'[f].state = "broken"
      BY <1>2, <2>3, <2>5, <3>1 DEF OpenIsBroken
    <3> QED
      BY <3>1 DEF OpenIsBroken
  <2>8. BrokenIsOpen'
    <3>1. ASSUME NEW f \in Shared \ unsafe, disk[f].state = "broken"
          PROVE  \E v \in Recorders : Active(v)' /\ recorder'[v].opened /\ Next1(v)' = f
      <4>1. PICK v \in Recorders : Active(v) /\ recorder[v].opened /\ Next1(v) = f
        BY <2>3, <3>1 DEF BrokenIsOpen
      <4>2. v # u
        BY <1>8, <4>1
      <4> QED
        BY <1>7, <1>8, <4>1, <4>2 DEF Next1
    <3> QED
      BY <1>2, <3>1 DEF BrokenIsOpen
  <2> QED
    BY <2>4, <2>6, <2>7, <2>8 DEF OneEach
<1>13. RunFilesFine'
  <2>1. ASSUME NEW r \in Runs, NEW kind \in Kinds4, NEW f, f = RunFile(kind, r)
        PROVE  /\ disk[f].entries = <<>> /\ (disk[f].by > 0 => disk[f].state = "whole") /\ disk[f].by <= begun'
               /\ \A v \in Recorders : Active(v)' /\ recorder'[v].run = r =>
                    /\ disk[f].by <= recorder'[v].by
                    /\ f \notin LeftOf(v)' => disk[f].state = "whole" /\ disk[f].by = recorder'[v].by
    <3>1. /\ disk[f].entries = <<>> /\ (disk[f].by > 0 => disk[f].state = "whole") /\ disk[f].by <= begun
      BY <2>1 DEF ExperienceInv, RunFilesFine
    <3>2. f \in Files /\ disk[f].by \in Nat
      BY <1>3, <2>1, FilesAre, FileIs
    <3>3. disk[f].by <= begun' /\ disk[f].by <= c.by
      BY <1>2, <1>3, <1>5, <3>1, <3>2
    <3>4. ASSUME NEW v \in Recorders, Active(v)', recorder'[v].run = r
          PROVE  /\ disk[f].by <= recorder'[v].by
                 /\ f \notin LeftOf(v)' => disk[f].state = "whole" /\ disk[f].by = recorder'[v].by
      <4>1. CASE v = u
        <5>1. run = r /\ files = FilesOf(r)
          BY <1>5, <1>7, <3>4, <4>1, RunsHaveNames DEF AsksFor
        <5>2. f \in LeftOf(v)'
          BY <1>5, <1>7, <2>1, <4>1, <5>1, AllToDo DEF LeftOf, Held
        <5> QED
          BY <1>7, <3>3, <4>1, <5>2
      <4>2. CASE v # u
        <5>1. Active(v) /\ recorder'[v] = recorder[v]
          BY <1>7, <1>8, <3>4, <4>2
        <5>2. LeftOf(v)' = LeftOf(v)
          BY <5>1 DEF LeftOf
        <5> QED
          BY <2>1, <3>4, <5>1, <5>2 DEF ExperienceInv, RunFilesFine
      <4> QED
        BY <4>1, <4>2
    <3> QED
      BY <3>1, <3>3, <3>4
  <2> QED
    BY <1>2, <2>1 DEF RunFilesFine
<1>14. SharedMatch'
  <2>1. (Intact(Index)' <=> Intact(Index)) /\ (Intact(History)' <=> Intact(History))
        /\ ReadAs(Index)' = ReadAs(Index) /\ ReadAs(History)' = ReadAs(History)
    BY <1>2 DEF Intact, ReadAs
  <2>2. \A v \in Recorders : Active(v)' /\ recorder'[v].read =>
          Active(v) /\ recorder'[v] = recorder[v] /\ Next1(v)' = Next1(v)
    BY <1>5, <1>7, <1>8 DEF Next1
  <2> QED
    BY <1>2, <2>1, <2>2 DEF ExperienceInv, SharedMatch
<1>15. ASSUME NEW e, EntryBacked(e), e.by \in Nat PROVE EntryBacked(e)'
  <2>1. e.run \in Runs /\ e.by <= begun /\ e.by <= begun'
    BY <1>2, <1>3, <1>15 DEF EntryBacked
  <2>2. ASSUME NEW v \in Recorders, Active(v)', recorder'[v].run = e.run PROVE e.by <= recorder'[v].by
    <3>1. CASE v = u
      BY <1>2, <1>3, <1>5, <1>7, <1>15, <2>1, <3>1
    <3>2. CASE v # u
      BY <1>7, <1>8, <1>15, <2>2, <3>2 DEF EntryBacked
    <3> QED
      BY <3>1, <3>2
  <2> QED
    BY <1>2, <1>15, <2>1, <2>2 DEF EntryBacked
<1>16. ASSUME NEW entries \in Seq(Entry), AllBacked(entries) PROVE AllBacked(entries)'
  <2>1. \A i \in DOMAIN entries : entries[i].by \in Nat
    BY EntryIs
  <2> QED
    BY <1>15, <1>16, <2>1 DEF AllBacked
<1>17. IndexBacked'
  <2>1. ASSUME NEW es, es = disk[Index].entries, disk[Index].state = "whole" PROVE AllBacked(es)'
    <3>1. es \in Seq(Entry)
      BY <1>3, <2>1, FilesAre, FileIs
    <3>2. AllBacked(es)
      BY <2>1 DEF ExperienceInv, IndexBacked
    <3> QED
      BY <1>16, <3>1, <3>2
  <2>2. ASSUME NEW v \in Recorders, Active(v)', recorder'[v].read, Next1(v)' = Index,
               NEW es, es = recorder'[v].entries
        PROVE  AllBacked(es)'
    <3>1. Active(v) /\ recorder'[v] = recorder[v] /\ Next1(v) = Index /\ recorder[v].read
      BY <1>5, <1>7, <1>8, <2>2 DEF Next1
    <3>2. AllBacked(es)
      BY <2>2, <3>1 DEF ExperienceInv, IndexBacked
    <3>3. es \in Seq(Entry)
      BY <1>3, <2>2, <3>1, CallIs
    <3> QED
      BY <1>16, <3>2, <3>3
  <2> QED
    BY <1>2, <2>1, <2>2 DEF IndexBacked
<1> QED
  BY <1>10, <1>11, <1>12, <1>13, <1>14, <1>17 DEF ExperienceInv

\* What the reader makes of a shared file.
LEMMA ReadAsIs ==
  ASSUME ExperienceInv
  PROVE  /\ ReadAs(Index) \in Seq(Entry) /\ ReadAs(History) \in Seq(Entry)
         /\ OnceEach(ReadAs(Index)) /\ AllBacked(ReadAs(Index))
<1>1. disk[Index].entries \in Seq(Entry) /\ disk[History].entries \in Seq(Entry) /\ <<>> \in Seq(Entry)
  BY FilesAre, FileIs DEF ExperienceInv
<1>2. ReadAs(Index) \in Seq(Entry) /\ ReadAs(History) \in Seq(Entry)
  BY <1>1 DEF ReadAs
<1>3. CASE disk[Index].state = "whole"
  <2>1. AllBacked(ReadAs(Index))
    BY <1>3 DEF ExperienceInv, IndexBacked, ReadAs
  <2> QED
    BY <1>2, <2>1 DEF AllBacked
<1>4. CASE disk[Index].state # "whole"
  <2>1. ReadAs(Index) = <<>> /\ DOMAIN <<>> = {}
    BY <1>4 DEF ReadAs
  <2> QED
    BY <1>2, <2>1 DEF AllBacked, OnceEach
<1> QED
  BY <1>3, <1>4

IndexGrown(c, es) ==
  c.run \in Runs /\ Upserts(es, ReadAs(Index), c.run, c.by) /\ es = Extended(ReadAs(Index), c.run, c.by)
Grown(u, c, es) ==
  /\ Active(u) /\ c = recorder[u] /\ es \in Seq(Entry) /\ ~c.read /\ ~c.opened
  /\ Next1(u) \in Shared
  /\ Next1(u) = Index => IndexGrown(c, es)
  /\ Next1(u) = History => Len(es) = Len(ReadAs(History)) + 1
LEMMA ReadGrows ==
  ASSUME ExperienceInv, NEW u \in Recorders, ReadShared(u), NEW c, c = recorder[u],
         NEW es, es = Extended(ReadAs(Next1(u)), c.run, c.by)
  PROVE  Grown(u, c, es)
<1>1. c.todo # <<>> /\ Next1(u) \in Shared /\ ~c.read
  BY DEF ReadShared, Next1
<1>2. Active(u)
  BY <1>1, AtRest DEF Active
<1>3. ExperienceTypes
  BY DEF ExperienceInv
<1>4. ~c.opened
  BY <1>1, <1>2 DEF ExperienceInv, CallOrdered
<1>5. /\ c.run \in Runs \cup {""} /\ c.by \in Nat /\ c.by > 0
      /\ c.todo \in ToDo(c.run)
  BY <1>2, <1>3, CallIs
<1>6. (Next1(u) = History <=> c.run = "") /\ (Next1(u) = Index => c.run \in Runs)
  BY <1>5, ToDoIs DEF Next1
<1>7. CASE Next1(u) = Index
  <2>1. c.run \in Runs
    BY <1>6, <1>7
  <2>2. Upserts(Extended(ReadAs(Index), c.run, c.by), ReadAs(Index), c.run, c.by)
    BY <1>5, <2>1, ReadAsIs, ExtendedIs
  <2>3. IndexGrown(c, es)
    BY <1>7, <2>1, <2>2 DEF IndexGrown
  <2>4. es \in Seq(Entry)
    BY <2>3 DEF Upserts, IndexGrown
  <2> QED
    BY <1>1, <1>2, <1>4, <1>7, <2>3, <2>4, FilesAre DEF Grown
<1>8. CASE Next1(u) = History
  <2>1. PICK e : e = [run |-> "", by |-> c.by]
    OBVIOUS
  <2>2. e \in Entry
    BY <1>5, <2>1 DEF Entry
  <2>3. c.run = ""
    BY <1>6, <1>8
  <2>4. es = Append(ReadAs(History), e)
    BY <1>8, <2>1, <2>3 DEF Extended
  <2>5. PICK old : old = ReadAs(History) /\ old \in Seq(Entry)
    BY ReadAsIs
  <2>6. es \in Seq(Entry) /\ Len(es) = Len(old) + 1
    BY <2>2, <2>4, <2>5
  <2> QED
    BY <1>1, <1>2, <1>4, <1>8, <2>5, <2>6, FilesAre DEF Grown
<1> QED
  BY <1>1, <1>7, <1>8, FilesAre

\* A caller reads a shared file that it does not have open.
LEMMA ReadingShared ==
  ASSUME ExperienceInv, NEW u \in Recorders, ReadShared(u)
  PROVE  ExperienceInv'
<1>1. PICK c, f, es : c = recorder[u] /\ f = Next1(u) /\ es = Extended(ReadAs(f), c.run, c.by)
  OBVIOUS
<1>2. Grown(u, c, es)
  BY <1>1, ReadGrows
<1>3. ExperienceTypes
  BY DEF ExperienceInv
<1>4. Active(u) /\ c \in Call /\ f \in Shared /\ es \in Seq(Entry) /\ ~c.read /\ ~c.opened
  BY <1>1, <1>2, <1>3, CallIs DEF Grown
<1>5. PICK d : d = [c EXCEPT !.read = TRUE, !.entries = es]
  OBVIOUS
<1>6. recorder' = [recorder EXCEPT ![u] = d]
  <2>1. f = Head(recorder[u].todo)
    BY <1>1 DEF Next1
  <2>2. recorder' = [recorder EXCEPT ![u].read = TRUE, ![u].entries = es]
    BY <1>1, <2>1 DEF ReadShared
  <2> QED
    BY <1>1, <1>3, <1>5, <2>2 DEF ExperienceTypes
<1>7. /\ disk' = disk /\ recorded' = recorded /\ begun' = begun /\ unsafe \subseteq unsafe' /\ unsafe' \subseteq Shared
      /\ f \notin unsafe' => \A v \in Recorders : ~(recorder[v].read /\ Next1(v) = f)
  <2>1. disk' = disk /\ recorded' = recorded /\ begun' = begun
    BY DEF ReadShared
  <2>2. unsafe' = IF \E v \in Recorders : recorder[v].read /\ Next1(v) = f THEN unsafe \cup {f} ELSE unsafe
    BY <1>1 DEF ReadShared, Next1
  <2>3. unsafe \subseteq Shared
    BY <1>3 DEF ExperienceTypes
  <2> QED
    BY <1>4, <2>1, <2>2, <2>3
<1>8. /\ d.run = c.run /\ d.by = c.by /\ d.todo = c.todo /\ d.opened = c.opened /\ d.read /\ d.entries = es
      /\ d \in Call
  BY <1>4, <1>5 DEF Call
<1>9. /\ DOMAIN recorder' = Recorders /\ recorder' = [v \in Recorders |-> recorder'[v]]
      /\ recorder'[u] = d /\ \A v \in Recorders : v # u => recorder'[v] = recorder[v]
  BY <1>3, <1>6 DEF ExperienceTypes
<1>10. \A v \in Recorders : Active(v)' <=> Active(v)
  <2>1. d # AtRestRecorder
    BY <1>8, AtRest
  <2> QED
    BY <1>4, <1>9, <2>1 DEF Active
<1>11. \A v \in Recorders : /\ recorder'[v].run = recorder[v].run /\ recorder'[v].by = recorder[v].by
                            /\ recorder'[v].todo = recorder[v].todo /\ recorder'[v].opened = recorder[v].opened
                            /\ Next1(v)' = Next1(v) /\ LeftOf(v)' = LeftOf(v)
  BY <1>1, <1>8, <1>9 DEF Next1, LeftOf
<1>12. ExperienceTypes'
  <2>1. \A v \in Recorders : Active(v)' => recorder'[v] \in Call /\ recorder'[v].todo \in ToDo(recorder'[v].run)
    BY <1>1, <1>3, <1>8, <1>9, <1>10 DEF ExperienceTypes
  <2> QED
    BY <1>3, <1>7, <1>9, <2>1 DEF ExperienceTypes
<1>13. ASSUME NEW v \in Recorders, Active(v)' PROVE CallOrdered(v)'
  <2>1. CallOrdered(v)
    BY <1>10, <1>13 DEF ExperienceInv
  <2>2. CASE v = u
    BY <1>1, <1>4, <1>7, <1>8, <1>9, <1>11, <2>1, <2>2 DEF CallOrdered
  <2>3. CASE v # u
    BY <1>7, <1>9, <1>11, <2>1, <2>3 DEF CallOrdered
  <2> QED
    BY <2>2, <2>3
<1>14. OneEach'
  <2>1. OneCaller /\ OneReader /\ OpenIsBroken /\ BrokenIsOpen
    BY DEF ExperienceInv, OneEach
  <2>2. OneCaller'
    BY <1>10, <1>11, <2>1 DEF OneCaller
  <2>3. OneReader'
    <3>1. SUFFICES ASSUME NEW v \in Recorders, NEW w \in Recorders, Active(v)', Active(w)',
                          recorder'[v].read, recorder'[w].read, NEW g, g = Next1(v)', g = Next1(w)',
                          g \notin unsafe', v # w
                   PROVE  FALSE
      BY DEF OneReader
    <3>2. g = Next1(v) /\ g = Next1(w) /\ Active(v) /\ Active(w) /\ g \notin unsafe
      BY <1>7, <1>10, <1>11, <3>1
    <3>3. CASE v = u
      BY <1>1, <1>7, <1>9, <3>1, <3>2, <3>3
    <3>4. CASE w = u
      BY <1>1, <1>7, <1>9, <3>1, <3>2, <3>4
    <3>5. CASE v # u /\ w # u
      BY <1>9, <2>1, <3>1, <3>2, <3>5 DEF OneReader
    <3> QED
      BY <3>3, <3>4, <3>5
  <2>4. OpenIsBroken'
    <3>1. ASSUME NEW v \in Recorders, Active(v)', recorder'[v].opened, NEW g, g = Next1(v)', g \notin unsafe'
          PROVE  disk'[g].state = "broken"
      BY <1>7, <1>10, <1>11, <2>1, <3>1 DEF OpenIsBroken
    <3> QED
      BY <3>1 DEF OpenIsBroken
  <2>5. BrokenIsOpen'
    <3>1. ASSUME NEW g \in Shared \ unsafe', disk[g].state = "broken"
          PROVE  \E v \in Recorders : Active(v)' /\ recorder'[v].opened /\ Next1(v)' = g
      <4>1. PICK v \in Recorders : Active(v) /\ recorder[v].opened /\ Next1(v) = g
        BY <1>7, <2>1, <3>1 DEF BrokenIsOpen
      <4> QED
        BY <1>10, <1>11, <4>1
    <3> QED
      BY <1>7, <3>1 DEF BrokenIsOpen
  <2> QED
    BY <2>2, <2>3, <2>4, <2>5 DEF OneEach
<1>15. RunFilesFine'
  <2>1. RunFilesFine
    BY DEF ExperienceInv
  <2> QED
    BY <1>7, <1>10, <1>11, <2>1 DEF RunFilesFine
<1>16. SharedMatch'
  <2>1. /\ Intact(Index)' => Intact(Index)
        /\ Intact(History)' => Intact(History)
        /\ ReadAs(Index)' = ReadAs(Index) /\ ReadAs(History)' = ReadAs(History)
    BY <1>7 DEF Intact, ReadAs
  <2>2. SharedMatch
    BY DEF ExperienceInv
  <2>3. ASSUME f \notin unsafe' PROVE Intact(f)
    <3>1. SUFFICES ASSUME disk[f].state = "broken" PROVE FALSE
      BY <1>7, <2>3 DEF Intact
    <3>2. PICK v \in Recorders : Active(v) /\ recorder[v].opened /\ Next1(v) = f
      BY <1>4, <1>7, <2>3, <3>1 DEF ExperienceInv, OneEach, BrokenIsOpen
    <3>3. recorder[v].read
      BY <1>4, <3>2 DEF ExperienceInv, CallOrdered
    <3> QED
      BY <1>7, <2>3, <3>2, <3>3
  <2>4. PICK last : last = recorded.last /\ last \in [Runs -> Nat]
    BY <1>3 DEF ExperienceTypes
  <2>5. c.by \in Nat /\ c.by > 0
    BY <1>1, <1>3, <1>4, CallIs
  <2>6. ASSUME f = Index, f \notin unsafe' PROVE Matches(es, [last EXCEPT ![c.run] = c.by])
    <3>1. Matches(ReadAs(Index), last)
      BY <2>2, <2>3, <2>4, <2>6 DEF SharedMatch
    <3>2. PICK old : old = ReadAs(Index) /\ old \in Seq(Entry)
      BY ReadAsIs
    <3>3. c.run \in Runs /\ es = Extended(old, c.run, c.by)
      BY <1>1, <1>2, <2>6, <3>2 DEF Grown, IndexGrown
    <3> QED
      BY <2>4, <2>5, <3>1, <3>2, <3>3, MatchesOn
  <2>7. ASSUME f = History, f \notin unsafe' PROVE Len(es) = recorded.decisions + 1
    <3>1. Len(ReadAs(History)) = recorded.decisions
      BY <2>2, <2>3, <2>7 DEF SharedMatch
    <3>2. Len(es) = Len(ReadAs(History)) + 1
      BY <1>1, <1>2, <2>7 DEF Grown
    <3> QED
      BY <3>1, <3>2
  <2>8. ASSUME NEW v \in Recorders, Active(v)', recorder'[v].read, Next1(v)' \notin unsafe'
        PROVE  /\ Next1(v)' = Index =>
                    Matches(recorder'[v].entries, [last EXCEPT ![recorder'[v].run] = recorder'[v].by])
               /\ Next1(v)' = History => Len(recorder'[v].entries) = recorded.decisions + 1
    <3>1. CASE v = u
      <4>1. Next1(v)' = f /\ recorder'[v].entries = es /\ recorder'[v].run = c.run /\ recorder'[v].by = c.by
        BY <1>1, <1>8, <1>9, <1>11, <3>1
      <4> QED
        BY <2>6, <2>7, <2>8, <4>1
    <3>2. CASE v # u
      <4>1. Active(v) /\ recorder'[v] = recorder[v] /\ Next1(v)' = Next1(v) /\ Next1(v) \notin unsafe
        BY <1>7, <1>9, <1>10, <1>11, <2>8, <3>2
      <4> QED
        BY <2>2, <2>4, <2>8, <4>1 DEF SharedMatch
    <3> QED
      BY <3>1, <3>2
  <2>9. Matches(ReadAs(Index), last)' <=> Matches(ReadAs(Index), last)
    BY <2>1 DEF Matches, OnceEach
  <2> QED
    BY <1>7, <2>1, <2>2, <2>4, <2>8 DEF SharedMatch
<1>17. ASSUME NEW e, EntryBacked(e) PROVE EntryBacked(e)'
  BY <1>7, <1>10, <1>11, <1>17 DEF EntryBacked
<1>18. ASSUME f = Index PROVE AllBacked(es)
  <2>1. Upserts(es, ReadAs(Index), c.run, c.by) /\ c.run \in Runs
    BY <1>1, <1>2, <1>18 DEF Grown, IndexGrown
  <2>2. PICK old : old = ReadAs(Index) /\ AllBacked(old)
    BY ReadAsIs
  <2>3. ASSUME NEW e, e.run = c.run, e.by = c.by PROVE EntryBacked(e)
    <3>1. e.by <= begun
      BY <1>1, <1>4, <2>3 DEF ExperienceInv, CallOrdered
    <3>2. ASSUME NEW kind \in Kinds4, NEW file, file = disk[RunFile(kind, e.run)]
          PROVE  file.state # "absent" /\ (file.state = "whole" => file.by >= e.by)
      <4>1. RunFile(kind, e.run) \notin LeftOf(u)
        <5>1. LeftOf(u) = Held(c.todo)
          BY <1>1 DEF LeftOf, Held
        <5>2. c.run \in Runs \cup {""} /\ c.todo \in ToDo(c.run)
          BY <1>1, <1>3, <1>4, CallIs
        <5>3. Held(c.todo) = {f}
          BY <1>1, <1>4, <5>2, ToDoIs DEF Next1
        <5>4. RunFile(kind, e.run) \notin Shared
          BY <2>1, <2>3, FilesAre
        <5> QED
          BY <1>4, <5>1, <5>3, <5>4
      <4>2. file.state = "whole" /\ file.by = c.by
        BY <1>1, <1>4, <2>1, <2>3, <3>2, <4>1 DEF ExperienceInv, RunFilesFine
      <4>3. c.by \in Nat
        BY <1>1, <1>3, <1>4, CallIs
      <4> QED
        BY <2>3, <4>2, <4>3
    <3>3. ASSUME NEW v \in Recorders, Active(v), recorder[v].run = e.run PROVE e.by <= recorder[v].by
      <4>1. v = u
        <5>1. c.run # ""
          BY <2>1, RunsHaveNames
        <5> QED
          BY <1>1, <1>4, <2>3, <3>3, <5>1 DEF ExperienceInv, OneEach, OneCaller
      <4>2. c.by \in Nat
        BY <1>1, <1>3, <1>4, CallIs
      <4> QED
        BY <1>1, <2>3, <4>1, <4>2
    <3> QED
      BY <2>1, <2>3, <3>1, <3>2, <3>3 DEF EntryBacked
  <2>4. OnceEach(es)
    BY <2>1 DEF Upserts
  <2>5. ASSUME NEW i \in DOMAIN es PROVE EntryBacked(es[i])
    <3>1. CASE es[i].run = c.run /\ es[i].by = c.by
      BY <2>3, <3>1
    <3>2. CASE ~(es[i].run = c.run /\ es[i].by = c.by)
      <4>1. PICK j \in DOMAIN old : es[i] = old[j]
        BY <2>1, <2>2, <3>2 DEF Upserts
      <4> QED
        BY <2>2, <4>1 DEF AllBacked
    <3> QED
      BY <3>1, <3>2
  <2> QED
    BY <2>4, <2>5 DEF AllBacked
<1>19. ASSUME NEW entries, AllBacked(entries) PROVE AllBacked(entries)'
  BY <1>17, <1>19 DEF AllBacked
<1>20. IndexBacked'
  <2>1. ASSUME NEW old, old = disk[Index].entries, disk[Index].state = "whole" PROVE AllBacked(old)'
    BY <1>19, <2>1 DEF ExperienceInv, IndexBacked
  <2>2. ASSUME NEW v \in Recorders, Active(v)', recorder'[v].read, Next1(v)' = Index,
               NEW all, all = recorder'[v].entries
        PROVE  AllBacked(all)'
    <3>1. CASE v = u
      BY <1>1, <1>8, <1>9, <1>11, <1>18, <1>19, <2>2, <3>1
    <3>2. CASE v # u
      <4>1. Active(v) /\ recorder'[v] = recorder[v] /\ Next1(v) = Index
        BY <1>9, <1>10, <1>11, <2>2, <3>2
      <4>2. AllBacked(all)
        BY <2>2, <4>1 DEF ExperienceInv, IndexBacked
      <4> QED
        BY <1>19, <4>2
    <3> QED
      BY <3>1, <3>2
  <2> QED
    BY <1>7, <2>1, <2>2 DEF IndexBacked
<1> QED
  BY <1>12, <1>13, <1>14, <1>15, <1>16, <1>20 DEF ExperienceInv

\* A caller empties the file it is about to write.
LEMMA OpeningFile ==
  ASSUME ExperienceInv, NEW u \in Recorders, OpenFile(u)
  PROVE  ExperienceInv'
<1>1. PICK c, f : c = recorder[u] /\ f = Next1(u)
  OBVIOUS
<1>2. c.todo # <<>> /\ ~c.opened /\ (f \in Shared => c.read)
  BY <1>1 DEF OpenFile, Next1
<1>3. ExperienceTypes
  BY DEF ExperienceInv
<1>4. Active(u) /\ c \in Call
  <2>1. Active(u)
    BY <1>1, <1>2, AtRest DEF Active
  <2> QED
    BY <1>1, <1>3, <2>1, CallIs
<1>5. PICK d, b : d = [c EXCEPT !.opened = TRUE] /\ b = Broken
  OBVIOUS
<1>6. recorder' = [recorder EXCEPT ![u] = d] /\ disk' = [disk EXCEPT ![f] = b]
      /\ recorded' = recorded /\ begun' = begun /\ unsafe' = unsafe
  BY <1>1, <1>3, <1>5 DEF OpenFile, Next1, ExperienceTypes
<1>7. b \in FileRow /\ b.state = "broken" /\ b.by = 0 /\ b.entries = <<>>
  BY <1>5 DEF Broken, Holding, FileRow
<1>8. /\ d.run = c.run /\ d.by = c.by /\ d.todo = c.todo /\ d.opened /\ d.read = c.read /\ d.entries = c.entries
      /\ d \in Call
  BY <1>4, <1>5 DEF Call
<1>9. /\ DOMAIN recorder' = Recorders /\ recorder' = [v \in Recorders |-> recorder'[v]]
      /\ recorder'[u] = d /\ \A v \in Recorders : v # u => recorder'[v] = recorder[v]
  BY <1>3, <1>6 DEF ExperienceTypes
<1>10. \A v \in Recorders : Active(v)' <=> Active(v)
  <2>1. d # AtRestRecorder
    BY <1>8, AtRest
  <2> QED
    BY <1>4, <1>9, <2>1 DEF Active
<1>11. \A v \in Recorders : /\ recorder'[v].run = recorder[v].run /\ recorder'[v].by = recorder[v].by
                            /\ recorder'[v].todo = recorder[v].todo /\ recorder'[v].read = recorder[v].read
                            /\ recorder'[v].entries = recorder[v].entries
                            /\ Next1(v)' = Next1(v) /\ LeftOf(v)' = LeftOf(v)
  BY <1>1, <1>8, <1>9 DEF Next1, LeftOf
<1>12. /\ c.run \in Runs \cup {""} /\ c.todo \in ToDo(c.run)
       /\ f \in Files /\ f \in LeftOf(u)
       /\ f \notin Shared => c.run \in Runs /\ \E kind \in Kinds4 : f = RunFile(kind, c.run)
  <2>1. c.run \in Runs \cup {""} /\ c.todo \in ToDo(c.run)
    BY <1>1, <1>3, <1>4, CallIs
  <2>2. LeftOf(u) = Held(c.todo) /\ f = Head(c.todo)
    BY <1>1 DEF LeftOf, Held, Next1
  <2>3. PICK r, files : r = c.run /\ files = c.todo
    OBVIOUS
  <2>4. Head(files) \in Files /\ Head(files) \in Held(files)
    BY <2>1, <2>3, ToDoIs
  <2>5. Head(files) \notin Shared => r \in Runs /\ \E kind \in Kinds4 : Head(files) = RunFile(kind, r)
    BY <2>1, <2>3, ToDoIs
  <2> QED
    BY <2>1, <2>2, <2>3, <2>4, <2>5
<1>13. disk'[f] = b /\ \A g : g # f /\ g \in Files => disk'[g] = disk[g]
  BY <1>3, <1>6, <1>12 DEF ExperienceTypes
<1>14. ExperienceTypes'
  <2>1. \A v \in Recorders : Active(v)' => recorder'[v] \in Call /\ recorder'[v].todo \in ToDo(recorder'[v].run)
    BY <1>1, <1>3, <1>8, <1>9, <1>10 DEF ExperienceTypes
  <2>2. disk' \in [Files -> FileRow]
    BY <1>3, <1>6, <1>7 DEF ExperienceTypes
  <2> QED
    BY <1>3, <1>6, <1>9, <2>1, <2>2 DEF ExperienceTypes
<1>15. ASSUME NEW v \in Recorders, Active(v)' PROVE CallOrdered(v)'
  <2>1. CallOrdered(v)
    BY <1>10, <1>15 DEF ExperienceInv
  <2>2. CASE v = u
    BY <1>1, <1>2, <1>6, <1>8, <1>9, <1>11, <2>1, <2>2 DEF CallOrdered
  <2>3. CASE v # u
    BY <1>6, <1>9, <1>11, <2>1, <2>3 DEF CallOrdered
  <2> QED
    BY <2>2, <2>3
<1>16. OneEach'
  <2>1. OneCaller /\ OneReader /\ OpenIsBroken /\ BrokenIsOpen
    BY DEF ExperienceInv, OneEach
  <2>2. OneCaller'
    BY <1>10, <1>11, <2>1 DEF OneCaller
  <2>3. OneReader'
    BY <1>6, <1>10, <1>11, <2>1 DEF OneReader
  <2>4. OpenIsBroken'
    <3>1. ASSUME NEW v \in Recorders, Active(v)', recorder'[v].opened, NEW g, g = Next1(v)', g \notin unsafe'
          PROVE  disk'[g].state = "broken"
      <4>1. CASE g = f
        BY <1>7, <1>13, <4>1
      <4>2. CASE g # f
        <5>1. v # u /\ Active(v) /\ g = Next1(v) /\ recorder[v].opened /\ g \notin unsafe
          BY <1>1, <1>6, <1>9, <1>10, <1>11, <3>1, <4>2
        <5>2. disk[g].state = "broken"
          BY <2>1, <5>1 DEF OpenIsBroken
        <5>3. g \in Files
          <6>1. recorder[v].run \in Runs \cup {""} /\ recorder[v].todo \in ToDo(recorder[v].run)
            BY <1>3, <5>1, CallIs
          <6> QED
            BY <5>1, <6>1, ToDoIs DEF Next1
        <5> QED
          BY <1>13, <4>2, <5>2, <5>3
      <4> QED
        BY <4>1, <4>2
    <3> QED
      BY <3>1 DEF OpenIsBroken
  <2>5. BrokenIsOpen'
    <3>1. ASSUME NEW g \in Shared \ unsafe, disk'[g].state = "broken"
          PROVE  \E v \in Recorders : Active(v)' /\ recorder'[v].opened /\ Next1(v)' = g
      <4>1. CASE g = f
        BY <1>1, <1>4, <1>8, <1>9, <1>10, <1>11, <4>1
      <4>2. CASE g # f
        <5>1. g \in Files /\ disk[g].state = "broken"
          BY <1>13, <3>1, <4>2, FilesAre
        <5>2. PICK v \in Recorders : Active(v) /\ recorder[v].opened /\ Next1(v) = g
          BY <2>1, <3>1, <5>1 DEF BrokenIsOpen
        <5>3. v # u
          BY <1>1, <4>2, <5>2
        <5> QED
          BY <1>9, <1>10, <1>11, <5>2, <5>3
      <4> QED
        BY <4>1, <4>2
    <3> QED
      BY <1>6, <3>1 DEF BrokenIsOpen
  <2> QED
    BY <2>2, <2>3, <2>4, <2>5 DEF OneEach
<1>17. RunFilesFine'
  <2>1. ASSUME NEW r \in Runs, NEW kind \in Kinds4, NEW g, g = RunFile(kind, r)
        PROVE  /\ disk'[g].entries = <<>> /\ (disk'[g].by > 0 => disk'[g].state = "whole") /\ disk'[g].by <= begun'
               /\ \A v \in Recorders : Active(v)' /\ recorder'[v].run = r =>
                    /\ disk'[g].by <= recorder'[v].by
                    /\ g \notin LeftOf(v)' => disk'[g].state = "whole" /\ disk'[g].by = recorder'[v].by
    <3>1. g \in Files \ Shared
      BY <2>1, FilesAre
    <3>2. CASE g = f
      <4>1. c.run = r
        <5>1. PICK other \in Kinds4 : f = RunFile(other, c.run)
          BY <1>12, <3>1, <3>2
        <5>2. PICK one : one = c.run
          OBVIOUS
        <5>3. RunFile(kind, r) = RunFile(other, one)
          BY <2>1, <3>2, <5>1, <5>2
        <5> QED
          BY <5>2, <5>3, RunFileOf
      <4>2. \A v \in Recorders : Active(v) /\ recorder[v].run = r => v = u
        <5>1. r # ""
          BY RunsHaveNames
        <5> QED
          BY <1>1, <1>4, <4>1, <5>1 DEF ExperienceInv, OneEach, OneCaller
      <4>3. begun \in Nat /\ c.by \in Nat
        BY <1>1, <1>3, <1>4, CallIs DEF ExperienceTypes
      <4>4. disk'[g].by = 0 /\ disk'[g].entries = <<>>
        BY <1>7, <1>13, <3>2
      <4>5. ASSUME NEW v \in Recorders, Active(v)', recorder'[v].run = r
            PROVE  disk'[g].by <= recorder'[v].by /\ g \in LeftOf(v)'
        <5>1. v = u
          BY <1>10, <1>11, <4>2, <4>5
        <5>2. recorder'[v].by = c.by /\ 0 <= c.by
          BY <1>1, <1>11, <4>3, <5>1
        <5>3. LeftOf(v)' = LeftOf(u)
          BY <1>11, <5>1
        <5> QED
          BY <1>12, <3>2, <4>4, <5>2, <5>3
      <4> QED
        BY <1>6, <4>3, <4>4, <4>5
    <3>3. CASE g # f
      <4>1. disk'[g] = disk[g]
        BY <1>13, <3>1, <3>3
      <4>2. /\ disk[g].entries = <<>> /\ (disk[g].by > 0 => disk[g].state = "whole") /\ disk[g].by <= begun
        BY <2>1 DEF ExperienceInv, RunFilesFine
      <4>3. ASSUME NEW v \in Recorders, Active(v)', recorder'[v].run = r
            PROVE  /\ disk[g].by <= recorder'[v].by
                   /\ g \notin LeftOf(v)' => disk[g].state = "whole" /\ disk[g].by = recorder'[v].by
        <5>1. Active(v) /\ recorder[v].run = r
          BY <1>10, <1>11, <4>3
        <5>2. /\ disk[g].by <= recorder[v].by
              /\ g \notin LeftOf(v) => disk[g].state = "whole" /\ disk[g].by = recorder[v].by
          BY <2>1, <5>1 DEF ExperienceInv, RunFilesFine
        <5> QED
          BY <1>11, <5>2
      <4> QED
        BY <1>6, <4>1, <4>2, <4>3
    <3> QED
      BY <3>2, <3>3
  <2> QED
    BY <2>1 DEF RunFilesFine
<1>18. SharedMatch'
  <2>1. SharedMatch
    BY DEF ExperienceInv
  <2>2. ASSUME NEW g \in Shared, Intact(g)' PROVE Intact(g) /\ ReadAs(g)' = ReadAs(g)
    <3>1. g # f /\ g \in Files
      BY <1>7, <1>13, <2>2, FilesAre DEF Intact
    <3> QED
      BY <1>6, <1>13, <2>2, <3>1 DEF Intact, ReadAs
  <2>3. Index \in Shared /\ History \in Shared
    BY FilesAre
  <2>4. PICK last, old : last = recorded.last /\ old = ReadAs(Index)
    OBVIOUS
  <2>5. Intact(Index)' => Matches(ReadAs(Index), recorded.last)'
    <3>1. SUFFICES ASSUME Intact(Index)' PROVE Matches(ReadAs(Index), recorded.last)'
      OBVIOUS
    <3>2. Matches(old, last) /\ ReadAs(Index)' = old
      BY <2>1, <2>2, <2>3, <2>4, <3>1 DEF SharedMatch
    <3> QED
      BY <1>6, <2>4, <3>2 DEF Matches, OnceEach
  <2>6. Intact(History)' => Len(ReadAs(History)') = recorded'.decisions
    BY <1>6, <2>1, <2>2, <2>3 DEF SharedMatch
  <2>7. ASSUME NEW v \in Recorders, Active(v)', recorder'[v].read, Next1(v)' \notin unsafe'
        PROVE  /\ Next1(v)' = Index =>
                    Matches(recorder'[v].entries, [last EXCEPT ![recorder'[v].run] = recorder'[v].by])
               /\ Next1(v)' = History => Len(recorder'[v].entries) = recorded.decisions + 1
    <3>1. Active(v) /\ recorder[v].read /\ Next1(v) \notin unsafe
      BY <1>6, <1>10, <1>11, <2>7
    <3> QED
      BY <1>11, <2>1, <2>4, <2>7, <3>1 DEF SharedMatch
  <2> QED
    BY <1>6, <2>4, <2>5, <2>6, <2>7 DEF SharedMatch
<1>19. ASSUME NEW e, EntryBacked(e) PROVE EntryBacked(e)'
  <2>1. ASSUME NEW kind \in Kinds4, NEW file, file = disk'[RunFile(kind, e.run)]
        PROVE  file.state # "absent" /\ (file.state = "whole" => file.by >= e.by)
    <3>1. RunFile(kind, e.run) \in Files
      BY <1>19, FilesAre DEF EntryBacked
    <3>2. CASE RunFile(kind, e.run) = f
      BY <1>7, <1>13, <2>1, <3>2
    <3>3. CASE RunFile(kind, e.run) # f
      BY <1>13, <1>19, <2>1, <3>1, <3>3 DEF EntryBacked
    <3> QED
      BY <3>2, <3>3
  <2>2. \A v \in Recorders : Active(v)' /\ recorder'[v].run = e.run => e.by <= recorder'[v].by
    BY <1>10, <1>11, <1>19 DEF EntryBacked
  <2> QED
    BY <1>6, <1>19, <2>1, <2>2 DEF EntryBacked
<1>20. ASSUME NEW entries, AllBacked(entries) PROVE AllBacked(entries)'
  BY <1>19, <1>20 DEF AllBacked
<1>21. IndexBacked'
  <2>1. ASSUME NEW old, old = disk'[Index].entries, disk'[Index].state = "whole" PROVE AllBacked(old)'
    <3>1. disk'[Index] = disk[Index]
      BY <1>7, <1>13, <2>1, FilesAre
    <3>2. AllBacked(old)
      BY <2>1, <3>1 DEF ExperienceInv, IndexBacked
    <3> QED
      BY <1>20, <3>2
  <2>2. ASSUME NEW v \in Recorders, Active(v)', recorder'[v].read, Next1(v)' = Index,
               NEW all, all = recorder'[v].entries
        PROVE  AllBacked(all)'
    <3>1. AllBacked(all)
      BY <1>10, <1>11, <2>2 DEF ExperienceInv, IndexBacked
    <3> QED
      BY <1>20, <3>1
  <2> QED
    BY <2>1, <2>2 DEF IndexBacked
<1> QED
  BY <1>14, <1>15, <1>16, <1>17, <1>18, <1>21 DEF ExperienceInv

\* What a write leaves: what the caller had, whole, in a file that was empty.
RowOf(c, row) ==
  /\ row \in FileRow /\ row.state \in {"broken", "whole"}
  /\ row.state = "whole" => row.by = c.by /\ row.entries = c.entries
Writes(u, c, f, row) ==
  /\ Active(u) /\ c = recorder[u] /\ f = Next1(u) /\ c \in Call /\ c.opened
  /\ RowOf(c, row) /\ (f \notin unsafe => row.state = "whole" /\ disk[f].state = "broken")
  /\ disk' = [disk EXCEPT ![f] = row] /\ f \in Files
  /\ begun' = begun /\ unsafe' = unsafe
LEMMA WriteIs ==
  ASSUME ExperienceInv, NEW u \in Recorders, NEW longer \in BOOLEAN, WriteFile(u, longer)
  PROVE  \E c, f, row : Writes(u, c, f, row)
<1>1. PICK c, f : c = recorder[u] /\ f = Next1(u)
  OBVIOUS
<1>2. PICK row : row = IF longer THEN Broken ELSE Holding("whole", c.by, c.entries)
  OBVIOUS
<1>3. /\ c.opened /\ (longer => disk[f].state = "whole") /\ disk' = [disk EXCEPT ![f] = row]
      /\ begun' = begun /\ unsafe' = unsafe
  BY <1>1, <1>2 DEF WriteFile, Next1
<1>4. ExperienceTypes
  BY DEF ExperienceInv
<1>5. Active(u)
  BY <1>1, <1>3, AtRest DEF Active
<1>6. c \in Call /\ c.by \in Nat /\ c.entries \in Seq(Entry) /\ c.run \in Runs \cup {""} /\ c.todo \in ToDo(c.run)
  BY <1>1, <1>4, <1>5, CallIs
<1>7. f \in Files
  BY <1>1, <1>6, ToDoIs DEF Next1
<1>8. /\ row \in FileRow /\ row.state \in {"broken", "whole"}
      /\ row.state = "whole" => row.by = c.by /\ row.entries = c.entries
      /\ ~longer => row.state = "whole"
  <2>1. CASE longer
    BY <1>2, <2>1 DEF Broken, Holding, FileRow
  <2>2. CASE ~longer
    <3>1. row = [state |-> "whole", by |-> c.by, entries |-> c.entries]
      BY <1>2, <2>2 DEF Holding
    <3> QED
      BY <1>6, <2>2, <3>1 DEF FileRow
  <2> QED
    BY <2>1, <2>2
<1>9. f \notin unsafe => row.state = "whole" /\ disk[f].state = "broken"
  BY <1>1, <1>3, <1>5, <1>8 DEF ExperienceInv, OneEach, OpenIsBroken
<1> QED
  BY <1>1, <1>3, <1>5, <1>6, <1>7, <1>8, <1>9 DEF Writes, RowOf

\* A file of a run is written: the caller turns to the next one.
LEMMA WritingRunFile ==
  ASSUME ExperienceInv, NEW u \in Recorders, NEW longer \in BOOLEAN, WriteFile(u, longer), Next1(u) \notin Shared
  PROVE  ExperienceInv'
<1>1. PICK c, f, row : Writes(u, c, f, row)
  BY WriteIs
<1>2. /\ Active(u) /\ c = recorder[u] /\ f = Next1(u) /\ c \in Call /\ c.opened /\ f \in Files \ Shared
      /\ disk' = [disk EXCEPT ![f] = row] /\ begun' = begun /\ unsafe' = unsafe
  BY <1>1 DEF Writes
<1>3. ExperienceTypes
  BY DEF ExperienceInv
<1>4. PICK r, rest : r = c.run /\ rest = Tail(c.todo)
  OBVIOUS
<1>5. r \in Runs \cup {""} /\ c.todo \in ToDo(r)
  BY <1>2, <1>3, <1>4, CallIs
<1>50. c.by \in Nat /\ c.by > 0 /\ c.entries \in Seq(Entry)
  BY <1>2, <1>3, CallIs
<1>6. /\ rest # <<>> /\ rest \in ToDo(r) /\ Held(c.todo) = Held(rest) \cup {f}
      /\ r \in Runs /\ \E kind \in Kinds4 : f = RunFile(kind, r)
  <2>1. PICK files : files = c.todo /\ files \in ToDo(r) /\ f = Head(files) /\ rest = Tail(files)
    BY <1>2, <1>4, <1>5 DEF Next1
  <2>2. rest # <<>> /\ rest \in ToDo(r) /\ Held(files) = Held(rest) \cup {f}
    <3>1. Tail(files) = <<>> <=> Head(files) \in Shared
      BY <1>5, <2>1, ToDoIs
    <3>2. Tail(files) # <<>> => Tail(files) \in ToDo(r) /\ Held(files) = Held(Tail(files)) \cup {Head(files)}
      BY <1>5, <2>1, ToDoIs
    <3>3. Tail(files) # <<>>
      BY <1>2, <2>1, <3>1
    <3> QED
      BY <2>1, <3>2, <3>3
  <2>3. r \in Runs /\ \E kind \in Kinds4 : f = RunFile(kind, r)
    BY <1>2, <1>5, <2>1, ToDoIs
  <2> QED
    BY <2>1, <2>2, <2>3
<1>7. PICK d : d = [c EXCEPT !.todo = rest, !.opened = FALSE, !.read = FALSE]
  OBVIOUS
<1>8. recorder' = [recorder EXCEPT ![u] = d] /\ recorded' = recorded
  BY <1>2, <1>4, <1>6, <1>7 DEF WriteFile
<1>9. ~c.read /\ c.entries = <<>> /\ c.by <= begun
  BY <1>2 DEF ExperienceInv, CallOrdered
<1>10. /\ d.run = r /\ d.by = c.by /\ d.todo = rest /\ ~d.opened /\ ~d.read /\ d.entries = <<>> /\ d \in Call
  <2>1. PICK T : T = UNION {ToDo(run) : run \in Runs \cup {""}}
    OBVIOUS
  <2>2. rest \in T
    BY <1>5, <1>6, <2>1
  <2>3. PICK R : R = Runs \cup {""}
    OBVIOUS
  <2>4. c \in [run : R, by : Nat \ {0}, todo : T, read : BOOLEAN, opened : BOOLEAN, entries : Seq(Entry)]
    BY <1>2, <2>1, <2>3 DEF Call
  <2>5. /\ d.run = c.run /\ d.by = c.by /\ d.todo = rest /\ ~d.opened /\ ~d.read /\ d.entries = c.entries
        /\ d \in [run : R, by : Nat \ {0}, todo : T, read : BOOLEAN, opened : BOOLEAN, entries : Seq(Entry)]
    BY <1>7, <2>2, <2>4
  <2> QED
    BY <1>4, <1>9, <2>1, <2>3, <2>5 DEF Call
<1>11. /\ DOMAIN recorder' = Recorders /\ recorder' = [v \in Recorders |-> recorder'[v]]
       /\ recorder'[u] = d /\ \A v \in Recorders : v # u => recorder'[v] = recorder[v]
  BY <1>3, <1>8 DEF ExperienceTypes
<1>12. \A v \in Recorders : Active(v)' <=> Active(v)
  <2>1. d.by # 0
    BY <1>50, <1>10
  <2>2. d # AtRestRecorder
    BY <2>1, AtRest
  <2> QED
    BY <1>2, <1>11, <2>2 DEF Active
<1>13. \A v \in Recorders : recorder'[v].run = recorder[v].run /\ recorder'[v].by = recorder[v].by
  BY <1>2, <1>4, <1>10, <1>11
<1>14. \A v \in Recorders : v # u => Next1(v)' = Next1(v) /\ LeftOf(v)' = LeftOf(v)
  BY <1>11 DEF Next1, LeftOf
<1>15. LeftOf(u) = LeftOf(u)' \cup {f}
  <2>1. LeftOf(u) = Held(c.todo)
    BY <1>2 DEF LeftOf, Held
  <2>2. LeftOf(u)' = Held(rest)
    BY <1>10, <1>11 DEF LeftOf, Held
  <2> QED
    BY <1>6, <2>1, <2>2
<1>16. disk'[f] = row /\ \A g : g # f /\ g \in Files => disk'[g] = disk[g]
  BY <1>2, <1>3 DEF ExperienceTypes
<1>17. row \in FileRow /\ row.state = "whole" /\ row.by = c.by /\ row.entries = <<>>
  <2>1. unsafe \subseteq Shared
    BY <1>3 DEF ExperienceTypes
  <2> QED
    BY <1>1, <1>2, <1>9, <2>1 DEF Writes, RowOf
<1>18. ExperienceTypes'
  <2>1. \A v \in Recorders : Active(v)' => recorder'[v] \in Call /\ recorder'[v].todo \in ToDo(recorder'[v].run)
    BY <1>3, <1>6, <1>10, <1>11, <1>12 DEF ExperienceTypes
  <2>2. disk' \in [Files -> FileRow]
    BY <1>2, <1>3, <1>17 DEF ExperienceTypes
  <2> QED
    BY <1>2, <1>3, <1>8, <1>11, <2>1, <2>2 DEF ExperienceTypes
<1>19. ASSUME NEW v \in Recorders, Active(v)' PROVE CallOrdered(v)'
  <2>1. CASE v = u
    BY <1>2, <1>9, <1>10, <1>11, <2>1 DEF CallOrdered
  <2>2. CASE v # u
    <3>1. CallOrdered(v)
      BY <1>12, <1>19 DEF ExperienceInv
    <3> QED
      BY <1>2, <1>11, <1>14, <2>2, <3>1 DEF CallOrdered
  <2> QED
    BY <2>1, <2>2
<1>20. OneEach'
  <2>1. OneCaller /\ OneReader /\ OpenIsBroken /\ BrokenIsOpen
    BY DEF ExperienceInv, OneEach
  <2>2. OneCaller'
    BY <1>12, <1>13, <2>1 DEF OneCaller
  <2>3. \A v \in Recorders : Active(v)' /\ (recorder'[v].read \/ recorder'[v].opened) =>
          v # u /\ Active(v) /\ recorder'[v] = recorder[v] /\ Next1(v)' = Next1(v)
    BY <1>10, <1>11, <1>12, <1>14
  <2>4. OneReader'
    BY <1>2, <2>1, <2>3 DEF OneReader
  <2>5. OpenIsBroken'
    <3>1. ASSUME NEW v \in Recorders, Active(v)', recorder'[v].opened, NEW g, g = Next1(v)', g \notin unsafe'
          PROVE  disk'[g].state = "broken"
      <4>1. v # u /\ Active(v) /\ g = Next1(v) /\ recorder[v].opened /\ g \notin unsafe
        BY <1>2, <2>3, <3>1
      <4>2. disk[g].state = "broken"
        BY <2>1, <4>1 DEF OpenIsBroken
      <4>3. PICK run, files : run = recorder[v].run /\ files = recorder[v].todo
        OBVIOUS
      <4>4. run \in Runs \cup {""} /\ files \in ToDo(run) /\ g = Head(files)
        BY <1>3, <4>1, <4>3, CallIs DEF Next1
      <4>5. g \in Files /\ (g \notin Shared => run \in Runs /\ \E kind \in Kinds4 : g = RunFile(kind, run))
        BY <4>4, ToDoIs
      <4>6. g # f
        <5>1. SUFFICES ASSUME g = f PROVE FALSE
          OBVIOUS
        <5>2. PICK kind \in Kinds4 : f = RunFile(kind, r)
          BY <1>6
        <5>3. PICK other \in Kinds4 : f = RunFile(other, run)
          BY <1>2, <4>5, <5>1
        <5>4. run = r
          <6>1. RunFile(kind, r) = RunFile(other, run)
            BY <5>2, <5>3
          <6> QED
            BY <6>1, RunFileOf
        <5>5. r # ""
          BY <1>6, RunsHaveNames
        <5> QED
          BY <1>2, <1>4, <2>1, <4>1, <4>3, <5>4, <5>5 DEF OneCaller
      <4> QED
        BY <1>16, <4>2, <4>5, <4>6
    <3> QED
      BY <3>1 DEF OpenIsBroken
  <2>6. BrokenIsOpen'
    <3>1. ASSUME NEW g \in Shared \ unsafe, disk'[g].state = "broken"
          PROVE  \E v \in Recorders : Active(v)' /\ recorder'[v].opened /\ Next1(v)' = g
      <4>1. g # f /\ disk[g].state = "broken"
        BY <1>2, <1>16, <3>1, FilesAre
      <4>2. PICK v \in Recorders : Active(v) /\ recorder[v].opened /\ Next1(v) = g
        BY <2>1, <3>1, <4>1 DEF BrokenIsOpen
      <4>3. v # u
        BY <1>2, <4>1, <4>2
      <4> QED
        BY <1>11, <1>12, <1>14, <4>2, <4>3
    <3> QED
      BY <1>2, <3>1 DEF BrokenIsOpen
  <2> QED
    BY <2>2, <2>4, <2>5, <2>6 DEF OneEach
<1>21. \A v \in Recorders : Active(v) /\ recorder[v].run = r => v = u
  <2>1. r # ""
    BY <1>6, RunsHaveNames
  <2> QED
    BY <1>2, <1>4, <2>1 DEF ExperienceInv, OneEach, OneCaller
<1>22. RunFilesFine'
  <2>1. ASSUME NEW run \in Runs, NEW kind \in Kinds4, NEW g, g = RunFile(kind, run)
        PROVE  /\ disk'[g].entries = <<>> /\ (disk'[g].by > 0 => disk'[g].state = "whole") /\ disk'[g].by <= begun'
               /\ \A v \in Recorders : Active(v)' /\ recorder'[v].run = run =>
                    /\ disk'[g].by <= recorder'[v].by
                    /\ g \notin LeftOf(v)' => disk'[g].state = "whole" /\ disk'[g].by = recorder'[v].by
    <3>1. g \in Files \ Shared
      BY <2>1, FilesAre
    <3>2. CASE g = f
      <4>1. run = r
        <5>1. PICK other \in Kinds4 : f = RunFile(other, r)
          BY <1>6
        <5>2. RunFile(kind, run) = RunFile(other, r)
          BY <2>1, <3>2, <5>1
        <5> QED
          BY <5>2, RunFileOf
      <4>2. \A v \in Recorders : Active(v)' /\ recorder'[v].run = run => recorder'[v].by = c.by
        BY <1>2, <1>12, <1>13, <1>21, <4>1
      <4> QED
        BY <1>2, <1>50, <1>9, <1>16, <1>17, <3>2, <4>2
    <3>3. CASE g # f
      <4>1. disk'[g] = disk[g]
        BY <1>16, <3>1, <3>3
      <4>2. /\ disk[g].entries = <<>> /\ (disk[g].by > 0 => disk[g].state = "whole") /\ disk[g].by <= begun
        BY <2>1 DEF ExperienceInv, RunFilesFine
      <4>3. ASSUME NEW v \in Recorders, Active(v)', recorder'[v].run = run
            PROVE  /\ disk[g].by <= recorder'[v].by
                   /\ g \notin LeftOf(v)' => disk[g].state = "whole" /\ disk[g].by = recorder'[v].by
        <5>1. Active(v) /\ recorder[v].run = run
          BY <1>12, <1>13, <4>3
        <5>2. /\ disk[g].by <= recorder[v].by
              /\ g \notin LeftOf(v) => disk[g].state = "whole" /\ disk[g].by = recorder[v].by
          BY <2>1, <5>1 DEF ExperienceInv, RunFilesFine
        <5>3. g \notin LeftOf(v)' => g \notin LeftOf(v)
          BY <1>14, <1>15, <3>3
        <5> QED
          BY <1>13, <5>2, <5>3
      <4> QED
        BY <1>2, <4>1, <4>2, <4>3
    <3> QED
      BY <3>2, <3>3
  <2> QED
    BY <2>1 DEF RunFilesFine
<1>23. disk'[Index] = disk[Index] /\ disk'[History] = disk[History]
  BY <1>2, <1>16, FilesAre
<1>24. \A v \in Recorders : Active(v)' /\ recorder'[v].read =>
         Active(v) /\ recorder'[v] = recorder[v] /\ Next1(v)' = Next1(v)
  BY <1>10, <1>11, <1>12, <1>14
<1>25. SharedMatch'
  <2>1. SharedMatch
    BY DEF ExperienceInv
  <2>2. PICK last, old : last = recorded.last /\ old = ReadAs(Index)
    OBVIOUS
  <2>3. /\ Intact(Index)' = Intact(Index) /\ Intact(History)' = Intact(History)
        /\ ReadAs(Index)' = old /\ ReadAs(History)' = ReadAs(History)
    BY <1>2, <1>23, <2>2 DEF Intact, ReadAs
  <2>4. Intact(Index)' => Matches(ReadAs(Index), recorded.last)'
    <3>1. SUFFICES ASSUME Intact(Index)' PROVE Matches(ReadAs(Index), recorded.last)'
      OBVIOUS
    <3>2. Matches(old, last) /\ ReadAs(Index)' = old
      BY <2>1, <2>2, <2>3, <3>1 DEF SharedMatch
    <3> QED
      BY <1>8, <2>2, <3>2 DEF Matches, OnceEach
  <2>5. Intact(History)' => Len(ReadAs(History)') = recorded'.decisions
    BY <1>8, <2>1, <2>3 DEF SharedMatch
  <2>6. ASSUME NEW v \in Recorders, Active(v)', recorder'[v].read, Next1(v)' \notin unsafe'
        PROVE  /\ Next1(v)' = Index =>
                    Matches(recorder'[v].entries, [last EXCEPT ![recorder'[v].run] = recorder'[v].by])
               /\ Next1(v)' = History => Len(recorder'[v].entries) = recorded.decisions + 1
    <3>1. Active(v) /\ recorder'[v] = recorder[v] /\ Next1(v)' = Next1(v)
      BY <1>24, <2>6
    <3> QED
      BY <1>2, <2>1, <2>2, <2>6, <3>1 DEF SharedMatch
  <2> QED
    BY <1>8, <2>2, <2>4, <2>5, <2>6 DEF SharedMatch
<1>26. ASSUME NEW e, EntryBacked(e) PROVE EntryBacked(e)'
  <2>1. ASSUME NEW kind \in Kinds4, NEW file, file = disk'[RunFile(kind, e.run)]
        PROVE  file.state # "absent" /\ (file.state = "whole" => file.by >= e.by)
    <3>1. RunFile(kind, e.run) \in Files
      BY <1>26, FilesAre DEF EntryBacked
    <3>2. CASE RunFile(kind, e.run) = f
      <4>0. PICK run : run = e.run
        OBVIOUS
      <4>1. PICK other \in Kinds4 : f = RunFile(other, r)
        BY <1>6
      <4>2. run = r
        <5>1. RunFile(kind, run) = RunFile(other, r)
          BY <3>2, <4>0, <4>1
        <5> QED
          BY <5>1, RunFileOf
      <4>3. e.by <= c.by
        BY <1>2, <1>4, <1>26, <4>0, <4>2 DEF EntryBacked
      <4> QED
        BY <1>16, <1>17, <2>1, <3>2, <4>3
    <3>3. CASE RunFile(kind, e.run) # f
      BY <1>16, <1>26, <2>1, <3>1, <3>3 DEF EntryBacked
    <3> QED
      BY <3>2, <3>3
  <2>2. \A v \in Recorders : Active(v)' /\ recorder'[v].run = e.run => e.by <= recorder'[v].by
    BY <1>12, <1>13, <1>26 DEF EntryBacked
  <2> QED
    BY <1>2, <1>26, <2>1, <2>2 DEF EntryBacked
<1>27. ASSUME NEW entries, AllBacked(entries) PROVE AllBacked(entries)'
  BY <1>26, <1>27 DEF AllBacked
<1>28. IndexBacked'
  <2>1. ASSUME NEW old, old = disk'[Index].entries, disk'[Index].state = "whole" PROVE AllBacked(old)'
    <3>1. AllBacked(old)
      BY <1>23, <2>1 DEF ExperienceInv, IndexBacked
    <3> QED
      BY <1>27, <3>1
  <2>2. ASSUME NEW v \in Recorders, Active(v)', recorder'[v].read, Next1(v)' = Index,
               NEW all, all = recorder'[v].entries
        PROVE  AllBacked(all)'
    <3>1. AllBacked(all)
      BY <1>24, <2>2 DEF ExperienceInv, IndexBacked
    <3> QED
      BY <1>27, <3>1
  <2> QED
    BY <2>1, <2>2 DEF IndexBacked
<1> QED
  BY <1>18, <1>19, <1>20, <1>22, <1>25, <1>28 DEF ExperienceInv

\* A shared file is written: the call returns, and what it recorded is listed.
LEMMA WritingShared ==
  ASSUME ExperienceInv, NEW u \in Recorders, NEW longer \in BOOLEAN, WriteFile(u, longer), Next1(u) \in Shared
  PROVE  ExperienceInv'
<1>1. PICK c, f, row : Writes(u, c, f, row)
  BY WriteIs
<1>2. /\ Active(u) /\ c = recorder[u] /\ f = Next1(u) /\ c \in Call /\ c.opened /\ f \in Shared /\ f \in Files
      /\ disk' = [disk EXCEPT ![f] = row] /\ begun' = begun /\ unsafe' = unsafe
  BY <1>1 DEF Writes
<1>3. ExperienceTypes
  BY DEF ExperienceInv
<1>4. PICK r : r = c.run
  OBVIOUS
<1>5. r \in Runs \cup {""} /\ c.todo \in ToDo(r)
  BY <1>2, <1>3, <1>4, CallIs
<1>6. c.by \in Nat /\ c.by > 0 /\ c.entries \in Seq(Entry)
  BY <1>2, <1>3, CallIs
<1>7. Tail(c.todo) = <<>> /\ (f = Index => r \in Runs)
  <2>1. PICK files : files = c.todo /\ files \in ToDo(r) /\ f = Head(files)
    BY <1>2, <1>5 DEF Next1
  <2>2. Tail(files) = <<>> <=> Head(files) \in Shared
    BY <1>5, <2>1, ToDoIs
  <2>3. Head(files) = Index => r \in Runs
    BY <1>5, <2>1, ToDoIs
  <2> QED
    BY <1>2, <2>1, <2>2, <2>3
<1>8. PICK rest : rest = AtRestRecorder
  OBVIOUS
<1>9. recorder' = [recorder EXCEPT ![u] = rest]
  BY <1>2, <1>7, <1>8 DEF WriteFile
<1>10. PICK last, n : last = recorded.last /\ n = recorded.decisions
  OBVIOUS
<1>11. recorded \in [last : [Runs -> Nat], decisions : Nat] /\ last \in [Runs -> Nat] /\ n \in Nat
  BY <1>3, <1>10 DEF ExperienceTypes
<1>12. /\ f = History => recorded' = [recorded EXCEPT !.decisions = n + 1]
       /\ f = Index => recorded' = [recorded EXCEPT !.last[r] = c.by]
  <2>1. f = Head(c.todo)
    BY <1>2 DEF Next1
  <2>2. recorded' = IF f = History THEN [recorded EXCEPT !.decisions = @ + 1]
                    ELSE [recorded EXCEPT !.last[r] = c.by]
    BY <1>2, <1>4, <1>7, <2>1 DEF WriteFile
  <2> QED
    BY <1>10, <2>2, FilesAre
<1>13. /\ f = History => recorded'.last = last /\ recorded'.decisions = n + 1
       /\ f = Index => recorded'.last = [last EXCEPT ![r] = c.by] /\ recorded'.decisions = n
       /\ recorded' \in [last : [Runs -> Nat], decisions : Nat]
  <2>1. CASE f = History
    <3>1. recorded'.last = last /\ recorded'.decisions = n + 1 /\ recorded' \in [last : [Runs -> Nat], decisions : Nat]
      BY <1>10, <1>11, <1>12, <2>1
    <3> QED
      BY <2>1, <3>1, FilesAre
  <2>2. CASE f = Index
    <3>1. PICK new : new = [last EXCEPT ![r] = c.by]
      OBVIOUS
    <3>2. new \in [Runs -> Nat]
      BY <1>6, <1>11, <3>1
    <3>3. recorded' = [recorded EXCEPT !.last = new]
      BY <1>10, <1>12, <2>2, <3>1
    <3>4. recorded'.last = new /\ recorded'.decisions = n /\ recorded' \in [last : [Runs -> Nat], decisions : Nat]
      BY <1>10, <1>11, <3>2, <3>3
    <3> QED
      BY <2>2, <3>1, <3>4, FilesAre
  <2> QED
    BY <1>2, <2>1, <2>2, FilesAre
<1>14. /\ DOMAIN recorder' = Recorders /\ recorder' = [v \in Recorders |-> recorder'[v]]
       /\ recorder'[u] = rest /\ \A v \in Recorders : v # u => recorder'[v] = recorder[v]
  BY <1>3, <1>9 DEF ExperienceTypes
<1>15. \A v \in Recorders : Active(v)' => v # u /\ Active(v) /\ recorder'[v] = recorder[v]
                                          /\ Next1(v)' = Next1(v) /\ LeftOf(v)' = LeftOf(v)
  BY <1>8, <1>14 DEF Active, Next1, LeftOf
<1>16. disk'[f] = row /\ \A g : g # f /\ g \in Files => disk'[g] = disk[g]
  BY <1>2, <1>3 DEF ExperienceTypes
<1>17. /\ row \in FileRow /\ (row.state = "whole" => row.by = c.by /\ row.entries = c.entries)
       /\ row.state \in {"broken", "whole"} /\ (f \notin unsafe => row.state = "whole")
  BY <1>1 DEF Writes, RowOf
<1>18. ExperienceTypes'
  <2>1. \A v \in Recorders : Active(v)' => recorder'[v] \in Call /\ recorder'[v].todo \in ToDo(recorder'[v].run)
    BY <1>3, <1>15 DEF ExperienceTypes
  <2>2. disk' \in [Files -> FileRow]
    BY <1>2, <1>3, <1>17 DEF ExperienceTypes
  <2> QED
    BY <1>2, <1>3, <1>13, <1>14, <2>1, <2>2 DEF ExperienceTypes
<1>19. ASSUME NEW v \in Recorders, Active(v)' PROVE CallOrdered(v)'
  <2>1. CallOrdered(v)
    BY <1>15, <1>19 DEF ExperienceInv
  <2> QED
    BY <1>2, <1>15, <1>19, <2>1 DEF CallOrdered
<1>20. c.read
  BY <1>2 DEF ExperienceInv, CallOrdered
<1>21. OneCaller /\ OneReader /\ OpenIsBroken /\ BrokenIsOpen
  BY DEF ExperienceInv, OneEach
<1>22. ASSUME NEW v \in Recorders, Active(v)', recorder'[v].read, Next1(v)' \notin unsafe
       PROVE  Next1(v)' # f
  <2>1. SUFFICES ASSUME Next1(v)' = f PROVE FALSE
    OBVIOUS
  <2>2. v # u /\ Active(v) /\ recorder[v].read /\ Next1(v) = f
    BY <1>15, <1>22, <2>1
  <2> QED
    BY <1>2, <1>20, <1>21, <1>22, <2>1, <2>2 DEF OneReader
<1>23. OneEach'
  <2>1. OneCaller'
    BY <1>15, <1>21 DEF OneCaller
  <2>2. OneReader'
    BY <1>2, <1>15, <1>21 DEF OneReader
  <2>3. OpenIsBroken'
    <3>1. ASSUME NEW v \in Recorders, Active(v)', recorder'[v].opened, NEW g, g = Next1(v)', g \notin unsafe'
          PROVE  disk'[g].state = "broken"
      <4>1. Active(v) /\ g = Next1(v) /\ recorder[v].opened /\ g \notin unsafe
        BY <1>2, <1>15, <3>1
      <4>2. disk[g].state = "broken"
        BY <1>21, <4>1 DEF OpenIsBroken
      <4>3. g \in Files
        <5>1. recorder[v].run \in Runs \cup {""} /\ recorder[v].todo \in ToDo(recorder[v].run)
          BY <1>3, <4>1, CallIs
        <5> QED
          BY <4>1, <5>1, ToDoIs DEF Next1
      <4>4. g # f
        <5>1. SUFFICES ASSUME g = f PROVE FALSE
          OBVIOUS
        <5>2. recorder[v].read
          BY <1>2, <4>1, <5>1 DEF ExperienceInv, CallOrdered
        <5>3. recorder'[v].read
          BY <1>15, <3>1, <5>2
        <5> QED
          BY <1>2, <1>22, <3>1, <4>1, <5>1, <5>3
      <4> QED
        BY <1>16, <4>2, <4>3, <4>4
    <3> QED
      BY <3>1 DEF OpenIsBroken
  <2>4. BrokenIsOpen'
    <3>1. ASSUME NEW g \in Shared \ unsafe, disk'[g].state = "broken"
          PROVE  \E v \in Recorders : Active(v)' /\ recorder'[v].opened /\ Next1(v)' = g
      <4>1. g # f /\ disk[g].state = "broken"
        BY <1>16, <1>17, <3>1, FilesAre
      <4>2. PICK v \in Recorders : Active(v) /\ recorder[v].opened /\ Next1(v) = g
        BY <1>21, <3>1, <4>1 DEF BrokenIsOpen
      <4>3. v # u
        BY <1>2, <4>1, <4>2
      <4>4. recorder'[v] = recorder[v]
        BY <1>14, <4>3
      <4> QED
        BY <4>2, <4>4 DEF Active, Next1
    <3> QED
      BY <1>2, <3>1 DEF BrokenIsOpen
  <2> QED
    BY <2>1, <2>2, <2>3, <2>4 DEF OneEach
<1>24. \A run \in Runs, kind \in Kinds4 : disk'[RunFile(kind, run)] = disk[RunFile(kind, run)]
  <2>1. ASSUME NEW run \in Runs, NEW kind \in Kinds4, NEW g, g = RunFile(kind, run) PROVE disk'[g] = disk[g]
    <3>1. g \in Files \ Shared
      BY <2>1, FilesAre
    <3> QED
      BY <1>2, <1>16, <3>1
  <2> QED
    BY <2>1
<1>25. RunFilesFine'
  <2>1. ASSUME NEW run \in Runs, NEW kind \in Kinds4, NEW g, g = RunFile(kind, run)
        PROVE  /\ disk'[g].entries = <<>> /\ (disk'[g].by > 0 => disk'[g].state = "whole") /\ disk'[g].by <= begun'
               /\ \A v \in Recorders : Active(v)' /\ recorder'[v].run = run =>
                    /\ disk'[g].by <= recorder'[v].by
                    /\ g \notin LeftOf(v)' => disk'[g].state = "whole" /\ disk'[g].by = recorder'[v].by
    <3>1. disk'[g] = disk[g]
      BY <1>24, <2>1
    <3>2. /\ disk[g].entries = <<>> /\ (disk[g].by > 0 => disk[g].state = "whole") /\ disk[g].by <= begun
      BY <2>1 DEF ExperienceInv, RunFilesFine
    <3>3. ASSUME NEW v \in Recorders, Active(v)', recorder'[v].run = run
          PROVE  /\ disk[g].by <= recorder'[v].by
                 /\ g \notin LeftOf(v)' => disk[g].state = "whole" /\ disk[g].by = recorder'[v].by
      <4>1. Active(v) /\ recorder'[v] = recorder[v] /\ LeftOf(v)' = LeftOf(v)
        BY <1>15, <3>3
      <4> QED
        BY <2>1, <3>3, <4>1 DEF ExperienceInv, RunFilesFine
    <3> QED
      BY <1>2, <3>1, <3>2, <3>3
  <2> QED
    BY <2>1 DEF RunFilesFine
<1>26. SharedMatch
  BY DEF ExperienceInv
<1>27. PICK old, log, new : old = ReadAs(Index) /\ log = ReadAs(History) /\ new = recorded'.last
  OBVIOUS
<1>28. f # Index => disk'[Index] = disk[Index] /\ ReadAs(Index)' = old /\ (Intact(Index)' => Intact(Index))
  BY <1>2, <1>16, <1>27, FilesAre DEF ReadAs, Intact
<1>29. f # History => disk'[History] = disk[History] /\ ReadAs(History)' = log /\ (Intact(History)' => Intact(History))
  BY <1>2, <1>16, <1>27, FilesAre DEF ReadAs, Intact
<1>30. f \notin unsafe => ReadAs(f)' = c.entries
  BY <1>16, <1>17 DEF ReadAs
<1>31. Intact(Index)' => \E all : all = ReadAs(Index)' /\ Matches(all, new)
  <2>1. SUFFICES ASSUME Intact(Index)' PROVE \E all : all = ReadAs(Index)' /\ Matches(all, new)
    OBVIOUS
  <2>2. CASE f = Index
    <3>1. f \notin unsafe
      BY <1>2, <2>1, <2>2 DEF Intact
    <3>2. ReadAs(Index)' = c.entries
      BY <1>30, <2>2, <3>1
    <3>3. Matches(c.entries, [last EXCEPT ![r] = c.by])
      BY <1>2, <1>4, <1>10, <1>20, <1>26, <2>2, <3>1 DEF SharedMatch
    <3> QED
      BY <1>13, <1>27, <2>2, <3>2, <3>3
  <2>3. CASE f # Index
    <3>1. Intact(Index) /\ ReadAs(Index)' = old
      BY <1>28, <2>1, <2>3
    <3>2. f = History
      BY <1>2, <2>3, FilesAre
    <3>3. Matches(old, last)
      BY <1>10, <1>26, <1>27, <3>1 DEF SharedMatch
    <3> QED
      BY <1>13, <1>27, <3>1, <3>2, <3>3
  <2> QED
    BY <2>2, <2>3
<1>32. Intact(History)' => Len(ReadAs(History)') = recorded'.decisions
  <2>1. SUFFICES ASSUME Intact(History)' PROVE Len(ReadAs(History)') = recorded'.decisions
    OBVIOUS
  <2>2. CASE f = History
    <3>1. f \notin unsafe
      BY <1>2, <2>1, <2>2 DEF Intact
    <3>2. ReadAs(History)' = c.entries
      BY <1>30, <2>2, <3>1
    <3>3. Len(c.entries) = n + 1
      BY <1>2, <1>10, <1>20, <1>26, <2>2, <3>1 DEF SharedMatch
    <3> QED
      BY <1>13, <2>2, <3>2, <3>3
  <2>3. CASE f # History
    <3>1. Intact(History) /\ ReadAs(History)' = log
      BY <1>29, <2>1, <2>3
    <3>2. f = Index
      BY <1>2, <2>3, FilesAre
    <3>3. Len(log) = n
      BY <1>10, <1>26, <1>27, <3>1 DEF SharedMatch
    <3> QED
      BY <1>13, <3>1, <3>2, <3>3
  <2> QED
    BY <2>2, <2>3
<1>33. SharedMatch'
  <2>1. ASSUME NEW v \in Recorders, Active(v)', recorder'[v].read, Next1(v)' \notin unsafe'
        PROVE  /\ Next1(v)' = Index =>
                    Matches(recorder'[v].entries, [new EXCEPT ![recorder'[v].run] = recorder'[v].by])
               /\ Next1(v)' = History => Len(recorder'[v].entries) = recorded'.decisions + 1
    <3>1. Active(v) /\ recorder'[v] = recorder[v] /\ Next1(v)' = Next1(v) /\ Next1(v) # f /\ Next1(v) \notin unsafe
      BY <1>2, <1>15, <1>22, <2>1
    <3>2. CASE Next1(v) = Index
      <4>1. f = History /\ Index # History
        BY <1>2, <3>1, <3>2, FilesAre
      <4>2. new = last
        BY <1>13, <1>27, <4>1
      <4> QED
        BY <1>10, <1>26, <2>1, <3>1, <3>2, <4>1, <4>2 DEF SharedMatch
    <3>3. CASE Next1(v) = History
      <4>1. f = Index /\ Index # History
        BY <1>2, <3>1, <3>3, FilesAre
      <4>2. recorded'.decisions = n
        BY <1>13, <4>1
      <4> QED
        BY <1>10, <1>26, <2>1, <3>1, <3>3, <4>1, <4>2 DEF SharedMatch
    <3> QED
      BY <3>1, <3>2, <3>3
  <2>2. Intact(Index)' => Matches(ReadAs(Index), recorded.last)'
    BY <1>27, <1>31 DEF Matches, OnceEach
  <2> QED
    BY <1>27, <1>32, <2>1, <2>2 DEF SharedMatch
<1>34. ASSUME NEW e, EntryBacked(e) PROVE EntryBacked(e)'
  <2>1. \A v \in Recorders : Active(v)' /\ recorder'[v].run = e.run => e.by <= recorder'[v].by
    BY <1>15, <1>34 DEF EntryBacked
  <2> QED
    BY <1>2, <1>24, <1>34, <2>1 DEF EntryBacked
<1>35. ASSUME NEW entries, AllBacked(entries) PROVE AllBacked(entries)'
  BY <1>34, <1>35 DEF AllBacked
<1>36. IndexBacked'
  <2>1. ASSUME NEW all, all = disk'[Index].entries, disk'[Index].state = "whole" PROVE AllBacked(all)'
    <3>1. CASE f = Index
      <4>1. all = c.entries
        BY <1>16, <1>17, <2>1, <3>1
      <4>2. AllBacked(all)
        BY <1>2, <1>20, <3>1, <4>1 DEF ExperienceInv, IndexBacked
      <4> QED
        BY <1>35, <4>2
    <3>2. CASE f # Index
      <4>1. AllBacked(all)
        BY <1>28, <2>1, <3>2 DEF ExperienceInv, IndexBacked
      <4> QED
        BY <1>35, <4>1
    <3> QED
      BY <3>1, <3>2
  <2>2. ASSUME NEW v \in Recorders, Active(v)', recorder'[v].read, Next1(v)' = Index,
               NEW all, all = recorder'[v].entries
        PROVE  AllBacked(all)'
    <3>1. AllBacked(all)
      BY <1>15, <2>2 DEF ExperienceInv, IndexBacked
    <3> QED
      BY <1>35, <3>1
  <2> QED
    BY <2>1, <2>2 DEF IndexBacked
<1> QED
  BY <1>18, <1>19, <1>23, <1>25, <1>33, <1>36 DEF ExperienceInv

\* The process dies: what was open is broken, and counts as unsafe.
LEMMA RecordingsDie ==
  ASSUME ExperienceInv, ProcessDies
  PROVE  ExperienceInv'
<1>1. /\ recorder' = [u \in Recorders |-> AtRestRecorder] /\ disk' = disk /\ recorded' = recorded /\ begun' = begun
      /\ unsafe' = unsafe \cup {f \in Shared : disk[f].state = "broken"}
  BY DEF ProcessDies
<1>2. \A u \in Recorders : ~Active(u)'
  BY <1>1 DEF Active
<1>3. ExperienceTypes
  BY DEF ExperienceInv
<1>4. ExperienceTypes'
  <2>1. recorder' = [u \in Recorders |-> recorder'[u]] /\ DOMAIN recorder' = Recorders
    BY <1>1
  <2> QED
    BY <1>1, <1>2, <1>3, <2>1 DEF ExperienceTypes
<1>5. OneEach'
  <2>1. OneCaller' /\ OneReader'
    BY <1>2 DEF OneCaller, OneReader
  <2>2. OpenIsBroken'
    BY <1>2 DEF OpenIsBroken
  <2>3. BrokenIsOpen'
    BY <1>1 DEF BrokenIsOpen
  <2> QED
    BY <2>1, <2>2, <2>3 DEF OneEach
<1>6. RunFilesFine'
  <2>1. RunFilesFine
    BY DEF ExperienceInv
  <2> QED
    BY <1>1, <1>2, <2>1 DEF RunFilesFine
<1>7. SharedMatch'
  <2>1. SharedMatch
    BY DEF ExperienceInv
  <2>2. PICK last, old : last = recorded.last /\ old = ReadAs(Index)
    OBVIOUS
  <2>3. /\ Intact(Index)' => Intact(Index)
        /\ Intact(History)' => Intact(History)
        /\ ReadAs(Index)' = old /\ ReadAs(History)' = ReadAs(History)
    BY <1>1, <2>2 DEF Intact, ReadAs
  <2>4. Intact(Index)' => Matches(ReadAs(Index), recorded.last)'
    <3>1. SUFFICES ASSUME Intact(Index)' PROVE Matches(ReadAs(Index), recorded.last)'
      OBVIOUS
    <3>2. Matches(old, last) /\ ReadAs(Index)' = old
      BY <2>1, <2>2, <2>3, <3>1 DEF SharedMatch
    <3> QED
      BY <1>1, <2>2, <3>2 DEF Matches, OnceEach
  <2>5. Intact(History)' => Len(ReadAs(History)') = recorded'.decisions
    BY <1>1, <2>1, <2>3 DEF SharedMatch
  <2> QED
    BY <1>2, <2>4, <2>5 DEF SharedMatch
<1>8. ASSUME NEW e, EntryBacked(e) PROVE EntryBacked(e)'
  BY <1>1, <1>2, <1>8 DEF EntryBacked
<1>9. ASSUME NEW entries, AllBacked(entries) PROVE AllBacked(entries)'
  BY <1>8, <1>9 DEF AllBacked
<1>10. IndexBacked'
  <2>1. ASSUME NEW all, all = disk'[Index].entries, disk'[Index].state = "whole" PROVE AllBacked(all)'
    <3>1. AllBacked(all)
      BY <1>1, <2>1 DEF ExperienceInv, IndexBacked
    <3> QED
      BY <1>9, <3>1
  <2> QED
    BY <1>2, <2>1 DEF IndexBacked
<1> QED
  BY <1>2, <1>4, <1>5, <1>6, <1>7, <1>10 DEF ExperienceInv

LEMMA RecordingStutters == ExperienceInv /\ UNCHANGED experienceVars => ExperienceInv'
<1> SUFFICES ASSUME ExperienceInv, UNCHANGED experienceVars PROVE ExperienceInv'
  OBVIOUS
<1>1. /\ recorder' = recorder /\ disk' = disk /\ recorded' = recorded /\ begun' = begun /\ unsafe' = unsafe
  BY DEF experienceVars
<1>2. \A u \in Recorders : (Active(u)' <=> Active(u)) /\ Next1(u)' = Next1(u) /\ LeftOf(u)' = LeftOf(u)
  BY <1>1 DEF Active, Next1, LeftOf
<1>3. ExperienceTypes'
  BY <1>1, <1>2 DEF ExperienceInv, ExperienceTypes
<1>4. \A u \in Recorders : Active(u)' => CallOrdered(u)'
  BY <1>1, <1>2 DEF ExperienceInv, CallOrdered
<1>5. OneEach'
  BY <1>1, <1>2 DEF ExperienceInv, OneEach, OneCaller, OneReader, OpenIsBroken, BrokenIsOpen
<1>6. RunFilesFine'
  BY <1>1, <1>2 DEF ExperienceInv, RunFilesFine
<1>7. SharedMatch'
  BY <1>1, <1>2 DEF ExperienceInv, SharedMatch, Intact, ReadAs, Matches, OnceEach
<1>8. IndexBacked'
  BY <1>1, <1>2 DEF ExperienceInv, IndexBacked, AllBacked, EntryBacked, OnceEach
<1> QED
  BY <1>3, <1>4, <1>5, <1>6, <1>7, <1>8 DEF ExperienceInv

LEMMA ExperienceStep == ExperienceInv /\ [ExperienceNext]_experienceVars => ExperienceInv'
<1> SUFFICES ASSUME ExperienceInv, [ExperienceNext]_experienceVars PROVE ExperienceInv'
  OBVIOUS
<1>1. CASE UNCHANGED experienceVars
  BY <1>1, RecordingStutters
<1>2. ASSUME NEW u \in Recorders, NEW run \in Runs, RecordRun(u, run) PROVE ExperienceInv'
  <2>1. PICK files : files = FilesOf(run)
    OBVIOUS
  <2>2. run # ""
    BY RunsHaveNames
  <2>3. AsksFor(run, files)
    BY <1>2, <2>1, <2>2 DEF RecordRun, AsksFor
  <2>4. StartRecording(u, run, files)
    BY <1>2, <2>1 DEF RecordRun
  <2> QED
    BY <2>3, <2>4, RecordingStarts
<1>3. ASSUME NEW u \in Recorders, LogTuningDecision(u) PROVE ExperienceInv'
  <2>1. PICK run, files : run = "" /\ files = <<History>>
    OBVIOUS
  <2>2. AsksFor(run, files)
    BY <2>1 DEF AsksFor
  <2>3. StartRecording(u, run, files)
    BY <1>3, <2>1 DEF LogTuningDecision
  <2> QED
    BY <2>2, <2>3, RecordingStarts
<1>4. ASSUME NEW u \in Recorders, ReadShared(u) PROVE ExperienceInv'
  BY <1>4, ReadingShared
<1>5. ASSUME NEW u \in Recorders, OpenFile(u) PROVE ExperienceInv'
  BY <1>5, OpeningFile
<1>6. ASSUME NEW u \in Recorders, NEW longer \in BOOLEAN, WriteFile(u, longer) PROVE ExperienceInv'
  BY <1>6, WritingRunFile, WritingShared
<1>7. CASE ProcessDies
  BY <1>7, RecordingsDie
<1>8. CASE ExperienceNext
  BY <1>2, <1>3, <1>4, <1>5, <1>6, <1>7, <1>8 DEF ExperienceNext
<1> QED
  BY <1>1, <1>8

LEMMA ExperienceSafe == ExperienceInv => ExperienceHolds
<1> SUFFICES ASSUME ExperienceInv PROVE ExperienceHolds
  OBVIOUS
<1>1. ExperienceTypes /\ SharedMatch /\ RunFilesFine
  BY DEF ExperienceInv
<1>2. PICK old, last : old = ReadAs(Index) /\ last = recorded.last
  OBVIOUS
<1>3. old \in Seq(Entry) /\ AllBacked(old) /\ last \in [Runs -> Nat]
  BY <1>1, <1>2, ReadAsIs DEF ExperienceTypes
<1>4. FoundAgain
  <2>1. ASSUME NEW run \in Runs, ~Unfinished(run), last[run] > 0,
               NEW s, s = RunFile("scores", run), NEW t, t = RunFile("traces", run)
        PROVE  /\ disk[s] = Holding("whole", last[run], <<>>)
               /\ disk[t] = Holding("whole", last[run], <<>>)
               /\ Index \notin unsafe => EntryOf(run) = last[run]
    <3>1. s \in Files /\ t \in Files
      BY <2>1, FilesAre DEF Kinds4
    <3>2. s[2] = run /\ t[2] = run
      BY <2>1 DEF RunFile
    <3>3. disk[s].by = last[run] /\ disk[t].by = last[run]
      BY <1>2, <2>1, <3>1, <3>2 DEF Unfinished
    <3>4. ASSUME NEW kind \in Kinds4, NEW f, f = RunFile(kind, run), disk[f].by = last[run]
          PROVE  disk[f] = Holding("whole", last[run], <<>>)
      <4>1. disk[f].state = "whole" /\ disk[f].entries = <<>>
        BY <1>1, <2>1, <3>4 DEF RunFilesFine
      <4>2. f \in Files
        BY <3>4, FilesAre
      <4>3. disk[f] \in FileRow
        BY <1>1, <4>2 DEF ExperienceTypes
      <4>4. disk[f] = [state |-> disk[f].state, by |-> disk[f].by, entries |-> disk[f].entries]
        BY <4>3 DEF FileRow
      <4> QED
        BY <3>4, <4>1, <4>4 DEF Holding
    <3>5. disk[s] = Holding("whole", last[run], <<>>) /\ disk[t] = Holding("whole", last[run], <<>>)
      BY <2>1, <3>3, <3>4 DEF Kinds4
    <3>6. ASSUME Index \notin unsafe PROVE EntryOf(run) = last[run]
      <4>1. CASE At(old, run) = {}
        BY <1>2, <2>1, <3>3, <4>1 DEF EntryOf, RunFile
      <4>2. CASE At(old, run) # {}
        <5>1. PICK i \in DOMAIN old : old[i].run = run
          BY <4>2 DEF At
        <5>2. Intact(Index)
          <6>1. disk[Index].state = "broken" => old = <<>>
            BY <1>2 DEF ReadAs
          <6>2. old # <<>>
            BY <5>1
          <6> QED
            BY <3>6, <6>1, <6>2 DEF Intact
        <5>3. Matches(old, last)
          BY <1>1, <1>2, <5>2 DEF SharedMatch
        <5>4. At(old, run) = {i}
          BY <5>1, <5>3 DEF At, Matches, OnceEach
        <5>5. i \in Int
          BY <1>3, <5>1
        <5>6. Min({i}) = i
          BY <5>5 DEF Min
        <5>7. EntryOf(run) = old[i].by
          BY <1>2, <4>2, <5>4, <5>6 DEF EntryOf
        <5> QED
          BY <5>1, <5>3, <5>7 DEF Matches
      <4> QED
        BY <4>1, <4>2
    <3> QED
      BY <3>5, <3>6
  <2> QED
    BY <1>2, <2>1 DEF FoundAgain, GetRun, RunFile
<1>5. RunsListed
  <2>1. SUFFICES ASSUME Intact(Index)
                 PROVE  /\ OnceEach(old)
                        /\ {e.run : e \in ToSet(old)} = {run \in Runs : last[run] > 0}
    BY <1>2 DEF RunsListed, OnceEach
  <2>2. Matches(old, last)
    BY <1>1, <1>2, <2>1 DEF SharedMatch
  <2>3. \A i \in DOMAIN old : old[i].run \in Runs /\ last[old[i].run] > 0
    BY <2>2 DEF Matches
  <2>4. ToSet(old) = {old[i] : i \in DOMAIN old}
    BY DEF ToSet
  <2>5. {e.run : e \in ToSet(old)} \subseteq {run \in Runs : last[run] > 0}
    BY <2>3, <2>4
  <2>6. {run \in Runs : last[run] > 0} \subseteq {e.run : e \in ToSet(old)}
    BY <2>2, <2>4 DEF Matches
  <2> QED
    BY <2>2, <2>5, <2>6 DEF Matches
<1>6. DecisionsListed
  BY <1>1 DEF SharedMatch, DecisionsListed
<1>7. FilesBeforeIndex
  <2>1. ASSUME NEW e \in ToSet(old) PROVE EntryBacked(e)
    BY <1>3, <2>1 DEF ToSet, AllBacked
  <2> QED
    BY <1>2, <2>1 DEF FilesBeforeIndex, EntryBacked, RunFile, Kinds4
<1> QED
  BY <1>4, <1>5, <1>6, <1>7 DEF ExperienceHolds

\* ExperienceHolds of every run and recorder: what recordRun wrote is found again
\* by getRun, the index of appendToIndex has each run once and after its files, and
\* logTuningDecision loses no decision, but where two callers or a death interfere.
THEOREM ExperienceCorrect == ExperienceSpec => []ExperienceHolds
<1>1. ExperienceInit => ExperienceInv
  BY ExperienceStart
<1>2. ExperienceInv /\ [ExperienceNext]_experienceVars => ExperienceInv'
  BY ExperienceStep
<1>3. ExperienceInv => ExperienceHolds
  BY ExperienceSafe
<1> QED
  BY <1>1, <1>2, <1>3, PTL DEF ExperienceSpec
=============================================================================
