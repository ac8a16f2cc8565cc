---------------------------- MODULE CrashRecovery ----------------------------
(***************************************************************************)
(* DefaultExecutionJournal and DefaultRecoveryManager (infra/persistence), *)
(* with an executor that journals every action it runs, crashes anywhere,  *)
(* also during recovery, and a human who reviews what recovery escalates.  *)
(* Executor, retry and human are external: they make the calls the tests   *)
(* make (tests/unit/infra/crash-safe-execution.test.ts).  The journal      *)
(* outlives a crash, as it does there.                                     *)
(***************************************************************************)
EXTENDS Naturals, FiniteSets

CONSTANTS Actions, NoEntry,
          Irreversible,  \* FILE_DELETE or irreversible proposals
          MaxCrashes, MaxReviews  \* bounds

ActionExecutionStatus ==
  {"PROPOSED", "AUTHORIZED", "STARTED", "COMPLETED", "FAILED", "UNKNOWN"}
JournalEntry == [status: ActionExecutionStatus, isDestructive: BOOLEAN]

ASSUME RecoveryConstants ==
  /\ Irreversible \subseteq Actions
  /\ MaxCrashes \in Nat /\ MaxReviews \in Nat
  /\ NoEntry \notin JournalEntry

VARIABLES journal,   \* action -> JournalEntry or NoEntry
          doing,     \* what the executor does with each action next
          mode,      \* working, crashed, analyzing or decided
          todo,      \* entries analyzeCrash has yet to classify
          found,     \* [destructive, unknown]: what it found so far
          decision,  \* the RecoveryDecision's action
          effects,   \* history: how often each action took effect
          approved,  \* history: retries a human approved
          crashes, reviews

vars == <<journal, doing, mode, todo, found, decision, effects, approved,
          crashes, reviews>>

InterruptedAfterReview == \* mutant of InterruptedStatuses
  {"PROPOSED", "AUTHORIZED", "STARTED"}
InterruptedSinceAuthorized == \* mutant of InterruptedStatuses
  {"AUTHORIZED", "STARTED", "UNKNOWN"}
NotCompleted == \* mutant of InterruptedStatuses
  {"PROPOSED", "AUTHORIZED", "STARTED", "UNKNOWN", "FAILED"}
InterruptedStatuses == {"PROPOSED", "AUTHORIZED", "STARTED", "UNKNOWN"}

\* getInterruptedEntries.
Interrupted ==
  {a \in Actions : journal[a] # NoEntry /\ journal[a].status \in InterruptedStatuses}

Logged(a, status) == journal' = [journal EXCEPT ![a].status = status]
Goes(a, to) == doing' = [doing EXCEPT ![a] = to]

Working(a, at) == mode = "working" /\ doing[a] = at
Unrecovered == <<mode, todo, found, decision, approved, crashes, reviews>>
-----------------------------------------------------------------------------
\* The executor.  Actions run in parallel.

\* logProposal: the flag is what the description says, or the caller's override.
LogProposal(a, isDestructive) ==
  /\ Working(a, "propose")
  /\ journal' = [journal EXCEPT ![a] = [status |-> "PROPOSED",
                                        isDestructive |-> isDestructive]]
  /\ Goes(a, "authorize")
  /\ UNCHANGED <<Unrecovered, effects>>

LogAuthorization(a) ==
  /\ Working(a, "authorize")
  /\ Logged(a, "AUTHORIZED")
  /\ Goes(a, "start")
  /\ UNCHANGED <<Unrecovered, effects>>

LogStart(a) ==
  /\ Working(a, "start")
  /\ Logged(a, "STARTED")
  /\ Goes(a, "run")
  /\ UNCHANGED <<Unrecovered, effects>>

RunTool(a) ==
  /\ Working(a, "run")
  /\ effects' = [effects EXCEPT ![a] = @ + 1]
  /\ Goes(a, "report")
  /\ UNCHANGED <<Unrecovered, journal>>

\* logCompletion, logFailure, or logUnknown when the tool timed out.
Report(a, status) ==
  /\ \/ Working(a, "report")
     \/ Working(a, "run") /\ status # "COMPLETED"
  /\ Logged(a, status)
  /\ Goes(a, "rest")
  /\ UNCHANGED <<Unrecovered, effects>>

Crash ==
  /\ crashes < MaxCrashes
  /\ crashes' = crashes + 1
  /\ mode' = "crashed"
  /\ doing' = [a \in Actions |-> IF journal[a] = NoEntry THEN "propose" ELSE "rest"]
  /\ todo' = {}
  /\ decision' = "NONE"
  /\ UNCHANGED <<journal, found, effects, approved, reviews>>
-----------------------------------------------------------------------------
\* analyzeCrash and createRecoveryDecision.

AnalyzeCrash ==
  /\ mode = "crashed"
  /\ mode' = "analyzing"
  /\ todo' = Interrupted
  /\ found' = [destructive |-> FALSE, unknown |-> FALSE]
  /\ UNCHANGED <<journal, doing, decision, effects, approved, crashes, reviews>>

FlaggedOnly(a) == journal[a].isDestructive \* mutant of Destructive
Destructive(a) == journal[a].isDestructive \/ a \in Irreversible

\* One turn of the loop: a destructive entry becomes UNKNOWN.
RemovedEntry(a) == \* mutant of MarkUnknown
  journal' = [journal EXCEPT ![a] = NoEntry]
MarkUnknown(a) == Logged(a, "UNKNOWN")

Classify(a) ==
  /\ mode = "analyzing"
  /\ a \in todo
  /\ todo' = todo \ {a}
  /\ IF journal[a].status # "UNKNOWN" /\ Destructive(a)
     THEN /\ MarkUnknown(a)
          /\ found' = [found EXCEPT !.destructive = TRUE]
     ELSE /\ found' = IF journal[a].status = "UNKNOWN"
                      THEN [destructive |-> found.destructive \/ Destructive(a),
                            unknown |-> TRUE]
                      ELSE found
          /\ UNCHANGED journal
  /\ UNCHANGED <<doing, mode, decision, effects, approved, crashes, reviews>>

Decide ==
  /\ mode = "analyzing"
  /\ todo = {}
  /\ mode' = "decided"
  /\ decision' = IF found.destructive \/ found.unknown THEN "ESCALATE"
                 ELSE IF Interrupted # {} THEN "RETRY_ACTION" ELSE "RESUME"
  /\ UNCHANGED <<journal, doing, todo, found, effects, approved, crashes, reviews>>
-----------------------------------------------------------------------------
\* What the caller does with the decision.

\* RESUME and RETRY_ACTION are carried out, ESCALATE when no entry is UNKNOWN
\* any more: interrupted entries are taken up at the step their status calls for.
StepAfter(status) == IF status = "PROPOSED" THEN "authorize" ELSE "start"

Proceed ==
  /\ mode = "decided"
  /\ decision = "ESCALATE" => \A a \in Interrupted : journal[a].status # "UNKNOWN"
  /\ mode' = "working"
  /\ doing' = [a \in Actions |-> IF a \in Interrupted
                                THEN StepAfter(journal[a].status) ELSE doing[a]]
  /\ UNCHANGED <<journal, todo, found, decision, effects, approved, crashes,
                 reviews>>

\* The human looks at an UNKNOWN entry: it took effect, it failed, or it is to
\* run again.
Review(a, verdict) ==
  /\ mode = "decided" /\ decision = "ESCALATE"
  /\ reviews < MaxReviews
  /\ reviews' = reviews + 1
  /\ a \in Interrupted /\ journal[a].status = "UNKNOWN"
  /\ Logged(a, verdict)
  /\ approved' = [approved EXCEPT ![a] = IF verdict = "AUTHORIZED" THEN @ + 1 ELSE @]
  /\ UNCHANGED <<doing, mode, todo, found, decision, effects, crashes>>
-----------------------------------------------------------------------------
Init ==
  /\ journal = [a \in Actions |-> NoEntry]
  /\ doing = [a \in Actions |-> "propose"]
  /\ mode = "working"
  /\ todo = {}
  /\ found = [destructive |-> FALSE, unknown |-> FALSE]
  /\ decision = "NONE"
  /\ effects = [a \in Actions |-> 0]
  /\ approved = [a \in Actions |-> 0]
  /\ crashes = 0
  /\ reviews = 0

Execute(a) ==
  \/ \E isDestructive \in BOOLEAN : LogProposal(a, isDestructive)
  \/ LogAuthorization(a) \/ LogStart(a) \/ RunTool(a)
  \/ \E status \in {"COMPLETED", "FAILED", "UNKNOWN"} : Report(a, status)

Recover == AnalyzeCrash \/ (\E a \in Actions : Classify(a)) \/ Decide \/ Proceed

HumanReviews ==
  \E a \in Actions, verdict \in {"COMPLETED", "FAILED", "AUTHORIZED"} :
    Review(a, verdict)

Next == (\E a \in Actions : Execute(a)) \/ Crash \/ Recover \/ HumanReviews

Spec == Init /\ [][Next]_vars

\* Tool calls settle and the caller carries recovery through; nothing obliges
\* the human.
FairSpec == /\ Spec
            /\ \A a \in Actions : WF_vars(Execute(a))
            /\ WF_vars(Recover)
-----------------------------------------------------------------------------
\* Properties

Known(a) == journal[a] # NoEntry

TypeOK ==
  /\ journal \in [Actions -> JournalEntry \cup {NoEntry}]
  /\ doing \in [Actions -> {"propose", "authorize", "start", "run", "report",
                            "rest"}]
  /\ \A a \in Actions : doing[a] = "propose" <=> ~Known(a)
  /\ mode \in {"working", "crashed", "analyzing", "decided"}
  /\ todo \subseteq {a \in Actions : Known(a)}
  /\ found \in [destructive: BOOLEAN, unknown: BOOLEAN]
  /\ decision \in {"NONE", "RESUME", "RETRY_ACTION", "ESCALATE"}
  /\ effects \in [Actions -> Nat] /\ approved \in [Actions -> Nat]
  /\ crashes \in 0..MaxCrashes /\ reviews \in 0..MaxReviews

\* infra/persistence/default-recovery-manager.ts: interrupted destructive
\* actions "MUST NEVER be retried automatically".  A destructive action takes
\* effect once, and once more for every retry a human approved, however often
\* executor and recovery crash.
NoSilentRepeat ==
  \A a \in Actions :
     Known(a) /\ (journal[a].isDestructive \/ a \in Irreversible) =>
        effects[a] <= 1 + approved[a]

\* Once recovery has decided, it is ESCALATE as long as a destructive action is
\* unfinished or the outcome of any action is unknown: also when an earlier
\* recovery crashed after it had classified some of the entries.
EscalatedUntilReviewed ==
  mode = "decided" /\ decision # "ESCALATE" =>
    \A a \in Actions : Known(a) =>
       /\ journal[a].status # "UNKNOWN"
       /\ journal[a].status \in {"PROPOSED", "AUTHORIZED", "STARTED"} =>
            ~journal[a].isDestructive /\ a \notin Irreversible

\* What has completed or failed is never taken up again.
FinishedIsFinal ==
  [][\A a \in Actions :
       Known(a) /\ journal[a].status \in {"COMPLETED", "FAILED"} =>
         journal'[a] = journal[a] /\ effects'[a] = effects[a]]_vars

\* No action is forgotten half way: it is completed or fails, its outcome
\* becomes unknown, or recovery waits for a human.
EveryActionSettles ==
  \A a \in Actions : Known(a) ~>
     \/ Known(a) /\ journal[a].status \in {"COMPLETED", "FAILED", "UNKNOWN"}
     \/ mode = "decided" /\ decision = "ESCALATE"
=============================================================================
