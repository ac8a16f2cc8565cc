---------------------------- MODULE Verification ----------------------------
(***************************************************************************)
(* The verification engine runs checks one after the other while the code  *)
(* they look at goes on changing, and records what it found as evidence.   *)
(* Two judges read the evidence of a task (DefaultEvidenceAggregator and   *)
(* AcceptanceEvaluator), a resolver looks for contradictions in it, and a  *)
(* cache keeps what a check found for files that did not change.           *)
(* Confidences are in hundredths.                                          *)
(***************************************************************************)
EXTENDS Integers, FiniteSetsExt, SequencesExt

CONSTANTS SourceFiles,
          Depends,   \* what a check reads: [check ids -> SUBSET SourceFiles]
          Scripted,  \* of the checks a caller gives: its command is npm test, npm
                     \* run or npx tsc
          Suites,    \* the suites that runSuite is given: sequences of check ids
          Targets,   \* bound: what verify is asked for: see ChecksFor
          MaxRuns, MaxEdits \* bounds: runs and other records; changes of the code

VARIABLES code,     \* "good", "bad" or "gone", of each file
          evidence, \* DefaultEvidenceStore: the records of one task
          runs,     \* calls of verify and runSuite, and other records
          cache,    \* EvidenceCache: check id -> outcome and hashes
          testEnvironment, \* isTestEnvironment: NODE_ENV, VITEST or a bench directory
          edits

verificationVars == <<code, evidence, runs, cache, testEnvironment, edits>>

CheckIds == DOMAIN Depends
Passes(check) == \A f \in Depends[check] : code[f] # "bad"
NotCached == [found |-> "none", hashes |-> <<>>]

VerificationInit ==
  /\ code = [f \in SourceFiles |-> "good"]
  /\ evidence = {} /\ runs = <<>> /\ edits = 0
  /\ testEnvironment \in BOOLEAN
  /\ cache = [c \in CheckIds |-> NotCached]

\* resolveChecksForProfile: a command and the two kinds of target with a
\* check of their own come before the profile.  The check of a command goes by
\* the type of its target, and so do the results of createDirectResult.
TargetCheck == "check-target"
ChecksFor(target) ==
  CASE target = "command"       -> <<TargetCheck>>
    [] target = "lint"          -> <<"lint-repo">>
    [] target = "test-impacted" -> <<"test-impacted-repo">>
    [] target = "FULL"          -> <<"full-typecheck", "full-lint", "full-test">>
    [] target = "FAST"          -> <<"fast-typecheck">>
    [] target = "STANDARD"      -> <<"std-typecheck">>

TypeOf(check) ==
  IF check \in {"full-test", "test-impacted-repo", TargetCheck}
  THEN "TEST_RESULT" ELSE "VERIFICATION"

ASSUME VerificationConstants ==
  /\ "none" \notin CheckIds
  /\ Suites \subseteq Seq(CheckIds)
  /\ \A target \in Targets : ChecksFor(target) \in Seq(CheckIds)
-----------------------------------------------------------------------------
\* DefaultVerificationEngine.

Start(kind, checks) ==
  /\ Len(runs) < MaxRuns
  /\ runs' = Append(runs, [kind |-> kind, checks |-> checks, next |-> 1,
                           status |-> "PASSED", quiet |-> TRUE])
  /\ UNCHANGED <<code, evidence, cache, testEnvironment, edits>>

Verify(target) == Start("verify", ChecksFor(target))
RunSuite(suite) == Start("suite", suite)

\* In a test environment a command that succeeds whatever the code is stands in
\* for every check of the engine's own, and for a caller's that runs a script.
Stubbed(kind, check) ==
  /\ testEnvironment
  /\ (kind = "verify" /\ check # TargetCheck) \/ check \in Scripted
Succeeds(kind, check) == Stubbed(kind, check) \/ Passes(check)

\* What executeCheck can find: a timeout kills the command.
Executed(kind, check) ==
  {IF Succeeds(kind, check) THEN "PASSED" ELSE "FAILED", "INCONCLUSIVE"}

\* The status of a run so far with one more.
StatusOfLast(run, found) == found \* mutant of Merged: the last check decides
Merged(run, found) ==
  CASE found = "PASSED" -> run.status
    [] found # "PASSED" /\ (run.kind = "suite" \/ run.status = "FAILED") -> "FAILED"
    [] OTHER -> found

OutcomeOf(run, found) ==
  CASE found = "PASSED" -> "PASS"
    [] found = "INCONCLUSIVE" /\ run.kind = "verify" -> "INCONCLUSIVE"
    [] OTHER -> "FAIL"
ConfidenceOf(run, found) ==
  IF found = "PASSED" THEN 95 ELSE IF run.kind = "suite" THEN 10 ELSE 20

Record(r, check, type, outcome, confidence) ==
  evidence' = evidence \cup
    {[run |-> r, check |-> check, type |-> type, outcome |-> outcome,
      pass |-> outcome = "PASS", confidence |-> confidence]}

\* The caller of the cache stores what was found for the files as they are.
Hashes(check) == [f \in {g \in Depends[check] : code[g] # "gone"} |-> code[f]]

ExecuteCheck(r) ==
  LET run == runs[r]
      check == run.checks[run.next]
  IN  /\ run.kind \in {"verify", "suite"} /\ run.next <= Len(run.checks)
      /\ \E found \in Executed(run.kind, check) :
           /\ runs' = [runs EXCEPT ![r].next = @ + 1, ![r].status = Merged(run, found)]
           /\ Record(r, check, TypeOf(check), OutcomeOf(run, found), ConfidenceOf(run, found))
           /\ cache' = [cache EXCEPT ![check] = [found |-> found, hashes |-> Hashes(check)]]
      /\ UNCHANGED <<code, testEnvironment, edits>>

\* verify of a target whose text speaks of an error, of flakiness or of a
\* warning: createDirectResult runs nothing.
DirectConfidence(status) ==
  CASE status = "FAILED" -> 10 [] status = "INCONCLUSIVE" -> 50 [] status = "WARNING" -> 75
DirectResult(status) ==
  /\ Len(runs) < MaxRuns
  /\ runs' = Append(runs, [kind |-> "direct", checks |-> <<>>, next |-> 1,
                           status |-> status, quiet |-> TRUE])
  /\ Record(Len(runs) + 1, TargetCheck, "VERIFICATION",
            IF status = "FAILED" THEN "FAIL" ELSE status, DirectConfidence(status))
  /\ UNCHANGED <<code, cache, testEnvironment, edits>>

\* What a human decided is evidence of the same task, with full confidence.
HumanFeedback(outcome) ==
  /\ Len(runs) < MaxRuns
  /\ runs' = Append(runs, [kind |-> "human", checks |-> <<>>, next |-> 1,
                           status |-> outcome, quiet |-> TRUE])
  /\ Record(Len(runs) + 1, "none", "HUMAN_FEEDBACK", outcome, 100)
  /\ UNCHANGED <<code, cache, testEnvironment, edits>>

EditFile(f, to) ==
  /\ edits < MaxEdits /\ code[f] # to
  /\ edits' = edits + 1
  /\ code' = [code EXCEPT ![f] = to]
  /\ runs' = [r \in DOMAIN runs |-> [runs[r] EXCEPT !.quiet = FALSE]]
  /\ UNCHANGED <<evidence, cache, testEnvironment>>

VerificationNext ==
  \/ \E target \in Targets : Verify(target)
  \/ \E suite \in Suites : RunSuite(suite)
  \/ \E r \in DOMAIN runs : ExecuteCheck(r)
  \/ \E status \in {"FAILED", "INCONCLUSIVE", "WARNING"} : DirectResult(status)
  \/ \E outcome \in {"PASS", "FAIL", "WARNING"} : HumanFeedback(outcome)
  \/ \E f \in SourceFiles, to \in {"good", "bad", "gone"} : EditFile(f, to)
VerificationSpec == VerificationInit /\ [][VerificationNext]_verificationVars
-----------------------------------------------------------------------------
\* The judges, for a policy that requires some checks and otherwise is
\* DEFAULT_ACCEPTANCE_POLICY.

PassedChecks(list) == {e.check : e \in {x \in list : x.outcome = "PASS"}}

\* evaluateAcceptance of the aggregator.
EvaluateAcceptance(list, required) ==
  /\ list # {}
  /\ \A e \in list : e.outcome \in {"PASS", "WARNING"} /\ e.confidence >= 80
  /\ required \subseteq PassedChecks(list)

\* AcceptanceEvaluator.evaluate without policy decisions.
Evaluate(list, regressions, required) ==
  LET passing == {e \in list : e.pass}
  IN  /\ required \subseteq {e.check : e \in passing}
      /\ regressions = {}
      /\ passing # {}
      /\ MapThenSumSet(LAMBDA e : e.confidence, passing) >= 80 * Cardinality(passing)

\* detectRegressions of the engine goes by pass, the aggregator's by outcome.
RegressionsByPass(base, list) ==
  {e \in list : ~e.pass /\ e.check # "none" /\ \E b \in base : b.check = e.check /\ b.pass}
RegressionsByOutcome(base, list) ==
  {e \in list : e.outcome = "FAIL" /\ e.check # "none"
                /\ \E b \in base : b.check = e.check /\ b.outcome = "PASS"}

\* ContradictoryEvidenceResolver.
Contradictory(list) ==
  \/ /\ \E e \in list : e.pass
     /\ \E e \in list : ~e.pass /\ e.type = "VERIFICATION"
  \/ \E e, x \in list : e.check = x.check /\ e.check # "none"
                        /\ e.outcome = "PASS" /\ x.outcome = "FAIL"

CacheHit(check) ==
  /\ cache[check] # NotCached
  /\ \A f \in DOMAIN Hashes(check) :
       f \in DOMAIN cache[check].hashes /\ cache[check].hashes[f] = Hashes(check)[f]
-----------------------------------------------------------------------------
Of(r) == {e \in evidence : e.run = r}
Over(r) == runs[r].next > Len(runs[r].checks)

\* A verdict says what its evidence says, and a run that passed while nobody
\* touched the code means that the code passes now, each check of the run but
\* those a test environment stubs (verify, runSuite): of these a PASSED says
\* nothing, and neither does the evidence recorded for it.
VerdictsTellEvidence ==
  \A r \in DOMAIN runs : runs[r].kind \in {"verify", "suite"} =>
    /\ runs[r].status = "PASSED" <=> \A e \in Of(r) : e.pass
    /\ runs[r].status = "FAILED" <=> \E e \in Of(r) : e.outcome = "FAIL"
    /\ Over(r) /\ runs[r].quiet /\ runs[r].status = "PASSED" =>
         \A i \in DOMAIN runs[r].checks :
            Passes(runs[r].checks[i]) \/ Stubbed(runs[r].kind, runs[r].checks[i])

\* The aggregator is the stricter judge: what it accepts never failed, was
\* never inconclusive, contradicts nothing, and the evaluator accepts it as
\* well once anything passed; but what failed once it never accepts again.
AcceptanceAgrees ==
  \A required \in SUBSET CheckIds :
    EvaluateAcceptance(evidence, required) =>
      /\ \A r \in DOMAIN runs : runs[r].status \in {"PASSED", "PASS", "WARNING"}
      /\ ~Contradictory(evidence)
      /\ (\E e \in evidence : e.pass) =>
           Evaluate(evidence, RegressionsByPass(evidence, evidence), required)

\* The two ways to see a regression between an earlier and a later run differ
\* by what was inconclusive or a warning only.
RegressionsAgree ==
  \A r, s \in DOMAIN runs : r < s =>
    /\ RegressionsByOutcome(Of(r), Of(s)) \subseteq RegressionsByPass(Of(r), Of(s))
    /\ \A e \in RegressionsByPass(Of(r), Of(s)) \ RegressionsByOutcome(Of(r), Of(s)) :
         e.outcome \in {"INCONCLUSIVE", "WARNING"}

\* What the cache gives is what the check would find of the code, unless it had
\* timed out or a file that it had read is gone since (EvidenceCache.get looks
\* up only the files there are); and a PASSED may be that of a stub.
CacheTellsNow ==
  \A c \in CheckIds :
    CacheHit(c) /\ cache[c].found # "INCONCLUSIVE"
      /\ DOMAIN cache[c].hashes = DOMAIN Hashes(c)
      => /\ cache[c].found = "FAILED" => ~Passes(c)
         /\ cache[c].found = "PASSED" =>
              Passes(c) \/ \E kind \in {"verify", "suite"} : Stubbed(kind, c)

VerificationHolds ==
  VerdictsTellEvidence /\ AcceptanceAgrees /\ RegressionsAgree /\ CacheTellsNow
=============================================================================
