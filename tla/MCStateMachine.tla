--------------------------- MODULE MCStateMachine ---------------------------
(* StateMachine on small constants: histories of every shape the chosen      *)
(* calls allow, up to MaxHistory transitions.  Beside it, as parts that      *)
(* share no state with it, what the machine's evidence comes from and what   *)
(* the agent knows and is told, and helpers around calls: a behaviour is one *)
(* of one part.                                                              *)
EXTENDS StateMachine, Verification, ContextStore, ContextCompiler, Guards,
        TelemetryExport

VARIABLE part

helpers == <<breakerVars, deadline, calls, prints, export>>
all == <<vars, verificationVars, contextVars, compilerVars, helpers, part>>

By(llm, events, evidences) == [event: events, llm: {llm}, evidence: {evidences}]

\* The runtime tries every event; the model, and callers that have evidence,
\* try the events that end a task.
SomeCalls ==
  By(FALSE, StateEvents, {})
  \cup UNION {By(llm, {"VERIFICATION_PASSED", "MARK_DONE"}, ids) :
                llm \in BOOLEAN, ids \in SUBSET EvidenceIds}
  \cup By(TRUE, {"VERIFICATION_FAILED", "MARK_FAILED"}, {})

\* Two files, of which the linter reads one.
Reads == [c \in {"full-typecheck", "full-lint", "full-test", TargetCheck} |->
            IF c = "full-lint" THEN {"a"} ELSE {"a", "b"}]
ScriptedChecks == {"full-test"}
TwoSuites == {<<"full-typecheck", "full-test">>}

\* Of what the agent may know: an instruction, an attempt, noise, an output
\* over the cap and a decision.
Known(type, importance, tags, text, cost) ==
  [type |-> type, source |-> "agent", episodic |-> FALSE, importance |-> importance,
   tags |-> tags, text |-> text, cost |-> cost]
SomeObjects ==
  {Known("USER_INSTRUCTION", 100, {}, <<"asked", 0, 0>>, 5),
   Known("ATTEMPT", 50, {}, <<"tried", 0, 0>>, 3),
   Known("OBSERVATION", 40, {"ephemeral"}, <<"ran", 0, 0>>, 1),
   Known("OBSERVATION", 60, {"tool_output"}, <<"ran", 1, 0>>, 5),
   Known("DECISION", 80, {}, <<"chose", 0, 0>>, 3)}

\* With room for a batch, and with less.
SomeSizes == {[batch |-> 2, queue |-> 3], [batch |-> 3, queue |-> 2]}
SomeItems == [span |-> 3, metric |-> 9]

AllInit == /\ Init /\ VerificationInit /\ ContextInit /\ CompilerInit
           /\ BreakerInit /\ DeadlineInit /\ WindowsInit /\ ExportInit
           /\ part \in {"machine", "verification", "context", "compiler",
                       "breaker", "deadline", "calls", "prints", "export"}
           /\ part # "verification" => ~testEnvironment
           /\ part # "deadline" => deadline.limited /\ ~deadline.parent
           /\ part # "export" => export.timer /\ export.sizes.batch = 2
MachinePart == /\ part = "machine" /\ Next
               /\ UNCHANGED <<verificationVars, contextVars, compilerVars, helpers>>
VerificationPart == /\ part = "verification" /\ VerificationNext
                    /\ UNCHANGED <<vars, contextVars, compilerVars, helpers>>
ContextPart == /\ part = "context" /\ ContextNext
               /\ UNCHANGED <<vars, verificationVars, compilerVars, helpers>>
CompilerPart == /\ part = "compiler" /\ CompilerNext
                /\ UNCHANGED <<vars, verificationVars, contextVars, helpers>>
HelperPart ==
  /\ \/ part = "breaker" /\ BreakerNext /\ UNCHANGED <<deadline, calls, prints, export>>
     \/ part = "deadline" /\ DeadlineNext /\ UNCHANGED <<breakerVars, calls, prints, export>>
     \/ part = "calls" /\ CallsNext /\ UNCHANGED <<breakerVars, deadline, export>>
     \/ part = "prints" /\ PrintsNext /\ UNCHANGED <<breakerVars, deadline, export>>
     \/ part = "export" /\ ExportNext /\ UNCHANGED guardVars
  /\ UNCHANGED <<vars, verificationVars, contextVars, compilerVars>>
\* The parts whose bounds let them stop.
Rest == part # "machine" /\ UNCHANGED all

AllNext ==
  \/ (MachinePart \/ VerificationPart \/ ContextPart \/ CompilerPart \/ HelperPart) /\ UNCHANGED part
  \/ Rest
AllSpec == AllInit /\ [][AllNext]_all

\* What the model is told, the guards around calls and the export of telemetry:
\* CompilerHolds, GuardsHold and ExportHolds, each in the behaviours of its part
\* (in the others its state never changes).
HelpersHold ==
  /\ part = "compiler" => CompilerHolds
  /\ part \in {"breaker", "deadline", "calls", "prints"} => GuardsHold
  /\ part = "export" => ExportHolds
=============================================================================
