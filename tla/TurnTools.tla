----------------------------- MODULE TurnTools -----------------------------
(***************************************************************************)
(* The tools' part of an iteration (runtime/iteration-executor.ts): what   *)
(* the interceptors let through is asked of the model, the tool calls it   *)
(* answers are run, those that only read at once and the others one after  *)
(* the other, and their results are recorded, checked and told to the      *)
(* model in the next iteration.                                            *)
(***************************************************************************)
EXTENDS Integers, FiniteSets, Sequences, SequencesExt, FiniteSetsExt

CONSTANTS Answers,     \* of the model: sequences of [tool, file], <<>> for a text
          Listeners,   \* number of pre-step interceptors
          MaxAuto,     \* maxAutoCorrectionsPerFile
          MaxTurns     \* bound: iterations of an execution

VARIABLES turn,       \* the iteration under way
          transcript, \* the iterations recorded
          equipped,   \* there is a tool executor
          aborted     \* options.signal

turnToolVars == <<turn, transcript, equipped, aborted>>

\* READ is not registered, but is found when its name is put in lower case.
Registered == {"read", "write"}
Exact(name) == IF name \in Registered THEN name ELSE "none"
Lowered(name) == IF name = "READ" THEN "read" ELSE name
ValidatedTool(name) == IF Exact(name) # "none" THEN name ELSE Exact(Lowered(name))
ReadsOnly(call) == Exact(call.tool) = "read"

NoTurn == [at |-> "idle", asked |-> 0, calls |-> <<>>, state |-> <<>>, result |-> <<>>]
TurnToolsInit ==
  /\ turn = NoTurn /\ transcript = <<>>
  /\ equipped \in BOOLEAN /\ aborted = FALSE

StartIteration ==
  /\ turn.at = "idle" /\ ~aborted /\ Len(transcript) < MaxTurns
  /\ turn' = [NoTurn EXCEPT !.at = "intercepted"]
  /\ UNCHANGED <<transcript, equipped, aborted>>
AbortExecution ==
  /\ ~aborted /\ aborted' = TRUE
  /\ UNCHANGED <<turn, transcript, equipped>>

\* What the next iteration finds of this one.
Recorded(calls, results, evidence) == [calls |-> calls, results |-> results, evidence |-> evidence]
Evidence(kind, file) == [kind |-> kind, file |-> file]

\* runWaterfall: a listener is asked unless the signal is aborted; whoever
\* rejects ends the step, with evidence, and the model is not asked.
ListenerAsked(decision) ==
  /\ turn.at = "intercepted" /\ turn.asked < Listeners
  /\ aborted => decision = "reject"
  /\ CASE decision = "enter" -> /\ turn' = [turn EXCEPT !.asked = @ + 1]
                                /\ UNCHANGED transcript
       [] decision = "reject" ->
            /\ turn' = NoTurn
            /\ transcript' = Append(transcript, Recorded(<<>>, <<>>, <<Evidence("rejected", "")>>))
       [] decision = "throw" -> turn' = [turn EXCEPT !.at = "over"] /\ UNCHANGED transcript
  /\ UNCHANGED <<equipped, aborted>>

\* The proposals are partitioned by the name as it was given; all that read
\* only are begun, and are with the policy engine.
AtFirst(calls) ==
  [i \in DOMAIN calls |-> IF equipped /\ ReadsOnly(calls[i]) THEN "judged" ELSE "waiting"]
ModelResponds(calls) ==
  /\ turn.at = "intercepted" /\ turn.asked = Listeners
  /\ turn' = [turn EXCEPT !.at = "acting", !.calls = calls, !.state = AtFirst(calls),
                          !.result = [i \in DOMAIN calls |-> ""]]
  /\ UNCHANGED <<transcript, equipped, aborted>>
\* A provider that fails, also for the abort, ends the execution.
ModelFailed ==
  /\ turn.at = "intercepted" /\ turn.asked = Listeners
  /\ turn' = [turn EXCEPT !.at = "over"]
  /\ UNCHANGED <<transcript, equipped, aborted>>

InState(states) == {i \in DOMAIN turn.calls : turn.state[i] \in states}
Underway == InState({"judged", "running"})
Serial == {i \in DOMAIN turn.calls : ~ReadsOnly(turn.calls[i])}

Settled(i, status) ==
  turn' = [turn EXCEPT !.state[i] = "done", !.result[i] = status]

\* The serial ones follow, each when all before it are done.
NextInLine == Underway = {} /\ InState({"waiting"}) # {}
BeginSerial ==
  LET i == Min(InState({"waiting"}))
  IN  /\ turn.at = "acting" /\ equipped
      /\ NextInLine
      /\ IF ValidatedTool(turn.calls[i].tool) = "none" THEN Settled(i, "UNKNOWN_TOOL")
         ELSE turn' = [turn EXCEPT !.state[i] = "judged"]
      /\ UNCHANGED <<transcript, equipped, aborted>>

\* A policy engine that throws fails the iteration; those that were begun
\* with this call go on, and nobody records what they return.
PolicyDecides(i, decision) ==
  /\ turn.state[i] = "judged"
  /\ CASE decision = "ALLOW" -> turn' = [turn EXCEPT !.state[i] = "running"]
       [] decision = "DENY" -> Settled(i, "DENIED") \* and what needs an approval
       [] decision = "throw" -> turn' = [turn EXCEPT !.at = "over", !.state[i] = "done"]
  /\ UNCHANGED <<transcript, equipped, aborted>>
ToolAnswers(i, status) ==
  /\ turn.state[i] = "running"
  /\ Settled(i, status)
  /\ UNCHANGED <<transcript, equipped, aborted>>

\* proposalResults: by the index of the proposal, not in the order of arrival.
Failed == {"UNKNOWN_TOOL", "DENIED", "FAILURE"}
ByReadsFirst == \* mutant of ProposalResults: in the order in which they were begun
  LET reads == SetToSortSeq(DOMAIN turn.calls \ Serial, <)
      others == SetToSortSeq(Serial, <)
      Result(i) == [call |-> i, status |-> turn.result[i]]
  IN  [k \in DOMAIN turn.calls |-> Result((reads \o others)[k])]
ProposalResults ==
  IF equipped THEN [i \in DOMAIN turn.calls |-> [call |-> i, status |-> turn.result[i]]]
  ELSE <<>>
FailureEvidence ==
  LET failing == SelectSeq(ProposalResults, LAMBDA r : r.status \in Failed)
  IN  [k \in DOMAIN failing |-> Evidence(failing[k].status, "")]

\* The automatic lint and the automatic tests after a write, unless earlier
\* iterations have corrected the file often enough.
Corrections(it, file) ==
  Cardinality({k \in DOMAIN it.evidence : it.evidence[k].kind \in {"lint", "test"}
                                          /\ it.evidence[k].file = file})
PriorCorrections(file) ==
  FoldLeft(LAMBDA n, it : n + Corrections(it, file), 0, transcript)
Checked ==
  {i \in Serial : /\ turn.calls[i].tool = "write" /\ turn.result[i] = "SUCCESS"
                  /\ PriorCorrections(turn.calls[i].file) < MaxAuto}
FinishIteration(found) ==
  /\ turn.at = "acting"
  /\ equipped => InState({"done"}) = DOMAIN turn.calls
  /\ found \subseteq Checked \X {"lint", "test"}
  /\ LET sorted == SetToSortSeq(found, LAMBDA a, b : a[1] < b[1] \/ (a[1] = b[1] /\ a[2] = "lint" /\ b[2] = "test"))
         auto == [k \in DOMAIN sorted |-> Evidence(sorted[k][2], turn.calls[sorted[k][1]].file)]
     IN  transcript' = Append(transcript, Recorded(turn.calls, ProposalResults, FailureEvidence \o auto))
  /\ turn' = NoTurn
  /\ UNCHANGED <<equipped, aborted>>

TurnToolsNext ==
  \/ StartIteration \/ AbortExecution
  \/ \E decision \in {"enter", "reject", "throw"} : ListenerAsked(decision)
  \/ \E calls \in Answers : ModelResponds(calls)
  \/ ModelFailed
  \/ BeginSerial
  \/ \E i \in DOMAIN turn.calls :
       \/ \E decision \in {"ALLOW", "DENY", "throw"} : PolicyDecides(i, decision)
       \/ \E status \in {"SUCCESS", "FAILURE"} : ToolAnswers(i, status)
  \/ \E found \in SUBSET ((DOMAIN turn.calls) \X {"lint", "test"}) : FinishIteration(found)
-----------------------------------------------------------------------------
\* The messages the next iteration begins with: an assistant message with the
\* calls of an iteration, their results, and its evidence.
Called(n, it) == IF it.calls = <<>> THEN <<>>
                 ELSE <<[role |-> "assistant", turn |-> n, call |-> 0]>>
Answered(n, it) ==
  [k \in DOMAIN it.results |-> [role |-> "tool", turn |-> n, call |-> it.results[k].call]]
Told(n, it) == [k \in DOMAIN it.evidence |-> [role |-> "system", turn |-> n, call |-> 0]]
Messages ==
  FlattenSeq([n \in DOMAIN transcript |->
    Called(n, transcript[n]) \o Answered(n, transcript[n]) \o Told(n, transcript[n])])

\* The calls of an assistant message are followed by their results, each once
\* and in the order of the calls, and a result follows such a message.
CallsAreAnswered ==
  equipped => LET told == Messages IN
    \A k \in DOMAIN told :
      /\ told[k].role = "assistant" =>
           \A i \in DOMAIN transcript[told[k].turn].calls :
             /\ k + i \in DOMAIN told
             /\ told[k + i] = [role |-> "tool", turn |-> told[k].turn, call |-> i]
      /\ told[k].role = "tool" => k > 1 /\ told[k - 1].role \in {"assistant", "tool"}

\* What may change something runs alone: nothing else of the iteration is
\* with the policy engine or running, all that reads only and all calls
\* before it are done, and none after it has been looked at.
SerialAlone ==
  \A i \in Serial : turn.state[i] \in {"judged", "running"} =>
    /\ Underway = {i}
    /\ \A j \in DOMAIN turn.calls \ {i} :
         turn.state[j] = IF j \in Serial /\ j > i THEN "waiting" ELSE "done"

\* Only a policy engine that throws leaves calls running that no iteration
\* will record.
NothingRunsOn == Underway # {} => turn.at \in {"acting", "over"}

\* Every call that failed is evidence, and a file is corrected in no more
\* iterations than the limit, whatever writes of it there are.
FailuresAreEvidence ==
  \A n \in DOMAIN transcript : LET it == transcript[n] IN
    \A status \in Failed :
      Cardinality({k \in DOMAIN it.results : it.results[k].status = status}) =
      Cardinality({k \in DOMAIN it.evidence : it.evidence[k].kind = status})
CorrectionsEnd ==
  \A file \in {"f", "g"} :
    Cardinality({n \in DOMAIN transcript : Corrections(transcript[n], file) > 0}) <= MaxAuto

TurnsHold == CallsAreAnswered /\ SerialAlone /\ NothingRunsOn /\ FailuresAreEvidence /\ CorrectionsEnd
=============================================================================
