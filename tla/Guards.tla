------------------------------- MODULE Guards -------------------------------
(***************************************************************************)
(* Guards around calls: the circuit breaker of a provider, the deadline of *)
(* a tool, and two sliding windows that look for repetition, of tool calls *)
(* and of states of the loop.                                              *)
(***************************************************************************)
EXTENDS Integers, FiniteSets, Sequences, SequencesExt

CONSTANTS Attempts,         \* calls through the breaker, each made once
          FailureThreshold, SuccessThreshold, RecoveryTime,
          LastTick,         \* bound: the clock
          WindowSize, RepeatThreshold, \* of the repeat guard
          MaxWindowSize, MaxRepeats,   \* of the fingerprinter
          Arguments,        \* integers; neighbours are similar
          MaxRecorded       \* bound: calls and states recorded

\* The window of the fingerprinter, of eight states unless it is told
\* otherwise, has room for the four an oscillation is seen from.
ASSUME GuardConstants ==
  /\ {FailureThreshold, SuccessThreshold} \subseteq Nat \ {0}
  /\ {RecoveryTime, WindowSize, MaxWindowSize, MaxRepeats} \subseteq Nat /\ MaxWindowSize >= 4

VARIABLES circuit, \* the breaker
          attempt, \* its calls
          seen,    \* what it has seen, for the properties
          deadline, \* one enforced call
          calls,   \* [window, all] of the repeat guard
          prints   \* [window, all, said] of the fingerprinter

breakerVars == <<circuit, attempt, seen>>
guardVars == <<breakerVars, deadline, calls, prints>>
-----------------------------------------------------------------------------
\* CircuitBreaker.

Closed == [state |-> "CLOSED", failures |-> 0, successes |-> 0, lastFailure |-> 0]
BreakerInit ==
  /\ circuit = Closed
  /\ attempt = [a \in Attempts |-> "new"]
  /\ seen = [now |-> 0, inRow |-> 0, probed |-> 0, openedAt |-> 0]

\* evaluateState, on every look at the breaker.
Evaluated ==
  IF circuit.state = "OPEN" /\ seen.now - circuit.lastFailure >= RecoveryTime
  THEN [circuit EXCEPT !.state = "HALF_OPEN", !.successes = 0] ELSE circuit
ClockTicks ==
  /\ seen.now < LastTick /\ seen' = [seen EXCEPT !.now = @ + 1]
  /\ UNCHANGED <<circuit, attempt>>
\* currentState and isAvailable.
LookAtBreaker ==
  /\ Evaluated # circuit
  /\ circuit' = Evaluated
  /\ seen' = [seen EXCEPT !.probed = 0]
  /\ UNCHANGED attempt
Attempt(a) ==
  /\ attempt[a] = "new"
  /\ circuit' = Evaluated
  /\ attempt' = [attempt EXCEPT ![a] = IF Evaluated.state = "OPEN" THEN "refused" ELSE "made"]
  /\ seen' = [seen EXCEPT !.probed = IF Evaluated = circuit THEN @ ELSE 0]

\* recordSuccess and recordFailure, of a call that may have been made in
\* another state than the one it ends in.
NeverCleared == \* mutant of Succeeded: failures add up across successes
  CASE circuit.state = "HALF_OPEN" /\ circuit.successes + 1 >= SuccessThreshold -> Closed
    [] circuit.state = "HALF_OPEN" /\ circuit.successes + 1 < SuccessThreshold ->
         [circuit EXCEPT !.successes = @ + 1]
    [] OTHER -> circuit
Succeeded ==
  CASE circuit.state = "HALF_OPEN" /\ circuit.successes + 1 >= SuccessThreshold -> Closed
    [] circuit.state = "HALF_OPEN" /\ circuit.successes + 1 < SuccessThreshold ->
         [circuit EXCEPT !.successes = @ + 1]
    [] circuit.state = "CLOSED" -> [circuit EXCEPT !.failures = 0]
    [] OTHER -> circuit
Failed ==
  LET failing == [circuit EXCEPT !.lastFailure = seen.now]
  IN  CASE circuit.state = "HALF_OPEN" ->
             [failing EXCEPT !.state = "OPEN", !.failures = FailureThreshold, !.successes = 0]
        [] circuit.state = "CLOSED" ->
             [failing EXCEPT !.failures = @ + 1,
                !.state = IF circuit.failures + 1 >= FailureThreshold THEN "OPEN" ELSE @]
        [] OTHER -> failing
AttemptEnds(a, good) ==
  /\ attempt[a] = "made"
  /\ circuit' = IF good THEN Succeeded ELSE Failed
  /\ attempt' = [attempt EXCEPT ![a] = "ended"]
  /\ seen' = [seen EXCEPT
       !.inRow = IF circuit.state # "CLOSED" \/ good THEN 0 ELSE @ + 1,
       !.probed = IF circuit.state = "HALF_OPEN" /\ good THEN @ + 1 ELSE @,
       !.openedAt = IF circuit.state # "OPEN" /\ circuit'.state = "OPEN" THEN seen.now ELSE @]
ResetBreaker ==
  /\ circuit # Closed
  /\ circuit' = Closed
  /\ seen' = [seen EXCEPT !.inRow = 0, !.probed = SuccessThreshold]
  /\ UNCHANGED attempt

BreakerNext ==
  \/ ClockTicks \/ LookAtBreaker \/ ResetBreaker
  \/ \E a \in Attempts : Attempt(a) \/ \E good \in BOOLEAN : AttemptEnds(a, good)
-----------------------------------------------------------------------------
\* DefaultTimeoutPolicy.enforce; a limit of 0 is none.

DeadlineInit ==
  /\ \E limited, parentAborted \in BOOLEAN :
       deadline = [at |-> "new", limited |-> limited, parent |-> parentAborted, heard |-> FALSE,
                   signal |-> FALSE, timer |-> FALSE, result |-> "none", returns |-> 0]

\* Without a limit an abort that came before is not looked at.
Enforce ==
  /\ deadline.at = "new"
  /\ deadline' = [deadline EXCEPT !.at = "running", !.timer = deadline.limited,
       !.heard = ~(deadline.limited /\ deadline.parent),
       !.signal = deadline.limited /\ deadline.parent]
ParentAborts ==
  /\ ~deadline.parent
  /\ deadline' = [deadline EXCEPT !.parent = TRUE, !.signal = @ \/ deadline.heard]
SettledWith(call, result) ==
  IF call.result # "none" THEN call
  ELSE [call EXCEPT !.result = result, !.returns = @ + 1, !.timer = FALSE]
TimerFires ==
  /\ deadline.timer
  /\ deadline' = [SettledWith(deadline, "timeout") EXCEPT !.signal = TRUE]
\* What fails is a result when there is a limit, and thrown when there is
\* none; a tool that throws before it returns a promise leaves the timer.
ToolEnds(how) ==
  /\ deadline.at = "running"
  /\ LET result == IF how = "fails" /\ deadline.limited THEN "failure"
                   ELSE IF how = "returns" THEN "answer" ELSE "thrown"
         ended == [SettledWith(deadline, result) EXCEPT !.at = "ended"]
     IN  deadline' = IF how = "throws" THEN [ended EXCEPT !.timer = deadline.limited] ELSE ended
  /\ how = "throws" => deadline.result = "none" /\ ~deadline.signal

DeadlineNext == Enforce \/ ParentAborts \/ TimerFires
                \/ \E how \in {"returns", "fails", "throws"} : ToolEnds(how)
-----------------------------------------------------------------------------
\* DefaultRepeatToolGuard and LoopFingerprinter.

LastOf(s, n) == IF Len(s) <= n THEN s ELSE SubSeq(s, Len(s) - n + 1, Len(s))
OneShort(window, entry, size) == \* mutant of Pushed
  LET longer == Append(window, entry) IN IF Len(longer) >= size THEN Tail(longer) ELSE longer
Pushed(window, entry, size) ==
  LET longer == Append(window, entry) IN IF Len(longer) > size THEN Tail(longer) ELSE longer

WindowsInit == calls = [window |-> <<>>, all |-> <<>>]
               /\ prints = [window |-> <<>>, all |-> <<>>, said |-> "nothing"]

Similar(a, b) == a - b \in {-1, 0, 1}
Matches(window, tool, arg) == SelectSeq(window, LAMBDA c : c.tool = tool /\ Similar(c.arg, arg))
IsRepeat(window, tool, arg) == Len(Matches(window, tool, arg)) + 1 >= RepeatThreshold
RecordCall(tool, arg) ==
  /\ Len(calls.all) < MaxRecorded
  /\ LET call == [tool |-> tool, arg |-> arg]
     IN  calls' = [window |-> Pushed(calls.window, call, WindowSize), all |-> Append(calls.all, call)]
  /\ UNCHANGED prints

Anomaly(window) ==
  LET n == Len(window)
      newest == Last(window)
      Same(k) == window[k] = newest
  IN  IF n >= 3 /\ Same(n - 1) /\ Same(n - 2) THEN "STAGNATION"
      ELSE IF n >= 4 /\ Same(n - 2) /\ ~Same(n - 1) /\ window[n - 1] = window[n - 3] THEN "OSCILLATION"
      ELSE IF Cardinality({k \in 1..n : Same(k)}) >= MaxRepeats THEN "REPEATED_FAILURE"
      ELSE "nothing"
RecordAndInspect(print) ==
  /\ Len(prints.all) < MaxRecorded
  /\ LET window == Pushed(prints.window, print, MaxWindowSize)
     IN  prints' = [window |-> window, all |-> Append(prints.all, print), said |-> Anomaly(window)]
  /\ UNCHANGED calls

ClearCalls ==
  /\ calls' = [window |-> <<>>, all |-> <<>>]
  /\ UNCHANGED prints
ResetPrints ==
  /\ prints' = [window |-> <<>>, all |-> <<>>, said |-> "nothing"]
  /\ UNCHANGED calls

CallsNext == ClearCalls \/ \E tool \in {"t", "u"}, arg \in Arguments : RecordCall(tool, arg)
PrintsNext == ResetPrints \/ \E print \in {"A", "B", "C"} : RecordAndInspect(print)

GuardsNext ==
  \/ BreakerNext /\ UNCHANGED <<deadline, calls, prints>>
  \/ DeadlineNext /\ UNCHANGED <<breakerVars, calls, prints>>
  \/ (CallsNext \/ PrintsNext) /\ UNCHANGED <<breakerVars, deadline>>
GuardsSpec == BreakerInit /\ DeadlineInit /\ WindowsInit /\ [][GuardsNext]_guardVars
-----------------------------------------------------------------------------
\* The circuit opens only when so many calls have failed in a row, or a probe
\* has, closes only after so many successes while it was half open, and no
\* late answer shortens the time it is open.
CircuitSound ==
  /\ circuit.state = "CLOSED" => circuit.failures = seen.inRow /\ seen.inRow < FailureThreshold
  /\ circuit.state = "HALF_OPEN" =>
       /\ circuit.successes = seen.probed /\ seen.probed < SuccessThreshold
       /\ seen.now - seen.openedAt >= RecoveryTime
  /\ circuit.state = "OPEN" => circuit.lastFailure >= seen.openedAt
\* One result, whatever comes late; who timed out is told to stop, and an
\* abort reaches the tool, unless it came before a call without a limit.
DeadlineSound ==
  /\ deadline.returns = (IF deadline.result = "none" THEN 0 ELSE 1)
  /\ deadline.result = "timeout" => deadline.limited /\ deadline.signal
  /\ deadline.at = "running" /\ deadline.limited => deadline.timer \/ deadline.result = "timeout"
  /\ deadline.at # "new" /\ deadline.limited /\ deadline.parent => deadline.signal
\* The windows are the last entries of all that was recorded: a call is
\* called a repetition for these, stagnation and oscillation never go unseen,
\* and whatever is reported has happened.
WindowsSound ==
  /\ \A tool \in {"t", "u"}, arg \in Arguments :
       IsRepeat(calls.window, tool, arg) <=> IsRepeat(LastOf(calls.all, WindowSize), tool, arg)
  /\ LET all == prints.all
         n == Len(all)
         times == Cardinality({k \in 1..n : k > n - MaxWindowSize /\ all[k] = all[n]})
     IN  n > 0 =>
           /\ n >= 3 /\ all[n] = all[n - 1] /\ all[n] = all[n - 2] <=> prints.said = "STAGNATION"
           /\ n >= 4 /\ all[n] = all[n - 2] /\ all[n - 1] = all[n - 3] => prints.said # "nothing"
           /\ prints.said = "nothing" => times < MaxRepeats
           /\ prints.said = "REPEATED_FAILURE" => times >= MaxRepeats

GuardsHold == CircuitSound /\ DeadlineSound /\ WindowsSound
=============================================================================
