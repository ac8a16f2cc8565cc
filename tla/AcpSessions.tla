----------------------------- MODULE AcpSessions -----------------------------
(***************************************************************************)
(* The sessions that clients of the ACP server drive (AcpHandlers): each   *)
(* message runs the agent, any number of them at once, while others ask    *)
(* for the status, wait for the agent to be idle or cancel.                *)
(***************************************************************************)
EXTENDS Integers, Sequences, FiniteSets, SequencesExt

CONSTANTS MaxSends, MaxWaits, MaxCancels, MaxTokens \* bounds

VARIABLES session,    \* the AcpSessionRecord
          executions, \* of runtime.execute, in the order they were begun
          waits,      \* the calls of agent/idle
          cancels     \* of session/cancel: the execution each one names

acpVars == <<session, executions, waits, cancels>>

NoExecution == 0
Live == {e \in DOMAIN executions : executions[e].at = "running"}

AcpInit ==
  /\ session = [status |-> "IDLE", active |-> NoExecution, tokens |-> 0,
                iterations |-> 0, idleWaiters |-> <<>>, log |-> <<>>]
  /\ executions = <<>> /\ waits = <<>> /\ cancels = <<>>

Logged(s, entry) == [s EXCEPT !.log = Append(@, entry)]

\* notifyIdleWaiters: all of them, in order, with the status of the moment; a
\* call that has timed out before takes no notice.
SuccessTold(status) == \* mutant of Told: who waits is told of a success only
  IF status = "FAILED" THEN waits
  ELSE [w \in DOMAIN waits |->
          IF w \in ToSet(session.idleWaiters) /\ waits[w].at = "waiting"
          THEN [at |-> "told", status |-> status] ELSE waits[w]]
Told(status) ==
  [w \in DOMAIN waits |->
     IF w \in ToSet(session.idleWaiters) /\ waits[w].at = "waiting"
     THEN [at |-> "told", status |-> status] ELSE waits[w]]
Notified(s) == [s EXCEPT !.idleWaiters = <<>>]
-----------------------------------------------------------------------------
\* handleSendMessage up to the call of runtime.execute.
SendMessage ==
  /\ Len(executions) < MaxSends
  /\ session' = Logged([session EXCEPT !.status = "RUNNING"], "user_message")
  /\ executions' = Append(executions, [at |-> "running", tokens |-> 0, alone |-> Live = {}])
  /\ UNCHANGED <<waits, cancels>>

\* runtime.execute returns; a run uses some tokens and iterations.
LastOnly(s, e, tokens) == \* mutant of Added: the last run for all of them
  [s EXCEPT !.active = e, !.tokens = tokens, !.iterations = 1]
Added(s, e, tokens) ==
  [s EXCEPT !.active = e, !.tokens = @ + tokens, !.iterations = @ + 1]
ExecutionReturns(e, success, tokens) ==
  /\ executions[e].at = "running"
  /\ LET status == IF success THEN "COMPLETED" ELSE "FAILED"
     IN  /\ session' = Notified(Logged([Added(session, e, tokens) EXCEPT !.status = status],
                                       "agent_message"))
         /\ waits' = Told(status)
  /\ executions' = [executions EXCEPT ![e].at = "returned", ![e].tokens = tokens]
  /\ UNCHANGED cancels

ExecutionThrows(e) ==
  /\ executions[e].at = "running"
  /\ session' = Notified([session EXCEPT !.status = "FAILED"])
  /\ waits' = Told("FAILED")
  /\ executions' = [executions EXCEPT ![e].at = "threw"]
  /\ UNCHANGED cancels

\* handleCancelSession up to the answer of runtime.cancel.  The execution it
\* names is the last one that returned, since only those are recorded: the run
\* under way goes on.
BeginCancel ==
  /\ Len(cancels) < MaxCancels
  /\ cancels' = Append(cancels, [at |-> "open", execution |->
       IF session.status = "RUNNING" THEN session.active ELSE NoExecution])
  /\ UNCHANGED <<session, executions, waits>>
EndCancel(c) ==
  /\ cancels[c].at = "open"
  /\ cancels' = [cancels EXCEPT ![c].at = "done"]
  /\ session' = Notified(Logged([session EXCEPT !.status = "CANCELLED"], "custom"))
  /\ waits' = Told("CANCELLED")
  /\ UNCHANGED executions

\* handleAgentIdle answers at once or with the first of two events.
AgentIdle ==
  /\ Len(waits) < MaxWaits
  /\ IF session.status # "RUNNING"
     THEN /\ waits' = Append(waits, [at |-> "told", status |-> session.status])
          /\ UNCHANGED session
     ELSE /\ waits' = Append(waits, [at |-> "waiting", status |-> "RUNNING"])
          /\ session' = [session EXCEPT !.idleWaiters = Append(@, Len(waits) + 1)]
  /\ UNCHANGED <<executions, cancels>>
IdleTimeout(w) ==
  /\ waits[w].at = "waiting"
  /\ waits' = [waits EXCEPT ![w] = [at |-> "timed out", status |-> session.status]]
  /\ UNCHANGED <<session, executions, cancels>>

AcpNext ==
  \/ SendMessage \/ BeginCancel \/ AgentIdle
  \/ \E e \in DOMAIN executions :
       \/ \E success \in BOOLEAN, tokens \in 1..MaxTokens : ExecutionReturns(e, success, tokens)
       \/ ExecutionThrows(e)
  \/ \E c \in DOMAIN cancels : EndCancel(c)
  \/ \E w \in DOMAIN waits : IdleTimeout(w)
AcpSpec == AcpInit /\ [][AcpNext]_acpVars
-----------------------------------------------------------------------------
\* Nobody waits for a session that is not running, whichever of its runs
\* ended, threw or was cancelled last.
NoForgottenWaiter ==
  session.status # "RUNNING" => \A w \in DOMAIN waits : waits[w].at # "waiting"

\* While clients wait for a message before they send the next one and do not
\* cancel, RUNNING means that a run is under way and anything else that none is.
StatusTellsTheRun ==
  cancels = <<>> /\ (\A e \in DOMAIN executions : executions[e].alone) =>
    (session.status = "RUNNING" <=> Live # {})

\* What a session reports as used is the sum of what its runs returned.
Used == [e \in DOMAIN executions |-> executions[e].tokens]
UsageAdds == session.tokens = MapThenSumSet(LAMBDA e : Used[e], DOMAIN executions)

AcpHolds == NoForgottenWaiter /\ StatusTellsTheRun /\ UsageAdds
=============================================================================
