----------------------------- MODULE ModelCall -----------------------------
(***************************************************************************)
(* executeResiliently: one model request, tried on a chain of providers,   *)
(* each of them up to MaxRetries + 1 times with a pause between.  A        *)
(* request that timed out is not cancelled: it stays with its provider     *)
(* (flying) while the next one is sent.                                    *)
(***************************************************************************)
EXTENDS Integers, Sequences, FiniteSets

CONSTANTS MaxRetries, InitialBackoff, MaxBackoff

ASSUME CallConstants ==
  MaxRetries \in Nat /\ InitialBackoff \in Nat /\ MaxBackoff \in Nat

VARIABLES call,    \* the execution of executeResiliently: see Calls
          flying,  \* requests that providers still work on
          aborted, \* request.signal.aborted
          sent     \* history: the requests sent for it

callVars == <<call, flying, aborted, sent>>

\* What provider.complete may reject with: an error of the harness's own, or
\* an Error whose message speaks of one of these.
HarnessCodes == {"MODEL_RATE_LIMITED", "MODEL_TIMEOUT", "MODEL_UNAVAILABLE",
                 "MODEL_INVALID_RESPONSE"}
Messages == {"429", "timeout", "502", "503", "500", "econnreset",
             "econnrefused", "unavailable", "other"}
Errors == HarnessCodes \cup Messages

\* checkIsRetryable and mapProviderError: the two lists of words differ.
Retryable(error) ==
  error \in {"MODEL_RATE_LIMITED", "MODEL_TIMEOUT", "MODEL_UNAVAILABLE",
             "429", "timeout", "502", "503", "econnreset"}
MapProviderError(error) ==
  CASE error \in HarnessCodes -> error
    [] error = "429" -> "MODEL_RATE_LIMITED"
    [] error = "timeout" -> "MODEL_TIMEOUT"
    [] error \in {"500", "502", "503", "unavailable", "econnrefused"} -> "MODEL_UNAVAILABLE"
    [] error \in {"econnreset", "other"} -> "MODEL_INVALID_RESPONSE"

\* The longest the pause after an attempt can be; the jitter takes up to
\* half of it away.
Backoff(attempt) ==
  LET doubled == InitialBackoff * 2^(attempt - 1)
  IN  IF doubled < MaxBackoff THEN doubled ELSE MaxBackoff

NoError == "none"

\* How the promise that the call awaits has settled.
Outcomes == {"open", "answer", "slept"} \cup Errors

Idle == [at |-> "idle", chain |-> <<>>, link |-> 0, attempt |-> 0,
         backoff |-> 0, race |-> "open", error |-> NoError]
Active == call.at \in {"waiting", "pausing"}
Awaited == [link |-> call.link, attempt |-> call.attempt]
CallTypeOK ==
  /\ call.at \in {"idle", "waiting", "pausing", "answered", "failed"}
  /\ call.race \in Outcomes
  /\ call.error \in HarnessCodes \cup {NoError}
  /\ call.link \in 0..Len(call.chain)
  /\ call.attempt \in 0..(MaxRetries + 1)
  /\ flying \subseteq [link : Nat, attempt : Nat]
  /\ aborted \in BOOLEAN

CallInit ==
  /\ call = Idle
  /\ flying = {}
  /\ aborted = FALSE
  /\ sent = 0
-----------------------------------------------------------------------------
Throw(c, error) ==
  [c EXCEPT !.at = "failed", !.race = "open", !.error = MapProviderError(error)]

\* attempt++ at the head of executeWithRetry's loop.
FirstCounted(c) == \* mutant of Counted: only the first pass is counted
  [c EXCEPT !.attempt = IF @ = 0 THEN 1 ELSE @]
Counted(c) == [c EXCEPT !.attempt = @ + 1]

\* executeWithRetry at the head of its loop; c has the attempt before.
Send(c) ==
  LET next == [Counted(c) EXCEPT !.at = "waiting", !.race = "open"]
  IN  IF aborted
      THEN call' = Throw(next, "MODEL_UNAVAILABLE") /\ UNCHANGED <<flying, sent>>
      ELSE /\ call' = next
           /\ flying' = flying \cup {[link |-> next.link, attempt |-> next.attempt]}
           /\ sent' = sent + 1

\* executeResiliently: the primary provider and its fallbacks.  Requests of
\* an earlier call that are still flying are nobody's any more.
Begin(chain) ==
  LET c == [Idle EXCEPT !.chain = chain, !.link = 1]
  IN  /\ ~Active
      /\ IF aborted
         THEN /\ call' = Throw(Counted(c), "MODEL_UNAVAILABLE")
              /\ flying' = {} /\ sent' = 0
         ELSE /\ call' = [Counted(c) EXCEPT !.at = "waiting"]
              /\ flying' = {[link |-> 1, attempt |-> 1]} /\ sent' = 1
      /\ UNCHANGED aborted

\* executeWithRetry has thrown: executeResiliently goes to the next provider
\* whatever the error was, unless the signal is aborted.
LastLinkOnly(c) == c.link = Len(c.chain) \* mutant of EndsChain: the signal is not looked at
EndsChain(c) == aborted \/ c.link = Len(c.chain)
ProviderFailed(error) ==
  IF EndsChain(call)
  THEN call' = Throw(call, error) /\ UNCHANGED <<flying, sent>>
  ELSE Send([call EXCEPT !.link = @ + 1, !.attempt = 0, !.backoff = 0])

\* An attempt has rejected, be it by its provider, the timer or the signal.
GivesUpLate(error) == \* mutant of GivesUp: the bound is left to the loop
  ~Retryable(error) \/ aborted
GivesUp(error) == ~Retryable(error) \/ call.attempt > MaxRetries \/ aborted
AttemptFailed(error) ==
  IF GivesUp(error)
  THEN ProviderFailed(error)
  ELSE /\ call' = [call EXCEPT !.at = "pausing", !.race = "open",
                               !.backoff = @ + Backoff(call.attempt)]
       /\ UNCHANGED <<flying, sent>>

\* The code runs on after its await.
Continue ==
  /\ Active /\ call.race # "open"
  /\ CASE call.race = "answer" ->
            call' = [call EXCEPT !.at = "answered", !.race = "open"]
            /\ UNCHANGED <<flying, sent>>
       [] call.race = "slept" ->
            IF call.attempt <= MaxRetries THEN Send(call)
                                          ELSE ProviderFailed("other")
       [] call.race \in Errors ->
            IF call.at = "pausing" THEN ProviderFailed(call.race)
                                   ELSE AttemptFailed(call.race)
  /\ UNCHANGED aborted
-----------------------------------------------------------------------------
\* What the call awaits: only what settles first counts.

Settle(outcome) ==
  /\ call.race = "open"
  /\ call' = [call EXCEPT !.race = outcome]
  /\ UNCHANGED <<aborted, sent>>

ProviderAnswers ==
  /\ call.at = "waiting" /\ Settle("answer")
  /\ flying' = flying \ {Awaited}

ProviderRejects(error) ==
  /\ call.at = "waiting" /\ Settle(error)
  /\ flying' = flying \ {Awaited}

NoTimer == call.at = "waiting" /\ FALSE \* mutant of TimeOut: no time limit
TimeOut ==
  /\ call.at = "waiting" /\ Settle("MODEL_TIMEOUT")
  /\ UNCHANGED flying

Slept ==
  /\ call.at = "pausing" /\ Settle("slept")
  /\ UNCHANGED flying

\* A provider is done with a request nobody awaits any more.
LateReply ==
  /\ \E r \in flying :
       /\ ~(call.at = "waiting" /\ r = Awaited /\ call.race = "open")
       /\ flying' = flying \ {r}
  /\ UNCHANGED <<call, aborted, sent>>

\* The listeners on the signal reject the promise that is awaited.
Abort ==
  /\ ~aborted
  /\ aborted' = TRUE
  /\ call' = IF Active /\ call.race = "open"
             THEN [call EXCEPT !.race = "MODEL_UNAVAILABLE"] ELSE call
  /\ UNCHANGED <<flying, sent>>

CallStep(errors) ==
  \/ Continue
  \/ ProviderAnswers
  \/ \E error \in errors : ProviderRejects(error)
  \/ TimeOut
  \/ Slept
  \/ LateReply
  \/ Abort

\* Timers fire, and JavaScript runs what they resolve.
CallFairness ==
  WF_callVars(Continue) /\ WF_callVars(TimeOut) /\ WF_callVars(Slept)
=============================================================================
