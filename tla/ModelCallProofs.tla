--------------------------- MODULE ModelCallProofs ---------------------------
(***************************************************************************)
(* executeResiliently, called as iterations call it, implements            *)
(* BoundedCall: its steps are the abstract ones or leave status and tries  *)
(* as they are, for every number of retries, every list of fallbacks and   *)
(* every set of errors.  (Its fairness is left to the run.)  The invariant *)
(* says how the requests sent follow from the provider that is tried and   *)
(* the attempt: every provider before it used up to PerProvider.           *)
(* At the end, routing: the selection does not depend on the order of      *)
(* registration, and a plan and its edits share one budget.                *)
(***************************************************************************)
EXTENDS ModelTurn, FiniteSetTheorems, SequenceTheorems, TLAPS

PerProvider == MaxRetries + 1
Limit == PerProvider * (1 + Len(Fallbacks))

\* The lengths of the pauses, B, and the providers, P, are not looked at.
CallRecords(B, P) ==
  [at: {"idle", "waiting", "pausing", "answered", "failed"},
   chain: Seq(P), link: Nat, attempt: Nat, backoff: B,
   race: Outcomes, error: HarnessCodes \cup {NoError}]
IsCall(c) == \E B, P : c \in CallRecords(B, P)

Counting ==
  /\ Len(call.chain) = 1 + Len(Fallbacks)
  /\ call.link \in 1..Len(call.chain)
  /\ call.attempt \in 1..PerProvider
  /\ call.at = "pausing" => call.attempt <= MaxRetries
  /\ sent >= 1
  /\ sent <= (call.link - 1) * PerProvider + call.attempt

IInv ==
  /\ IsCall(call)
  /\ aborted \in BOOLEAN /\ sent \in Nat
  /\ Active => Counting
  /\ Active /\ call.race # "open" =>
       call.race \in IF call.at = "waiting" THEN {"answer"} \cup Errors
                                            ELSE {"slept", "MODEL_UNAVAILABLE"}
-----------------------------------------------------------------------------
\* Multiples of a natural number, in order.
LEMMA Multiples ==
  ASSUME NEW k \in Nat, NEW m \in Nat, NEW n \in Nat, m <= n
  PROVE  /\ m * k \in Nat /\ n * k \in Nat /\ m * k <= n * k
         /\ (m + 1) * k = m * k + k
<1>1. m * k \in Nat /\ n * k \in Nat
  OBVIOUS
<1>2. m * k <= n * k
  OBVIOUS
<1>3. (m + 1) * k = m * k + k
  OBVIOUS
<1>4. QED
  BY <1>1, <1>2, <1>3

\* While the requests are counted there is room for one more below the limit
\* on this provider's next attempt, and on the next provider's first.
LEMMA RoomLeft ==
  ASSUME Counting, sent \in Nat
  PROVE  /\ Limit \in Nat /\ PerProvider \in Nat \ {0} /\ sent <= Limit
         /\ call.attempt <= MaxRetries => sent < Limit
         /\ call.link < Len(call.chain) =>
              sent < Limit /\ sent <= call.link * PerProvider
<1> DEFINE m == call.link - 1
           n == Len(Fallbacks)
<1>1. /\ PerProvider \in Nat \ {0} /\ n \in Nat /\ m \in Nat /\ m <= n
      /\ call.attempt \in 1..PerProvider
      /\ call.attempt <= MaxRetries => call.attempt < PerProvider
      /\ call.link = m + 1
      /\ call.link < Len(call.chain) => call.link \in Nat /\ m + 1 <= n
  BY CallConstants, TurnConstants DEF Counting, PerProvider
<1>2. sent <= m * PerProvider + call.attempt
  BY DEF Counting
<1>3. Limit = (n + 1) * PerProvider
  BY <1>1 DEF Limit
<1> HIDE DEF m, n
<1>4. /\ m * PerProvider \in Nat /\ n * PerProvider \in Nat
      /\ m * PerProvider <= n * PerProvider
      /\ (m + 1) * PerProvider = m * PerProvider + PerProvider
      /\ (n + 1) * PerProvider = n * PerProvider + PerProvider
  BY <1>1, Multiples
<1>5. CASE call.link < Len(call.chain)
  <2>1. (m + 1) * PerProvider <= n * PerProvider
    BY <1>1, <1>5, Multiples
  <2> QED
    BY <1>1, <1>2, <1>3, <1>4, <2>1
<1>6. CASE ~(call.link < Len(call.chain))
  BY <1>1, <1>2, <1>3, <1>4, <1>6
<1>7. QED
  BY <1>5, <1>6

-----------------------------------------------------------------------------
\* The abstract steps, seen from a call that is under way.

LEMMA EndsPromise ==
  ASSUME Active, call'.at \in {"answered", "failed"}, sent' = sent
  PROVE  Promise!Next
BY DEF Promise!Next, Promise!End, Active, CallStatus

LEMMA RetriesPromise ==
  ASSUME Active, call'.at = "waiting", sent < Limit, sent' = sent + 1
  PROVE  Promise!Next
BY DEF Promise!Next, Promise!Retry, Active, CallStatus, Limit, PerProvider

LEMMA ErrorTypes ==
  ASSUME NEW e \in Errors
  PROVE  MapProviderError(e) \in HarnessCodes
BY DEF Errors, Messages, MapProviderError, HarnessCodes

\* What the steps rely on, once the pauses are forgotten.
LEMMA CallFacts ==
  ASSUME NEW c, IsCall(c)
  PROVE  /\ Len(c.chain) \in Nat /\ c.link \in Nat /\ c.attempt \in Nat
         /\ c.race \in Outcomes
BY DEF IsCall, CallRecords

\* A call that throws.
LEMMA ThrowKeeps ==
  ASSUME IInv, Active, NEW c, IsCall(c), NEW e \in Errors,
         call' = Throw(c, e), UNCHANGED <<aborted, sent>>
  PROVE  IInv' /\ Promise!Next
<1>1. /\ IsCall(call)' /\ call'.at = "failed"
  <2>1. PICK B, P : c \in CallRecords(B, P)
    BY DEF IsCall
  <2>2. call' \in CallRecords(B, P) /\ call'.at = "failed"
    BY <2>1, ErrorTypes DEF Throw, CallRecords, Outcomes
  <2> QED BY <2>2 DEF IsCall
<1>2. QED
  BY <1>1, EndsPromise DEF IInv, Active

\* A request that is sent, or refused because the signal is aborted.
LEMMA SendKeeps ==
  ASSUME IInv, Active, NEW c, IsCall(c), Send(c), UNCHANGED aborted,
         Len(c.chain) = 1 + Len(Fallbacks), c.link \in 1..Len(c.chain),
         c.attempt <= MaxRetries, sent >= 1, sent < Limit,
         sent <= (c.link - 1) * PerProvider + c.attempt
  PROVE  IInv' /\ Promise!Next
<1> DEFINE next == [Counted(c) EXCEPT !.at = "waiting", !.race = "open"]
<1>1. /\ IsCall(next) /\ next.at = "waiting" /\ next.race = "open"
      /\ next.chain = c.chain /\ next.link = c.link
      /\ next.attempt = c.attempt + 1
  <2>1. PICK B, P : c \in CallRecords(B, P)
    BY DEF IsCall
  <2> DEFINE n == c.attempt + 1
  <2>2. n \in Nat
    BY CallFacts
  <2>3. Counted(c) = [c EXCEPT !.attempt = n]
    BY DEF Counted
  <2> HIDE DEF n
  <2>4. /\ Counted(c) \in CallRecords(B, P) /\ Counted(c).attempt = n
        /\ Counted(c).chain = c.chain /\ Counted(c).link = c.link
    BY <2>1, <2>2, <2>3 DEF CallRecords
  <2>5. /\ next \in CallRecords(B, P) /\ next.at = "waiting" /\ next.race = "open"
        /\ next.chain = c.chain /\ next.link = c.link /\ next.attempt = n
    BY <2>4 DEF CallRecords, Outcomes
  <2> QED BY <2>5 DEF IsCall, n
<1>2. /\ aborted => call' = Throw(next, "MODEL_UNAVAILABLE") /\ sent' = sent
      /\ ~aborted => call' = next /\ sent' = sent + 1
  BY DEF Send
<1> HIDE DEF next
<1>3. CASE aborted
  BY <1>1, <1>2, <1>3, ThrowKeeps DEF Errors, HarnessCodes
<1>4. CASE ~aborted
  <2>1. c.link \in Nat /\ c.attempt \in Nat /\ PerProvider \in Nat /\ PerProvider = MaxRetries + 1
        /\ (c.link - 1) * PerProvider \in Nat
    <3>1. c.link - 1 \in Nat /\ PerProvider \in Nat
      BY CallConstants, CallFacts DEF PerProvider
    <3> QED
      BY <3>1, Multiples, CallFacts DEF PerProvider
  <2>2. Counting'
    <3>1. /\ call'.chain = c.chain /\ call'.link = c.link /\ call'.attempt = c.attempt + 1
          /\ call'.at = "waiting" /\ sent' = sent + 1
      BY <1>1, <1>2, <1>4
    <3> DEFINE before == (c.link - 1) * PerProvider
    <3>2. before \in Nat /\ sent \in Nat /\ sent <= before + c.attempt
      BY <2>1 DEF IInv
    <3>3. (call'.link - 1) * PerProvider = before
      BY <3>1
    <3> HIDE DEF before
    <3>4. sent' <= (call'.link - 1) * PerProvider + call'.attempt /\ sent' >= 1
      BY <2>1, <3>1, <3>2, <3>3
    <3>5. call'.attempt \in 1..PerProvider
      BY <2>1, <3>1, CallConstants
    <3> QED
      BY <3>1, <3>4, <3>5 DEF Counting, PerProvider
  <2>3. IInv'
    BY <1>1, <1>2, <1>4, <2>2 DEF IInv, Active
  <2>4. Promise!Next
    BY <1>1, <1>2, <1>4, RetriesPromise
  <2> QED BY <2>3, <2>4
<1>5. QED
  BY <1>3, <1>4 DEF IInv

LEMMA ProviderFailedKeeps ==
  ASSUME IInv, Active, NEW e \in Errors, ProviderFailed(e), UNCHANGED aborted
  PROVE  IInv' /\ Promise!Next
<1>1. CASE EndsChain(call)
  BY <1>1, ThrowKeeps DEF ProviderFailed, IInv
<1>2. CASE ~EndsChain(call)
  <2> DEFINE c == [call EXCEPT !.link = @ + 1, !.attempt = 0, !.backoff = 0]
  <2>1. Send(c) /\ call.link # Len(call.chain)
    BY <1>2 DEF ProviderFailed, EndsChain
  <2>2. /\ IsCall(c) /\ c.chain = call.chain /\ c.link = call.link + 1
        /\ c.attempt = 0
    <3>1. PICK B, P : call \in CallRecords(B, P)
      BY DEF IInv, IsCall
    <3> DEFINE l == call.link + 1
    <3>2. l \in Nat
      BY CallFacts DEF IInv
    <3>3. c = [call EXCEPT !.link = l, !.attempt = 0, !.backoff = 0]
      OBVIOUS
    <3> HIDE DEF c, l
    <3>4. c \in CallRecords(B \cup {0}, P) /\ c.chain = call.chain /\ c.link = l /\ c.attempt = 0
      BY <3>1, <3>2, <3>3 DEF CallRecords
    <3> QED BY <3>4 DEF IsCall, l
  <2> HIDE DEF c
  <2>3. /\ Counting /\ sent \in Nat /\ call.link \in Nat /\ call.link < Len(call.chain)
    BY <2>1, CallFacts DEF IInv, Counting
  <2>4. PerProvider \in Nat /\ sent < Limit /\ sent <= call.link * PerProvider
    BY <2>3, RoomLeft
  <2>5. c.link - 1 = call.link
    BY <2>2, <2>3
  <2>6. call.link * PerProvider \in Nat
    BY <2>3, <2>4, Multiples
  <2>7. sent <= (c.link - 1) * PerProvider + c.attempt
    BY <2>2, <2>3, <2>4, <2>5, <2>6
  <2>8. c.link \in 1..Len(c.chain) /\ Len(c.chain) = 1 + Len(Fallbacks) /\ sent >= 1
        /\ c.attempt <= MaxRetries
    BY <2>2, <2>3, CallConstants, TurnConstants DEF Counting
  <2> QED
    BY <2>1, <2>2, <2>4, <2>7, <2>8, SendKeeps
<1>3. QED
  BY <1>1, <1>2

LEMMA AttemptFailedKeeps ==
  ASSUME IInv, call.at = "waiting", NEW e \in Errors, AttemptFailed(e), UNCHANGED aborted
  PROVE  IInv' /\ [Promise!Next]_<<CallStatus, sent>>
<1>0. Active /\ Counting
  BY DEF Active, IInv
<1>1. CASE GivesUp(e)
  BY <1>0, <1>1, ProviderFailedKeeps DEF AttemptFailed
<1>2. CASE ~GivesUp(e)
  <2>1. /\ call' = [call EXCEPT !.at = "pausing", !.race = "open",
                                !.backoff = @ + Backoff(call.attempt)]
        /\ sent' = sent /\ aborted' = aborted
        /\ call.attempt \in Nat /\ call.attempt <= MaxRetries
    BY <1>0, <1>2, CallConstants, CallFacts DEF AttemptFailed, GivesUp, IInv
  <2>3. /\ IsCall(call)' /\ call'.at = "pausing" /\ call'.race = "open"
        /\ call'.chain = call.chain /\ call'.link = call.link
        /\ call'.attempt = call.attempt
    <3> DEFINE b == call.backoff + Backoff(call.attempt)
    <3>1. PICK B, P : call \in CallRecords(B, P)
      BY DEF IInv, IsCall
    <3>2. call' = [call EXCEPT !.at = "pausing", !.race = "open", !.backoff = b]
      BY <2>1
    <3> HIDE DEF b
    <3>3. /\ call' \in CallRecords(B \cup {b}, P) /\ call'.at = "pausing"
          /\ call'.race = "open" /\ call'.chain = call.chain
          /\ call'.link = call.link /\ call'.attempt = call.attempt
      BY <3>1, <3>2 DEF CallRecords, Outcomes
    <3> QED BY <3>3 DEF IsCall
  <2>4. IInv'
    BY <1>0, <2>1, <2>3 DEF IInv, Counting, Active
  <2>5. UNCHANGED <<CallStatus, sent>>
    BY <2>1, <2>3 DEF CallStatus
  <2> QED BY <2>4, <2>5
<1>3. QED
  BY <1>1, <1>2

\* executeResiliently begins a call, when none is under way.
LEMMA BeginKeeps ==
  ASSUME IInv, NEW p, Begin(<<p>> \o Fallbacks)
  PROVE  IInv' /\ Promise!Next
<1> DEFINE chain == <<p>> \o Fallbacks
           c == [Idle EXCEPT !.chain = chain, !.link = 1]
           first == Counted(c)
           P == Providers \cup {p}
<1>1. chain \in Seq(P) /\ Len(chain) = 1 + Len(Fallbacks)
      /\ Len(Fallbacks) \in Nat
  BY TurnConstants
<1>2. /\ ~Active /\ aborted' = aborted
      /\ aborted => call' = Throw(first, "MODEL_UNAVAILABLE") /\ sent' = 0
      /\ ~aborted => call' = [first EXCEPT !.at = "waiting"] /\ sent' = 1
  BY DEF Begin
<1> HIDE DEF chain, P
<1>3. /\ first \in CallRecords({0}, P) /\ first.chain = chain /\ first.link = 1
      /\ first.attempt = 1 /\ first.race = "open"
  <2>1. Idle \in CallRecords({0}, P) /\ Idle.attempt = 0 /\ Idle.race = "open"
    BY DEF Idle, CallRecords, Outcomes
  <2>2. /\ c \in CallRecords({0}, P) /\ c.chain = chain /\ c.link = 1
        /\ c.attempt = 0 /\ c.race = "open"
    BY <1>1, <2>1 DEF CallRecords
  <2>3. first = [c EXCEPT !.attempt = c.attempt + 1]
    BY DEF Counted
  <2> HIDE DEF c, first
  <2>4. first = [c EXCEPT !.attempt = 1]
    BY <2>2, <2>3
  <2> QED
    BY <2>2, <2>4 DEF CallRecords
<1> HIDE DEF c, first
<1>4. CASE aborted
  <2>1. call' \in CallRecords({0}, P) /\ call'.at = "failed"
    BY <1>2, <1>3, <1>4, ErrorTypes DEF Throw, CallRecords, Outcomes, Errors, HarnessCodes
  <2>2. IInv'
    BY <1>2, <1>4, <2>1 DEF IInv, IsCall, Active
  <2>3. Promise!Next
    BY <1>2, <1>4, <2>1 DEF Promise!Next, Promise!Call, CallStatus, Active, IInv, IsCall, CallRecords
  <2> QED BY <2>2, <2>3
<1>5. CASE ~aborted
  <2>1. /\ call' \in CallRecords({0}, P) /\ call'.at = "waiting" /\ call'.race = "open"
        /\ call'.chain = chain /\ call'.link = 1 /\ call'.attempt = 1
    BY <1>2, <1>3, <1>5 DEF CallRecords
  <2>2. (1 - 1) * PerProvider = 0 /\ PerProvider \in Nat /\ 1 \in 1..PerProvider
    BY CallConstants DEF PerProvider
  <2>3. Counting'
    BY <1>1, <1>2, <1>5, <2>1, <2>2 DEF Counting
  <2>4. IsCall(call)' /\ sent' \in Nat /\ aborted' \in BOOLEAN
    BY <1>2, <1>5, <2>1 DEF IInv, IsCall
  <2>6. IInv'
    BY <2>1, <2>3, <2>4 DEF IInv
  <2>5. Promise!Next
    BY <1>2, <1>5, <2>1
       DEF Promise!Next, Promise!Call, CallStatus, Active, IInv, IsCall, CallRecords
  <2> QED BY <2>5, <2>6
<1>6. QED
  BY <1>4, <1>5 DEF IInv

\* The code runs on after its await.
LEMMA ContinueKeeps ==
  ASSUME IInv, Continue
  PROVE  IInv' /\ [Promise!Next]_<<CallStatus, sent>>
<1> USE DEF Errors, HarnessCodes, Messages
<1>0. Active /\ Counting /\ call.race # "open" /\ aborted' = aborted
  BY DEF Continue, IInv
<1>1. CASE call.race = "answer"
  <2>1. call' = [call EXCEPT !.at = "answered", !.race = "open"] /\ sent' = sent
    BY <1>1 DEF Continue
  <2>2. IsCall(call)' /\ call'.at = "answered"
    <3>1. PICK B, P : call \in CallRecords(B, P)
      BY DEF IInv, IsCall
    <3>2. call' \in CallRecords(B, P) /\ call'.at = "answered"
      BY <2>1, <3>1 DEF CallRecords, Outcomes
    <3> QED BY <3>2 DEF IsCall
  <2> QED
    BY <1>0, <2>1, <2>2, EndsPromise DEF IInv, Active
<1>2. CASE call.race = "slept" /\ call.attempt <= MaxRetries
  <2>1. Send(call)
    BY <1>2 DEF Continue
  <2>2. sent < Limit
    BY <1>0, <1>2, RoomLeft DEF IInv
  <2> QED
    BY <1>0, <1>2, <2>1, <2>2, SendKeeps DEF IInv, Counting
<1>3. CASE call.race = "slept" /\ ~(call.attempt <= MaxRetries)
  BY <1>0, <1>3, ProviderFailedKeeps DEF Continue
<1>4. CASE call.race \in Errors
  <2>1. call.race \notin {"answer", "slept"}
    BY <1>4
  <2>2. IF call.at = "pausing" THEN ProviderFailed(call.race) ELSE AttemptFailed(call.race)
    BY <1>4, <2>1 DEF Continue
  <2> QED
    BY <1>0, <1>4, <2>2, ProviderFailedKeeps, AttemptFailedKeeps DEF Active
<1>5. QED
  BY <1>0, <1>1, <1>2, <1>3, <1>4 DEF IInv

\* A promise that the call awaits settles; nothing else changes.
LEMMA SettleKeeps ==
  ASSUME IInv, Active, NEW outcome \in Outcomes, Settle(outcome),
         outcome \in IF call.at = "waiting" THEN {"answer"} \cup Errors
                                            ELSE {"slept", "MODEL_UNAVAILABLE"}
  PROVE  IInv' /\ UNCHANGED <<CallStatus, sent>>
<1>1. call' = [call EXCEPT !.race = outcome] /\ aborted' = aborted /\ sent' = sent
  BY DEF Settle
<1>2. /\ IsCall(call)' /\ call'.at = call.at /\ call'.chain = call.chain
      /\ call'.link = call.link /\ call'.attempt = call.attempt
      /\ call'.race = outcome
  <2>1. PICK B, P : call \in CallRecords(B, P)
    BY DEF IInv, IsCall
  <2>2. /\ call' \in CallRecords(B, P) /\ call'.at = call.at /\ call'.chain = call.chain
        /\ call'.link = call.link /\ call'.attempt = call.attempt
        /\ call'.race = outcome
    BY <1>1, <2>1 DEF CallRecords
  <2> QED BY <2>2 DEF IsCall
<1>3. IInv'
  BY <1>1, <1>2 DEF IInv, Counting, Active
<1>4. QED
  BY <1>1, <1>2, <1>3 DEF CallStatus

LEMMA CallStepKeeps ==
  ASSUME IInv, CallStep(CallErrors)
  PROVE  IInv' /\ [Promise!Next]_<<CallStatus, sent>>
<1> USE DEF Errors, HarnessCodes, Messages, Outcomes
<1>1. CASE Continue
  BY <1>1, ContinueKeeps
<1>2. CASE ProviderAnswers
  BY <1>2, SettleKeeps DEF ProviderAnswers, Active
<1>3. ASSUME NEW e \in CallErrors, ProviderRejects(e)
      PROVE  IInv' /\ [Promise!Next]_<<CallStatus, sent>>
  <2>1. e \in Errors
    BY TurnConstants
  <2> QED
    BY <1>3, <2>1, SettleKeeps DEF ProviderRejects, Active
<1>4. CASE TimeOut
  BY <1>4, SettleKeeps DEF TimeOut, Active
<1>5. CASE Slept
  BY <1>5, SettleKeeps DEF Slept, Active
<1>6. CASE LateReply
  BY <1>6 DEF LateReply, IInv, Counting, Active, CallStatus
<1>7. CASE Abort
  <2>1. CASE Active /\ call.race = "open"
    <3>1. /\ call' = [call EXCEPT !.race = "MODEL_UNAVAILABLE"]
          /\ aborted' \in BOOLEAN /\ sent' = sent
      BY <1>7, <2>1 DEF Abort
    <3>2. /\ IsCall(call)' /\ call'.at = call.at /\ call'.chain = call.chain
          /\ call'.link = call.link /\ call'.attempt = call.attempt
          /\ call'.race = "MODEL_UNAVAILABLE"
      <4>1. PICK B, P : call \in CallRecords(B, P)
        BY DEF IInv, IsCall
      <4>2. /\ call' \in CallRecords(B, P) /\ call'.at = call.at /\ call'.chain = call.chain
            /\ call'.link = call.link /\ call'.attempt = call.attempt
            /\ call'.race = "MODEL_UNAVAILABLE"
        BY <3>1, <4>1 DEF CallRecords
      <4> QED BY <4>2 DEF IsCall
    <3> QED
      BY <2>1, <3>1, <3>2 DEF IInv, Counting, Active, CallStatus
  <2>2. CASE ~(Active /\ call.race = "open")
    BY <1>7, <2>2 DEF Abort, IInv, Counting, Active, CallStatus
  <2> QED BY <2>1, <2>2
<1>8. QED
  BY <1>1, <1>2, <1>3, <1>4, <1>5, <1>6, <1>7 DEF CallStep
-----------------------------------------------------------------------------
LEMMA InitHolds == TurnInit => IInv /\ Promise!Init
<1> SUFFICES ASSUME TurnInit PROVE IInv /\ Promise!Init
  OBVIOUS
<1>1. call = Idle /\ aborted = FALSE /\ sent = 0
  BY DEF TurnInit, CallInit
<1>2. Idle \in CallRecords({0}, Providers) /\ Idle.at = "idle"
  BY DEF Idle, CallRecords, Outcomes
<1>3. QED
  BY <1>1, <1>2 DEF IInv, IsCall, Active, Promise!Init, CallStatus

\* What an iteration, its routing and the router's other callers do to a call:
\* one is begun, or it takes a step, or nothing.
LEMMA TurnSteps ==
  ASSUME IInv, [TurnNext]_modelVars
  PROVE  \/ \E p : Begin(<<p>> \o Fallbacks)
         \/ CallStep(CallErrors)
         \/ UNCHANGED callVars
<1> DEFINE Kinds == \/ \E p : Begin(<<p>> \o Fallbacks)
                    \/ CallStep(CallErrors)
                    \/ UNCHANGED callVars
<1>1. ASSUME NEW phase \in Phases, NEW architect \in BOOLEAN, StartTurn(phase, architect)
      PROVE  Kinds
  BY <1>1 DEF StartTurn, RouteVia
<1>2. CASE AskForPlan
  BY <1>2 DEF AskForPlan, RouteVia, CallOn
<1>3. CASE AskForEdits
  BY <1>3 DEF AskForEdits, RouteVia, CallOn
<1>4. CASE PlanAnswered \/ TurnAnswered \/ TurnFailed
  BY <1>4 DEF PlanAnswered, TurnAnswered, TurnFailed
<1>5. CASE CallMoves
  BY <1>5 DEF CallMoves
<1>6. ASSUME NEW p \in Providers,
             \/ RegisterProvider(p) \/ UnregisterProvider(p)
             \/ \E status \in HealthStatuses : RecordHealth(p, status)
      PROVE  Kinds
  BY <1>6 DEF RegisterProvider, UnregisterProvider, RecordHealth, Change
<1>7. CASE UNCHANGED modelVars
  BY <1>7 DEF modelVars
<1>8. QED
  BY <1>1, <1>2, <1>3, <1>4, <1>5, <1>6, <1>7 DEF TurnNext

LEMMA StepKeeps ==
  ASSUME IInv, [TurnNext]_modelVars
  PROVE  IInv' /\ [Promise!Next]_<<CallStatus, sent>>
<1>1. CASE UNCHANGED callVars
  BY <1>1 DEF callVars, IInv, Counting, Active, CallStatus
<1>2. QED
  BY <1>1, TurnSteps, BeginKeeps, CallStepKeeps

\* The invariant that counts the requests.
THEOREM Invariance == TurnSpec => []IInv
<1>1. QED
  BY InitHolds, StepKeeps, PTL DEF TurnSpec

\* No call of executeResiliently sends more than (MaxRetries + 1) requests to
\* each of its providers.
THEOREM RequestsBounded == TurnSpec => [](Active => sent <= Limit)
<1>1. IInv => (Active => sent <= Limit)
  BY RoomLeft DEF IInv
<1>2. QED
  BY <1>1, Invariance, PTL

\* Every step of a call is a step of BoundedCall or leaves what it promises
\* unchanged: CallKeepsItsPromise but for the fairness.
THEOREM CallImplementsPromise ==
  TurnSpec => Promise!Init /\ [][Promise!Next]_<<CallStatus, sent>>
<1>1. IInv /\ [TurnNext]_modelVars => [Promise!Next]_<<CallStatus, sent>>
  BY StepKeeps
<1>2. QED
  BY <1>1, InitHolds, Invariance, PTL DEF TurnSpec

-----------------------------------------------------------------------------
\* Routing

\* The requests of the runtime.
IsRequest(request) ==
  /\ request.category \in {"ARCHITECTURE", "CODE_GEN"}
  /\ request.context \in Nat
  /\ request.deterministic = Deterministic

LEMMA RuntimeRequests ==
  ASSUME NEW remaining
  PROVE  /\ IsRequest(IterationRequest("VERIFY", remaining))
         /\ IsRequest(PlanRequest) /\ IsRequest(EditRequest)
BY TurnConstants DEF IsRequest, IterationRequest, PlanRequest, EditRequest, Request

\* Utilities are integers, so that they can be compared.
LEMMA UtilityIsInteger ==
  ASSUME NEW p \in Providers, NEW request, IsRequest(request)
  PROVE  Utility(p, request) \in Int
<1> DEFINE cost    == EstimateCost(p, request)
           success == SuccessProbability(p, request)
           value   == TaskValue(request.category)
           weight  == CostWeight(request)
           latency == LatencyPenalty(p, request)
<1>1. \A a, b \in Int : a * b \in Int
  OBVIOUS
<1>2. Descriptor[p].costIn \in Nat /\ Descriptor[p].costOut \in Nat
  BY RoutingConstants
<1>3. cost \in Int
  <2>1. EstimatedOutput(request.category) \in Nat
    BY DEF EstimatedOutput, IsRequest
  <2>2. /\ request.context * Descriptor[p].costIn \in Int
        /\ EstimatedOutput(request.category) * Descriptor[p].costOut \in Int
    BY <1>1, <1>2, <2>1 DEF IsRequest
  <2> HIDE DEF cost
  <2>3. (EstimatedOutput(request.category) * Descriptor[p].costOut) \div 10 \in Int
    BY <2>2
  <2> QED
    BY <2>2, <2>3 DEF cost, EstimateCost
<1>4. success \in Int
  BY DEF SuccessProbability
<1>5. value \in Int
  BY DEF TaskValue, IsRequest
<1>6. weight \in Int
  BY DEF CostWeight
<1>7. latency \in Int
  BY DEF LatencyPenalty
<1>8. ReasoningBonus(p, request) \in Int /\ RiskPenalty(p, request) \in Int
  BY DEF ReasoningBonus, RiskPenalty
<1> HIDE DEF cost, success, value, weight, latency
<1>9. success * value * 100 \in Int /\ cost * weight \in Int
  BY <1>1, <1>3, <1>4, <1>5, <1>6
<1> QED
  BY <1>7, <1>8, <1>9 DEF Utility, cost, success, value, weight, latency

\* In deterministic mode one of two providers comes before the other.
LEMMA BeforeIsTotal ==
  ASSUME NEW p \in Providers, NEW q \in Providers, p # q,
         NEW request, IsRequest(request), Deterministic
  PROVE  Before(p, q, request) \/ Before(q, p, request)
<1>1. Utility(p, request) \in Int /\ Utility(q, request) \in Int
  BY UtilityIsInteger
<1>2. Rank[p] \in Nat /\ Rank[q] \in Nat /\ Rank[p] # Rank[q]
  BY RoutingConstants
<1> QED
  BY <1>1, <1>2 DEF Before, IsRequest

\* So the order does not decide who is first, nor whom route() takes.
LEMMA RouteIgnoresOrder ==
  ASSUME NEW some, NEW other, ToSet(some) = ToSet(other), ToSet(some) \subseteq Providers,
         NEW healthy, NEW request, IsRequest(request), Deterministic
  PROVE  Route(some, healthy, request) = Route(other, healthy, request)
<1> DEFINE candidates == Candidates(some, healthy, request)
<1>1. Candidates(other, healthy, request) = candidates /\ candidates \subseteq Providers
  BY DEF Candidates
<1> HIDE DEF candidates
<1>2. ASSUME NEW p \in candidates, NEW q \in candidates \ {p}
      PROVE  ~Before(q, p, request) => Before(p, q, request)
  BY <1>1, BeforeIsTotal
<1>3. \A ps : First(candidates, ps, request) =
                {p \in candidates : \A q \in candidates \ {p} : Before(p, q, request)}
  BY <1>2, Zenon DEF First
<1>4. First(candidates, some, request) = First(candidates, other, request)
  BY <1>3
<1> QED
  BY <1>1, <1>4 DEF Route, candidates

\* A sequence without repetitions of as many elements as a finite set has, all
\* of them in it, has all of them.
LEMMA OrdersOfOneSet ==
  ASSUME NEW S, IsFiniteSet(S), NEW other \in SetToSeqs(S)
  PROVE  ToSet(other) = S
<1> DEFINE n == Cardinality(S)
           D == 1..n
<1>1. n \in Nat /\ IsFiniteSet(D) /\ Cardinality(D) = n
  BY FS_CardinalityType, FS_Interval
<1>2. other \in [D -> S] /\ \A i, j \in D : i # j => other[i] # other[j]
  BY DEF SetToSeqs
<1>3. ToSet(other) = {other[i] : i \in D}
  BY <1>2 DEF ToSet
<1>4. SUFFICES ASSUME NEW x \in S, \A i \in D : other[i] # x
               PROVE  FALSE
  BY <1>2, <1>3
<1>5. IsFiniteSet(S \ {x}) /\ Cardinality(S \ {x}) = n - 1
  BY FS_RemoveElement
<1>6. other \in [D -> S \ {x}]
  BY <1>2, <1>4
<1> HIDE DEF n, D
<1>7. \E i, j \in D : i # j /\ other[i] = other[j]
  BY <1>1, <1>5, <1>6, FS_PigeonHole
<1> QED
  BY <1>2, <1>7

\* The router and the turn that uses it.
Turns == [at: TurnStates, architect: BOOLEAN, phase: Phases \cup {"INIT"},
          remaining: Nat, cost: Nat]
RoutingInv ==
  /\ order \in Seq(Providers) /\ spent \in Nat
  /\ turn \in Turns
  /\ InTurn => turn.remaining > 0

LEMMA RoutingStarts == TurnInit => RoutingInv
<1> SUFFICES ASSUME TurnInit
             PROVE  RoutingInv
  OBVIOUS
<1>1. order \in Seq(Providers)
  <2>1. order \in SetToSeqs(Providers) /\ Cardinality(Providers) \in Nat
    BY RoutingConstants, FS_CardinalityType DEF TurnInit
  <2>2. order \in [1..Cardinality(Providers) -> Providers]
    BY <2>1 DEF SetToSeqs
  <2> QED
    BY <2>1, <2>2
<1>2. spent \in Nat
  BY TurnConstants DEF TurnInit
<1>3. turn \in Turns /\ ~InTurn
  BY DEF TurnInit, NoTurn, Turns, TurnStates, InTurn
<1> QED
  BY <1>1, <1>2, <1>3 DEF RoutingInv

\* Routing itself changes what is known of the providers' health, and no more.
LEMMA TurnKeeps ==
  ASSUME RoutingInv, NEW phase \in Phases, NEW architect \in BOOLEAN,
         StartTurn(phase, architect)
  PROVE  RoutingInv'
<1> DEFINE remaining == MaxCost - spent
<1>1. remaining \in Nat /\ remaining > 0 /\ UNCHANGED <<order, spent>>
  BY TurnConstants DEF StartTurn, RoutingInv
<1>2. \E at \in {"failed", "routed", "calling"} :
        turn' = [at |-> at, architect |-> architect, phase |-> phase,
                 remaining |-> remaining, cost |-> 0]
  BY DEF StartTurn, RouteVia, NoTurn
<1> HIDE DEF remaining
<1>3. turn' \in Turns /\ turn'.remaining = remaining
  BY <1>1, <1>2 DEF Turns, TurnStates
<1> QED
  BY <1>1, <1>3 DEF RoutingInv, InTurn

LEMMA RoutingStays == RoutingInv /\ [TurnNext]_modelVars => RoutingInv'
<1> SUFFICES ASSUME RoutingInv, [TurnNext]_modelVars
             PROVE  RoutingInv'
  OBVIOUS
<1>0. turn.at \in TurnStates /\ turn.remaining \in Nat /\ turn.cost \in Nat
  BY DEF RoutingInv, Turns
<1>1. CASE AskForPlan \/ AskForEdits
  <2>1. /\ InTurn /\ UNCHANGED <<order, spent>>
        /\ \E at \in {"failed", "planning", "calling"} : turn' = [turn EXCEPT !.at = at]
    BY <1>1 DEF AskForPlan, AskForEdits, RouteVia, CallOn, InTurn
  <2> QED
    BY <2>1 DEF RoutingInv, Turns, TurnStates, InTurn
<1>2. CASE PlanAnswered \/ TurnAnswered
  <2>1. PICK cost \in CallCosts :
          /\ InTurn /\ UNCHANGED order
          /\ \/ turn' = [turn EXCEPT !.at = "planned", !.cost = cost] /\ spent' = spent
             \/ /\ turn' = [turn EXCEPT !.at = "done", !.cost = @ + cost]
                /\ spent' = spent + turn.cost + cost
    BY <1>2 DEF PlanAnswered, TurnAnswered, InTurn
  <2>2. cost \in Nat
    BY TurnConstants
  <2>3. turn.cost + cost \in Nat /\ spent + turn.cost + cost \in Nat
    BY <1>0, <2>2 DEF RoutingInv
  <2>4. turn' \in Turns /\ spent' \in Nat /\ turn'.remaining = turn.remaining
    BY <2>1, <2>2, <2>3 DEF RoutingInv, Turns, TurnStates
  <2> QED
    BY <2>1, <2>4 DEF RoutingInv, InTurn
<1>3. CASE TurnFailed
  BY <1>3 DEF TurnFailed, RoutingInv, Turns, TurnStates, InTurn
<1>4. CASE CallMoves \/ UNCHANGED modelVars
  BY <1>4 DEF CallMoves, modelVars, turnVars, RoutingInv, InTurn
<1>5. ASSUME NEW p \in Providers,
             \/ RegisterProvider(p) \/ UnregisterProvider(p)
             \/ \E status \in HealthStatuses : RecordHealth(p, status)
      PROVE  RoutingInv'
  <2>1. UNCHANGED <<turn, spent>>
    BY <1>5 DEF RegisterProvider, UnregisterProvider, RecordHealth, Change
  <2>2. order' \in Seq(Providers)
    <3>1. CASE RegisterProvider(p)
      BY <3>1 DEF RegisterProvider, RoutingInv
    <3>2. CASE UnregisterProvider(p)
      <4>1. CASE \E i \in DOMAIN order : order' = RemoveAt(order, i)
        <5>0. DOMAIN order = 1..Len(order)
          BY DEF RoutingInv
        <5>1. PICK i \in 1..Len(order) : order' = RemoveAt(order, i)
          BY <4>1, <5>0, Zenon
        <5>2. /\ Len(order) \in Nat
              /\ \A j \in 1..Len(order) : order[j] \in Providers
          BY DEF RoutingInv
        <5>3. /\ SubSeq(order, 1, i - 1) \in Seq(Providers)
              /\ SubSeq(order, i + 1, Len(order)) \in Seq(Providers)
          <6>1. /\ 1 \in Int /\ i - 1 \in Int /\ i + 1 \in Int /\ Len(order) \in Int
                /\ \A j \in 1..(i - 1) : order[j] \in Providers
                /\ \A j \in (i + 1)..Len(order) : order[j] \in Providers
            BY <5>2
          <6>2. SubSeq(order, 1, i - 1) \in Seq(Providers)
            BY <6>1, SubSeqProperties
          <6>3. SubSeq(order, i + 1, Len(order)) \in Seq(Providers)
            BY <6>1, SubSeqProperties
          <6> QED
            BY <6>2, <6>3
        <5> QED
          BY <5>1, <5>3, ConcatProperties, Zenon DEF RemoveAt
      <4> QED
        BY <3>2, <4>1 DEF UnregisterProvider, RoutingInv
    <3>3. CASE \E status \in HealthStatuses : RecordHealth(p, status)
      BY <3>3 DEF RecordHealth, RoutingInv
    <3> QED
      BY <1>5, <3>1, <3>2, <3>3
  <2> QED
    BY <2>1, <2>2 DEF RoutingInv, InTurn
<1> QED
  BY <1>1, <1>2, <1>3, <1>4, <1>5, TurnKeeps DEF TurnNext

\* Whatever providers there are, however they were registered and however
\* healthy they are: in deterministic mode the order of registration does not
\* show, as long as near ties do not go round in a circle, and edits are routed
\* on a critical budget when their plan was.
THEOREM RoutingCorrect == TurnSpec => []RoutingHolds
<1>1. RoutingInv => SelectionIgnoresOrder
  <2> SUFFICES ASSUME RoutingInv, Deterministic,
                      NEW request, IsRequest(request), NEW healthy,
                      NEW other \in SetToSeqs(ToSet(order))
               PROVE  Route(other, healthy, request) = Route(order, healthy, request)
    BY RuntimeRequests DEF SelectionIgnoresOrder
  <2>1. IsFiniteSet(ToSet(order)) /\ ToSet(order) \subseteq Providers
    <3>1. ToSet(order) \subseteq Providers
      BY DEF ToSet, RoutingInv
    <3> QED
      BY <3>1, RoutingConstants, FS_Subset
  <2>2. ToSet(other) = ToSet(order)
    BY <2>1, OrdersOfOneSet
  <2> QED
    BY <2>1, <2>2, RouteIgnoresOrder
<1>2. RoutingInv => EditsShareTheBudget
  <2> SUFFICES ASSUME RoutingInv, turn.at = "planned", BudgetCritical(PlanRequest)
               PROVE  BudgetCritical(EditRequest)
    BY DEF EditsShareTheBudget
  <2>1. turn.remaining \in Nat /\ turn.cost \in Nat /\ turn.remaining # 0
    BY DEF RoutingInv, Turns, InTurn
  <2>2. turn.remaining <= 50000
    BY DEF BudgetCritical, PlanRequest, Request
  <2>3. EditRequest.remaining = {turn.remaining - turn.cost}
    BY <2>1 DEF EditRequest, Request, EditBudget
  <2> QED
    BY <2>1, <2>2, <2>3 DEF BudgetCritical
<1>3. RoutingInv => RoutingHolds
  BY <1>1, <1>2 DEF RoutingHolds
<1> QED
  BY <1>3, RoutingStarts, RoutingStays, PTL DEF TurnSpec
=============================================================================
