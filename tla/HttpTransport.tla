---------------------------- MODULE HttpTransport ----------------------------
(***************************************************************************)
(* The HTTP transport of the MCP server: the order in which a request is   *)
(* looked at, the token bucket of each client, bodies that arrive in       *)
(* pieces, event-stream clients, and stop() with requests at work.  Time   *)
(* is counted in steps; a bucket counts shares of a token, Share of which  *)
(* make one and Refill of which come back with every step.                 *)
(***************************************************************************)
EXTENDS Integers, Sequences, FiniteSets

CONSTANTS HttpClients,
          Burst, Refill, Share, \* rateLimitBurst tokens, and what comes back
          Authorized,           \* the clients that send the API key
          Routes,               \* the methods and paths asked for
          MaxBody,              \* maxBodySizeBytes
          MaxClock, MaxAsked  \* bounds

ASSUME HttpConstants == {Burst, Share} \subseteq Nat \ {0} /\ Refill \in Nat

VARIABLES http \* see HttpInit

HttpInit ==
  http = [running  |-> FALSE, handler |-> FALSE, now |-> 0,
          buckets  |-> [c \in HttpClients |-> [tokens |-> -1, last |-> 0]], \* -1: none yet
          requests |-> <<>>, \* in the order they came, with where they stand
          streams  |-> {}]   \* sseClients

\* start(), alone or from listen(), also after a stop.
Listen(withHandler) ==
  /\ ~http.running
  /\ http' = [http EXCEPT !.running = TRUE, !.handler = @ \/ withHandler]

ClockTicks == http.now < MaxClock /\ http' = [http EXCEPT !.now = @ + 1]

\* checkRateLimit, first part: a new bucket is full, another one is refilled.
Smaller(a, b) == IF a < b THEN a ELSE b
Unbounded(c) == \* mutant of Refilled: what is saved up is not limited
  LET b == http.buckets[c]
  IN  IF b.tokens < 0 THEN Burst * Share ELSE b.tokens + (http.now - b.last) * Refill
Refilled(c) ==
  LET b == http.buckets[c]
  IN  IF b.tokens < 0 THEN Burst * Share
      ELSE Smaller(Burst * Share, b.tokens + (http.now - b.last) * Refill)
Admitted(c) == Refilled(c) >= Share

\* handleHttpRequest: the first check that fails answers, and what is left of
\* the request.  Only the preflight of CORS is not counted.
FirstAnswer(c, route) ==
  CASE route = "options" -> "204"
    [] route # "options" /\ ~Admitted(c) -> "429"
    [] route = "health" /\ Admitted(c) -> "200"
    [] route \notin {"options", "health"} /\ Admitted(c) /\ c \notin Authorized -> "401"
    [] route = "sse" /\ Admitted(c) /\ c \in Authorized -> "stream"
    [] route = "rpc" /\ Admitted(c) /\ c \in Authorized -> "body"
    [] route = "rpc text" /\ Admitted(c) /\ c \in Authorized -> "415"
    [] OTHER -> "404"
AtWork == {"stream", "body", "handling"}

Asks(c, route) ==
  /\ http.running /\ Len(http.requests) < MaxAsked
  /\ LET to == FirstAnswer(c, route)
     IN  http' = [http EXCEPT
           !.requests = Append(@, [client |-> c, route |-> route, at |-> to, time |-> http.now,
                                   size |-> 0, replies |-> IF to \in AtWork THEN 0 ELSE 1]),
           !.buckets[c] =
             IF route = "options" THEN @
             ELSE [tokens |-> Refilled(c) - (IF Admitted(c) THEN Share ELSE 0),
                   last |-> http.now],
           !.streams = IF to = "stream" THEN @ \cup {Len(http.requests) + 1} ELSE @]

Replied(r, at) ==
  [http EXCEPT !.requests[r].at = at, !.requests[r].replies = @ + 1]

\* The pieces of a body: one too many is answered at once, and the request is
\* destroyed, so that its end is not seen.
BodyChunk(r) ==
  /\ http.requests[r].at = "body"
  /\ http' = IF http.requests[r].size + 1 > MaxBody THEN Replied(r, "413")
             ELSE [http EXCEPT !.requests[r].size = @ + 1]
BodyEnds(r, valid) ==
  /\ http.requests[r].at = "body"
  /\ http' = CASE ~valid -> Replied(r, "400")
               [] valid /\ ~http.handler -> Replied(r, "503")
               [] OTHER -> [http EXCEPT !.requests[r].at = "handling"]
HandlerReturns(r, throws) ==
  /\ http.requests[r].at = "handling"
  /\ http' = Replied(r, IF throws THEN "500" ELSE "200")

\* The client of a stream goes away.
StreamCloses(r) ==
  /\ http.requests[r].at = "stream"
  /\ http' = [http EXCEPT !.requests[r].at = "closed", !.streams = @ \ {r}]

\* sendNotification and the ping go to every stream there is; one whose write
\* throws is given up.
SendNotification(failing) ==
  /\ failing \subseteq http.streams
  /\ http' = [http EXCEPT !.streams = @ \ failing]

\* stop() ends the streams; requests at work still get their answer.
StopServer ==
  /\ http.running
  /\ http' = [http EXCEPT
       !.running = FALSE, !.streams = {},
       !.requests = [r \in DOMAIN @ |->
         IF r \in http.streams THEN [@[r] EXCEPT !.at = "closed"] ELSE @[r]]]

HttpNext ==
  \/ \E yes \in BOOLEAN : Listen(yes)
  \/ ClockTicks \/ StopServer
  \/ \E c \in HttpClients, route \in Routes : Asks(c, route)
  \/ \E r \in DOMAIN http.requests :
       \/ BodyChunk(r) \/ StreamCloses(r)
       \/ \E yes \in BOOLEAN : BodyEnds(r, yes) \/ HandlerReturns(r, yes)
  \/ \E failing \in SUBSET http.streams : SendNotification(failing)
HttpSpec == HttpInit /\ [][HttpNext]_http
-----------------------------------------------------------------------------
\* In every stretch of time a client is let through no more often than the
\* burst and what came back in that time allow.
RateIsLimited ==
  \A c \in HttpClients : \A from \in 0..http.now : \A to \in from..http.now :
    LET through == {r \in DOMAIN http.requests :
                      /\ http.requests[r].client = c
                      /\ http.requests[r].time \in from..to
                      /\ http.requests[r].route # "options" /\ http.requests[r].at # "429"}
    IN  Cardinality(through) * Share <= Burst * Share + (to - from) * Refill

\* A client that stayed away long enough for one token is let through.
RateIsFair ==
  \A r \in DOMAIN http.requests :
    http.requests[r].at = "429" =>
      \E q \in 1..(r - 1) : /\ http.requests[q].client = http.requests[r].client
                            /\ http.requests[q].route # "options"
                            /\ (http.requests[r].time - http.requests[q].time) * Refill < Share

\* A request is answered once, unless it is a stream, and notifications go to
\* the streams that are open.
OneAnswerEach ==
  \A r \in DOMAIN http.requests :
    /\ http.requests[r].replies = IF http.requests[r].at \in AtWork \cup {"closed"} THEN 0 ELSE 1
    /\ r \in http.streams => http.requests[r].at = "stream"
    /\ http.requests[r].at = "stream" => http.requests[r].client \in Authorized

HttpHolds == RateIsLimited /\ RateIsFair /\ OneAnswerEach
=============================================================================
