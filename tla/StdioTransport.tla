--------------------------- MODULE StdioTransport ---------------------------
(***************************************************************************)
(* The MCP server over stdin and stdout: requests arrive line by line in   *)
(* chunks that respect no line (StdioTransport), each is dispatched while  *)
(* others are still at work (McpServer), and the transport may be stopped  *)
(* and started again with requests in flight.                              *)
(***************************************************************************)
EXTENDS Integers, Sequences, FiniteSets, SequencesExt

CONSTANTS Script,        \* what the client writes: lines [method, size], of
                         \* which the last of size characters is the newline
          MaxLineLength,
          MaxStarts      \* bound

\* A line of one character is empty.
ASSUME StdioConstants ==
  /\ Script \in Seq([method: STRING, size: Nat \ {0}])
  /\ \A i \in DOMAIN Script : Script[i].size = 1 => Script[i].method = "blank"
  /\ MaxLineLength \in Nat /\ MaxStarts \in Nat

VARIABLES stdio \* the transport and its two streams: see StdioInit

\* A character is named by its line and its place in it.
Chars == FlattenSeq([i \in DOMAIN Script |->
           [n \in 1..Script[i].size |-> [line |-> i, at |-> n]]])
IsNewline(c) == c.at = Script[c.line].size

StdioInit ==
  stdio = [running |-> FALSE, starts |-> 0, stops |-> 0,
           handler |-> FALSE,        \* messageHandler is registered
           read    |-> 0,            \* characters that left the client
           buffer  |-> <<>>,
           active  |-> {},           \* lines whose handler has not returned
           waiting |-> {},           \* those whose reply waits for 'drain'
           full    |-> FALSE,        \* stdout takes no more for now
           replies |-> <<>>,
           dropped |-> FALSE]        \* some input was thrown away
-----------------------------------------------------------------------------
\* McpServer.

Methods == {"initialize", "tools/list", "tools/call", "resources/list", "resources/read"}

\* How handleRequest may answer a method; a tool that is missing, fails or
\* throws is a result, not an error, and what else throws is -32603.
Answers(method) ==
  CASE method = "no id" -> {"-32600"}
    [] method \in {"initialize", "tools/list", "resources/list"} -> {"result", "-32603"}
    [] method = "tools/call" -> {"-32602", "result", "isError", "-32603"}
    [] method = "resources/read" -> {"-32602", "result", "-32603"}
    [] OTHER -> {"-32601", "-32603"}

\* The server answers a request without an id under id 0; the transport under
\* null, as it answers a line that is no request.
Null == -1
IdOf(line, none) == IF Script[line].method = "no id" THEN none ELSE line
Reply(id, code) == [id |-> id, code |-> code]
-----------------------------------------------------------------------------
\* StdioTransport.

\* listen() registers the handler first; start() alone may be called without.
StartStdio(listening) ==
  /\ ~stdio.running /\ stdio.starts < MaxStarts
  /\ stdio' = [stdio EXCEPT !.running = TRUE, !.starts = @ + 1, !.buffer = <<>>,
                            !.handler = @ \/ listening,
                            !.dropped = @ \/ stdio.buffer # <<>>]

Written(io, reply) == IF io.running THEN [io EXCEPT !.replies = Append(@, reply)] ELSE io

\* processLine as far as its first await.
IsRequest(line) ==
  /\ \A i \in DOMAIN line : line[i] = [line |-> line[1].line, at |-> i]
  /\ Len(line) = Script[line[1].line].size - 1
  /\ Script[line[1].line].method # "garbage"
ProcessLine(io, line) ==
  IF line = <<>> \/ Script[line[1].line].method = "blank" THEN io
  ELSE CASE ~IsRequest(line) -> Written(io, Reply(Null, "-32700"))
         [] IsRequest(line) /\ ~io.handler ->
              Written(io, Reply(IdOf(line[1].line, Null), "-32603"))
         [] OTHER -> [io EXCEPT !.active = @ \cup {line[1].line}]

\* A chunk goes into the buffer, and each newline in it takes out the line before
\* it; between two chunks the buffer holds no newline.
TakeCharacter(io, c) ==
  IF IsNewline(c) THEN ProcessLine([io EXCEPT !.buffer = <<>>], io.buffer)
  ELSE [io EXCEPT !.buffer = Append(@, c)]
FirstLineOnly(io, chunk) == \* mutant of TakeLines: one line per chunk
  LET end == SelectInSeq(chunk, IsNewline)
      rest == SubSeq(chunk, end + 1, Len(chunk))
  IN  IF end = 0 THEN [io EXCEPT !.buffer = @ \o chunk]
      ELSE [FoldLeft(TakeCharacter, io, SubSeq(chunk, 1, end)) EXCEPT !.buffer = rest]
TakeLines(io, chunk) == FoldLeft(TakeCharacter, io, chunk)

\* handleChunk.  What the client writes while nobody listens is lost.
HandleChunk(size) ==
  /\ stdio.read + size <= Len(Chars)
  /\ LET chunk == SubSeq(Chars, stdio.read + 1, stdio.read + size)
         io == [stdio EXCEPT !.read = @ + size]
     IN  stdio' =
           CASE ~stdio.running -> [io EXCEPT !.dropped = TRUE]
             [] stdio.running /\ Len(stdio.buffer) + size > MaxLineLength ->
                  [Written(io, Reply(Null, "-32600")) EXCEPT !.buffer = <<>>, !.dropped = TRUE]
             [] OTHER -> TakeLines(io, chunk)

\* The handler returns and the reply is written; a write that stdout does not
\* take at once keeps the request active until 'drain'.
Answer(line, code, blocks) ==
  /\ line \in stdio.active \ stdio.waiting
  /\ code \in Answers(Script[line].method)
  /\ stdio' = LET io == Written(stdio, Reply(IdOf(line, 0), code))
              IN  IF stdio.running /\ blocks
                  THEN [io EXCEPT !.waiting = @ \cup {line}, !.full = TRUE]
                  ELSE [io EXCEPT !.active = @ \ {line}, !.dropped = @ \/ ~stdio.running]

Drain ==
  /\ stdio.full
  /\ stdio' = [stdio EXCEPT !.full = FALSE, !.waiting = {},
                            !.active = @ \ stdio.waiting]

StopStdio ==
  /\ stdio.running
  /\ stdio' = [stdio EXCEPT !.running = FALSE, !.stops = @ + 1]

\* stop() returns when no request is active, or after three seconds; what is
\* in the buffer by then is thrown away, be it of the next start.
OnlyWhenIdle == stdio.active = {} \* mutant of MayReturn: no deadline
MayReturn == TRUE
StopReturns ==
  /\ stdio.stops > 0 /\ MayReturn
  /\ stdio' = [stdio EXCEPT !.stops = @ - 1, !.buffer = <<>>,
                            !.dropped = @ \/ stdio.buffer # <<>>]

StdioNext ==
  \/ \E listening \in BOOLEAN : StartStdio(listening)
  \/ \E size \in 1..Len(Chars) : HandleChunk(size)
  \/ \E line \in stdio.active, blocks \in BOOLEAN :
       \E code \in Answers(Script[line].method) : Answer(line, code, blocks)
  \/ Drain \/ StopStdio \/ StopReturns
StdioSpec == StdioInit /\ [][StdioNext]_stdio
-----------------------------------------------------------------------------
Answered(id) == {n \in DOMAIN stdio.replies : stdio.replies[n].id = id}
Requests == {i \in DOMAIN Script : Script[i].method \notin {"blank", "garbage", "no id"}}

\* However the input is cut into chunks and the transport stopped and started,
\* a request is answered at most once, and not before all of it was read.
RepliesOnce ==
  \A i \in Requests :
    /\ Cardinality(Answered(i)) <= 1
    /\ Answered(i) # {} \/ i \in stdio.active =>
         \E n \in 1..stdio.read : Chars[n].line = i /\ IsNewline(Chars[n])

\* Unless input was thrown away (a stop, an over-long buffer), every line that
\* was read has its one reply once its handler has returned, and only lines
\* that are no requests or have no id are answered without one.
NothingLost ==
  ~stdio.dropped =>
    LET seen == {i \in DOMAIN Script :
                   \E n \in 1..stdio.read : Chars[n].line = i /\ IsNewline(Chars[n])}
        of(method) == {i \in seen : Script[i].method = method}
    IN  /\ \A i \in Requests \cap seen : i \in stdio.active \/ Cardinality(Answered(i)) = 1
        /\ Cardinality(Answered(Null)) >= Cardinality(of("garbage"))
        /\ Cardinality(Answered(Null)) + Cardinality(Answered(0))
             + Cardinality(of("no id") \cap (stdio.active \ stdio.waiting))
             = Cardinality(of("garbage")) + Cardinality(of("no id"))

StdioHolds == RepliesOnce /\ NothingLost

\* stop() returns although a reply may wait for a reader that never comes.
StopEnds == (stdio.stops > 0) ~> (stdio.stops = 0)
=============================================================================
