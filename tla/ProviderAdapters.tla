-------------------------- MODULE ProviderAdapters --------------------------
(***************************************************************************)
(* The adapters of the model providers.  A conversation becomes a payload  *)
(* of the provider's own messages; an answer comes back as one body or as  *)
(* a stream of server-sent events, which the network cuts anywhere; the    *)
(* tool call in a streamed text is parsed while it arrives.                *)
(* A line of the stream is two symbols <<line, half>>, the second of them  *)
(* with the newline.  Texts and calls are opaque; ids pair calls and       *)
(* results.                                                                *)
(***************************************************************************)
EXTENDS Integers, Sequences, SequencesExt

CONSTANTS Conversations, \* sequences of [role, text, calls, result]
          Replies,       \* [blocks, finish], a block being a text or a call in pieces
          Statuses,      \* what a server may answer with, 200 among them
          ToolTexts,     \* texts with a tool call in them, as tokens
          MaxPiece       \* bound: symbols read at once

VARIABLES exchange, \* one request to one provider
          toolText  \* the parser and what it has still to be fed

adapterVars == <<exchange, toolText>>

Providers == {"openai", "anthropic", "gemini"}
None == ""
-----------------------------------------------------------------------------
\* Requests: what becomes of one message.

Plain(role, text) == [role |-> role, text |-> text, calls |-> <<>>, results |-> <<>>]
CallsIn(m) == m.calls \* of a message TOOL_CALL without calls, its own name

OpenAIMessage(m) ==
  CASE m.role \in {"system", "user"} -> Plain(m.role, m.text)
    [] m.role \in {"assistant", "tool_call"} ->
         [Plain("assistant", m.text) EXCEPT !.calls = CallsIn(m)]
    [] OTHER -> [Plain("tool", m.text) EXCEPT !.results = <<m.result>>]
ToOpenAIMessages(conversation) ==
  [i \in DOMAIN conversation |-> OpenAIMessage(conversation[i])]

\* Results that follow each other go into one message of the user.
Separate(messages, result) == \* mutant of Joined
  Append(messages, [Plain("user", None) EXCEPT !.results = <<result>>])
Joined(messages, result) ==
  IF messages # <<>> /\ Last(messages).results # <<>>
  THEN [messages EXCEPT ![Len(messages)].results = Append(@, result)]
  ELSE Append(messages, [Plain("user", None) EXCEPT !.results = <<result>>])
ToAnthropicMessages(conversation) ==
  FoldLeft(LAMBDA messages, m :
    CASE m.role = "system" -> messages
      [] m.role = "user" -> Append(messages, Plain("user", m.text))
      [] m.role \in {"assistant", "tool_call"} ->
           Append(messages, [Plain("assistant", m.text) EXCEPT !.calls = CallsIn(m)])
      [] OTHER -> Joined(messages, m.result),
    <<>>, conversation)

\* buildRequestBody of the native providers: no calls, and no TOOL_CALL.
NativeMessages(conversation) ==
  LET kept == SelectSeq(conversation, LAMBDA m : m.role \notin {"system", "tool_call"})
  IN  [i \in DOMAIN kept |->
        IF kept[i].role = "tool_result"
        THEN [Plain("user", None) EXCEPT !.results = <<kept[i].result>>]
        ELSE Plain(kept[i].role, kept[i].text)]
-----------------------------------------------------------------------------
\* What the providers send (theirs to choose): the body of an answer, and the
\* lines of the same answer as a stream, one part or call to a line: of
\* several the adapters would read the first only.

IsText(block) == block.call = None
Texts(blocks) == LET texts == SelectSeq(blocks, IsText)
                 IN  [i \in DOMAIN texts |-> texts[i].text]
Calls(blocks) == LET calls == SelectSeq(blocks, LAMBDA b : ~IsText(b))
                 IN  [i \in DOMAIN calls |-> [id |-> calls[i].call, args |-> calls[i].args]]

RawFinish(provider, finish) ==
  CASE provider = "openai" ->
         [stop |-> "stop", calls |-> "tool_calls", length |-> "length",
          filter |-> "content_filter"][finish]
    [] provider = "anthropic" ->
         [stop |-> "end_turn", calls |-> "tool_use", length |-> "max_tokens",
          filter |-> "refusal"][finish]
    [] OTHER -> [stop |-> "STOP", calls |-> "STOP", length |-> "MAX_TOKENS",
                 filter |-> "SAFETY"][finish]

Line(is) == [is |-> is, text |-> None, call |-> None, args |-> None, finish |-> None]
LinesOfBlock(provider, b) ==
  CASE IsText(b) -> <<[Line("delta") EXCEPT !.text = b.text]>>
    [] ~IsText(b) /\ provider = "gemini" -> <<[Line("delta") EXCEPT !.call = b.call]>>
    [] OTHER -> <<[Line("call") EXCEPT !.call = b.call]>>
                \o [i \in DOMAIN b.args |-> [Line("args") EXCEPT !.args = b.args[i]]]
Wire(provider, reply) ==
  LET raw == RawFinish(provider, reply.finish)
  IN  <<Line("comment")>>
      \o FlattenSeq([i \in DOMAIN reply.blocks |-> LinesOfBlock(provider, reply.blocks[i])])
      \o <<[Line("end") EXCEPT !.finish = raw],
           Line(IF provider = "anthropic" THEN "message_stop" ELSE "done")>>
-----------------------------------------------------------------------------
\* Answers.

FinishReason(raw) ==
  CASE raw \in {"tool_calls", "tool_use"} -> "TOOL_CALL"
    [] raw \in {"length", "max_tokens", "MAX_TOKENS"} -> "MAX_TOKENS"
    [] raw \in {"content_filter", "SAFETY"} -> "CONTENT_FILTER"
    [] OTHER -> "STOP"

\* Of a status that is not ok.
StatusError(provider, status) ==
  CASE status = 429 -> "MODEL_RATE_LIMITED"
    [] provider = "openai" /\ status \in {408, 504} -> "MODEL_TIMEOUT"
    [] \/ provider = "openai" /\ status < 500 /\ status \notin {408, 429}
       \/ provider = "anthropic" /\ status = 400 -> "MODEL_INVALID_RESPONSE"
    [] OTHER -> "MODEL_UNAVAILABLE"
FetchError(provider, aborted) ==
  IF aborted /\ provider = "openai" THEN "MODEL_TIMEOUT" ELSE "MODEL_UNAVAILABLE"

\* complete(): only OpenAI sends the arguments of a call as a text to parse.
Completed(provider, reply) ==
  LET calls == Calls(reply.blocks)
  IN  IF provider = "openai" /\ \E i \in DOMAIN calls : "bad" \in ToSet(calls[i].args)
      THEN [error |-> "MODEL_MALFORMED_OUTPUT"]
      ELSE [error |-> None, content |-> Texts(reply.blocks),
            calls |-> [i \in DOMAIN calls |-> calls[i].id],
            finish |-> FinishReason(RawFinish(provider, reply.finish))]

\* What a whole line of the stream makes it yield.
Chunk == [text |-> None, call |-> None, args |-> None, finish |-> None]
Chunks(provider, line) ==
  CASE line.is = "delta" /\ line.text # None -> <<[Chunk EXCEPT !.text = line.text]>>
    [] provider = "openai" /\ line.is \in {"call", "args"} ->
         <<[Chunk EXCEPT !.call = line.call, !.args = line.args]>>
    [] provider # "anthropic" /\ line.is = "end" ->
         <<[Chunk EXCEPT !.finish = FinishReason(line.finish)]>>
    [] line.is = "message_stop" -> <<[Chunk EXCEPT !.finish = "STOP"]>>
    [] OTHER -> <<>>

\* A line of the buffer is whole if nothing of it was lost.
Whole(symbols) == Len(symbols) = 2 /\ symbols[1] = <<symbols[2][1], 1>>
\* Every complete line in turn, up to [DONE]; the rest stays in the buffer.
Consumed(provider, lines, buffer) ==
  FoldLeft(LAMBDA acc, symbol :
    LET line == Append(acc.buffer, symbol)
        content == lines[symbol[1]]
    IN  CASE acc.done -> acc
          [] ~acc.done /\ symbol[2] = 1 -> [acc EXCEPT !.buffer = line]
          [] OTHER ->
               [buffer |-> <<>>,
                done |-> Whole(line) /\ content.is = "done",
                yielded |-> acc.yielded \o
                  (IF Whole(line) THEN Chunks(provider, content) ELSE <<>>)],
    [buffer |-> <<>>, done |-> FALSE, yielded |-> <<>>], buffer)
-----------------------------------------------------------------------------
Unsent(provider, streaming, conversation) ==
  [provider |-> provider, streaming |-> streaming, conversation |-> conversation,
   at |-> "idle", payload |-> <<>>, error |-> None, answer |-> [error |-> None],
   reply |-> None, lines |-> <<>>, unread |-> <<>>, buffer |-> <<>>, yielded |-> <<>>,
   cut |-> FALSE]

FreshParser(text) ==
  [unfed |-> text, buffer |-> <<>>, id |-> 0, name |-> None, completed |-> <<>>]

AdapterInit ==
  /\ exchange \in {Unsent(p, streaming, c) :
                     p \in Providers, streaming \in BOOLEAN, c \in Conversations \cup {<<>>}}
  /\ toolText \in {FreshParser(text) : text \in ToolTexts \cup {<<>>}}

\* buildPayload, buildRequestBody; and what the adapter would build for the
\* Messages API.
Send ==
  /\ exchange.at = "idle"
  /\ exchange' = [exchange EXCEPT !.at = "sent",
       !.payload = CASE exchange.provider = "openai" -> ToOpenAIMessages(exchange.conversation)
                     [] OTHER -> NativeMessages(exchange.conversation)]
  /\ UNCHANGED toolText

FetchFails(aborted) ==
  /\ exchange.at = "sent"
  /\ exchange' = [exchange EXCEPT !.at = "failed",
                    !.error = FetchError(exchange.provider, aborted)]
  /\ UNCHANGED toolText

Responds(status, reply) ==
  /\ exchange.at = "sent"
  /\ LET p == exchange.provider
         lines == Wire(p, reply)
         whole == Completed(p, reply)
     IN  exchange' =
           CASE status # 200 ->
                  [exchange EXCEPT !.at = "failed", !.error = StatusError(p, status)]
             [] status = 200 /\ exchange.streaming ->
                  [exchange EXCEPT !.at = "reading", !.reply = reply, !.lines = lines,
                     !.unread = FlattenSeq([i \in DOMAIN lines |-> <<<<i, 1>>, <<i, 2>>>>])]
             [] OTHER ->
                  [exchange EXCEPT !.at = IF whole.error = None THEN "answered" ELSE "failed",
                     !.reply = reply, !.error = whole.error, !.answer = whole]
  /\ UNCHANGED toolText

\* reader.read() with a chunk of any size.
Fresh(buffer, chunk) == chunk \* mutant of Buffered: the rest of the last chunk is lost
Buffered(buffer, chunk) == buffer \o chunk
Read(n) ==
  /\ exchange.at = "reading" /\ n <= Len(exchange.unread)
  /\ LET got == Consumed(exchange.provider, exchange.lines,
                         Buffered(exchange.buffer, SubSeq(exchange.unread, 1, n)))
     IN  exchange' = [exchange EXCEPT
           !.unread = SubSeq(@, n + 1, Len(@)), !.buffer = got.buffer,
           !.yielded = @ \o got.yielded, !.at = IF got.done THEN "ended" ELSE @]
  /\ UNCHANGED toolText

\* done: what is in the buffer is not looked at.
BodyEnds ==
  /\ exchange.at = "reading"
  /\ exchange' = [exchange EXCEPT !.at = "ended", !.cut = exchange.unread # <<>>]
  /\ UNCHANGED toolText
-----------------------------------------------------------------------------
\* StreamingToolParser, on tokens: a name ("tool", "inner"), the key
\* "arguments" or "input", braces, a quote, a backslash, other text, and "bad"
\* which makes JSON.parse fail.

NameTokens == {"tool", "inner"}
First(tokens, S) == \* the first index of a member, 0 if there is none
  SelectInSeq(tokens, LAMBDA t : t \in S)

\* extractBalancedJson: where the object that begins the text ends, or 0.
BalancedEnd(tokens) ==
  FoldLeft(LAMBDA acc, i :
    LET t == tokens[i]
    IN  CASE acc.end > 0 -> acc
          [] acc.end = 0 /\ acc.escape -> [acc EXCEPT !.escape = FALSE]
          [] acc.end = 0 /\ ~acc.escape /\ t = "backslash" -> [acc EXCEPT !.escape = TRUE]
          [] acc.end = 0 /\ ~acc.escape /\ t = "quote" -> [acc EXCEPT !.string = ~@]
          [] acc.end = 0 /\ ~acc.escape /\ ~acc.string /\ t = "{" -> [acc EXCEPT !.depth = @ + 1]
          [] acc.end = 0 /\ ~acc.escape /\ ~acc.string /\ t = "}" ->
               [acc EXCEPT !.depth = @ - 1, !.end = IF acc.depth = 1 THEN i ELSE 0]
          [] OTHER -> acc,
    [depth |-> 0, string |-> FALSE, escape |-> FALSE, end |-> 0],
    [i \in DOMAIN tokens |-> i]).end

\* The first key with a brace behind it, and the text from that brace on.
KeyAt(tokens) ==
  SelectInSeq([i \in DOMAIN tokens |-> tokens[i] = "key" /\ i < Len(tokens) /\ tokens[i + 1] = "{"],
              LAMBDA opens : opens)
Arguments(tokens) ==
  LET key == KeyAt(tokens)
  IN  IF key > 0 THEN SubSeq(tokens, key + 1, Len(tokens)) ELSE <<>>

Feed(n) ==
  /\ n <= Len(toolText.unfed)
  /\ LET buffer == toolText.buffer \o SubSeq(toolText.unfed, 1, n)
         named == First(buffer, NameTokens)
         name == IF named > 0 THEN buffer[named] ELSE toolText.name
         id == IF named > 0 /\ toolText.id = 0 THEN Len(buffer) ELSE toolText.id
         arguments == Arguments(buffer)
         end == BalancedEnd(arguments)
     IN  toolText' = [unfed |-> SubSeq(toolText.unfed, n + 1, Len(toolText.unfed)),
                      buffer |-> buffer, id |-> id, name |-> name,
                      completed |-> IF end = 0 \/ "bad" \in ToSet(SubSeq(arguments, 1, end))
                                    THEN toolText.completed
                        ELSE Append(toolText.completed,
                          [id |-> id, name |-> name, input |-> SubSeq(arguments, 1, end)])]
  /\ UNCHANGED exchange

ResetParser(text) == toolText' = FreshParser(text) /\ UNCHANGED exchange

ExchangeNext ==
  \/ Send
  \/ \E aborted \in BOOLEAN : FetchFails(aborted)
  \/ \E status \in Statuses, reply \in Replies : Responds(status, reply)
  \/ \E n \in 1..MaxPiece : Read(n)
  \/ BodyEnds
ParserNext ==
  \/ \E n \in 1..MaxPiece : Feed(n)
  \/ \E text \in ToolTexts : ResetParser(text)
-----------------------------------------------------------------------------
\* No payload changes the order of the texts and results; that of OpenAI and
\* of the message adapter keep each result behind its call, and that of the
\* adapter answers the calls of one message with one message.
Held(messages, field) == FlattenSeq([i \in DOMAIN messages |-> messages[i][field]])
ResultsOf(conversation) ==
  LET results == SelectSeq(conversation, LAMBDA m : m.role = "tool_result")
  IN  [i \in DOMAIN results |-> results[i].result]
ConversationKept ==
  LET c == exchange.conversation
      openai == ToOpenAIMessages(c)
      claude == ToAnthropicMessages(c)
  IN  /\ \A messages \in {openai, claude} :
           Held(messages, "results") = ResultsOf(c) /\ Held(messages, "calls") = Held(c, "calls")
      /\ exchange.at # "idle" => Held(exchange.payload, "results") = ResultsOf(c)
      /\ \A i \in DOMAIN claude : claude[i].calls # <<>> /\ i < Len(claude) =>
           LET answered == {r \in ToSet(claude[i].calls) : \E j \in DOMAIN claude :
                              j > i /\ r \in ToSet(claude[j].results)}
           IN  answered \subseteq ToSet(claude[i + 1].results)

\* However a stream is cut up, it yields the chunks of its complete lines in
\* their order, so that its texts are those of the answer, and with OpenAI its
\* calls too; and a finish reason comes only after all of them.
StreamTells ==
  LET p == exchange.provider
      all == FlattenSeq([i \in DOMAIN exchange.lines |-> Chunks(p, exchange.lines[i])])
      texts == SelectSeq(exchange.yielded, LAMBDA c : c.text # None)
      calls == SelectSeq(exchange.yielded, LAMBDA c : c.call # None)
      whole == Completed(p, exchange.reply)
  IN  exchange.lines # <<>> =>
        /\ IsPrefix(exchange.yielded, all)
        /\ exchange.at = "ended" /\ ~exchange.cut => exchange.yielded = all
        /\ (\E i \in DOMAIN exchange.yielded : exchange.yielded[i].finish # None) =>
             /\ [i \in DOMAIN texts |-> texts[i].text] = Texts(exchange.reply.blocks)
             /\ p = "openai" /\ whole.error = None =>
                  /\ [i \in DOMAIN calls |-> calls[i].call] = whole.calls
                  /\ Last(exchange.yielded).finish = whole.finish

\* The parser reports a call, as often as it is fed after that, with the one
\* object behind the first key: the shortest text in which as many braces close
\* as open, but for those in strings and behind backslashes.
Unescaped(tokens, i) ==
  LET before == {j \in 0..(i - 1) : \A k \in (j + 1)..(i - 1) : tokens[k] = "backslash"}
      run == i - 1 - (CHOOSE j \in before : \A k \in before : j <= k)
  IN  run % 2 = 0
Count(tokens, S) == Len(SelectSeq(tokens, LAMBDA i : i \in S))
Balanced(tokens) ==
  LET at == [i \in DOMAIN tokens |-> i]
      quotes == {i \in DOMAIN tokens : tokens[i] = "quote" /\ Unescaped(tokens, i)}
      plain(i) == Unescaped(tokens, i) /\ Count(SubSeq(at, 1, i), quotes) % 2 = 0
      braces(t) == {i \in DOMAIN tokens : tokens[i] = t /\ plain(i)}
  IN  braces("{") # {} /\ Count(at, braces("{")) = Count(at, braces("}"))
ReportsWhole ==
  LET arguments == Arguments(toolText.buffer)
      ends == {n \in DOMAIN arguments : Balanced(SubSeq(arguments, 1, n))}
      shortest == CHOOSE n \in ends : \A m \in ends : n <= m
  IN  /\ (toolText.completed = <<>>) <=>
           (ends = {} \/ "bad" \in ToSet(SubSeq(arguments, 1, shortest)))
      /\ \A i \in DOMAIN toolText.completed :
           /\ toolText.completed[i].input = SubSeq(arguments, 1, shortest)
           /\ First(toolText.buffer, NameTokens) < KeyAt(toolText.buffer)
                /\ First(toolText.buffer, NameTokens) > 0 =>
                toolText.completed[i] = toolText.completed[1] /\ toolText.completed[i].id # 0

AdaptersHold == ConversationKept /\ StreamTells /\ ReportsWhole
=============================================================================
