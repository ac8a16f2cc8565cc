--------------------------- MODULE MCToolExecution ---------------------------
(* What the agent can do: the tool executors, and, as parts of their own,    *)
(* the plugins that bring tools and hooks along and how they are wired, the  *)
(* adapters through which a model asks for tools, what an iteration does     *)
(* with the calls it asks for, the registries of skills and tools, and the   *)
(* working tree that is rolled back when its work is given up.               *)
EXTENDS ToolExecution, PluginContext, PluginWiring, ProviderAdapters, TurnTools,
        Registries, GitRollback

VARIABLE part

bringing == <<pluginVars, wiringVars, skillVars, syncVars>>
calling == <<adapterVars, turnToolVars>>
all == <<vars, bringing, calling, gitVars, part>>

\* A tool of each kind: read may be cached, probe has a classifier that
\* forbids it to run in parallel, write changes the world.
SmallTools == {"read", "probe", "write"}
Writers == {"write"}
Readers == {"read"}
Probers == {"probe"}
SmallBatches == {<<"write">>, <<"write", "read">>, <<"read", "write">>,
                 <<"read", "read", "probe">>,
                 <<"probe", "write", "read">>}

\* p registers two effects, q one, and its setup is asynchronous.
EffectsOf == [x \in {"p", "q"} |-> IF x = "p" THEN 2 ELSE 1]

\* A bundle with an id twice and a disabled plugin, up to two patches of an id
\* it has and of one it has not, and every dependency relation of three plugins.
Bundle(id, plugin, disabled) ==
  [id |-> id, plugin |-> plugin, config |-> {plugin}, disabled |-> disabled]
OneBundle == {<<Bundle("x", "one", "no"), Bundle("y", "two", "no"), Bundle("x", "three", "yes")>>}
PatchSet == {[target |-> t, plugin |-> p, config |-> {}, disabled |-> d] :
               t \in {"x", "z"}, p \in {Unset, "four"}, d \in {Unset, "yes", "no"}}
PatchLists == {<<>>} \cup {<<p>> : p \in PatchSet} \cup {<<p, q>> : p, q \in PatchSet}
Three == <<"a", "b", "c">>
AllInjections == [{"a", "b", "c"} -> SUBSET {"a", "b", "c"}]

\* Two calls in one message and calls in messages of their own; an answer of
\* texts, one with two calls, and one whose call has unreadable arguments.
Says(role, text) == [role |-> role, text |-> text, calls |-> <<>>, result |-> ""]
CallsFor(role, ids) == [role |-> role, text |-> "", calls |-> ids, result |-> ""]
ResultOf(id) == [role |-> "tool_result", text |-> "out", calls |-> <<>>, result |-> id]
SomeTalks ==
  {<<Says("system", "s"), Says("user", "u"), CallsFor("assistant", <<"a", "b">>),
     ResultOf("a"), ResultOf("b")>>,
   <<Says("user", "u"), CallsFor("tool_call", <<"a">>), ResultOf("a"), Says("user", "v"),
     CallsFor("assistant", <<"b">>), ResultOf("b")>>}
TextBlock(text) == [text |-> text, call |-> "", args |-> <<>>]
CallBlock(id, args) == [text |-> "", call |-> id, args |-> args]
SomeReplies ==
  {[blocks |-> <<TextBlock("x"), TextBlock("y")>>, finish |-> "length"],
   [blocks |-> <<TextBlock("x"), CallBlock("a", <<"p", "q">>), CallBlock("b", <<"r">>)>>,
    finish |-> "calls"],
   [blocks |-> <<CallBlock("a", <<"bad">>)>>, finish |-> "filter"]}
\* Braces in strings and behind a backslash, text behind the object, a name in
\* the arguments, a key without an object, and an object that is no JSON.
SomeTexts ==
  {<<"x", "tool", "key", "{", "quote", "backslash", "quote", "}", "quote", "{", "}", "x", "}", "x", "x">>,
   <<"key", "{", "inner", "quote", "{", "quote", "}", "tool", "x">>,
   <<"tool", "key", "x", "key", "{", "}">>,
   <<"tool", "key", "{", "bad", "}", "x">>}

\* A text, two reads behind a write, a read under a name that is only found
\* in lower case, a tool that is not there, and two writes of one file.
Call(tool, file) == [tool |-> tool, file |-> file]
SomeAnswers ==
  {<<>>, <<Call("write", "f"), Call("read", "f"), Call("read", "g")>>,
   <<Call("READ", "f"), Call("read", "f"), Call("write", "f")>>,
   <<Call("none", "f")>>, <<Call("write", "f"), Call("write", "f")>>}

\* A skill in every combination of sources beside one in all of them; two
\* synchronisations of a server whose second list has a tool without a schema,
\* and one of a server whose name makes its tool the namesake of the first's.
SomeShelves ==
  {[source \in {"user", "workspace", "package"} |-> {"t"} \cup IF source \in having THEN {"s"} ELSE {}] :
     having \in SUBSET {"user", "workspace", "package"}}
Def(parts) == [tool |-> parts, schema |-> TRUE]
SomeSyncs == <<<<"a">>, <<"a">>, <<"a", "b">>>>
SomeLists ==
  [s \in {<<"a">>, <<"a", "b">>} |->
     IF s = <<"a">>
     THEN <<<<Def(<<"b", "c">>), Def(<<"d">>)>>,
            <<Def(<<"d">>), [tool |-> <<"e">>, schema |-> FALSE], Def(<<"b", "c">>)>>>>
     ELSE <<<<Def(<<"c">>)>>>>]
NoShelf == [source \in {"user", "workspace", "package"} |-> {"t"}]

AllInit == /\ Init /\ PluginInit /\ WiringInit /\ AdapterInit /\ TurnToolsInit
           /\ SkillsInit /\ SyncsInit /\ GitInit
           /\ part \in {"tools", "plugins", "wiring", "exchange", "parser", "turn",
                      "skills", "sync", "git"}
           /\ part # "tools" => executor = "grouped"
           /\ part # "wiring" => given = NothingGiven
           /\ part # "exchange" => exchange = Unsent("openai", FALSE, <<>>)
           /\ part # "parser" => toolText = FreshParser(<<>>)
           /\ part # "turn" => equipped
           /\ part # "skills" => discovery.shelf = NoShelf
ToolPart == part = "tools" /\ Next /\ UNCHANGED <<bringing, calling>>
PluginPart ==
  /\ part = "plugins" /\ PluginNext
  /\ UNCHANGED <<vars, wiringVars, skillVars, syncVars, calling>>
WiringPart ==
  /\ part = "wiring" /\ WiringNext
  /\ UNCHANGED <<vars, pluginVars, skillVars, syncVars, calling>>
SkillPart ==
  /\ part = "skills" /\ SkillsNext
  /\ UNCHANGED <<vars, pluginVars, wiringVars, syncVars, calling>>
SyncPart ==
  /\ part = "sync" /\ SyncsNext
  /\ UNCHANGED <<vars, pluginVars, wiringVars, skillVars, calling>>
ExchangePart == part = "exchange" /\ ExchangeNext /\ UNCHANGED <<vars, bringing, turnToolVars>>
ParserPart == part = "parser" /\ ParserNext /\ UNCHANGED <<vars, bringing, turnToolVars>>
TurnPart == part = "turn" /\ TurnToolsNext /\ UNCHANGED <<vars, bringing, adapterVars>>
GitPart == part = "git" /\ GitNext /\ UNCHANGED <<vars, bringing, calling>>

AllNext ==
  /\ \/ /\ \/ ToolPart \/ PluginPart \/ WiringPart \/ SkillPart \/ SyncPart
           \/ ExchangePart \/ ParserPart \/ TurnPart
        /\ UNCHANGED gitVars
     \/ GitPart
  /\ UNCHANGED part
AllSpec == AllInit /\ [][AllNext]_all

\* What plugins, sources and servers bring is taken out again as it was put in:
\* PluginsUnwind and RegistriesHold, each in the behaviours of its part (in the
\* others its state never changes).
PluginsHold ==
  /\ part = "plugins" => PluginsUnwind
  /\ part \in {"skills", "sync"} => RegistriesHold
\* Requests, answers and tool calls are translated as they are meant, what an
\* iteration calls is done and told in order, and plugins are set up and hooked as
\* composed: AdaptersHold, TurnsHold and WiringSound.
CallsHold ==
  /\ part \in {"exchange", "parser"} => AdaptersHold
  /\ part = "turn" => TurnsHold
  /\ part = "wiring" => WiringSound
=============================================================================
