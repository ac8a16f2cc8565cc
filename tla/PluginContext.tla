---------------------------- MODULE PluginContext ---------------------------
(***************************************************************************)
(* Loading and unloading of plugins.  Whatever a plugin registers (a       *)
(* service, a handler, an interceptor, an effect) leaves a disposer with   *)
(* the plugin on top of the stack of loads in progress; every await lets   *)
(* another load, unload or dispose() run.                                  *)
(***************************************************************************)
EXTENDS Naturals, FiniteSets, SequencesExt

CONSTANTS Plugins,
          MaxEffects,   \* bound: registrations of one load, per plugin
          Async,        \* plugins whose setups are asynchronous
          MaxLoads      \* bound: loads of all plugins

\* A name for the list of what no plugin owns.
ASSUME GlobalIsNoPlugin == "global" \notin Plugins

VARIABLES record,    \* plugins: the PluginRecords' states
          disposers, \* their disposers, and under "global" globalDisposers
          loadOrder, \* pluginLoadOrder
          stack,     \* activePluginStack
          applying,  \* loads in progress: how many effects they registered
          unwinds,   \* unwindDisposers in progress, per owner: what is left
          closing,   \* dispose(): the plugins it has yet to unload
          disposal,  \* dispose(): "open", "plugins", "global" or "closed"
          live,      \* effects in force
          setups,    \* those whose asynchronous setup has not resolved
          missed,    \* those whose disposer ran before it had
          overlapped, \* history: a load or unload began while another went on
          cut,       \* history: a plugin was unloaded during a load, or a new
                     \* load forgot the disposers left with one that had failed
          loads

pluginVars == <<record, disposers, loadOrder, stack, applying, unwinds, closing,
                disposal, live, setups, missed, overlapped, cut, loads>>

Effect(p, load, n) == [by |-> p, load |-> load, n |-> n]
Names == Plugins \cup {"global"}
NotLoading == [load |-> 0, effects |-> 0, threw |-> FALSE]
Loading(p) == applying[p] # NotLoading
Owners == (Names \X {"unload"}) \cup (Plugins \X {"failure"})

PluginInit ==
  /\ record = [p \in Plugins |-> "absent"]
  /\ disposers = [n \in Names |-> <<>>]
  /\ loadOrder = <<>> /\ stack = <<>>
  /\ applying = [p \in Plugins |-> NotLoading]
  /\ unwinds = [o \in Owners |-> <<>>]
  /\ closing = <<>> /\ disposal = "open"
  /\ live = {} /\ setups = {} /\ missed = {}
  /\ overlapped = FALSE /\ cut = FALSE /\ loads = 0

Busy == \/ disposal \in {"plugins", "global"}
        \/ \E p \in Plugins : Loading(p) \/ record[p] = "disposing"
        \/ \E o \in Owners : unwinds[o] # <<>>
AsRegistered(list) == list \* mutant of Unwinding: first come, first gone
Unwinding(list) == Reverse(list)
-----------------------------------------------------------------------------
\* Loading.

\* Callers wait for a plugin that is loaded or unloaded before they load it
\* again, and inject is satisfied.
StartLoad(p) ==
  /\ ~Loading(p) /\ record[p] \in {"absent", "failed"} /\ loads < MaxLoads
  /\ unwinds[<<p, "unload">>] = <<>>
  /\ loads' = loads + 1
  /\ record' = [record EXCEPT ![p] = "loading"]
  /\ disposers' = [disposers EXCEPT ![p] = <<>>]
  /\ loadOrder' = Append(loadOrder, p)
  /\ stack' = Append(stack, p)
  /\ applying' = [applying EXCEPT ![p].load = loads + 1]
  /\ overlapped' = (overlapped \/ Busy)
  /\ cut' = (cut \/ disposers[p] # <<>>)
  /\ UNCHANGED <<unwinds, closing, disposal, live, setups, missed>>

\* trackDisposer: the top of the stack need not be the plugin that registers.
Tracker(p) ==
  IF stack # <<>> /\ record[Last(stack)] # "absent" THEN Last(stack) ELSE "global"

\* provide, on, intercept, whenAvailable, or effect, whose setup may be async.
Register(p) ==
  /\ Loading(p) /\ ~applying[p].threw /\ applying[p].effects < MaxEffects[p]
  /\ LET e == Effect(p, applying[p].load, applying[p].effects + 1)
     IN  /\ live' = live \cup {e}
         /\ setups' = IF p \in Async THEN setups \cup {e} ELSE setups
         /\ disposers' = [disposers EXCEPT ![Tracker(p)] = Append(@, e)]
  /\ applying' = [applying EXCEPT ![p].effects = @ + 1]
  /\ UNCHANGED <<record, loadOrder, stack, unwinds, closing, disposal, missed, overlapped, cut, loads>>

SetupResolves(e) ==
  /\ e \in setups /\ setups' = setups \ {e}
  /\ UNCHANGED <<record, disposers, loadOrder, stack, applying, unwinds, closing,
                 disposal, live, missed, overlapped, cut, loads>>

\* finally: the top of the stack goes, whoever's it is.
PopLoad(p) ==
  /\ applying' = [applying EXCEPT ![p] = NotLoading]
  /\ stack' = Front(stack)

Loaded(p) ==
  /\ Loading(p) /\ ~applying[p].threw
  /\ record' = [record EXCEPT ![p] = IF @ = "loading" THEN "active" ELSE @]
  /\ PopLoad(p)
  /\ UNCHANGED <<disposers, loadOrder, unwinds, closing, disposal, live, setups, missed, overlapped, cut, loads>>

\* apply threw: what its record holds is unwound, then the stack is popped.  A
\* record that is being unloaded goes on to be.
LoadFails(p) ==
  /\ Loading(p) /\ ~applying[p].threw
  /\ applying' = [applying EXCEPT ![p].threw = TRUE]
  /\ record' = [record EXCEPT ![p] = IF @ = "loading" THEN "failed" ELSE @]
  /\ unwinds' = [unwinds EXCEPT ![<<p, "failure">>] = Unwinding(disposers[p])]
  /\ disposers' = [disposers EXCEPT ![p] = <<>>]
  /\ UNCHANGED <<loadOrder, stack, closing, disposal, live, setups, missed, overlapped, cut, loads>>

LoadFailed(p) ==
  /\ applying[p].threw /\ unwinds[<<p, "failure">>] = <<>>
  /\ PopLoad(p)
  /\ UNCHANGED <<record, disposers, loadOrder, unwinds, closing, disposal, live, setups, missed, overlapped, cut, loads>>
-----------------------------------------------------------------------------
\* Unloading.

BeginUnload(p) ==
  /\ record' = [record EXCEPT ![p] = "disposing"]
  /\ unwinds' = [unwinds EXCEPT ![<<p, "unload">>] = @ \o Unwinding(disposers[p])]
  /\ cut' = (cut \/ \E q \in Plugins : Loading(q))
  /\ disposers' = [disposers EXCEPT ![p] = <<>>]

Unload(p) ==
  /\ record[p] # "absent"
  /\ BeginUnload(p)
  /\ overlapped' = (overlapped \/ Busy)
  /\ UNCHANGED <<loadOrder, stack, applying, closing, disposal, live, setups, missed, loads>>

\* One disposer has run.  That of an asynchronous effect does nothing before
\* the setup has resolved, and is not called again.
RunDisposer(o) ==
  /\ unwinds[o] # <<>>
  /\ LET e == Head(unwinds[o])
     IN  IF e \in setups THEN missed' = missed \cup {e} /\ UNCHANGED live
                         ELSE live' = live \ {e} /\ UNCHANGED missed
  /\ unwinds' = [unwinds EXCEPT ![o] = Tail(@)]
  /\ UNCHANGED <<record, disposers, loadOrder, stack, applying, closing, disposal,
                 setups, overlapped, cut, loads>>

\* Disposers go with their record, which a load in progress still holds.
Without(gone) ==
  [n \in Names |-> IF n \in gone /\ ~Loading(n) THEN <<>> ELSE disposers[n]]

Unloaded(p) ==
  /\ record[p] = "disposing" /\ unwinds[<<p, "unload">>] = <<>>
  /\ record' = [record EXCEPT ![p] = "absent"]
  /\ disposers' = Without({p})
  /\ loadOrder' = LET i == SelectInSeq(loadOrder, LAMBDA q : q = p)
                  IN  IF i = 0 THEN loadOrder ELSE RemoveAt(loadOrder, i)
  /\ UNCHANGED <<stack, applying, unwinds, closing, disposal, live, setups, missed, overlapped, cut, loads>>

\* dispose() unloads the plugins there are when it is called, one by one,
\* then unwinds what no plugin owns and forgets all records.
Dispose ==
  /\ disposal = "open" /\ disposal' = "plugins"
  /\ closing' = Reverse(loadOrder)
  /\ overlapped' = (overlapped \/ Busy)
  /\ UNCHANGED <<record, disposers, loadOrder, stack, applying, unwinds, live, setups, missed, cut, loads>>

DisposeNext ==
  /\ disposal = "plugins" /\ closing # <<>>
  /\ LET p == Head(closing)
     IN  IF record[p] = "absent" \* unloaded by now
         THEN closing' = Tail(closing) /\ UNCHANGED <<record, unwinds, disposers, cut>>
         ELSE record[p] # "disposing" /\ BeginUnload(p) /\ UNCHANGED closing
  /\ UNCHANGED <<loadOrder, stack, applying, disposal, live, setups, missed, overlapped, loads>>

DisposeGlobal ==
  /\ disposal = "plugins" /\ closing = <<>>
  /\ disposal' = "global"
  /\ unwinds' = [unwinds EXCEPT ![<<"global", "unload">>] = Unwinding(disposers["global"])]
  /\ disposers' = [disposers EXCEPT !["global"] = <<>>]
  /\ UNCHANGED <<record, loadOrder, stack, applying, closing, live, setups, missed, overlapped, cut, loads>>

DisposeEnds ==
  /\ disposal = "global" /\ unwinds[<<"global", "unload">>] = <<>>
  /\ disposal' = "closed"
  /\ record' = [p \in Plugins |-> "absent"]
  /\ disposers' = Without(Plugins)
  /\ loadOrder' = <<>>
  /\ UNCHANGED <<stack, applying, unwinds, closing, live, setups, missed, overlapped, cut, loads>>

PluginNext ==
  \/ \E p \in Plugins : \/ StartLoad(p) \/ Loaded(p) \/ LoadFails(p) \/ LoadFailed(p)
                        \/ Register(p) \/ Unload(p) \/ Unloaded(p)
  \/ \E e \in setups : SetupResolves(e)
  \/ \E o \in Owners : RunDisposer(o)
  \/ Dispose \/ DisposeNext \/ DisposeGlobal \/ DisposeEnds

PluginSpec == PluginInit /\ [][PluginNext]_pluginVars
-----------------------------------------------------------------------------
Waiting == {disposers[n] : n \in Names} \cup {unwinds[o] : o \in Owners}

\* Up to dispose(), unless a plugin was unloaded during a load, or one that had
\* failed was loaded anew after others had left their disposers with it, every
\* effect in force has one disposer that is still to run, except one that ran
\* too early (context.ts, loadPlugin, trackDisposer and effect).
EffectsTracked ==
  disposal = "open" /\ ~cut =>
    /\ live \ missed = UNION {ToSet(list) : list \in Waiting}
    /\ \A one, other \in Waiting : one # other => ToSet(one) \cap ToSet(other) = {}

\* While loads, unloads and dispose() do not overlap, a plugin's effects go in
\* the reverse of the order they came, and none is left when it is unloaded
\* or has failed (context.ts, unwindDisposers).
UnwoundInOrder ==
  ~overlapped =>
    \A p \in Plugins :
      LET left == {e \in live \ missed : e.by = p}
      IN  /\ record[p] \in {"absent", "failed"} /\ ~Loading(p) => left = {}
          /\ \A e \in left : \A n \in 1..(e.n - 1) :
               Effect(p, e.load, n) \in left \cup missed

PluginsUnwind == EffectsTracked /\ UnwoundInOrder
=============================================================================
