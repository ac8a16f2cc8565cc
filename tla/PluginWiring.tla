---------------------------- MODULE PluginWiring ----------------------------
(***************************************************************************)
(* How the plugins of a harness come together: the entries a profile, its  *)
(* bundles and patches give, the order in which they are loaded, and the   *)
(* waterfall in which their interceptors are called.                       *)
(***************************************************************************)
EXTENDS Naturals, FiniteSets, SequencesExt

CONSTANTS Bundled,      \* bound: what a profile's bundles may hold, in order
          Patches,      \* bound: the patches of profile and user, in order
          Wired,        \* the plugins to be ordered, a sequence
          Injections,   \* bound: p |-> the plugins that match its inject
          Interceptors, \* the handlers of one waterfall event
          MaxChanges    \* bound: registrations and removals during a run

VARIABLES given,    \* what the two functions are given: see NothingGiven
          handlers, \* handlers.get(event)
          run,      \* execute(): its index and what it called
          wiringChanges

wiringVars == <<given, handlers, run, wiringChanges>>

NothingGiven == [entries |-> <<>>, patches |-> <<>>, injects |-> [p \in ToSet(Wired) |-> {}]]
-----------------------------------------------------------------------------
\* composePluginTree.  A field of a patch that is Unset leaves the entry's.

Unset == "unset"
Or(value, default) == IF value = Unset THEN default ELSE value
Ids(list) == [i \in DOMAIN list |-> list[i].id]

\* Map.set keeps the place of a key it has.
Put(list, entry) ==
  LET i == SelectInSeq(list, LAMBDA e : e.id = entry.id)
  IN  IF i = 0 THEN Append(list, entry) ELSE ReplaceAt(list, i, entry)

\* Here disabled is "yes", "no" or Unset, and config is what is set in it.
Patched(list, patch) ==
  LET i == SelectInSeq(list, LAMBDA e : e.id = patch.target)
  IN  IF i = 0
      THEN [id |-> patch.target, plugin |-> Or(patch.plugin, patch.target),
            config |-> patch.config, disabled |-> Or(patch.disabled, "no")]
      ELSE [id |-> patch.target, plugin |-> Or(patch.plugin, list[i].plugin),
            config |-> list[i].config \cup patch.config,
            disabled |-> Or(patch.disabled, list[i].disabled)]

Compose(bundled, patches) ==
  LET gathered == FoldLeft(Put, <<>>, bundled)
      all == FoldLeft(LAMBDA list, patch : Put(list, Patched(list, patch)), gathered, patches)
  IN  SelectSeq(all, LAMBDA e : e.disabled # "yes")
-----------------------------------------------------------------------------
\* resolvePluginOrder: a depth-first walk that throws when it meets a plugin
\* it is still visiting.

Walks == [visited : Seq(ToSet(Wired)), circular : BOOLEAN]
NoneVisited == [visited |-> <<>>, circular |-> FALSE]
Dfs[acc \in Walks, p \in ToSet(Wired), visiting \in SUBSET ToSet(Wired)] ==
  IF acc.circular \/ p \in ToSet(acc.visited) THEN acc
  ELSE IF p \in visiting THEN [acc EXCEPT !.circular = TRUE]
  ELSE LET below == SelectSeq(Wired, LAMBDA q : q \in given.injects[p] /\ q # p)
           after == FoldLeft(LAMBDA a, q : Dfs[a, q, visiting \cup {p}], acc, below)
       IN  IF after.circular THEN after
           ELSE [after EXCEPT !.visited = Append(@, p)]
ResolveOrder == FoldLeft(LAMBDA acc, p : Dfs[acc, p, {}], NoneVisited, Wired)
-----------------------------------------------------------------------------
\* WaterfallEngine.  All next() of a run share one index into the live list.

NotRunning == [index |-> 0, called |-> <<>>, start |-> <<>>, removed |-> {}, over |-> TRUE]

WiringInit ==
  /\ given \in {NothingGiven}
       \cup {[NothingGiven EXCEPT !.entries = e, !.patches = p] : e \in Bundled, p \in Patches}
       \cup {[NothingGiven EXCEPT !.injects = i] : i \in Injections}
  /\ handlers = <<>>
  /\ run = NotRunning
  /\ wiringChanges = 0

RegisterHandler(h) ==
  /\ h \notin ToSet(handlers) \cup ToSet(run.called) \cup run.removed
  /\ wiringChanges < MaxChanges /\ wiringChanges' = wiringChanges + 1
  /\ handlers' = Append(handlers, h)
  /\ UNCHANGED <<given, run>>

\* A plugin is unloaded, maybe by a handler of the run itself.
RemoveHandler(h) ==
  /\ h \in ToSet(handlers)
  /\ wiringChanges < MaxChanges /\ wiringChanges' = wiringChanges + 1
  /\ handlers' = SelectSeq(handlers, LAMBDA g : g # h)
  /\ run' = IF run.over THEN run ELSE [run EXCEPT !.removed = @ \cup {h}]
  /\ UNCHANGED given

Execute ==
  /\ run.over
  /\ run' = [NotRunning EXCEPT !.start = handlers, !.over = FALSE]
  /\ UNCHANGED <<given, handlers, wiringChanges>>

\* dispatch, for the run or for a handler's next(): the default once the
\* list is at its end.
StaysPut(i) == i \* mutant of AdvanceIndex: the index is per call
AdvanceIndex(i) == i + 1
Dispatch ==
  /\ ~run.over
  /\ run' = IF run.index >= Len(handlers)
            THEN [run EXCEPT !.over = TRUE]
            ELSE [run EXCEPT !.index = AdvanceIndex(@),
                             !.called = Append(@, handlers[run.index + 1])]
  /\ UNCHANGED <<given, handlers, wiringChanges>>

\* A handler answers itself and does not call next().
ShortCircuit ==
  /\ ~run.over /\ run.called # <<>>
  /\ run' = [run EXCEPT !.over = TRUE]
  /\ UNCHANGED <<given, handlers, wiringChanges>>

WiringNext ==
  /\ given = NothingGiven
  /\ \/ \E h \in Interceptors : RegisterHandler(h) \/ RemoveHandler(h)
     \/ Execute \/ Dispatch \/ ShortCircuit
-----------------------------------------------------------------------------
\* An entry is there once, and each of its fields is what the last patch that
\* sets it says, else its last bundle's; it is left out when that is disabled.
LastWordCounts ==
  LET result == Compose(given.entries, given.patches)
      last(list, P(_)) == LET chosen == SelectSeq(list, P)
                          IN  IF chosen = <<>> THEN <<>> ELSE <<Last(chosen)>>
      patchOf(id, P(_)) == last(given.patches, LAMBDA x : x.target = id /\ P(x))
      bundleOf(id) == last(given.entries, LAMBDA x : x.id = id)
      plugin(id) == LET p == patchOf(id, LAMBDA x : x.plugin # Unset)
                    IN  IF p # <<>> THEN p[1].plugin
                        ELSE IF bundleOf(id) # <<>> THEN bundleOf(id)[1].plugin ELSE id
      disabled(id) == LET p == patchOf(id, LAMBDA x : x.disabled # Unset)
                      IN  IF p # <<>> THEN p[1].disabled
                          ELSE IF bundleOf(id) # <<>> THEN bundleOf(id)[1].disabled ELSE "no"
      named == ToSet(Ids(given.entries)) \cup {given.patches[i].target : i \in DOMAIN given.patches}
  IN  /\ Cardinality(ToSet(Ids(result))) = Len(result)
      /\ ToSet(Ids(result)) = {id \in named : disabled(id) # "yes"}
      /\ \A i \in DOMAIN result : result[i].plugin = plugin(result[i].id)

\* Plugins come after all that match what they inject, each once, and an order
\* is refused exactly when there is none.
OrderIsTopological ==
  LET matches(p) == {q \in ToSet(Wired) : q \in given.injects[p] /\ q # p}
      fits(order) == \A i, j \in DOMAIN order : order[j] \in matches(order[i]) => j < i
  IN  IF ResolveOrder.circular
      THEN ~ \E order \in SetToSeqs(ToSet(Wired)) : fits(order)
      ELSE ResolveOrder.visited \in SetToSeqs(ToSet(Wired)) /\ fits(ResolveOrder.visited)

\* A run calls an interceptor at most once, and unless one was removed while
\* it ran, all that stood before the last one called.
CalledInTurn ==
  /\ Cardinality(ToSet(run.called)) = Len(run.called)
  /\ ~run.over /\ run.removed = {} => IsPrefix(run.called, run.start \o SelectSeq(handlers,
                                    LAMBDA h : h \notin ToSet(run.start)))

WiringSound ==
  /\ given # NothingGiven => LastWordCounts /\ OrderIsTopological
  /\ CalledInTurn
=============================================================================
