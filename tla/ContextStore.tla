---------------------------- MODULE ContextStore ----------------------------
(***************************************************************************)
(* InMemoryContextStore and its ContextGraph: objects keep every version,  *)
(* with the time it was written, and the graph keeps the latest one and    *)
(* the relations between objects, indexed from both ends.  Callers reach   *)
(* the graph itself through getGraph().                                    *)
(***************************************************************************)
EXTENDS Integers, SequencesExt

CONSTANTS Objects,                   \* context ids
          Kinds,                     \* relation types
          MaxVersions, MaxRelations, \* bounds: versions of an object, relations made
          LastTime                   \* bound: the clock's last tick

VARIABLES time,     \* clock.now()
          versions, \* versionHistory
          graph,    \* nodes, relations, outbound and inbound of the ContextGraph
          made,     \* relations made, which numbers the next one
          rewritten, \* history: ids that were added when they had versions
          past      \* history: what was active when each tick ended

contextVars == <<time, versions, graph, made, rewritten, past>>

EmptyGraph == [nodes     |-> <<>>,
               relations |-> {},
               outbound  |-> [o \in Objects |-> {}],
               inbound   |-> [o \in Objects |-> {}]]

ASSUME ContextConstants == IsFiniteSet(Objects) /\ LastTime \in Nat

ContextInit ==
  /\ time = 0 /\ made = 0
  /\ versions = [o \in Objects |-> <<>>]
  /\ graph = EmptyGraph
  /\ rewritten = {}
  /\ past = [t \in 0..LastTime |-> {}]

LatestVersion(o) == versions[o][Len(versions[o])]
HasNode(g, o) == o \in DOMAIN g.nodes
-----------------------------------------------------------------------------
\* ContextGraph.

AddNode(g, o, object) ==
  [g EXCEPT !.nodes = [x \in DOMAIN @ \cup {o} |-> IF x = o THEN object ELSE g.nodes[x]]]

AddRelations(g, rs) ==
  [g EXCEPT !.relations = @ \cup rs,
            !.outbound = [o \in Objects |-> g.outbound[o] \cup {r \in rs : r.source = o}],
            !.inbound  = [o \in Objects |-> g.inbound[o] \cup {r \in rs : r.target = o}]]

ForgottenAtSource(g, rs) == \* mutant of RemoveRelations: the target keeps them
  [g EXCEPT !.relations = @ \ rs,
            !.outbound = [o \in Objects |-> g.outbound[o] \ {r \in rs : r.source = o}]]
RemoveRelations(g, rs) ==
  [g EXCEPT !.relations = @ \ rs,
            !.outbound = [o \in Objects |-> g.outbound[o] \ {r \in rs : r.source = o}],
            !.inbound  = [o \in Objects |-> g.inbound[o] \ {r \in rs : r.target = o}]]

\* subsume: the relations of the secondary object become the primary's, first
\* those that leave it, then those that reach it.  One is replaced after the
\* other, by one of its id.
Relinked(g, old, new) == AddRelations(RemoveRelations(g, old), new)
Subsumed(g, primary, secondary) ==
  LET leaving  == g.outbound[secondary]
      left     == Relinked(g, leaving, {[r EXCEPT !.source = primary] : r \in leaving})
      reaching == left.inbound[secondary]
      reached  == Relinked(left, reaching, {[r EXCEPT !.target = primary] : r \in reaching})
  IN  [reached EXCEPT !.nodes = Restrict(@, DOMAIN @ \ {secondary}),
                      !.outbound[secondary] = {},
                      !.inbound[secondary] = {}]

\* detectContradictions.
Contradictions(g, o) ==
  LET against == {r \in g.outbound[o] \cup g.inbound[o] :
                    r.kind \in {"CONTRADICTS", "INVALIDATES"}}
      others  == {r.target : r \in against \cap g.outbound[o]}
                 \cup {r.source : r \in against \cap g.inbound[o]}
  IN  {other \in others : HasNode(g, other)}

\* getAncestors and getDescendants along relations of one type: the queue is
\* worked off until it is empty, and nothing enters it twice, so what is
\* visited is in every set that has the start and, of each of its objects,
\* those that one relation leads to.
Reached(start, next) ==
  {o \in Objects : \A visited \in SUBSET Objects :
     start \in visited /\ (\A x \in visited : next[x] \subseteq visited) => o \in visited}
  \ {start}
Ancestors(g, start, kind) ==
  Reached(start, [o \in Objects |-> {r.target : r \in {q \in g.outbound[o] : q.kind = kind}}])
Descendants(g, start, kind) ==
  Reached(start, [o \in Objects |-> {r.source : r \in {q \in g.inbound[o] : q.kind = kind}}])
-----------------------------------------------------------------------------
\* InMemoryContextStore.

\* An id that has versions gets its first one overwritten, and the graph the
\* new object.
AddObject(o, deps) ==
  LET object == [active |-> TRUE, at |-> time]
      withNode == AddNode(graph, o, object)
      known == SetToSeq({d \in deps : HasNode(withNode, d)})
      relation(i) == [id |-> made + i, source |-> o, target |-> known[i],
                      kind |-> "DEPENDS_ON"]
  IN  /\ made + Len(known) <= MaxRelations
      /\ versions' = [versions EXCEPT ![o] =
                        IF @ = <<>> THEN <<object>> ELSE [@ EXCEPT ![1] = object]]
      /\ graph' = AddRelations(withNode, {relation(i) : i \in DOMAIN known})
      /\ made' = made + Len(known)
      /\ rewritten' = IF versions[o] = <<>> THEN rewritten ELSE rewritten \cup {o}
      /\ UNCHANGED <<time, past>>

Redated(old, active) == \* mutant of NextVersion: the old time stays
  [old EXCEPT !.active = active]
NextVersion(old, active) == [old EXCEPT !.active = active, !.at = time]

\* updateObject, of which deactivate is the case active = FALSE.
UpdateObject(o, active) ==
  /\ versions[o] # <<>> /\ Len(versions[o]) < MaxVersions
  /\ LET object == NextVersion(LatestVersion(o), active)
     IN  /\ versions' = [versions EXCEPT ![o] = Append(@, object)]
         /\ graph' = AddNode(graph, o, object)
  /\ UNCHANGED <<time, made, rewritten, past>>

Deactivate(o) ==
  /\ versions[o] # <<>> /\ LatestVersion(o).active
  /\ UpdateObject(o, FALSE)

Relate(source, target, kind) ==
  /\ made < MaxRelations
  /\ made' = made + 1
  /\ graph' = AddRelations(graph, {[id |-> made + 1, source |-> source,
                                    target |-> target, kind |-> kind]})
  /\ UNCHANGED <<time, versions, rewritten, past>>

Unrelate(r) ==
  /\ graph' = RemoveRelations(graph, {r})
  /\ UNCHANGED <<time, versions, made, rewritten, past>>

Subsume(primary, secondary) ==
  /\ primary # secondary /\ HasNode(graph, primary) /\ HasNode(graph, secondary)
  /\ graph' = Subsumed(graph, primary, secondary)
  /\ UNCHANGED <<time, versions, made, rewritten, past>>

\* What query() with its default onlyActive finds when nothing else is asked.
Queried == {<<o, Len(versions[o])>> : o \in {x \in Objects : versions[x] # <<>> /\ LatestVersion(x).active}}

ClockTick ==
  /\ time < LastTime
  /\ time' = time + 1
  /\ past' = [past EXCEPT ![time] = Queried]
  /\ UNCHANGED <<versions, graph, made, rewritten>>

ClearStore ==
  /\ versions' = [o \in Objects |-> <<>>]
  /\ graph' = EmptyGraph
  /\ rewritten' = {}
  /\ past' = [t \in 0..LastTime |-> {}]
  /\ UNCHANGED <<time, made>>

\* reconstructHistoryAt.
ReconstructHistoryAt(t) ==
  LET upTo(o) == {v \in DOMAIN versions[o] : versions[o][v].at <= t}
  IN  {<<o, Max(upTo(o))>> : o \in {x \in Objects :
         upTo(x) # {} /\ versions[x][Max(upTo(x))].active}}

ContextNext ==
  \/ \E o \in Objects : \/ \E deps \in SUBSET Objects : AddObject(o, deps)
                        \/ \E active \in BOOLEAN : UpdateObject(o, active)
                        \/ Deactivate(o)
  \/ \E o, p \in Objects : \/ Subsume(o, p)
                           \/ \E kind \in Kinds : Relate(o, p, kind)
  \/ \E r \in graph.relations : Unrelate(r)
  \/ ClockTick \/ ClearStore
ContextSpec == ContextInit /\ [][ContextNext]_contextVars
-----------------------------------------------------------------------------
\* Whatever was subsumed, removed or added again, both indexes of the graph
\* hold its relations and nothing else, so that a contradiction and a
\* dependency are seen from both of their ends (ContextGraph.addRelation, removeRelation, subsume).
IndexesAgree ==
  /\ \A o \in Objects :
       /\ graph.outbound[o] = {r \in graph.relations : r.source = o}
       /\ graph.inbound[o] = {r \in graph.relations : r.target = o}
  /\ \A o, p \in Objects :
       o \in Contradictions(graph, p) /\ HasNode(graph, p) => p \in Contradictions(graph, o)
  /\ \A o, p \in Objects :
       p \in Ancestors(graph, o, "DEPENDS_ON") <=> o \in Descendants(graph, p, "DEPENDS_ON")
  /\ \A r, q \in graph.relations : r.id = q.id => r = q

\* The past stays what it was: reconstructing the end of an earlier tick gives
\* what a query would have found then, but for ids that were added again
\* (reconstructHistoryAt; addObject writes version 1 over the first one).
PastIsKept ==
  \A t \in 0..(time - 1), o \in Objects \ rewritten :
    {x \in ReconstructHistoryAt(t) : x[1] = o} = {x \in past[t] : x[1] = o}

\* The graph shows an object as its latest version does, unless the id was
\* added again (addNode after every version).
GraphShowsLatest ==
  \A o \in Objects \ rewritten : HasNode(graph, o) => graph.nodes[o] = LatestVersion(o)

ContextHolds == IndexesAgree /\ PastIsKept /\ GraphShowsLatest
=============================================================================
