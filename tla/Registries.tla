----------------------------- MODULE Registries -----------------------------
(***************************************************************************)
(* What the agent can be offered: the skill registry, with its disposers,  *)
(* its mounted skills and the discovery of skills on the disk, and the     *)
(* tool registry, into which adapters of MCP servers put what the servers  *)
(* list.                                                                   *)
(***************************************************************************)
EXTENDS Integers, FiniteSets, Sequences

CONSTANTS SkillNames, Registrants, \* strings: who registers skills by hand
          Shelves,     \* set of functions from sources to sets of skill names
          ServerOf,    \* the server of each synchronisation, a sequence of parts
          ServerLists, \* of each server: the lists it has, one after the other,
                       \* each a sequence of [tool, schema]
          MaxUnregistered \* bound: tools the host takes out

\* A name has parts, also the empty one, and a server has a list at least.
ASSUME RegistryConstants ==
  /\ "none" \notin Registrants
  /\ Shelves \subseteq [{"user", "workspace", "package"} -> SUBSET SkillNames]
  /\ \A k \in DOMAIN ServerOf :
       /\ ServerOf[k] # <<>> /\ ServerLists[ServerOf[k]] # <<>>
       /\ ServerLists[ServerOf[k]] \in Seq(Seq([tool : Seq(STRING), schema : BOOLEAN]))

VARIABLES skills, mounted, skillDisposers, discovery, \* DefaultSkillRegistry
          tools, syncs, offered, removed         \* DefaultToolRegistry, McpClientAdapter

skillVars == <<skills, mounted, skillDisposers, discovery>>
syncVars == <<tools, syncs, offered, removed>>
-----------------------------------------------------------------------------
\* A skill is where it comes from; discovery goes through the sources in turn.
Sources == <<"user", "workspace", "package">>
SkillsInit ==
  /\ skills = [n \in SkillNames |-> "none"] /\ mounted = {} /\ skillDisposers = {}
  /\ \E shelf \in Shelves : discovery = [at |-> 0, shelf |-> shelf, found |-> <<>>, changed |-> {}]

SetSkill(n, from) ==
  /\ skills' = [skills EXCEPT ![n] = from]
  /\ discovery' = [discovery EXCEPT !.changed = @ \cup {n}]
RegisterSkill(n, owner) ==
  /\ SetSkill(n, owner)
  /\ skillDisposers' = skillDisposers \cup {[name |-> n, owner |-> owner]}
  /\ UNCHANGED mounted
KeptMounted(n) == mounted \* mutant of WithoutSkill
WithoutSkill(n) == mounted \ {n}
\* A disposer goes by the name: it removes what others registered since, and
\* may be called again.
DisposeSkill(d) ==
  /\ SetSkill(d.name, "none") /\ mounted' = WithoutSkill(d.name)
  /\ UNCHANGED skillDisposers
Unregister(n) ==
  /\ SetSkill(n, "none") /\ mounted' = WithoutSkill(n)
  /\ UNCHANGED skillDisposers
MountSkill(n) ==
  /\ skills[n] # "none" /\ mounted' = mounted \cup {n}
  /\ UNCHANGED <<skills, skillDisposers, discovery>>
UnmountSkill(n) ==
  /\ n \in mounted /\ mounted' = mounted \ {n}
  /\ UNCHANGED <<skills, skillDisposers, discovery>>

\* discoverSkills: others come in between while a source is awaited; all that
\* was found is registered at the end, the later sources over the earlier.
ScanSource ==
  /\ discovery.at < Len(Sources)
  /\ LET source == Sources[discovery.at + 1]
     IN  discovery' = [discovery EXCEPT !.at = @ + 1,
                         !.found = Append(@, [source |-> source, names |-> discovery.shelf[source]])]
  /\ UNCHANGED <<skills, mounted, skillDisposers>>
Strongest(found, n, otherwise) ==
  LET having == {k \in DOMAIN found : n \in found[k].names}
  IN  IF having = {} THEN otherwise
      ELSE found[CHOOSE k \in having : \A j \in having : j <= k].source
RegisterDiscovered ==
  /\ discovery.at = Len(Sources)
  /\ skills' = [n \in SkillNames |-> Strongest(discovery.found, n, skills[n])]
  /\ discovery' = [discovery EXCEPT !.at = Len(Sources) + 1, !.changed = {}]
  /\ UNCHANGED <<mounted, skillDisposers>>

SkillsNext ==
  \/ \E n \in SkillNames :
       \/ \E owner \in Registrants : RegisterSkill(n, owner)
       \/ Unregister(n) \/ MountSkill(n) \/ UnmountSkill(n)
  \/ \E d \in skillDisposers : DisposeSkill(d)
  \/ ScanSource \/ RegisterDiscovered
-----------------------------------------------------------------------------
\* An adapter's tools have its server's name before theirs, the parts of both
\* joined, so that two tools can have one name.
PrefixedName(server, tool) == server \o tool
Servers == {ServerOf[k] : k \in DOMAIN ServerOf}
NoTool == [server |-> <<>>, tool |-> <<>>, version |-> 0]
ToolNames ==
  UNION {UNION {{PrefixedName(s, ServerLists[s][v][i].tool) : i \in DOMAIN ServerLists[s][v]} :
                  v \in DOMAIN ServerLists[s]} : s \in Servers}

SyncsInit ==
  /\ tools = [n \in ToolNames |-> NoTool]
  /\ syncs = [k \in DOMAIN ServerOf |-> [at |-> "new", version |-> 0, put |-> 0]]
  /\ offered = [s \in Servers |-> [version |-> 1, overlapped |-> FALSE]]
  /\ removed = {}

UnderwayAt(s) == {k \in DOMAIN ServerOf : ServerOf[k] = s
                                          /\ syncs[k].at \in {"initialize", "list", "answered"}}
StartSync(k) ==
  /\ syncs[k].at = "new"
  /\ syncs' = [syncs EXCEPT ![k].at = "initialize"]
  /\ offered' = [offered EXCEPT ![ServerOf[k]].overlapped = @ \/ UnderwayAt(ServerOf[k]) # {}]
  /\ UNCHANGED <<tools, removed>>
Initialized(k) ==
  /\ syncs[k].at = "initialize"
  /\ syncs' = [syncs EXCEPT ![k].at = "list"]
  /\ UNCHANGED <<tools, offered, removed>>
\* The server lists what it has; the answer comes later.
ServerAnswers(k) ==
  /\ syncs[k].at = "list"
  /\ syncs' = [syncs EXCEPT ![k].at = "answered", ![k].version = offered[ServerOf[k]].version]
  /\ UNCHANGED <<tools, offered, removed>>
ServerFails(k) ==
  /\ syncs[k].at \in {"initialize", "list"}
  /\ syncs' = [syncs EXCEPT ![k].at = "failed"]
  /\ UNCHANGED <<tools, offered, removed>>
ServerChanges(s) ==
  /\ offered[s].version < Len(ServerLists[s])
  /\ offered' = [offered EXCEPT ![s].version = @ + 1]
  /\ UNCHANGED <<tools, syncs, removed>>

\* DefaultToolRegistry.register throws at a tool without a schema: those
\* before it are there, those behind it are not.
Registrable(list) ==
  LET bad == {i \in DOMAIN list : ~list[i].schema}
  IN  IF bad = {} THEN Len(list) ELSE (CHOOSE i \in bad : \A j \in bad : i <= j) - 1
RegisterTools(k) ==
  /\ syncs[k].at = "answered"
  /\ LET s == ServerOf[k]
         list == ServerLists[s][syncs[k].version]
         good == Registrable(list)
         new == [n \in {PrefixedName(s, list[i].tool) : i \in 1..good} |->
                   [server |-> s, version |-> syncs[k].version,
                    tool |-> (CHOOSE t \in {list[i].tool : i \in 1..good} : PrefixedName(s, t) = n)]]
     IN  /\ tools' = [n \in ToolNames |-> IF n \in DOMAIN new THEN new[n] ELSE tools[n]]
         /\ removed' = removed \ DOMAIN new
         /\ syncs' = [syncs EXCEPT ![k].at = IF good = Len(list) THEN "done" ELSE "failed", ![k].put = good]
  /\ UNCHANGED offered
UnregisterTool(n) ==
  /\ tools[n] # NoTool /\ Cardinality(removed) < MaxUnregistered
  /\ tools' = [tools EXCEPT ![n] = NoTool] /\ removed' = removed \cup {n}
  /\ UNCHANGED <<syncs, offered>>

SyncsNext ==
  \/ \E k \in DOMAIN ServerOf :
       StartSync(k) \/ Initialized(k) \/ ServerAnswers(k) \/ ServerFails(k) \/ RegisterTools(k)
  \/ \E s \in Servers : ServerChanges(s)
  \/ \E n \in ToolNames : UnregisterTool(n)

RegistriesSpec ==
  /\ SkillsInit /\ SyncsInit
  /\ [][ \/ SkillsNext /\ UNCHANGED syncVars
         \/ SyncsNext /\ UNCHANGED skillVars ]_<<skillVars, syncVars>>
-----------------------------------------------------------------------------
\* No skill is mounted that is not registered, whoever removed it; what
\* discovery found comes from the strongest source, unless changed since.
SkillsSound ==
  /\ \A n \in mounted : skills[n] # "none"
  /\ discovery.at > Len(Sources) =>
       \A n \in SkillNames \ discovery.changed :
         /\ n \in discovery.shelf.package => skills[n] = "package"
         /\ n \in discovery.shelf.workspace \ discovery.shelf.package => skills[n] = "workspace"
         /\ n \in discovery.shelf.user \ (discovery.shelf.workspace \cup discovery.shelf.package)
              => skills[n] = "user"

\* What a synchronisation has put in, also one that failed half way, can be
\* found under its name, until the host takes it out; and unless two of one
\* server overlap, no tool of it is of an older list than one put in before.
SyncsSound ==
  \A k \in DOMAIN ServerOf : LET s == ServerOf[k] IN
    \A i \in 1..syncs[k].put :
      LET def == ServerLists[s][syncs[k].version][i]
          name == PrefixedName(s, def.tool)
      IN  /\ tools[name] # NoTool \/ name \in removed
          /\ ~offered[s].overlapped /\ tools[name].server = s => tools[name].version >= syncs[k].version

RegistriesHold == SkillsSound /\ SyncsSound
=============================================================================
