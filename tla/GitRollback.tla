----------------------------- MODULE GitRollback -----------------------------
(***************************************************************************)
(* A working tree that a user and the agent both write to: who owns which  *)
(* change (RealGitManager), checkpoints that name a commit, and the        *)
(* rollback to one, path by path (DefaultRollbackManager).  What git does  *)
(* is modelled per file; a content is the number of the write it came      *)
(* from, 0 for no file and 1 for what was there at first.                  *)
(***************************************************************************)
EXTENDS Integers, FiniteSets, Sequences, SequencesExt

CONSTANTS Paths,     \* files
          Folder,    \* those of them in one directory
          FolderName, \* its name, as git reports an untracked directory
          Committed, \* the files of the first commit
          MaxWrites, MaxCommits, MaxPoints \* bounds

ASSUME GitConstants ==
  Folder \subseteq Paths /\ FolderName \notin Paths /\ Committed \subseteq Paths

VARIABLES tree,      \* the working tree
          staged,    \* git's index
          commits,   \* the trees of the commits
          head,      \* the commit that is checked out
          owners,    \* explicitFileOwners
          baseline,  \* baselineUserFiles
          captured,  \* baselineCaptured
          points,    \* the checkpoint store
          rollback,  \* the safeRollback under way, or the last one: see NoRollback
          writes     \* writes so far

gitVars == <<tree, staged, commits, head, owners, baseline, captured, points,
             rollback, writes>>

PathNames == Paths \cup {FolderName}
NoRollback == [at |-> "none", ref |-> 0, now |-> {}, own |-> {}, user |-> {}, todo |-> {},
               done |-> {}, before |-> [f \in Paths |-> 0], fresh |-> {}]
Running == rollback.at = "running"

GitInit ==
  /\ tree = [f \in Paths |-> IF f \in Committed THEN 1 ELSE 0]
  /\ staged = tree /\ commits = <<tree>> /\ head = 1
  /\ owners = [n \in PathNames |-> "none"] /\ baseline = {} /\ captured = FALSE
  /\ points = {} /\ rollback = NoRollback
  /\ writes = 0
-----------------------------------------------------------------------------
\* What git reports.

Untracked(f) == staged[f] = 0 /\ tree[f] # 0
Changed(f) == Untracked(f) \/ staged[f] # commits[head][f] \/ tree[f] # staged[f]

\* A directory without a tracked file is reported by its own name.
NameOf(f) ==
  IF f \in Folder /\ Untracked(f) /\ \A g \in Folder : staged[g] = 0
  THEN FolderName ELSE f
PathsOf(name) == IF name = FolderName THEN Folder ELSE {name}

\* getStatus: allChangedSet and the owner of each entry.
AllChanged == {NameOf(f) : f \in {g \in Paths : Changed(g)}}
UntrackedFiles == {NameOf(f) : f \in {g \in Paths : Untracked(g)}}
IsAgents(n) ==
  \/ owners[n] = "agent"
  \/ owners[n] = "none" /\ n \notin baseline /\ captured
AgentOwned == {n \in AllChanged : IsAgents(n)}
UserOwned == AllChanged \ AgentOwned

\* git checkout of a commit, for one file: whether git agrees, and what it
\* leaves in the index and in the working tree.
Clean(f) == tree[f] \in {staged[f], 0}
MayCheckout(f, target) ==
  CASE staged[f] = 0 -> target[f] = 0 \/ tree[f] = 0
    [] staged[f] # 0 /\ staged[f] = commits[head][f] ->
         target[f] = staged[f] \/ Clean(f)
    [] OTHER -> target[f] = staged[f] \/ target[f] = commits[head][f]
Keeps(f, target) ==
  target[f] = commits[head][f] \/ target[f] = staged[f]
CheckedOut(of, target) == [f \in Paths |-> IF Keeps(f, target) THEN of[f] ELSE target[f]]
-----------------------------------------------------------------------------
\* RealGitManager and the checkpoint store.

\* A write by the user or the agent, who may say whose it is; a rollback
\* under way has not seen it.
Write(f, who, marked) ==
  /\ writes < MaxWrites
  /\ writes' = writes + 1
  /\ tree' = [tree EXCEPT ![f] = writes + 2]
  /\ owners' = IF marked THEN [owners EXCEPT ![f] = who] ELSE owners
  /\ rollback' = IF rollback.at = "none" THEN rollback
                  ELSE [rollback EXCEPT !.before[f] = writes + 2, !.fresh = @ \cup {f}]
  /\ who = "agent" => ~Running
  /\ UNCHANGED <<staged, commits, head, baseline, captured, points>>

CommitAll ==
  /\ Len(commits) < MaxCommits
  /\ staged' = tree
  /\ commits' = Append(commits, tree)
  /\ head' = Len(commits) + 1

\* captureBaseline, with the two-phase commit when it is asked to preserve
\* what the user has changed.
CaptureBaseline(preserve) ==
  /\ ~Running /\ ~captured
  /\ IF preserve /\ AllChanged # {}
     THEN CommitAll /\ UNCHANGED baseline
     ELSE /\ baseline' = baseline \cup {n \in AllChanged : owners[n] # "agent"}
          /\ UNCHANGED <<staged, commits, head>>
  /\ captured' = TRUE
  /\ UNCHANGED <<tree, owners, points, rollback, writes>>

\* A milestone: createCommit and a checkpoint of it, or a checkpoint of
\* whatever HEAD is when it is used.
CreateCheckpoint(commit) ==
  /\ captured /\ ~Running /\ Cardinality(points) < MaxPoints
  /\ points' = points \cup {[ref  |-> IF commit THEN Len(commits) + 1 ELSE 0,
                             own  |-> AgentOwned,
                             user |-> UserOwned]}
  /\ IF commit THEN CommitAll ELSE UNCHANGED <<staged, commits, head>>
  /\ UNCHANGED <<tree, owners, baseline, captured, rollback, writes>>

DeleteCheckpoint(point) ==
  /\ points' = points \ {point}
  /\ UNCHANGED <<tree, staged, commits, head, owners, baseline, captured, rollback, writes>>
-----------------------------------------------------------------------------
\* DefaultRollbackManager.

AgentFilesToRevert(point) == AgentOwned \cup point.own
AsCheckpointed(point) == \* mutant of UserFilesToPreserve: the status is not read again
  point.user
UserFilesToPreserve(point) == UserOwned \cup point.user

\* safeRollback up to its loop; ref 0 is "HEAD".  Bound: after a rollback that
\* succeeded there is no other.
BeginRollback(point) ==
  /\ rollback.at \in {"none", "failed"}
  /\ rollback' = [at |-> "running", ref |-> point.ref, now |-> AgentOwned,
                  own  |-> AgentFilesToRevert(point), user |-> UserOwned,
                  todo |-> AgentFilesToRevert(point) \ UserFilesToPreserve(point),
                  done |-> {}, before |-> tree, fresh |-> {}]
  /\ UNCHANGED <<tree, staged, commits, head, owners, baseline, captured, points, writes>>

\* safeRollback may also be called with a commit and no checkpoint.
BareRefs == [ref : 0..Len(commits), own : {{}}, user : {{}}]

WantedTree == IF rollback.ref = 0 THEN commits[head] ELSE commits[rollback.ref]

\* restorePath.
RestoredFromHead(name, target) == \* mutant of Restored: the ref is not passed on
  LET files == {f \in PathsOf(name) : commits[head][f] # 0}
  IN  [f \in Paths |-> IF f \in files THEN commits[head][f] ELSE tree[f]]
Restored(name, target) ==
  LET known == {f \in PathsOf(name) : target[f] # 0}
  IN  [f \in Paths |->
         CASE f \notin PathsOf(name) -> tree[f]
           [] f \in PathsOf(name) /\ name \notin UntrackedFiles /\ known # {} ->
                IF f \in known THEN target[f] ELSE tree[f]
           [] OTHER -> 0]

\* What the status names comes before what only the checkpoint names.
ComesNext(name) == name \in rollback.now \/ rollback.todo \cap rollback.now = {}
RestorePath(name) ==
  /\ Running /\ name \in rollback.todo /\ ComesNext(name)
  /\ tree' = Restored(name, WantedTree)
  /\ staged' = [f \in Paths |->
       IF f \in PathsOf(name) /\ name \notin UntrackedFiles /\ WantedTree[f] # 0
       THEN WantedTree[f] ELSE staged[f]]
  /\ owners' = [owners EXCEPT ![name] = "none"]
  /\ rollback' = [rollback EXCEPT !.todo = @ \ {name}, !.done = @ \cup {name}]
  /\ UNCHANGED <<commits, head, baseline, captured, points, writes>>

\* A path that cannot be restored ends the rollback where it is.
RestoreFails ==
  /\ Running /\ rollback.todo # {}
  /\ rollback' = [rollback EXCEPT !.at = "failed"]
  /\ UNCHANGED <<tree, staged, commits, head, owners, baseline, captured, points, writes>>

FinishRollback ==
  /\ Running /\ rollback.todo = {}
  /\ IF rollback.ref = 0
     THEN /\ rollback' = [rollback EXCEPT !.at = "done"]
          /\ UNCHANGED <<tree, staged, head>>
     ELSE IF \A f \in Paths : MayCheckout(f, WantedTree)
     THEN /\ rollback' = [rollback EXCEPT !.at = "done"]
          /\ head' = rollback.ref
          /\ tree' = CheckedOut(tree, WantedTree)
          /\ staged' = CheckedOut(staged, WantedTree)
     ELSE /\ rollback' = [rollback EXCEPT !.at = "failed"]
          /\ UNCHANGED <<tree, staged, head>>
  /\ UNCHANGED <<commits, owners, baseline, captured, points, writes>>

GitNext ==
  \/ \E f \in Paths, who \in {"user", "agent"}, marked \in BOOLEAN : Write(f, who, marked)
  \/ \E yes \in BOOLEAN : CaptureBaseline(yes) \/ CreateCheckpoint(yes)
  \/ \E point \in points : DeleteCheckpoint(point)
  \/ \E point \in points \cup BareRefs : BeginRollback(point)
  \/ \E name \in rollback.todo : RestorePath(name)
  \/ RestoreFails \/ FinishRollback

GitSpec == GitInit /\ [][GitNext]_gitVars
-----------------------------------------------------------------------------
\* Trees are of contents, and what is undone, kept and checked out exists.
Trees == [Paths -> Nat]
Rollbacks == [at: {"none", "running", "failed", "done"}, ref: Nat, now: SUBSET PathNames,
              own: SUBSET PathNames, user: SUBSET PathNames, todo: SUBSET PathNames,
              done: SUBSET PathNames, before: Trees, fresh: SUBSET Paths]
GitTypeOK ==
  /\ tree \in Trees /\ staged \in Trees
  /\ commits \in Seq(Trees) /\ head \in DOMAIN commits
  /\ owners \in [PathNames -> {"none", "user", "agent"}]
  /\ baseline \subseteq PathNames /\ captured \in BOOLEAN
  /\ points \subseteq [ref: 0..Len(commits), own: SUBSET PathNames, user: SUBSET PathNames]
  /\ rollback \in Rollbacks /\ rollback.ref \in 0..Len(commits)
  /\ writes \in Nat

\* What was reported as the user's uncommitted change when a rollback began is
\* as the user left it, whatever becomes of the rollback, unless it lies in a
\* directory that the agent's files name as a whole (safeRollback).
UncommittedSurvives ==
  \A name \in rollback.user : \A f \in PathsOf(name) \ rollback.fresh :
    (/\ rollback.before[f] # 0
     /\ \A other \in rollback.own : f \in PathsOf(other) => other = name)
      => tree[f] = rollback.before[f]

\* A rollback that succeeded has taken every agent's change back to the
\* commit, but for paths that hold a user's change or were written meanwhile.
RollbackReverts ==
  rollback.at = "done" =>
    \A name \in rollback.done : \A f \in PathsOf(name) \ rollback.fresh :
      (\A other \in rollback.user : f \notin PathsOf(other)) => tree[f] = commits[head][f]

RollbackHolds == UncommittedSurvives /\ RollbackReverts

\* "Pre-existing user files are never touched by rollback" (PERSISTENCE.md):
\* what the user had changed when the baseline was captured, and nobody calls
\* the agent's, stays as it is.
PreexistingUntouched ==
  \A f \in Paths : f \in baseline \ rollback.own /\ rollback.at # "none"
                    => tree[f] = rollback.before[f]
=============================================================================
