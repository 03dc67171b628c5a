------------------------------ MODULE Release ------------------------------
(***************************************************************************)
(* release.mts and bump.mts in a maintainer's clone: one edits the         *)
(* manifests, the locks and the changelog, commits, tags and pushes; the   *)
(* other aligns Cargo with npm and leaves the commit to the maintainer.    *)
(* Either may fail or be killed after any of its steps, and is started     *)
(* again when the maintainer has done as the messages say.                 *)
(*                                                                         *)
(* A file is represented by its version; the changelog by its headings.    *)
(* A commit is a number, which stands for the files it holds.              *)
(***************************************************************************)
EXTENDS Naturals, Sequences

CONSTANTS
  Versions,
  Finalized,    \* Finalized[v]: the plain version of the prerelease v
  MaxCommits,   \* bound: the commits of a behaviour
  MaxFaults     \* bound: the failures and the maintainer's surprises of a behaviour

ASSUME VersionsAssumption ==
  /\ Versions \subseteq Nat \ {0}
  /\ DOMAIN Finalized \subseteq Versions
  /\ \A v \in DOMAIN Finalized : Finalized[v] \in Versions \ DOMAIN Finalized
ASSUME BoundsAssumption == MaxCommits \in Nat \ {0} /\ MaxFaults \in Nat

VARIABLES
  pc,        \* the next step of the command that runs, "idle" when none does
  version,   \* the version it prepares
  push,      \* was it given --push?
  changed,   \* the files it will commit
  tree,      \* the working tree
  commits,   \* what the commits hold
  head,      \* HEAD
  behind,    \* has origin's branch a commit that is not here?
  tags,      \* the tags of the clone,
  origin,    \* and of origin; 0 for none
  released,  \* the commit of each immutable GitHub Release, 0 for none
  faults,
  meddled,   \* has somebody changed a file or HEAD during a release?
  salvaged   \* has a commit been made by hand of files that are not of one version?

command == <<pc, version, push, changed>>
clone == <<tree, commits, head, tags>>
hub == <<behind, origin, released>>
history == <<meddled, salvaged>>
vars == <<command, clone, hub, faults, history>>

\* The headings with prose, those with a stub or nothing under them, and whether there is
\* an [Unreleased] with prose: an empty one is refused like a stub when it is renamed.
Changelog == [real : SUBSET Versions, todo : SUBSET Versions, unreleased : BOOLEAN]
Tree == [cargo : Versions, npm : Versions, lock : Versions, fuzz : Versions,
         log : Changelog]

Clean == tree = commits[head]

Init ==
  /\ pc = "idle" /\ version = 0 /\ push = FALSE /\ changed = {}
  /\ \E v \in Versions, u \in BOOLEAN :
       tree = [cargo |-> v, npm |-> v, lock |-> v, fuzz |-> v,
               log |-> [real |-> {}, todo |-> {}, unreleased |-> u]]
  /\ commits = <<tree>> /\ head = 1 /\ behind = FALSE
  /\ tags = [v \in Versions |-> 0]
  /\ origin = [v \in Versions |-> 0]
  /\ released = [v \in Versions |-> 0]
  /\ faults = MaxFaults /\ meddled = FALSE /\ salvaged = FALSE

Fault == faults > 0 /\ faults' = faults - 1

\* The command goes on, or ends.
Goto(from, to) ==
  /\ pc = from /\ pc' = to
  /\ UNCHANGED <<version, push>>

End(step) ==
  /\ pc = step /\ pc' = "idle"
  /\ version' = 0 /\ push' = FALSE /\ changed' = {}

\* The command fails at its step; what it has done stays done.
Fail(step) ==
  /\ End(step)
  /\ Fault
  /\ UNCHANGED <<clone, hub, history>>

NewCommit(files) ==
  /\ Len(commits) < MaxCommits
  /\ commits' = Append(commits, files)
  /\ head' = Len(commits) + 1

-----------------------------------------------------------------------------
(* release.mts *)

\* Mutant: without an argument, the next one.
ResolvedNext(current, arg) ==
  IF arg # 0 THEN arg
  ELSE IF current \in DOMAIN Finalized THEN Finalized[current] ELSE current + 1

\* resolveRelease: finalize a prerelease, bump to the argument, or as committed (0).
Resolved(current, arg) ==
  IF arg # 0 THEN arg
  ELSE IF current \in DOMAIN Finalized THEN Finalized[current] ELSE current

\* createReleaseContext and assertCleanTree. A version below the tree's is taken as any
\* other: one of the maintainer's surprises.
Start ==
  /\ Clean
  /\ \E arg \in {0} \cup (Versions \ DOMAIN Finalized) :
       /\ version' = Resolved(tree.cargo, arg)
       /\ IF arg \in 1 .. tree.cargo - 1 THEN Fault ELSE UNCHANGED faults
  /\ pc = "idle"
  /\ pc' = IF version' # tree.cargo THEN "cargo" ELSE "promote"
  /\ push' \in BOOLEAN
  /\ changed' = {}
  /\ UNCHANGED <<clone, hub, history>>

\* One of the edits of bumpRelease.
Bumped(step, next, file, v) ==
  /\ Goto(step, next)
  /\ tree' = [tree EXCEPT ![file] = v]
  /\ changed' = changed \cup {file}
  /\ UNCHANGED <<commits, head, tags, hub, faults, history>>

WriteCargo == Bumped("cargo", "npm", "cargo", version)
WriteNpm == Bumped("npm", "update", "npm", version)
UpdateLock == Bumped("update", "relock", "lock", tree.cargo)

\* pnpm install --lockfile-only; its lock is not told apart from the manifests.
Relock ==
  /\ Goto("relock", "promote")
  /\ UNCHANGED <<changed, clone, hub, faults, history>>

\* promoteReleaseChangelog: keep the heading, rename [Unreleased], or insert a stub. An
\* [Unreleased] renamed with nothing under it is one more heading that needs prose.
Promote ==
  /\ Goto("promote", "validate")
  /\ LET log == tree.log
     IN IF version \in log.real \cup log.todo THEN UNCHANGED <<tree, changed>>
        ELSE /\ tree' = [tree EXCEPT !.log =
                  IF log.unreleased
                  THEN [log EXCEPT !.unreleased = FALSE, !.real = @ \cup {version}]
                  ELSE [log EXCEPT !.todo = @ \cup {version}]]
             /\ changed' = changed \cup {"log"}
  /\ UNCHANGED <<commits, head, tags, hub, faults, history>>

Valid(files, v) == v \in files.log.real /\ files.cargo = v /\ files.npm = v

\* Mutant: the npm manifests are not looked at.
ValidateCargo ==
  /\ IF version \in tree.log.real /\ tree.cargo = version
     THEN Goto("validate", "commit") /\ UNCHANGED changed
     ELSE End("validate")
  /\ UNCHANGED <<clone, hub, faults, history>>

\* validateRelease looks at the working tree.
Validate ==
  /\ IF Valid(tree, version) THEN Goto("validate", "commit") /\ UNCHANGED changed
     ELSE End("validate")
  /\ UNCHANGED <<clone, hub, faults, history>>

\* git commit -o: the files of the command only.
Commit ==
  /\ Goto("commit", "view")
  /\ IF changed = {} THEN UNCHANGED <<commits, head>>
     ELSE NewCommit([f \in DOMAIN tree |->
                       IF f \in changed THEN tree[f] ELSE commits[head][f]])
  /\ UNCHANGED <<changed, tree, tags, hub, faults, history>>

\* assertReleaseMissing: any failure of gh means that there is no release.
View ==
  /\ \/ push /\ released[version] # 0 /\ End("view") /\ UNCHANGED faults
     \/ /\ Goto("view", "tag") /\ UNCHANGED changed
        /\ (push /\ released[version] # 0 /\ Fault)
             \/ ((push => released[version] = 0) /\ UNCHANGED faults)
  /\ UNCHANGED <<clone, hub, history>>

\* Mutant: git tag without -f refuses a name that is taken.
TagOnce ==
  /\ IF push /\ tags[version] = 0 THEN Goto("tag", "branch") /\ UNCHANGED changed
     ELSE End("tag")
  /\ tags' = [tags EXCEPT ![version] = IF @ = 0 THEN head ELSE @]
  /\ UNCHANGED <<tree, commits, head, hub, faults, history>>

\* git tag -f
Tag ==
  /\ IF push THEN Goto("tag", "branch") /\ UNCHANGED changed ELSE End("tag")
  /\ tags' = [tags EXCEPT ![version] = head]
  /\ UNCHANGED <<tree, commits, head, hub, faults, history>>

\* git push origin <branch>, which git refuses when it is not a fast-forward.
PushBranch ==
  /\ IF behind THEN End("branch") ELSE Goto("branch", "push") /\ UNCHANGED changed
  /\ UNCHANGED <<clone, hub, faults, history>>

\* Mutant: git push --force.
PushTagForced ==
  /\ End("push")
  /\ origin' = [origin EXCEPT ![version] = tags[version]]
  /\ UNCHANGED <<clone, behind, released, faults, history>>

\* git push origin <tag>, which git refuses when origin has the name already.
PushTag ==
  /\ End("push")
  /\ origin' = [origin EXCEPT ![version] = IF @ = 0 THEN tags[version] ELSE @]
  /\ UNCHANGED <<clone, behind, released, faults, history>>

-----------------------------------------------------------------------------
(* bump.mts *)

\* The canonical bump, whose code is not in the repository, moves the npm manifests.
CanonicalBump ==
  /\ Goto("idle", "sync")
  /\ \E v \in Versions \ DOMAIN Finalized :
       v >= tree.npm /\ tree' = [tree EXCEPT !.npm = v]
  /\ UNCHANGED <<changed, commits, head, tags, hub, faults, history>>

\* syncCargoVersion checks everything before it writes anything.
Syncable ==
  /\ tree.cargo \notin DOMAIN Finalized
  /\ tree.npm >= tree.cargo
  /\ tree.lock = tree.cargo /\ tree.fuzz = tree.cargo

SyncCargo ==
  /\ \/ ~Syncable /\ End("sync") /\ UNCHANGED tree
     \/ /\ Syncable
        /\ pc = "sync" /\ pc' = "synclock"
        /\ version' = tree.npm
        /\ tree' = [tree EXCEPT !.cargo = tree.npm]
        /\ UNCHANGED <<push, changed>>
  /\ UNCHANGED <<commits, head, tags, hub, faults, history>>

SyncLock ==
  /\ Goto("synclock", "syncfuzz")
  /\ tree' = [tree EXCEPT !.lock = version]
  /\ UNCHANGED <<changed, commits, head, tags, hub, faults, history>>

SyncFuzz ==
  /\ End("syncfuzz")
  /\ tree' = [tree EXCEPT !.fuzz = version]
  /\ UNCHANGED <<commits, head, tags, hub, faults, history>>

-----------------------------------------------------------------------------
(* The maintainer, the colleagues and GitHub *)

\* During a command it is a surprise.
Surprise ==
  \/ pc = "idle" /\ UNCHANGED <<faults, meddled>>
  \/ pc # "idle" /\ Fault /\ meddled' = TRUE

HalfMade == tree.lock # tree.cargo \/ tree.npm # tree.cargo

\* "working tree is dirty. Fix: commit or stash before releasing."
CommitByHand ==
  /\ Surprise
  /\ ~Clean
  /\ NewCommit(tree)
  /\ salvaged' = (salvaged \/ HalfMade)
  /\ UNCHANGED <<command, tree, tags, hub>>

Stash ==
  /\ pc = "idle" /\ ~Clean
  /\ tree' = commits[head]
  /\ UNCHANGED <<command, commits, head, tags, hub, faults, history>>

\* "section is missing or a TODO stub. Fix: fill it in, commit, then re-run."
FillIn ==
  /\ Surprise
  /\ tree.log.todo # {}
  /\ tree' = [tree EXCEPT !.log = [tree.log EXCEPT !.real = @ \cup tree.log.todo, !.todo = {}]]
  /\ UNCHANGED <<command, commits, head, tags, hub, salvaged>>

\* Some other commit.
Work ==
  /\ Surprise
  /\ Clean
  /\ NewCommit(tree)
  /\ UNCHANGED <<command, tree, tags, hub, salvaged>>

ColleaguePushes ==
  /\ Fault /\ ~behind
  /\ behind' = TRUE
  /\ UNCHANGED <<command, clone, origin, released, history>>

\* git pull --rebase: the commits of the clone get new names.
Pull ==
  /\ pc = "idle" /\ behind /\ Clean
  /\ behind' = FALSE
  /\ NewCommit(tree)
  /\ UNCHANGED <<command, tree, tags, origin, released, faults, history>>

\* release-github.yml, for a tag whose version is on the registries.
Cut ==
  /\ \E v \in Versions :
       /\ released[v] = 0 /\ origin[v] # 0
       /\ released' = [released EXCEPT ![v] = origin[v]]
  /\ UNCHANGED <<command, clone, behind, origin, faults, history>>

-----------------------------------------------------------------------------
Working ==
  \/ WriteCargo \/ WriteNpm \/ UpdateLock \/ Relock \/ Promote \/ Validate \/ Commit
  \/ View \/ Tag \/ PushBranch \/ PushTag
  \/ SyncCargo \/ SyncLock \/ SyncFuzz

Next ==
  \/ Start \/ Working \/ (pc # "idle" /\ Fail(pc)) \/ CanonicalBump
  \/ CommitByHand \/ Stash \/ FillIn \/ Work \/ ColleaguePushes \/ Pull \/ Cut

Spec == Init /\ [][Next]_vars

\* A command goes on; a maintainer answers every message, stashes what a command left
\* half-made, commits what is whole, and starts again with the newest version and --push;
\* the workflow for a tag runs in the end.
FairSpec ==
  /\ Spec
  /\ WF_vars(Working) /\ WF_vars(Cut)
  /\ SF_vars(Start /\ push' /\ \A v \in Versions : v <= version') /\ SF_vars(FillIn) /\ SF_vars(Pull)
  /\ SF_vars(Stash /\ HalfMade) /\ SF_vars(CommitByHand /\ ~HalfMade)

-----------------------------------------------------------------------------
(* Properties *)

TypeOK ==
  /\ pc \in {"idle", "cargo", "npm", "update", "relock", "promote", "validate", "commit",
             "view", "tag", "branch", "push", "sync", "synclock", "syncfuzz"}
  /\ version \in Versions \cup {0} /\ push \in BOOLEAN
  /\ changed \subseteq {"cargo", "npm", "lock", "log"}
  /\ tree \in Tree
  /\ commits \in Seq(Tree) /\ head \in 1 .. Len(commits)
  /\ behind \in BOOLEAN
  /\ tags \in [Versions -> 0 .. Len(commits)]
  /\ origin \in [Versions -> 0 .. Len(commits)]
  /\ released \in [Versions -> 0 .. Len(commits)]
  /\ faults \in 0 .. MaxFaults
  /\ meddled \in BOOLEAN /\ salvaged \in BOOLEAN

\* What is released is what was validated: manifests of that version and a changelog with
\* prose; and the lock that goes with them, unless somebody committed by hand what a
\* command that failed had left.  (validateRelease reads no lock.)
ReleasedIsValid ==
  \A v \in Versions :
    released[v] # 0 /\ ~meddled =>
      /\ Valid(commits[released[v]], v)
      /\ salvaged \/ commits[released[v]].lock = v

\* "immutable": once a version is released its tag stays on the commit it was cut from,
\* also when gh failed to say that the release exists.
ReleaseStays ==
  [][\A v \in Versions :
       released[v] # 0 => released'[v] = released[v] /\ origin'[v] = released[v]]_vars

\* Whatever fails on the way, a maintainer who does as the messages say and starts again
\* gets a release out, as long as commits are left to be made: except one who chooses to
\* commit rather than stash the half-made edits of a command that failed.
ReleasesInTheEnd ==
  <>(\E v \in Versions : released[v] # 0) \/ <>(salvaged \/ Len(commits) = MaxCommits)
=============================================================================
