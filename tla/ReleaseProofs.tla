--------------------------- MODULE ReleaseProofs ---------------------------
(***************************************************************************)
(* The types of Release, that a release never moves, and that it holds     *)
(* what release.mts validated.                                             *)
(*                                                                         *)
(* ReleasedIsValid needs the whole way of a release: between the clean     *)
(* tree and the commit the files a command has not edited are those of     *)
(* HEAD (EditInv), so what is committed is what was validated; the lock,   *)
(* which nothing validates, follows Cargo.toml in every commit unless      *)
(* half-made edits are committed by hand (LockInv); and tags move only to  *)
(* commits that were made so (GoodInv).  One lemma a part, one step an     *)
(* action.                                                                 *)
(***************************************************************************)
EXTENDS Release, TLAPS

\* The four parts of the types, and a version for every command that has one.
ControlOK ==
  /\ pc \in {"idle", "cargo", "npm", "update", "relock", "promote", "validate", "commit",
             "view", "tag", "branch", "push", "sync", "synclock", "syncfuzz"}
  /\ version \in Versions \cup {0} /\ push \in BOOLEAN
  /\ changed \subseteq {"cargo", "npm", "lock", "log"}
  /\ pc \notin {"idle", "sync"} => version \in Versions

TagsOK ==
  /\ commits \in Seq(Tree) /\ head \in 1 .. Len(commits)
  /\ tags \in [Versions -> 0 .. Len(commits)]
  /\ origin \in [Versions -> 0 .. Len(commits)]
  /\ released \in [Versions -> 0 .. Len(commits)]

FlagsOK ==
  /\ faults \in 0 .. MaxFaults
  /\ behind \in BOOLEAN /\ meddled \in BOOLEAN /\ salvaged \in BOOLEAN

TypeInv == ControlOK /\ tree \in Tree /\ TagsOK /\ FlagsOK

LEMMA TypeParts == TypeInv => TypeOK
BY DEF TypeInv, TypeOK, ControlOK, TagsOK, FlagsOK

LEMMA EditTypes ==
  ASSUME NEW t \in Tree, NEW v \in Versions
  PROVE  /\ [t EXCEPT !["cargo"] = v] \in Tree /\ [t EXCEPT !["npm"] = v] \in Tree
         /\ [t EXCEPT !["lock"] = v] \in Tree /\ [t EXCEPT !["fuzz"] = v] \in Tree
BY DEF Tree

LEMMA VersionTypes ==
  ASSUME NEW t \in Tree
  PROVE  t.cargo \in Versions /\ t.npm \in Versions /\ t.log \in Changelog
BY DEF Tree

LEMMA PromoteTypes ==
  ASSUME NEW log \in Changelog, NEW v \in Versions
  PROVE  /\ [log EXCEPT !.unreleased = FALSE, !.real = @ \cup {v}] \in Changelog
         /\ [log EXCEPT !.todo = @ \cup {v}] \in Changelog
BY DEF Changelog

LEMMA LogTypes ==
  ASSUME NEW t \in Tree, NEW log \in Changelog
  PROVE  [t EXCEPT !.log = log] \in Tree
BY DEF Tree

LEMMA NewCommitTypes ==
  ASSUME TagsOK, NEW t \in Tree, NewCommit(t)
  PROVE  /\ commits' \in Seq(Tree) /\ head' \in 1 .. Len(commits')
         /\ Len(commits') = Len(commits) + 1
         /\ commits'[head'] = t
         /\ \A i \in 1 .. Len(commits) : commits'[i] = commits[i]
BY DEF TagsOK, NewCommit

LEMMA TagsKept ==
  ASSUME TagsOK, NEW t \in Tree, NewCommit(t), UNCHANGED <<tags, origin, released>>
  PROVE  TagsOK'
<1>1. commits' \in Seq(Tree) /\ head' \in 1 .. Len(commits') /\ Len(commits') = Len(commits) + 1
  BY NewCommitTypes
<1>2. Len(commits) \in Nat
  BY DEF TagsOK
<1>3. 0 .. Len(commits) \subseteq 0 .. Len(commits')
  BY <1>1, <1>2
<1> QED
  BY <1>1, <1>3 DEF TagsOK

LEMMA CommittedTypes ==
  ASSUME NEW t \in Tree, NEW h \in Tree, NEW S
  PROVE  [f \in DOMAIN t |-> IF f \in S THEN t[f] ELSE h[f]] \in Tree
BY DEF Tree

LEMMA HeadTypes == ASSUME TagsOK PROVE commits[head] \in Tree
BY DEF TagsOK

LEMMA SurpriseTypes ==
  ASSUME FlagsOK, Surprise
  PROVE  faults' \in 0 .. MaxFaults /\ meddled' \in BOOLEAN
<1>1. CASE UNCHANGED <<faults, meddled>>
  BY <1>1 DEF FlagsOK
<1>2. CASE Fault /\ meddled' = TRUE
  BY <1>2, BoundsAssumption DEF FlagsOK, Fault
<1> QED
  BY <1>1, <1>2 DEF Surprise

LEMMA NoSurprise ==
  ASSUME Surprise, ~meddled'
  PROVE  pc = "idle" /\ ~meddled
BY DEF Surprise

\* A command prepares a version of the set.
LEMMA ControlNext ==
  ASSUME TypeInv, [Next]_vars
  PROVE  ControlOK'
<1> USE DEF Goto, End, Fault, Bumped, NewCommit, Surprise, command, clone, hub,
            history
<1>1. ASSUME Start PROVE ControlOK'
  BY <1>1, VersionsAssumption DEF Start, TypeInv, ControlOK, Tree, Resolved
<1>2. ASSUME WriteCargo PROVE ControlOK'
  BY <1>2, VersionsAssumption DEF WriteCargo, TypeInv, ControlOK, Tree, Resolved
<1>3. ASSUME WriteNpm PROVE ControlOK'
  BY <1>3, VersionsAssumption DEF WriteNpm, TypeInv, ControlOK, Tree, Resolved
<1>4. ASSUME UpdateLock PROVE ControlOK'
  BY <1>4, VersionsAssumption DEF UpdateLock, TypeInv, ControlOK, Tree, Resolved
<1>5. ASSUME Relock PROVE ControlOK'
  BY <1>5, VersionsAssumption DEF Relock, TypeInv, ControlOK, Tree, Resolved
<1>6. ASSUME Promote PROVE ControlOK'
  BY <1>6, VersionsAssumption DEF Promote, TypeInv, ControlOK, Tree, Resolved
<1>7. ASSUME Validate PROVE ControlOK'
  BY <1>7, VersionsAssumption DEF Validate, TypeInv, ControlOK, Tree, Resolved
<1>8. ASSUME Commit PROVE ControlOK'
  BY <1>8, VersionsAssumption DEF Commit, TypeInv, ControlOK, Tree, Resolved
<1>9. ASSUME View PROVE ControlOK'
  BY <1>9, VersionsAssumption DEF View, TypeInv, ControlOK, Tree, Resolved
<1>10. ASSUME Tag PROVE ControlOK'
  BY <1>10, VersionsAssumption DEF Tag, TypeInv, ControlOK, Tree, Resolved
<1>11. ASSUME PushBranch PROVE ControlOK'
  BY <1>11, VersionsAssumption DEF PushBranch, TypeInv, ControlOK, Tree, Resolved
<1>12. ASSUME PushTag PROVE ControlOK'
  BY <1>12, VersionsAssumption DEF PushTag, TypeInv, ControlOK, Tree, Resolved
<1>13. ASSUME SyncCargo PROVE ControlOK'
  BY <1>13, VersionsAssumption DEF SyncCargo, TypeInv, ControlOK, Tree, Resolved
<1>14. ASSUME SyncLock PROVE ControlOK'
  BY <1>14, VersionsAssumption DEF SyncLock, TypeInv, ControlOK, Tree, Resolved
<1>15. ASSUME SyncFuzz PROVE ControlOK'
  BY <1>15, VersionsAssumption DEF SyncFuzz, TypeInv, ControlOK, Tree, Resolved
<1>16. ASSUME CanonicalBump PROVE ControlOK'
  BY <1>16, VersionsAssumption DEF CanonicalBump, TypeInv, ControlOK, Tree, Resolved
<1>17. ASSUME CommitByHand PROVE ControlOK'
  BY <1>17, VersionsAssumption DEF CommitByHand, TypeInv, ControlOK, Tree, Resolved
<1>18. ASSUME Stash PROVE ControlOK'
  BY <1>18, VersionsAssumption DEF Stash, TypeInv, ControlOK, Tree, Resolved
<1>19. ASSUME FillIn PROVE ControlOK'
  BY <1>19, VersionsAssumption DEF FillIn, TypeInv, ControlOK, Tree, Resolved
<1>20. ASSUME Work PROVE ControlOK'
  BY <1>20, VersionsAssumption DEF Work, TypeInv, ControlOK, Tree, Resolved
<1>21. ASSUME ColleaguePushes PROVE ControlOK'
  BY <1>21, VersionsAssumption DEF ColleaguePushes, TypeInv, ControlOK, Tree, Resolved
<1>22. ASSUME Pull PROVE ControlOK'
  BY <1>22, VersionsAssumption DEF Pull, TypeInv, ControlOK, Tree, Resolved
<1>23. ASSUME Cut PROVE ControlOK'
  BY <1>23, VersionsAssumption DEF Cut, TypeInv, ControlOK, Tree, Resolved
<1>24. ASSUME Fail(pc) PROVE ControlOK'
  BY <1>24, VersionsAssumption DEF Fail, TypeInv, ControlOK, Tree, Resolved
<1>25. UNCHANGED vars => ControlOK'
  BY DEF vars, TypeInv, ControlOK, Tree, Resolved
<1> QED
  BY <1>1, <1>2, <1>3, <1>4, <1>5, <1>6, <1>7, <1>8, <1>9, <1>10, <1>11, <1>12,
     <1>13, <1>14, <1>15, <1>16, <1>17, <1>18, <1>19, <1>20, <1>21, <1>22, <1>23,
     <1>24, <1>25 DEF Next, Working

\* Faults are counted down.
LEMMA FlagsNext ==
  ASSUME TypeInv, [Next]_vars
  PROVE  FlagsOK'
<1> USE DEF Goto, End, Fault, Bumped, NewCommit, Surprise, command, clone, hub,
            history
<1>1. ASSUME Start PROVE FlagsOK'
  BY <1>1, BoundsAssumption DEF Start, TypeInv, FlagsOK
<1>2. ASSUME WriteCargo PROVE FlagsOK'
  BY <1>2, BoundsAssumption DEF WriteCargo, TypeInv, FlagsOK
<1>3. ASSUME WriteNpm PROVE FlagsOK'
  BY <1>3, BoundsAssumption DEF WriteNpm, TypeInv, FlagsOK
<1>4. ASSUME UpdateLock PROVE FlagsOK'
  BY <1>4, BoundsAssumption DEF UpdateLock, TypeInv, FlagsOK
<1>5. ASSUME Relock PROVE FlagsOK'
  BY <1>5, BoundsAssumption DEF Relock, TypeInv, FlagsOK
<1>6. ASSUME Promote PROVE FlagsOK'
  BY <1>6, BoundsAssumption DEF Promote, TypeInv, FlagsOK
<1>7. ASSUME Validate PROVE FlagsOK'
  BY <1>7, BoundsAssumption DEF Validate, TypeInv, FlagsOK
<1>8. ASSUME Commit PROVE FlagsOK'
  BY <1>8, BoundsAssumption DEF Commit, TypeInv, FlagsOK
<1>9. ASSUME View PROVE FlagsOK'
  BY <1>9, BoundsAssumption DEF View, TypeInv, FlagsOK
<1>10. ASSUME Tag PROVE FlagsOK'
  BY <1>10, BoundsAssumption DEF Tag, TypeInv, FlagsOK
<1>11. ASSUME PushBranch PROVE FlagsOK'
  BY <1>11, BoundsAssumption DEF PushBranch, TypeInv, FlagsOK
<1>12. ASSUME PushTag PROVE FlagsOK'
  BY <1>12, BoundsAssumption DEF PushTag, TypeInv, FlagsOK
<1>13. ASSUME SyncCargo PROVE FlagsOK'
  BY <1>13, BoundsAssumption DEF SyncCargo, TypeInv, FlagsOK
<1>14. ASSUME SyncLock PROVE FlagsOK'
  BY <1>14, BoundsAssumption DEF SyncLock, TypeInv, FlagsOK
<1>15. ASSUME SyncFuzz PROVE FlagsOK'
  BY <1>15, BoundsAssumption DEF SyncFuzz, TypeInv, FlagsOK
<1>16. ASSUME CanonicalBump PROVE FlagsOK'
  BY <1>16, BoundsAssumption DEF CanonicalBump, TypeInv, FlagsOK
<1>17. ASSUME CommitByHand PROVE FlagsOK'
  <2>1. faults' \in 0 .. MaxFaults /\ meddled' \in BOOLEAN
    BY <1>17, SurpriseTypes DEF CommitByHand, TypeInv
  <2> QED
    BY <1>17, <2>1 DEF CommitByHand, TypeInv, FlagsOK
<1>18. ASSUME Stash PROVE FlagsOK'
  BY <1>18, BoundsAssumption DEF Stash, TypeInv, FlagsOK
<1>19. ASSUME FillIn PROVE FlagsOK'
  <2>1. faults' \in 0 .. MaxFaults /\ meddled' \in BOOLEAN
    BY <1>19, SurpriseTypes DEF FillIn, TypeInv
  <2> QED
    BY <1>19, <2>1 DEF FillIn, TypeInv, FlagsOK
<1>20. ASSUME Work PROVE FlagsOK'
  <2>1. faults' \in 0 .. MaxFaults /\ meddled' \in BOOLEAN
    BY <1>20, SurpriseTypes DEF Work, TypeInv
  <2> QED
    BY <1>20, <2>1 DEF Work, TypeInv, FlagsOK
<1>21. ASSUME ColleaguePushes PROVE FlagsOK'
  BY <1>21, BoundsAssumption DEF ColleaguePushes, TypeInv, FlagsOK
<1>22. ASSUME Pull PROVE FlagsOK'
  BY <1>22, BoundsAssumption DEF Pull, TypeInv, FlagsOK
<1>23. ASSUME Cut PROVE FlagsOK'
  BY <1>23, BoundsAssumption DEF Cut, TypeInv, FlagsOK
<1>24. ASSUME Fail(pc) PROVE FlagsOK'
  BY <1>24, BoundsAssumption DEF Fail, TypeInv, FlagsOK
<1>25. UNCHANGED vars => FlagsOK'
  BY DEF vars, TypeInv, FlagsOK
<1> QED
  BY <1>1, <1>2, <1>3, <1>4, <1>5, <1>6, <1>7, <1>8, <1>9, <1>10, <1>11, <1>12,
     <1>13, <1>14, <1>15, <1>16, <1>17, <1>18, <1>19, <1>20, <1>21, <1>22, <1>23,
     <1>24, <1>25 DEF Next, Working

\* Files stay at versions.
LEMMA TreeNext ==
  ASSUME TypeInv, [Next]_vars
  PROVE  (tree \in Tree)'
<1> USE DEF Goto, End, Fault, Bumped, NewCommit, Surprise, command, clone, hub,
            history
<1>1. ASSUME Start PROVE (tree \in Tree)'
  BY <1>1, EditTypes, VersionTypes, PromoteTypes, LogTypes DEF Start, TypeInv, ControlOK, TagsOK
<1>2. ASSUME WriteCargo PROVE (tree \in Tree)'
  BY <1>2, EditTypes, VersionTypes, PromoteTypes, LogTypes DEF WriteCargo, TypeInv, ControlOK, TagsOK
<1>3. ASSUME WriteNpm PROVE (tree \in Tree)'
  BY <1>3, EditTypes, VersionTypes, PromoteTypes, LogTypes DEF WriteNpm, TypeInv, ControlOK, TagsOK
<1>4. ASSUME UpdateLock PROVE (tree \in Tree)'
  BY <1>4, EditTypes, VersionTypes, PromoteTypes, LogTypes DEF UpdateLock, TypeInv, ControlOK, TagsOK
<1>5. ASSUME Relock PROVE (tree \in Tree)'
  BY <1>5, EditTypes, VersionTypes, PromoteTypes, LogTypes DEF Relock, TypeInv, ControlOK, TagsOK
<1>6. ASSUME Promote PROVE (tree \in Tree)'
  <2>1. tree.log \in Changelog /\ version \in Versions
    BY <1>6, VersionTypes DEF Promote, TypeInv, ControlOK
  <2>2. /\ [tree.log EXCEPT !.unreleased = FALSE, !.real = @ \cup {version}] \in Changelog
        /\ [tree.log EXCEPT !.todo = @ \cup {version}] \in Changelog
    BY <2>1, PromoteTypes
  <2>3. /\ [tree EXCEPT !.log = [tree.log EXCEPT !.unreleased = FALSE, !.real = @ \cup {version}]] \in Tree
        /\ [tree EXCEPT !.log = [tree.log EXCEPT !.todo = @ \cup {version}]] \in Tree
    BY <2>2, LogTypes DEF TypeInv
  <2> QED
    BY <1>6, <2>3 DEF Promote, TypeInv
<1>7. ASSUME Validate PROVE (tree \in Tree)'
  BY <1>7, EditTypes, VersionTypes, PromoteTypes, LogTypes DEF Validate, TypeInv, ControlOK, TagsOK
<1>8. ASSUME Commit PROVE (tree \in Tree)'
  BY <1>8, EditTypes, VersionTypes, PromoteTypes, LogTypes DEF Commit, TypeInv, ControlOK, TagsOK
<1>9. ASSUME View PROVE (tree \in Tree)'
  BY <1>9, EditTypes, VersionTypes, PromoteTypes, LogTypes DEF View, TypeInv, ControlOK, TagsOK
<1>10. ASSUME Tag PROVE (tree \in Tree)'
  BY <1>10, EditTypes, VersionTypes, PromoteTypes, LogTypes DEF Tag, TypeInv, ControlOK, TagsOK
<1>11. ASSUME PushBranch PROVE (tree \in Tree)'
  BY <1>11, EditTypes, VersionTypes, PromoteTypes, LogTypes DEF PushBranch, TypeInv, ControlOK, TagsOK
<1>12. ASSUME PushTag PROVE (tree \in Tree)'
  BY <1>12, EditTypes, VersionTypes, PromoteTypes, LogTypes DEF PushTag, TypeInv, ControlOK, TagsOK
<1>13. ASSUME SyncCargo PROVE (tree \in Tree)'
  BY <1>13, EditTypes, VersionTypes, PromoteTypes, LogTypes DEF SyncCargo, TypeInv, ControlOK, TagsOK
<1>14. ASSUME SyncLock PROVE (tree \in Tree)'
  BY <1>14, EditTypes, VersionTypes, PromoteTypes, LogTypes DEF SyncLock, TypeInv, ControlOK, TagsOK
<1>15. ASSUME SyncFuzz PROVE (tree \in Tree)'
  BY <1>15, EditTypes, VersionTypes, PromoteTypes, LogTypes DEF SyncFuzz, TypeInv, ControlOK, TagsOK
<1>16. ASSUME CanonicalBump PROVE (tree \in Tree)'
  BY <1>16, EditTypes, VersionTypes, PromoteTypes, LogTypes DEF CanonicalBump, TypeInv, ControlOK, TagsOK
<1>17. ASSUME CommitByHand PROVE (tree \in Tree)'
  BY <1>17, EditTypes, VersionTypes, PromoteTypes, LogTypes DEF CommitByHand, TypeInv, ControlOK, TagsOK
<1>18. ASSUME Stash PROVE (tree \in Tree)'
  BY <1>18, HeadTypes DEF Stash, TypeInv
<1>19. ASSUME FillIn PROVE (tree \in Tree)'
  <2>1. [tree.log EXCEPT !.real = @ \cup tree.log.todo, !.todo = {}] \in Changelog
    <3>1. tree.log \in Changelog
      BY VersionTypes DEF TypeInv
    <3> QED
      BY <3>1 DEF Changelog
  <2>2. tree' = [tree EXCEPT !.log = [tree.log EXCEPT !.real = @ \cup tree.log.todo, !.todo = {}]]
    BY <1>19 DEF FillIn
  <2> QED
    BY <2>1, <2>2, LogTypes DEF TypeInv
<1>20. ASSUME Work PROVE (tree \in Tree)'
  BY <1>20, EditTypes, VersionTypes, PromoteTypes, LogTypes DEF Work, TypeInv, ControlOK, TagsOK
<1>21. ASSUME ColleaguePushes PROVE (tree \in Tree)'
  BY <1>21, EditTypes, VersionTypes, PromoteTypes, LogTypes DEF ColleaguePushes, TypeInv, ControlOK, TagsOK
<1>22. ASSUME Pull PROVE (tree \in Tree)'
  BY <1>22, EditTypes, VersionTypes, PromoteTypes, LogTypes DEF Pull, TypeInv, ControlOK, TagsOK
<1>23. ASSUME Cut PROVE (tree \in Tree)'
  BY <1>23, EditTypes, VersionTypes, PromoteTypes, LogTypes DEF Cut, TypeInv, ControlOK, TagsOK
<1>24. ASSUME Fail(pc) PROVE (tree \in Tree)'
  BY <1>24, EditTypes, VersionTypes, PromoteTypes, LogTypes DEF Fail, TypeInv, ControlOK, TagsOK
<1>25. UNCHANGED vars => (tree \in Tree)'
  BY DEF vars, TypeInv, ControlOK, TagsOK
<1> QED
  BY <1>1, <1>2, <1>3, <1>4, <1>5, <1>6, <1>7, <1>8, <1>9, <1>10, <1>11, <1>12,
     <1>13, <1>14, <1>15, <1>16, <1>17, <1>18, <1>19, <1>20, <1>21, <1>22, <1>23,
     <1>24, <1>25 DEF Next, Working

\* Tags point at commits.
LEMMA TagsNext ==
  ASSUME TypeInv, [Next]_vars
  PROVE  TagsOK'
<1> USE DEF Goto, End, Fault, Bumped, NewCommit, Surprise, command, clone, hub,
            history
<1>1. ASSUME Start PROVE TagsOK'
  BY <1>1, TagsKept DEF Start, TypeInv, ControlOK, TagsOK
<1>2. ASSUME WriteCargo PROVE TagsOK'
  BY <1>2, TagsKept DEF WriteCargo, TypeInv, ControlOK, TagsOK
<1>3. ASSUME WriteNpm PROVE TagsOK'
  BY <1>3, TagsKept DEF WriteNpm, TypeInv, ControlOK, TagsOK
<1>4. ASSUME UpdateLock PROVE TagsOK'
  BY <1>4, TagsKept DEF UpdateLock, TypeInv, ControlOK, TagsOK
<1>5. ASSUME Relock PROVE TagsOK'
  BY <1>5, TagsKept DEF Relock, TypeInv, ControlOK, TagsOK
<1>6. ASSUME Promote PROVE TagsOK'
  BY <1>6, TagsKept DEF Promote, TypeInv, ControlOK, TagsOK
<1>7. ASSUME Validate PROVE TagsOK'
  BY <1>7, TagsKept DEF Validate, TypeInv, ControlOK, TagsOK
<1>8. ASSUME Commit PROVE TagsOK'
  <2>1. [f \in DOMAIN tree |-> IF f \in changed THEN tree[f] ELSE commits[head][f]] \in Tree
    BY CommittedTypes, HeadTypes DEF TypeInv
  <2>2. CASE UNCHANGED <<commits, head>>
    BY <1>8, <2>2 DEF Commit, TypeInv, TagsOK
  <2>3. CASE NewCommit([f \in DOMAIN tree |-> IF f \in changed THEN tree[f] ELSE commits[head][f]])
    <3>1. UNCHANGED <<tags, origin, released>>
      BY <1>8 DEF Commit
    <3> HIDE DEF NewCommit
    <3> QED
      BY <2>1, <2>3, <3>1, TagsKept DEF TypeInv
  <2> QED
    BY <1>8, <2>2, <2>3 DEF Commit
<1>9. ASSUME View PROVE TagsOK'
  BY <1>9, TagsKept DEF View, TypeInv, ControlOK, TagsOK
<1>10. ASSUME Tag PROVE TagsOK'
  BY <1>10, TagsKept DEF Tag, TypeInv, ControlOK, TagsOK
<1>11. ASSUME PushBranch PROVE TagsOK'
  BY <1>11, TagsKept DEF PushBranch, TypeInv, ControlOK, TagsOK
<1>12. ASSUME PushTag PROVE TagsOK'
  BY <1>12, TagsKept DEF PushTag, TypeInv, ControlOK, TagsOK
<1>13. ASSUME SyncCargo PROVE TagsOK'
  BY <1>13, TagsKept DEF SyncCargo, TypeInv, ControlOK, TagsOK
<1>14. ASSUME SyncLock PROVE TagsOK'
  BY <1>14, TagsKept DEF SyncLock, TypeInv, ControlOK, TagsOK
<1>15. ASSUME SyncFuzz PROVE TagsOK'
  BY <1>15, TagsKept DEF SyncFuzz, TypeInv, ControlOK, TagsOK
<1>16. ASSUME CanonicalBump PROVE TagsOK'
  BY <1>16, TagsKept DEF CanonicalBump, TypeInv, ControlOK, TagsOK
<1>17. ASSUME CommitByHand PROVE TagsOK'
  BY <1>17, TagsKept DEF CommitByHand, TypeInv, ControlOK, TagsOK
<1>18. ASSUME Stash PROVE TagsOK'
  BY <1>18, TagsKept DEF Stash, TypeInv, ControlOK, TagsOK
<1>19. ASSUME FillIn PROVE TagsOK'
  BY <1>19, TagsKept DEF FillIn, TypeInv, ControlOK, TagsOK
<1>20. ASSUME Work PROVE TagsOK'
  BY <1>20, TagsKept DEF Work, TypeInv, ControlOK, TagsOK
<1>21. ASSUME ColleaguePushes PROVE TagsOK'
  BY <1>21, TagsKept DEF ColleaguePushes, TypeInv, ControlOK, TagsOK
<1>22. ASSUME Pull PROVE TagsOK'
  BY <1>22, TagsKept DEF Pull, TypeInv, ControlOK, TagsOK
<1>23. ASSUME Cut PROVE TagsOK'
  BY <1>23, TagsKept DEF Cut, TypeInv, ControlOK, TagsOK
<1>24. ASSUME Fail(pc) PROVE TagsOK'
  BY <1>24, TagsKept DEF Fail, TypeInv, ControlOK, TagsOK
<1>25. UNCHANGED vars => TagsOK'
  BY DEF vars, TypeInv, ControlOK, TagsOK
<1> QED
  BY <1>1, <1>2, <1>3, <1>4, <1>5, <1>6, <1>7, <1>8, <1>9, <1>10, <1>11, <1>12,
     <1>13, <1>14, <1>15, <1>16, <1>17, <1>18, <1>19, <1>20, <1>21, <1>22, <1>23,
     <1>24, <1>25 DEF Next, Working

LEMMA TypeNext ==
  ASSUME TypeInv, [Next]_vars
  PROVE  TypeInv'
BY ControlNext, FlagsNext, TreeNext, TagsNext DEF TypeInv

-----------------------------------------------------------------------------
(* What is released *)

\* A release is at its tag.
ReleasedInv == \A v \in Versions : released[v] # 0 => origin[v] = released[v]

Good(i, v) == Valid(commits[i], v) /\ (salvaged \/ commits[i].lock = v)

\* What release.mts will commit is the tree it has looked at ...
Editing == {"cargo", "npm", "update", "relock", "promote", "validate", "commit"}
EditInv ==
  /\ pc \in Editing => \A f \in DOMAIN tree \ changed : tree[f] = commits[head][f]
  /\ pc = "commit" => Valid(tree, version)

\* ... with a lock that goes with the manifests, as every commit's does ...
LockInv ==
  ~salvaged =>
    /\ \A i \in 1 .. Len(commits) : commits[i].lock = commits[i].cargo
    /\ pc \in {"relock", "promote", "validate", "commit"} => tree.lock = tree.cargo

\* ... and only what is good is tagged, pushed and released.
GoodInv ==
  /\ pc \in {"view", "tag"} => Good(head, version)
  /\ \A v \in Versions :
       /\ tags[v] # 0 => Good(tags[v], v)
       /\ origin[v] # 0 => Good(origin[v], v)
       /\ released[v] # 0 => Good(released[v], v)

ValidInv == ~meddled => EditInv /\ LockInv /\ GoodInv

LEMMA EditFields ==
  ASSUME NEW t \in Tree, NEW v
  PROVE  /\ [t EXCEPT !["lock"] = v].lock = v /\ [t EXCEPT !["lock"] = v].cargo = t.cargo
         /\ [t EXCEPT !.log = v].lock = t.lock /\ [t EXCEPT !.log = v].cargo = t.cargo
BY DEF Tree

LEMMA CommittedIsTree ==
  ASSUME NEW t \in Tree, NEW h \in Tree, NEW S, \A f \in DOMAIN t \ S : t[f] = h[f]
  PROVE  [f \in DOMAIN t |-> IF f \in S THEN t[f] ELSE h[f]] = t
BY DEF Tree

LEMMA CommitMakesTree ==
  ASSUME TypeInv, ValidInv, Commit, ~meddled'
  PROVE  \/ NewCommit(tree)
         \/ UNCHANGED <<commits, head>> /\ commits[head] = tree
<1>1. ~meddled /\ pc = "commit"
  BY DEF Commit, history, Goto
<1>2. \A f \in DOMAIN tree \ changed : tree[f] = commits[head][f]
  BY <1>1 DEF ValidInv, EditInv, Editing
<1>3. tree \in Tree /\ commits[head] \in Tree
  BY HeadTypes DEF TypeInv
<1>4. CASE changed = {}
  <2>1. tree = commits[head]
    BY <1>2, <1>3, <1>4 DEF Tree
  <2> QED
    BY <1>4, <2>1 DEF Commit
<1>5. CASE changed # {}
  BY <1>2, <1>3, <1>5, CommittedIsTree DEF Commit
<1> QED
  BY <1>4, <1>5

\* origin keeps the tag of a release.
LEMMA ReleasedNext ==
  ASSUME TypeInv, ReleasedInv, [Next]_vars
  PROVE  ReleasedInv'
<1> USE DEF Goto, End, Fault, Bumped, NewCommit, Surprise, command, clone, hub,
            history
<1>1. ASSUME Start PROVE ReleasedInv'
  BY <1>1 DEF Start, TypeInv, ControlOK, TagsOK, ReleasedInv
<1>2. ASSUME WriteCargo PROVE ReleasedInv'
  BY <1>2 DEF WriteCargo, TypeInv, ControlOK, TagsOK, ReleasedInv
<1>3. ASSUME WriteNpm PROVE ReleasedInv'
  BY <1>3 DEF WriteNpm, TypeInv, ControlOK, TagsOK, ReleasedInv
<1>4. ASSUME UpdateLock PROVE ReleasedInv'
  BY <1>4 DEF UpdateLock, TypeInv, ControlOK, TagsOK, ReleasedInv
<1>5. ASSUME Relock PROVE ReleasedInv'
  BY <1>5 DEF Relock, TypeInv, ControlOK, TagsOK, ReleasedInv
<1>6. ASSUME Promote PROVE ReleasedInv'
  BY <1>6 DEF Promote, TypeInv, ControlOK, TagsOK, ReleasedInv
<1>7. ASSUME Validate PROVE ReleasedInv'
  BY <1>7 DEF Validate, TypeInv, ControlOK, TagsOK, ReleasedInv
<1>8. ASSUME Commit PROVE ReleasedInv'
  BY <1>8 DEF Commit, TypeInv, ControlOK, TagsOK, ReleasedInv
<1>9. ASSUME View PROVE ReleasedInv'
  BY <1>9 DEF View, TypeInv, ControlOK, TagsOK, ReleasedInv
<1>10. ASSUME Tag PROVE ReleasedInv'
  BY <1>10 DEF Tag, TypeInv, ControlOK, TagsOK, ReleasedInv
<1>11. ASSUME PushBranch PROVE ReleasedInv'
  BY <1>11 DEF PushBranch, TypeInv, ControlOK, TagsOK, ReleasedInv
<1>12. ASSUME PushTag PROVE ReleasedInv'
  BY <1>12 DEF PushTag, TypeInv, ControlOK, TagsOK, ReleasedInv
<1>13. ASSUME SyncCargo PROVE ReleasedInv'
  BY <1>13 DEF SyncCargo, TypeInv, ControlOK, TagsOK, ReleasedInv
<1>14. ASSUME SyncLock PROVE ReleasedInv'
  BY <1>14 DEF SyncLock, TypeInv, ControlOK, TagsOK, ReleasedInv
<1>15. ASSUME SyncFuzz PROVE ReleasedInv'
  BY <1>15 DEF SyncFuzz, TypeInv, ControlOK, TagsOK, ReleasedInv
<1>16. ASSUME CanonicalBump PROVE ReleasedInv'
  BY <1>16 DEF CanonicalBump, TypeInv, ControlOK, TagsOK, ReleasedInv
<1>17. ASSUME CommitByHand PROVE ReleasedInv'
  BY <1>17 DEF CommitByHand, TypeInv, ControlOK, TagsOK, ReleasedInv
<1>18. ASSUME Stash PROVE ReleasedInv'
  BY <1>18 DEF Stash, TypeInv, ControlOK, TagsOK, ReleasedInv
<1>19. ASSUME FillIn PROVE ReleasedInv'
  BY <1>19 DEF FillIn, TypeInv, ControlOK, TagsOK, ReleasedInv
<1>20. ASSUME Work PROVE ReleasedInv'
  BY <1>20 DEF Work, TypeInv, ControlOK, TagsOK, ReleasedInv
<1>21. ASSUME ColleaguePushes PROVE ReleasedInv'
  BY <1>21 DEF ColleaguePushes, TypeInv, ControlOK, TagsOK, ReleasedInv
<1>22. ASSUME Pull PROVE ReleasedInv'
  BY <1>22 DEF Pull, TypeInv, ControlOK, TagsOK, ReleasedInv
<1>23. ASSUME Cut PROVE ReleasedInv'
  BY <1>23 DEF Cut, TypeInv, ControlOK, TagsOK, ReleasedInv
<1>24. ASSUME Fail(pc) PROVE ReleasedInv'
  BY <1>24 DEF Fail, TypeInv, ControlOK, TagsOK, ReleasedInv
<1>25. UNCHANGED vars => ReleasedInv'
  BY DEF vars, TypeInv, ControlOK, TagsOK, ReleasedInv
<1> QED
  BY <1>1, <1>2, <1>3, <1>4, <1>5, <1>6, <1>7, <1>8, <1>9, <1>10, <1>11, <1>12,
     <1>13, <1>14, <1>15, <1>16, <1>17, <1>18, <1>19, <1>20, <1>21, <1>22, <1>23,
     <1>24, <1>25 DEF Next, Working

\* Between the clean tree and the commit.
LEMMA EditNext ==
  ASSUME TypeInv, ValidInv, [Next]_vars
  PROVE  (~meddled => EditInv)'
<1> USE DEF Goto, End, Fault, Bumped, NewCommit, Surprise, command, clone, hub,
            history
<1>1. ASSUME Start PROVE (~meddled => EditInv)'
  BY <1>1, EditTypes DEF Start, TypeInv, ControlOK, TagsOK, ValidInv, EditInv, Editing, Clean
<1>2. ASSUME WriteCargo PROVE (~meddled => EditInv)'
  BY <1>2, EditTypes DEF WriteCargo, TypeInv, ControlOK, TagsOK, ValidInv, EditInv, Editing, Clean
<1>3. ASSUME WriteNpm PROVE (~meddled => EditInv)'
  BY <1>3, EditTypes DEF WriteNpm, TypeInv, ControlOK, TagsOK, ValidInv, EditInv, Editing, Clean
<1>4. ASSUME UpdateLock PROVE (~meddled => EditInv)'
  BY <1>4, EditTypes DEF UpdateLock, TypeInv, ControlOK, TagsOK, ValidInv, EditInv, Editing, Clean
<1>5. ASSUME Relock PROVE (~meddled => EditInv)'
  BY <1>5, EditTypes DEF Relock, TypeInv, ControlOK, TagsOK, ValidInv, EditInv, Editing, Clean
<1>6. ASSUME Promote PROVE (~meddled => EditInv)'
  BY <1>6, EditTypes DEF Promote, TypeInv, ControlOK, TagsOK, ValidInv, EditInv, Editing, Clean
<1>7. ASSUME Validate PROVE (~meddled => EditInv)'
  BY <1>7, EditTypes DEF Validate, TypeInv, ControlOK, TagsOK, ValidInv, EditInv, Editing, Clean
<1>8. ASSUME Commit PROVE (~meddled => EditInv)'
  BY <1>8, EditTypes DEF Commit, TypeInv, ControlOK, TagsOK, ValidInv, EditInv, Editing, Clean
<1>9. ASSUME View PROVE (~meddled => EditInv)'
  BY <1>9, EditTypes DEF View, TypeInv, ControlOK, TagsOK, ValidInv, EditInv, Editing, Clean
<1>10. ASSUME Tag PROVE (~meddled => EditInv)'
  BY <1>10, EditTypes DEF Tag, TypeInv, ControlOK, TagsOK, ValidInv, EditInv, Editing, Clean
<1>11. ASSUME PushBranch PROVE (~meddled => EditInv)'
  BY <1>11, EditTypes DEF PushBranch, TypeInv, ControlOK, TagsOK, ValidInv, EditInv, Editing, Clean
<1>12. ASSUME PushTag PROVE (~meddled => EditInv)'
  BY <1>12, EditTypes DEF PushTag, TypeInv, ControlOK, TagsOK, ValidInv, EditInv, Editing, Clean
<1>13. ASSUME SyncCargo PROVE (~meddled => EditInv)'
  BY <1>13, EditTypes DEF SyncCargo, TypeInv, ControlOK, TagsOK, ValidInv, EditInv, Editing, Clean
<1>14. ASSUME SyncLock PROVE (~meddled => EditInv)'
  BY <1>14, EditTypes DEF SyncLock, TypeInv, ControlOK, TagsOK, ValidInv, EditInv, Editing, Clean
<1>15. ASSUME SyncFuzz PROVE (~meddled => EditInv)'
  BY <1>15, EditTypes DEF SyncFuzz, TypeInv, ControlOK, TagsOK, ValidInv, EditInv, Editing, Clean
<1>16. ASSUME CanonicalBump PROVE (~meddled => EditInv)'
  BY <1>16, EditTypes DEF CanonicalBump, TypeInv, ControlOK, TagsOK, ValidInv, EditInv, Editing, Clean
<1>17. ASSUME CommitByHand PROVE (~meddled => EditInv)'
  BY <1>17, EditTypes DEF CommitByHand, TypeInv, ControlOK, TagsOK, ValidInv, EditInv, Editing, Clean
<1>18. ASSUME Stash PROVE (~meddled => EditInv)'
  BY <1>18, EditTypes DEF Stash, TypeInv, ControlOK, TagsOK, ValidInv, EditInv, Editing, Clean
<1>19. ASSUME FillIn PROVE (~meddled => EditInv)'
  BY <1>19, EditTypes DEF FillIn, TypeInv, ControlOK, TagsOK, ValidInv, EditInv, Editing, Clean
<1>20. ASSUME Work PROVE (~meddled => EditInv)'
  BY <1>20, EditTypes DEF Work, TypeInv, ControlOK, TagsOK, ValidInv, EditInv, Editing, Clean
<1>21. ASSUME ColleaguePushes PROVE (~meddled => EditInv)'
  BY <1>21, EditTypes DEF ColleaguePushes, TypeInv, ControlOK, TagsOK, ValidInv, EditInv, Editing, Clean
<1>22. ASSUME Pull PROVE (~meddled => EditInv)'
  BY <1>22, EditTypes DEF Pull, TypeInv, ControlOK, TagsOK, ValidInv, EditInv, Editing, Clean
<1>23. ASSUME Cut PROVE (~meddled => EditInv)'
  BY <1>23, EditTypes DEF Cut, TypeInv, ControlOK, TagsOK, ValidInv, EditInv, Editing, Clean
<1>24. ASSUME Fail(pc) PROVE (~meddled => EditInv)'
  BY <1>24, EditTypes DEF Fail, TypeInv, ControlOK, TagsOK, ValidInv, EditInv, Editing, Clean
<1>25. UNCHANGED vars => (~meddled => EditInv)'
  BY DEF vars, TypeInv, ControlOK, TagsOK, ValidInv, EditInv, Editing, Clean
<1> QED
  BY <1>1, <1>2, <1>3, <1>4, <1>5, <1>6, <1>7, <1>8, <1>9, <1>10, <1>11, <1>12,
     <1>13, <1>14, <1>15, <1>16, <1>17, <1>18, <1>19, <1>20, <1>21, <1>22, <1>23,
     <1>24, <1>25 DEF Next, Working

\* Locks go with manifests.
LEMMA LockNext ==
  ASSUME TypeInv, ValidInv, [Next]_vars
  PROVE  (~meddled => LockInv)'
<1> USE DEF Goto, End, Fault, Bumped, NewCommit, Surprise, command, clone, hub,
            history
<1>1. ASSUME Start PROVE (~meddled => LockInv)'
  BY <1>1, NewCommitTypes, HeadTypes DEF Start, TypeInv, ControlOK, TagsOK, ValidInv, LockInv, Clean, HalfMade, Editing
<1>2. ASSUME WriteCargo PROVE (~meddled => LockInv)'
  BY <1>2, NewCommitTypes, HeadTypes DEF WriteCargo, TypeInv, ControlOK, TagsOK, ValidInv, LockInv, Clean, HalfMade, Editing
<1>3. ASSUME WriteNpm PROVE (~meddled => LockInv)'
  BY <1>3, NewCommitTypes, HeadTypes DEF WriteNpm, TypeInv, ControlOK, TagsOK, ValidInv, LockInv, Clean, HalfMade, Editing
<1>4. ASSUME UpdateLock PROVE (~meddled => LockInv)'
  <2>1. tree' = [tree EXCEPT !["lock"] = tree.cargo] /\ UNCHANGED <<commits, meddled, salvaged>>
    BY <1>4 DEF UpdateLock
  <2>2. tree'.lock = tree'.cargo
    BY <2>1, EditFields DEF TypeInv
  <2> QED
    BY <2>1, <2>2 DEF ValidInv, LockInv
<1>5. ASSUME Relock PROVE (~meddled => LockInv)'
  BY <1>5, NewCommitTypes, HeadTypes DEF Relock, TypeInv, ControlOK, TagsOK, ValidInv, LockInv, Clean, HalfMade, Editing
<1>6. ASSUME Promote PROVE (~meddled => LockInv)'
  <2>1. UNCHANGED <<commits, meddled, salvaged>> /\ pc = "promote"
    BY <1>6 DEF Promote
  <2>2. tree'.lock = tree.lock /\ tree'.cargo = tree.cargo
    <3>1. CASE version \in tree.log.real \cup tree.log.todo
      BY <1>6, <3>1 DEF Promote
    <3>2. CASE version \notin tree.log.real \cup tree.log.todo
      <4> DEFINE log == IF tree.log.unreleased
                        THEN [tree.log EXCEPT !.unreleased = FALSE, !.real = @ \cup {version}]
                        ELSE [tree.log EXCEPT !.todo = @ \cup {version}]
      <4>1. tree' = [tree EXCEPT !.log = log]
        BY <1>6, <3>2 DEF Promote
      <4> HIDE DEF log
      <4> QED
        BY <4>1, EditFields DEF TypeInv
    <3> QED
      BY <3>1, <3>2
  <2> QED
    BY <2>1, <2>2 DEF ValidInv, LockInv
<1>7. ASSUME Validate PROVE (~meddled => LockInv)'
  BY <1>7, NewCommitTypes, HeadTypes DEF Validate, TypeInv, ControlOK, TagsOK, ValidInv, LockInv, Clean, HalfMade, Editing
<1>8. ASSUME Commit PROVE (~meddled => LockInv)'
  <2> SUFFICES ASSUME ~meddled', ~salvaged' PROVE LockInv'
    BY DEF LockInv
  <2>1. UNCHANGED <<tree, meddled, salvaged>> /\ pc = "commit" /\ pc' = "view"
    BY <1>8 DEF Commit
  <2>2. tree.lock = tree.cargo /\ \A i \in 1 .. Len(commits) : commits[i].lock = commits[i].cargo
    BY <2>1 DEF ValidInv, LockInv
  <2>3. CASE UNCHANGED <<commits, head>>
    BY <2>1, <2>2, <2>3 DEF LockInv
  <2>4. CASE NewCommit(tree)
    BY <2>1, <2>2, <2>4 DEF LockInv, TypeInv, TagsOK
  <2> QED
    BY <1>8, <2>3, <2>4, CommitMakesTree
<1>9. ASSUME View PROVE (~meddled => LockInv)'
  BY <1>9, NewCommitTypes, HeadTypes DEF View, TypeInv, ControlOK, TagsOK, ValidInv, LockInv, Clean, HalfMade, Editing
<1>10. ASSUME Tag PROVE (~meddled => LockInv)'
  BY <1>10, NewCommitTypes, HeadTypes DEF Tag, TypeInv, ControlOK, TagsOK, ValidInv, LockInv, Clean, HalfMade, Editing
<1>11. ASSUME PushBranch PROVE (~meddled => LockInv)'
  BY <1>11, NewCommitTypes, HeadTypes DEF PushBranch, TypeInv, ControlOK, TagsOK, ValidInv, LockInv, Clean, HalfMade, Editing
<1>12. ASSUME PushTag PROVE (~meddled => LockInv)'
  BY <1>12, NewCommitTypes, HeadTypes DEF PushTag, TypeInv, ControlOK, TagsOK, ValidInv, LockInv, Clean, HalfMade, Editing
<1>13. ASSUME SyncCargo PROVE (~meddled => LockInv)'
  BY <1>13, NewCommitTypes, HeadTypes DEF SyncCargo, TypeInv, ControlOK, TagsOK, ValidInv, LockInv, Clean, HalfMade, Editing
<1>14. ASSUME SyncLock PROVE (~meddled => LockInv)'
  BY <1>14, NewCommitTypes, HeadTypes DEF SyncLock, TypeInv, ControlOK, TagsOK, ValidInv, LockInv, Clean, HalfMade, Editing
<1>15. ASSUME SyncFuzz PROVE (~meddled => LockInv)'
  BY <1>15, NewCommitTypes, HeadTypes DEF SyncFuzz, TypeInv, ControlOK, TagsOK, ValidInv, LockInv, Clean, HalfMade, Editing
<1>16. ASSUME CanonicalBump PROVE (~meddled => LockInv)'
  BY <1>16, NewCommitTypes, HeadTypes DEF CanonicalBump, TypeInv, ControlOK, TagsOK, ValidInv, LockInv, Clean, HalfMade, Editing
<1>17. ASSUME CommitByHand PROVE (~meddled => LockInv)'
  <2> SUFFICES ASSUME ~meddled', ~salvaged' PROVE LockInv'
    BY DEF LockInv
  <2> HIDE DEF Surprise, NewCommit
  <2>1. pc = "idle" /\ ~meddled
    BY <1>17, NoSurprise DEF CommitByHand
  <2>2. UNCHANGED <<tree, pc>> /\ NewCommit(tree) /\ ~salvaged /\ ~HalfMade
    BY <1>17 DEF CommitByHand
  <2>3. tree.lock = tree.cargo /\ \A i \in 1 .. Len(commits) : commits[i].lock = commits[i].cargo
    BY <2>1, <2>2 DEF ValidInv, LockInv, HalfMade
  <2>4. /\ Len(commits) \in Nat /\ Len(commits') = Len(commits) + 1 /\ head' = Len(commits) + 1
        /\ commits'[head'] = tree
        /\ \A i \in 1 .. Len(commits) : commits'[i] = commits[i]
    BY <2>2, NewCommitTypes DEF TypeInv, TagsOK, NewCommit
  <2>5. \A i \in 1 .. Len(commits') : commits'[i].lock = commits'[i].cargo
    BY <2>3, <2>4
  <2> QED
    BY <2>1, <2>2, <2>5 DEF LockInv
<1>18. ASSUME Stash PROVE (~meddled => LockInv)'
  BY <1>18, NewCommitTypes, HeadTypes DEF Stash, TypeInv, ControlOK, TagsOK, ValidInv, LockInv, Clean, HalfMade, Editing
<1>19. ASSUME FillIn PROVE (~meddled => LockInv)'
  BY <1>19, NewCommitTypes, HeadTypes DEF FillIn, TypeInv, ControlOK, TagsOK, ValidInv, LockInv, Clean, HalfMade, Editing
<1>20. ASSUME Work PROVE (~meddled => LockInv)'
  BY <1>20, NewCommitTypes, HeadTypes DEF Work, TypeInv, ControlOK, TagsOK, ValidInv, LockInv, Clean, HalfMade, Editing
<1>21. ASSUME ColleaguePushes PROVE (~meddled => LockInv)'
  BY <1>21, NewCommitTypes, HeadTypes DEF ColleaguePushes, TypeInv, ControlOK, TagsOK, ValidInv, LockInv, Clean, HalfMade, Editing
<1>22. ASSUME Pull PROVE (~meddled => LockInv)'
  BY <1>22, NewCommitTypes, HeadTypes DEF Pull, TypeInv, ControlOK, TagsOK, ValidInv, LockInv, Clean, HalfMade, Editing
<1>23. ASSUME Cut PROVE (~meddled => LockInv)'
  BY <1>23, NewCommitTypes, HeadTypes DEF Cut, TypeInv, ControlOK, TagsOK, ValidInv, LockInv, Clean, HalfMade, Editing
<1>24. ASSUME Fail(pc) PROVE (~meddled => LockInv)'
  BY <1>24, NewCommitTypes, HeadTypes DEF Fail, TypeInv, ControlOK, TagsOK, ValidInv, LockInv, Clean, HalfMade, Editing
<1>25. UNCHANGED vars => (~meddled => LockInv)'
  BY DEF vars, command, clone, history, ValidInv, LockInv
<1> QED
  BY <1>1, <1>2, <1>3, <1>4, <1>5, <1>6, <1>7, <1>8, <1>9, <1>10, <1>11, <1>12,
     <1>13, <1>14, <1>15, <1>16, <1>17, <1>18, <1>19, <1>20, <1>21, <1>22, <1>23,
     <1>24, <1>25 DEF Next, Working

\* Tags are moved to good commits.
LEMMA GoodNext ==
  ASSUME TypeInv, ValidInv, [Next]_vars
  PROVE  (~meddled => GoodInv)'
<1> USE DEF Goto, End, Fault, Bumped, NewCommit, Surprise, command, clone, hub,
            history
<1>1. ASSUME Start PROVE (~meddled => GoodInv)'
  BY <1>1, NewCommitTypes, HeadTypes DEF Start, TypeInv, ControlOK, TagsOK, ValidInv, GoodInv, Good
<1>2. ASSUME WriteCargo PROVE (~meddled => GoodInv)'
  BY <1>2, NewCommitTypes, HeadTypes DEF WriteCargo, TypeInv, ControlOK, TagsOK, ValidInv, GoodInv, Good
<1>3. ASSUME WriteNpm PROVE (~meddled => GoodInv)'
  BY <1>3, NewCommitTypes, HeadTypes DEF WriteNpm, TypeInv, ControlOK, TagsOK, ValidInv, GoodInv, Good
<1>4. ASSUME UpdateLock PROVE (~meddled => GoodInv)'
  BY <1>4, NewCommitTypes, HeadTypes DEF UpdateLock, TypeInv, ControlOK, TagsOK, ValidInv, GoodInv, Good
<1>5. ASSUME Relock PROVE (~meddled => GoodInv)'
  BY <1>5, NewCommitTypes, HeadTypes DEF Relock, TypeInv, ControlOK, TagsOK, ValidInv, GoodInv, Good
<1>6. ASSUME Promote PROVE (~meddled => GoodInv)'
  BY <1>6, NewCommitTypes, HeadTypes DEF Promote, TypeInv, ControlOK, TagsOK, ValidInv, GoodInv, Good
<1>7. ASSUME Validate PROVE (~meddled => GoodInv)'
  BY <1>7, NewCommitTypes, HeadTypes DEF Validate, TypeInv, ControlOK, TagsOK, ValidInv, GoodInv, Good
<1>8. ASSUME Commit PROVE (~meddled => GoodInv)'
  <2> SUFFICES ASSUME ~meddled' PROVE GoodInv'
    OBVIOUS
  <2>1. /\ UNCHANGED <<tree, version, meddled, salvaged, tags, origin, released>>
        /\ pc = "commit" /\ pc' = "view"
    BY <1>8 DEF Commit
  <2>2. Valid(tree, version) /\ (salvaged \/ tree.lock = version)
    BY <2>1 DEF ValidInv, EditInv, LockInv, Valid
  <2>3. CASE UNCHANGED <<commits, head>> /\ commits[head] = tree
    BY <2>1, <2>2, <2>3 DEF ValidInv, GoodInv, Good
  <2>4. CASE NewCommit(tree)
    <3>1. commits'[head'] = tree /\ \A i \in 1 .. Len(commits) : commits'[i] = commits[i]
      BY <2>4, NewCommitTypes DEF TypeInv
    <3>2. Good(head, version)'
      BY <2>1, <2>2, <3>1 DEF Good
    <3>3. \A i \in 1 .. Len(commits), v \in Versions : Good(i, v) => Good(i, v)'
      BY <2>1, <3>1 DEF Good
    <3> QED
      BY <2>1, <3>2, <3>3 DEF ValidInv, GoodInv, TypeInv, TagsOK
  <2> QED
    BY <1>8, <2>3, <2>4, CommitMakesTree
<1>9. ASSUME View PROVE (~meddled => GoodInv)'
  BY <1>9, NewCommitTypes, HeadTypes DEF View, TypeInv, ControlOK, TagsOK, ValidInv, GoodInv, Good
<1>10. ASSUME Tag PROVE (~meddled => GoodInv)'
  BY <1>10, NewCommitTypes, HeadTypes DEF Tag, TypeInv, ControlOK, TagsOK, ValidInv, GoodInv, Good
<1>11. ASSUME PushBranch PROVE (~meddled => GoodInv)'
  BY <1>11, NewCommitTypes, HeadTypes DEF PushBranch, TypeInv, ControlOK, TagsOK, ValidInv, GoodInv, Good
<1>12. ASSUME PushTag PROVE (~meddled => GoodInv)'
  BY <1>12, NewCommitTypes, HeadTypes DEF PushTag, TypeInv, ControlOK, TagsOK, ValidInv, GoodInv, Good
<1>13. ASSUME SyncCargo PROVE (~meddled => GoodInv)'
  BY <1>13, NewCommitTypes, HeadTypes DEF SyncCargo, TypeInv, ControlOK, TagsOK, ValidInv, GoodInv, Good
<1>14. ASSUME SyncLock PROVE (~meddled => GoodInv)'
  BY <1>14, NewCommitTypes, HeadTypes DEF SyncLock, TypeInv, ControlOK, TagsOK, ValidInv, GoodInv, Good
<1>15. ASSUME SyncFuzz PROVE (~meddled => GoodInv)'
  BY <1>15, NewCommitTypes, HeadTypes DEF SyncFuzz, TypeInv, ControlOK, TagsOK, ValidInv, GoodInv, Good
<1>16. ASSUME CanonicalBump PROVE (~meddled => GoodInv)'
  BY <1>16, NewCommitTypes, HeadTypes DEF CanonicalBump, TypeInv, ControlOK, TagsOK, ValidInv, GoodInv, Good
<1>17. ASSUME CommitByHand PROVE (~meddled => GoodInv)'
  <2> SUFFICES ASSUME ~meddled' PROVE GoodInv'
    OBVIOUS
  <2>1. UNCHANGED <<tags, origin, released>> /\ ~meddled /\ pc = "idle" /\ pc' = "idle"
    BY <1>17 DEF CommitByHand
  <2>2. salvaged => salvaged'
    BY <1>17 DEF CommitByHand
  <2>3. \A i \in 1 .. Len(commits) : commits'[i] = commits[i]
    BY <1>17, NewCommitTypes DEF CommitByHand, TypeInv
  <2>4. \A i \in 1 .. Len(commits), v \in Versions : Good(i, v) => Good(i, v)'
    BY <2>2, <2>3 DEF Good
  <2> QED
    BY <2>1, <2>4 DEF ValidInv, GoodInv, TypeInv, TagsOK
<1>18. ASSUME Stash PROVE (~meddled => GoodInv)'
  BY <1>18, NewCommitTypes, HeadTypes DEF Stash, TypeInv, ControlOK, TagsOK, ValidInv, GoodInv, Good
<1>19. ASSUME FillIn PROVE (~meddled => GoodInv)'
  BY <1>19, NewCommitTypes, HeadTypes DEF FillIn, TypeInv, ControlOK, TagsOK, ValidInv, GoodInv, Good
<1>20. ASSUME Work PROVE (~meddled => GoodInv)'
  BY <1>20, NewCommitTypes, HeadTypes DEF Work, TypeInv, ControlOK, TagsOK, ValidInv, GoodInv, Good
<1>21. ASSUME ColleaguePushes PROVE (~meddled => GoodInv)'
  BY <1>21, NewCommitTypes, HeadTypes DEF ColleaguePushes, TypeInv, ControlOK, TagsOK, ValidInv, GoodInv, Good
<1>22. ASSUME Pull PROVE (~meddled => GoodInv)'
  BY <1>22, NewCommitTypes, HeadTypes DEF Pull, TypeInv, ControlOK, TagsOK, ValidInv, GoodInv, Good
<1>23. ASSUME Cut PROVE (~meddled => GoodInv)'
  BY <1>23, NewCommitTypes, HeadTypes DEF Cut, TypeInv, ControlOK, TagsOK, ValidInv, GoodInv, Good
<1>24. ASSUME Fail(pc) PROVE (~meddled => GoodInv)'
  BY <1>24, NewCommitTypes, HeadTypes DEF Fail, TypeInv, ControlOK, TagsOK, ValidInv, GoodInv, Good
<1>25. UNCHANGED vars => (~meddled => GoodInv)'
  BY DEF vars, TypeInv, ControlOK, TagsOK, ValidInv, GoodInv, Good
<1> QED
  BY <1>1, <1>2, <1>3, <1>4, <1>5, <1>6, <1>7, <1>8, <1>9, <1>10, <1>11, <1>12,
     <1>13, <1>14, <1>15, <1>16, <1>17, <1>18, <1>19, <1>20, <1>21, <1>22, <1>23,
     <1>24, <1>25 DEF Next, Working

LEMMA ValidNext ==
  ASSUME TypeInv, ValidInv, [Next]_vars
  PROVE  ValidInv'
BY EditNext, LockNext, GoodNext DEF ValidInv

-----------------------------------------------------------------------------
(* The theorems *)

IInv == TypeInv /\ ReleasedInv /\ ValidInv

LEMMA InitInv == Init => IInv
<1> SUFFICES ASSUME Init PROVE IInv
  OBVIOUS
<1>1. tree \in Tree /\ tree.lock = tree.cargo
  BY DEF Init, Tree, Changelog
<1>2. commits = <<tree>> /\ commits \in Seq(Tree) /\ Len(commits) = 1 /\ commits[1] = tree
  BY <1>1 DEF Init
<1>3. TagsOK
  BY <1>2 DEF Init, TagsOK
<1>4. FlagsOK
  <2>1. faults = MaxFaults /\ behind = FALSE /\ meddled = FALSE /\ salvaged = FALSE
    BY DEF Init
  <2>2. faults \in 0 .. MaxFaults
    BY <2>1, BoundsAssumption
  <2> QED
    BY <2>1, <2>2 DEF FlagsOK
<1>5. ControlOK
  BY DEF Init, ControlOK
<1>6. ReleasedInv
  BY DEF Init, ReleasedInv
<1>7. pc = "idle" /\ \A v \in Versions : tags[v] = 0 /\ origin[v] = 0 /\ released[v] = 0
  BY DEF Init
<1>8. ValidInv
  BY <1>1, <1>2, <1>7 DEF ValidInv, EditInv, Editing, LockInv, GoodInv
<1> QED
  BY <1>1, <1>3, <1>4, <1>5, <1>6, <1>8 DEF IInv, TypeInv

\* What is committed was looked at, what is tagged was committed so, and what is released
\* is at its tag: no step of the commands, of the maintainer or of GitHub breaks this.
THEOREM Inductive == Spec => []IInv
<1>1. IInv /\ [Next]_vars => IInv'
  BY TypeNext, ReleasedNext, ValidNext DEF IInv
<1> QED
  BY InitInv, <1>1, PTL DEF Spec

\* Whatever fails, the variables of the commands, the clone and GitHub keep their types
\* (release.mts, bump.mts).
THEOREM TypeCorrect == Spec => []TypeOK
<1>1. IInv => TypeOK
  BY TypeParts DEF IInv
<1> QED
  BY Inductive, <1>1, PTL

\* A release that nobody interfered with holds what validateRelease found: the manifests
\* at its version, prose in the changelog, and the lock that goes with them.
THEOREM ReleasedAreValid == Spec => []ReleasedIsValid
<1>1. IInv => ReleasedIsValid
  BY DEF IInv, ValidInv, GoodInv, Good, ReleasedIsValid
<1> QED
  BY Inductive, <1>1, PTL

\* git refuses a second tag of one name on origin and Cut makes one release of a version:
\* although release.mts moves the tag of the clone by force, a release never moves.
THEOREM ReleasesStay == Spec => ReleaseStays
<1> DEFINE Stay == \A v \in Versions :
      released[v] # 0 => released'[v] = released[v] /\ origin'[v] = released[v]
<1>1. TypeInv /\ ReleasedInv /\ [Next]_vars => [Stay]_vars
  <2> SUFFICES ASSUME TypeInv, ReleasedInv, Next PROVE Stay
    OBVIOUS
  <2>1. CASE UNCHANGED <<origin, released>>
    BY <2>1 DEF ReleasedInv
  <2>2. CASE PushTag
    BY <2>2 DEF PushTag, TypeInv, TagsOK, ReleasedInv, End
  <2>3. CASE Cut
    BY <2>3 DEF Cut, TypeInv, TagsOK, ReleasedInv
  <2>4. Next => UNCHANGED <<origin, released>> \/ PushTag \/ Cut
    BY DEF Next, Working, Start, WriteCargo, WriteNpm, UpdateLock, Bumped, Relock, Promote,
           Validate, Commit, View, Tag, PushBranch, SyncCargo, SyncLock, SyncFuzz, Fail,
           CanonicalBump, CommitByHand, Stash, FillIn, Work, ColleaguePushes, Pull, hub
  <2> QED
    BY <2>1, <2>2, <2>3, <2>4
<1>2. IInv => TypeInv /\ ReleasedInv
  BY DEF IInv
<1> QED
  BY Inductive, <1>1, <1>2, PTL DEF Spec, ReleaseStays

=============================================================================
