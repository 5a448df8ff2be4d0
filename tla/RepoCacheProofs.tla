--------------------------- MODULE RepoCacheProofs ---------------------------
(***************************************************************************)
(* Theorems about RepoCache, for any set of files, any number of changes   *)
(* and any sequence of requests.                                           *)
(***************************************************************************)
EXTENDS RepoCache, FiniteSetTheorems, TLAPS

----------------------------------------------------------------------------
(* Values. *)

LEMMA CountsAreNumbers ==
    ASSUME NEW W \in SUBSET Files
    PROVE  Cardinality(W) \in Nat
  BY RepoAssumption, FS_Subset, FS_CardinalityType

LEMMA VersionsAreNumbers == Versions \subseteq Nat /\ {0, 1} \subseteq Versions
  BY RepoAssumption DEF Versions

LEMMA Files0 == [f \in Files |-> 0] \in Contents
  BY VersionsAreNumbers DEF Contents

\* What requests and cached repositories begin with.
LEMMA NewValues == NewRepo \in Cached /\ NoRequest \in Request /\ NewRepo # None
  <1>1. NewRepo \in Cached
    BY DEF NewRepo, Cached
  <1>2. NoCounts \in Counts
    BY DEF NoCounts, Counts
  <1>3. NoRequest \in Request
    BY <1>2, Files0, VersionsAreNumbers DEF NoRequest, Request
  <1> QED
    BY <1>1, <1>3, RepoAssumption

LEMMA NewTrees ==
    ASSUME NEW entries \in Contents, NEW include \in BOOLEAN
    PROVE  /\ NewTree(entries, include) \in Tree
           /\ NewTree(entries, include).entries = entries
           /\ NewTree(entries, include).include_untracked = include
           /\ NewTree(entries, include).st = None
           /\ NewTree(entries, include).unmatched = {}
  BY DEF NewTree, Tree

----------------------------------------------------------------------------
(* The user. *)

\* What a change leaves true: the index or the directory that it changes gets a new stamp.
LEMMA UserSteps ==
    ASSUME RepoTypeOK, User
    PROVE  /\ now' = now + 1 /\ now' \in Versions /\ UNCHANGED <<repo, pc, req>>
           /\ world' \in World /\ world'.honest = world.honest
           /\ \/ world'.index = world.index /\ world'.stamp = world.stamp
              \/ (RacyIndex \/ pc # "stat") /\ world'.stamp = now + 1
           /\ \/ world'.mtime = now + 1
              \/ /\ world'.mtime = world.mtime
                 /\ world.honest => Present(world'.work) = Present(world.work)
  <1>0. now \in Nat /\ MaxChanges \in Nat /\ world \in World
    BY RepoAssumption, VersionsAreNumbers DEF RepoTypeOK
  <1>1. ASSUME NEW w, Changed(w)
        PROVE  /\ now' = now + 1 /\ now' \in Versions /\ UNCHANGED <<repo, pc, req>>
               /\ world' = w
    BY <1>0, <1>1 DEF Changed, Versions
  <1>2. ASSUME NEW f \in Files, NEW v \in Versions, Edit(f, v)
        PROVE  /\ world' \in World /\ world'.honest = world.honest
               /\ world'.index = world.index /\ world'.stamp = world.stamp
               /\ \/ world'.mtime = now + 1
                  \/ /\ world'.mtime = world.mtime
                     /\ world.honest => Present(world'.work) = Present(world.work)
    <2>1. world' = [world EXCEPT !.work[f] = v, !.mtime = Touched(f, v)] /\ now' \in Versions
      BY <1>1, <1>2 DEF Edit
    <2>2. Touched(f, v) \in Versions
      BY <1>0, <1>1, <1>2, <2>1 DEF Edit, Touched, New, World
    <2>3. /\ world' \in World /\ world'.honest = world.honest
          /\ world'.index = world.index /\ world'.stamp = world.stamp
          /\ world'.mtime = Touched(f, v)
          /\ world'.work = [world.work EXCEPT ![f] = v]
      BY <1>0, <2>1, <2>2 DEF World, Contents
    <2>4. world.honest /\ (v = 0) = (world.work[f] = 0) => Present(world'.work) = Present(world.work)
      BY <1>0, <2>3 DEF Present, Tracked, World, Contents
    <2> QED
      BY <2>3, <2>4 DEF Touched, New
  <1>3. ASSUME NEW f \in Files, NEW v \in Versions, Add(f, v)
        PROVE  /\ world' \in World /\ world'.honest = world.honest
               /\ (RacyIndex \/ pc # "stat") /\ world'.stamp = now + 1
               /\ world'.mtime = world.mtime /\ world'.work = world.work
    <2>1. /\ world' = [world EXCEPT !.index[f] = v, !.stamp = New] /\ now' \in Versions
          /\ now' = New /\ (RacyIndex \/ pc # "stat")
      BY <1>1, <1>3 DEF Add, New
    <2> QED
      BY <1>0, <2>1 DEF World, Contents, New
  <1>4. ASSUME Commit \/ Configure
        PROVE  /\ world' \in World /\ world'.honest = world.honest
               /\ world'.index = world.index /\ world'.stamp = world.stamp
               /\ world'.mtime = world.mtime /\ world'.work = world.work
    <2>1. world' \in { [world EXCEPT !.head = world.index], [world EXCEPT !.untracked = ~@],
                       [world EXCEPT !.dirty = ~@] }
      BY <1>1, <1>4 DEF Commit, Configure
    <2> QED
      BY <1>0, <2>1 DEF World
  <1>5. ASSUME NEW f \in Files
        PROVE  /\ 0 \in Versions /\ world.work[f] \in Versions
               /\ \A v \in Versions : Edit(f, New) => New \in Versions
    BY <1>0, <1>1, VersionsAreNumbers DEF Edit, New, World, Contents
  <1>6. User => \E w : Changed(w)
    BY DEF User, Edit, Add, Commit, Configure
  <1>7. CASE \E f \in Files, v \in Versions : Edit(f, v)
    BY <1>1, <1>2, <1>6, <1>7
  <1>8. CASE \E f \in Files, v \in Versions : Add(f, v)
    BY <1>1, <1>3, <1>6, <1>8
  <1>9. CASE Commit \/ Configure
    BY <1>1, <1>4, <1>6, <1>9
  <1> QED
    BY <1>5, <1>7, <1>8, <1>9, VersionsAreNumbers DEF User

----------------------------------------------------------------------------
(* Types. *)

\* The tree that a request works with.
LEMMA TreesFor ==
    ASSUME RepoTypeOK, NEW old \in Tree \cup {None}
    PROVE  /\ TreeFor(old) \in Tree
           /\ TreeFor(old).include_untracked = req.untracked
           /\ \/ TreeFor(old) = old /\ old # None /\ repo.index_stat = world.stamp
              \/ /\ TreeFor(old).entries = req.git_index
                 /\ TreeFor(old).st = None /\ TreeFor(old).unmatched = {}
              \/ /\ TreeFor(old).entries = req.git_index /\ old # None
                 /\ TreeFor(old).st = old.st /\ TreeFor(old).unmatched = old.unmatched
                 /\ Tracked(old.entries) = Tracked(req.git_index)
  <1>1. /\ req.git_index \in Contents /\ req.untracked \in BOOLEAN
        /\ NewTree(req.git_index, req.untracked) \in Tree
    BY NewTrees DEF RepoTypeOK, Request
  <1>2. CASE old = None
    BY <1>1, <1>2, NewTrees DEF TreeFor
  <1>3. CASE old # None /\ repo.index_stat = world.stamp /\ old.include_untracked = req.untracked
    BY <1>3 DEF TreeFor
  <1>4. CASE /\ old # None /\ ~(repo.index_stat = world.stamp /\ old.include_untracked = req.untracked)
             /\ Tracked(old.entries) = Tracked(req.git_index)
    <2>1. TreeFor(old) = Refreshed(old)
      BY <1>4 DEF TreeFor
    <2>2. CASE old.include_untracked # req.untracked
      BY <1>1, <2>1, <2>2, NewTrees DEF Refreshed
    <2>3. CASE old.include_untracked = req.untracked
      BY <1>1, <1>4, <2>1, <2>3 DEF Refreshed, Tree
    <2> QED
      BY <2>2, <2>3
  <1>5. CASE /\ old # None /\ ~(repo.index_stat = world.stamp /\ old.include_untracked = req.untracked)
             /\ Tracked(old.entries) # Tracked(req.git_index)
    BY <1>1, <1>5, NewTrees DEF TreeFor
  <1> QED
    BY <1>2, <1>3, <1>4, <1>5

\* What the answer takes from the cache.
LEMMA CountedSteps ==
    ASSUME NEW r \in Cached, req \in Request, Counted(r)
    PROVE  /\ pc' = IF req.dirty \/ req.untracked THEN "files" ELSE "put"
           /\ repo' = r /\ UNCHANGED <<now, world>>
           /\ req' = [req EXCEPT !.stats.staged = r.staged] /\ req' \in Request
  BY DEF Counted, Step, Request, Counts, Cached

\* What the staged path caches and answers: nothing, what is cached, or what it counts,
\* once the keys of the counts are stored.
LEMMA StagedSteps ==
    ASSUME RepoTypeOK, Staged \/ CountStaged
    PROVE  /\ pc \in {"staged", "compute"} /\ UNCHANGED <<now, world>>
           /\ repo' \in Cached /\ req' \in Request
           /\ repo'.index_tree = repo.index_tree /\ repo'.index_stat = repo.index_stat
           /\ repo'.probe = repo.probe
           /\ pc' # "compute" => /\ pc' = IF req.dirty \/ req.untracked THEN "files" ELSE "put"
                                 /\ req' = [req EXCEPT !.stats.staged = repo'.staged]
           /\ \/ /\ ~req.dirty \/ req.head = None
                 /\ repo'.staged_head = None /\ repo'.staged_index_stat = None
                 /\ repo'.staged = IF req.dirty THEN Cardinality(Tracked(req.git_index)) ELSE 0
                 /\ pc = "staged" /\ pc' # "compute"
              \/ /\ req.dirty /\ req.head # None /\ StagedIsCached /\ repo' = repo
                 /\ pc = "staged" /\ pc' # "compute"
              \/ /\ req.dirty /\ req.head # None
                 /\ repo'.staged_head = req.head /\ repo'.staged_index_stat = repo.index_stat
                 /\ repo'.torn /\ pc = "staged" /\ pc' = "compute" /\ req' = req
              \/ /\ repo'.staged_head = repo.staged_head
                 /\ repo'.staged_index_stat = repo.staged_index_stat
                 /\ \/ repo'.staged = Cardinality(StagedFiles(req.head, req.git_index))
                    \/ Errors /\ repo'.staged = 0
                 /\ pc = "compute" /\ pc' # "compute"
  <1> DEFINE none == [repo EXCEPT !.staged_head = None, !.staged_index_stat = None, !.torn = FALSE,
                        !.staged = IF req.dirty THEN Cardinality(Tracked(req.git_index)) ELSE 0]
             keys == [repo EXCEPT !.staged_head = req.head,
                        !.staged_index_stat = repo.index_stat, !.torn = TRUE]
             counts(n) == [repo EXCEPT !.staged = n, !.torn = FALSE]
  <1>0. repo \in Cached /\ req \in Request
    BY DEF RepoTypeOK, Staged, CountStaged
  <1>1. /\ Cardinality(Tracked(req.git_index)) \in Nat
        /\ Cardinality(StagedFiles(req.head, req.git_index)) \in Nat
    BY CountsAreNumbers DEF Tracked, StagedFiles
  <1>2. /\ none \in Cached
        /\ none.index_tree = repo.index_tree /\ none.index_stat = repo.index_stat
        /\ none.probe = repo.probe
        /\ none.staged_head = None /\ none.staged_index_stat = None
        /\ none.staged = IF req.dirty THEN Cardinality(Tracked(req.git_index)) ELSE 0
    BY <1>0, <1>1 DEF Cached, Request
  <1>3. /\ keys \in Cached
        /\ keys.index_tree = repo.index_tree /\ keys.index_stat = repo.index_stat
        /\ keys.probe = repo.probe /\ keys.torn
        /\ keys.staged_head = req.head /\ keys.staged_index_stat = repo.index_stat
    BY <1>0 DEF Cached, Request
  <1>4. ASSUME NEW n \in Nat
        PROVE  /\ counts(n) \in Cached
               /\ counts(n).index_tree = repo.index_tree /\ counts(n).index_stat = repo.index_stat
               /\ counts(n).probe = repo.probe /\ counts(n).staged = n
               /\ counts(n).staged_head = repo.staged_head
               /\ counts(n).staged_index_stat = repo.staged_index_stat
    BY <1>0 DEF Cached
  <1>5. CASE pc = "staged" /\ (~req.dirty \/ req.head = None) /\ Counted(none)
    <2> HIDE DEF none
    <2> QED
      BY <1>0, <1>2, <1>5, CountedSteps
  <1>6. CASE pc = "staged" /\ req.dirty /\ req.head # None /\ StagedIsCached /\ Counted(repo)
    BY <1>0, <1>6, CountedSteps
  <1>7. CASE pc = "staged" /\ req.dirty /\ req.head # None /\ Step("compute", keys, req)
    <2> HIDE DEF keys
    <2> QED
      BY <1>0, <1>3, <1>7 DEF Step
  <1>8. CASE CountStaged
    <2>1. PICK n \in {Cardinality(StagedFiles(req.head, req.git_index))}
                        \cup IF Errors THEN {0} ELSE {} : Counted(counts(n))
      BY <1>8 DEF CountStaged, ComputeStaged
    <2>2. n \in Nat
      BY <1>1, <2>1
    <2>3. pc = "compute"
      BY <1>8 DEF CountStaged
    <2> HIDE DEF counts
    <2> QED
      BY <1>0, <1>4, <2>1, <2>2, <2>3, CountedSteps
  <1>9. Staged => \/ pc = "staged" /\ (~req.dirty \/ req.head = None) /\ Counted(none)
                  \/ pc = "staged" /\ req.dirty /\ req.head # None /\ StagedIsCached /\ Counted(repo)
                  \/ pc = "staged" /\ req.dirty /\ req.head # None /\ Step("compute", keys, req)
    BY DEF Staged
  <1> HIDE DEF none, keys, counts
  <1> QED
    BY <1>5, <1>6, <1>7, <1>8, <1>9

\* What a request has.
LEMMA RequestsHave ==
    ASSUME RepoTypeOK
    PROVE  /\ world \in World /\ req \in Request /\ now \in Versions
           /\ repo # None => repo \in Cached
           /\ pc # "idle" => repo \in Cached /\ repo # None
           /\ pc \in StatKnown => req.index \in Tree /\ req.index # None
  BY RepoAssumption DEF RepoTypeOK, Request

\* Every step keeps the types.
LEMMA RepoTypesNext ==
    ASSUME RepoTypeOK, [RepoNext]_repoVars
    PROVE  RepoTypeOK'
  <1> USE RepoAssumption DEF StatKnown, StagedKnown
  <1>0. /\ world \in World /\ req \in Request /\ now \in Versions
        /\ pc # "idle" => repo \in Cached /\ repo # None
    BY RequestsHave
  <1>1. CASE User
    BY <1>1, UserSteps DEF RepoTypeOK
  <1>2. CASE ProbeEnds
    <2>1. repo \in Cached
      BY <1>2 DEF ProbeEnds, RepoTypeOK
    <2> QED
      BY <1>2, <2>1 DEF ProbeEnds, RepoTypeOK, Cached
  <1>3. ASSUME NEW skip \in BOOLEAN, Open(skip)
        PROVE  RepoTypeOK'
    <2> DEFINE r == IF repo = None THEN NewRepo ELSE repo
    <2>1. r \in Cached
      BY NewValues DEF RepoTypeOK
    <2>2. /\ pc' = "head" /\ repo' = r /\ UNCHANGED <<now, world>>
          /\ req' = [NoRequest EXCEPT !.skip = skip, !.since = now,
                                      !.probed = r.probe # "running"]
      BY <1>3 DEF Open, Step
    <2>3. req' \in Request
      BY <1>0, <2>2, NewValues DEF Request
    <2> QED
      BY <2>1, <2>2, <2>3 DEF RepoTypeOK
  <1>4. CASE ReadHead
    BY <1>0, <1>4 DEF ReadHead, Step, RepoTypeOK, Request, World
  <1>5. CASE ReadIndex
    BY <1>0, <1>5 DEF ReadIndex, Step, RepoTypeOK, Request, World
  <1>6. CASE StatIndex
    <2>1. repo \in Cached
      BY <1>6 DEF StatIndex, RepoTypeOK
    <2>2. TreeFor(repo.index_tree) \in Tree
      BY <2>1, TreesFor DEF Cached
    <2>3. repo' = [repo EXCEPT !.index_tree = None, !.index_stat = world.stamp]
          /\ req' = [req EXCEPT !.index = TreeFor(repo.index_tree)]
          /\ pc' = "staged" /\ UNCHANGED <<now, world>>
      BY <1>6 DEF StatIndex, Step
    <2>4. repo' \in Cached
      BY <1>0, <2>1, <2>3 DEF Cached, World
    <2>5. req' \in Request
      BY <1>0, <2>2, <2>3 DEF Request
    <2>6. repo' # None /\ req'.index # None
      BY <1>0, <2>2, <2>3, <2>4 DEF Request
    <2> QED
      BY <2>2, <2>3, <2>4, <2>5, <2>6 DEF RepoTypeOK
  <1>7. CASE Staged \/ CountStaged
    <2>1. req' \in Request
      BY <1>7, StagedSteps
    <2>2. repo' # None /\ req'.index = req.index
      BY <1>0, <1>7, StagedSteps DEF Request
    <2> QED
      BY <1>0, <1>7, <2>1, <2>2, StagedSteps DEF RepoTypeOK
  <1>8. CASE StatFiles
    <2>1. DirtyFiles(req.index.entries, world.work) \subseteq Files
      BY DEF DirtyFiles, Tracked
    <2> QED
      BY <1>0, <1>8, <2>1 DEF StatFiles, Step, RepoTypeOK, Request
  <1>9. CASE StatDir
    <2>1. req.index \in Tree
      BY <1>0, <1>9 DEF StatDir, RepoTypeOK, Request
    <2> QED
      BY <1>0, <1>9, <2>1 DEF StatDir, Step, RepoTypeOK, Request, Tree, World
  <1>10. CASE ListDir
    <2>1. req.index \in Tree
      BY <1>0, <1>10 DEF ListDir, RepoTypeOK, Request
    <2> DEFINE unmatched == Present(world.work) \ Tracked(req.index.entries)
               found == req.candidates \cup unmatched \cup DirtyFiles(req.index.entries, world.work)
    <2>2. unmatched \subseteq Files /\ found \subseteq Files
      BY <1>0 DEF DirtyFiles, Tracked, Present, Request
    <2>3. /\ pc' = "count" /\ UNCHANGED <<now, world, repo>>
          /\ req' = [req EXCEPT !.index.unmatched = unmatched, !.candidates = found]
      BY <1>10 DEF ListDir, Step
    <2> HIDE DEF unmatched, found
    <2>4. req' \in Request
      BY <1>0, <2>1, <2>2, <2>3 DEF Request, Tree
    <2>5. pc # "idle" /\ req'.index # None
      <3>1. req'.index = [req.index EXCEPT !.unmatched = unmatched] /\ unmatched \subseteq Files
        BY <1>0, <2>2, <2>3 DEF Request
      <3>2. req'.index \in Tree
        BY <2>1, <3>1 DEF Tree
      <3> QED
        BY <1>10, <3>2 DEF ListDir
    <2> QED
      BY <1>0, <2>1, <2>3, <2>4, <2>5 DEF RepoTypeOK
  <1>11. CASE CountDirty
    <2> DEFINE tracked == Tracked(req.index.entries)
               unstaged == IF req.dirty THEN Cardinality(req.candidates \cap tracked) ELSE 0
               untracked == IF req.untracked THEN Cardinality(req.candidates \ tracked) ELSE 0
    <2>1. unstaged \in Nat /\ untracked \in Nat
      BY <1>0, CountsAreNumbers DEF Request
    <2>2. /\ pc' = "put" /\ UNCHANGED <<now, world, repo>>
          /\ req' = [req EXCEPT !.stats.unstaged = unstaged, !.stats.untracked = untracked]
      BY <1>11 DEF CountDirty, Step
    <2> HIDE DEF unstaged, untracked
    <2>3. pc = "count" /\ req'.index = req.index /\ req.index # None
      BY <1>0, <1>11, <2>2 DEF CountDirty, Step, RepoTypeOK, Request
    <2> QED
      BY <1>0, <2>1, <2>2, <2>3 DEF RepoTypeOK, Request, Counts
  <1>12. CASE PutTree
    <2>1. repo \in Cached
      BY <1>12 DEF PutTree, RepoTypeOK
    <2> QED
      BY <1>0, <1>12, <2>1 DEF PutTree, Step, RepoTypeOK, Request, Cached
  <1>13. CASE Close \/ Panic \/ Evict
    BY <1>13, NewValues DEF Close, Panic, Evict, Step, RepoTypeOK
  <1>14. CASE UNCHANGED repoVars
    BY <1>14 DEF repoVars, RepoTypeOK
  <1> QED
    BY <1>1, <1>2, <1>3, <1>4, <1>5, <1>6, <1>7, <1>8, <1>9, <1>10, <1>11, <1>12, <1>13, <1>14
    DEF RepoNext, Build

----------------------------------------------------------------------------
(* What is cached. *)

\* All that the proofs rest on.
RepoInv == RepoTypeOK /\ StampsAreOld /\ CacheKnows /\ RequestKnows

\* A change either touches the stamp or leaves what the stamp stands for.
LEMMA UserKeepsNames ==
    ASSUME RepoTypeOK, StampsAreOld, ~RacyIndex, User, NEW tree,
           tree.st \in (0..now) \cup {None}, NamesAreListed(tree)
    PROVE  world'.honest /\ tree.st = world'.mtime =>
              tree.unmatched = Present(world'.work) \ Tracked(tree.entries)
  <1>1. now \in Nat /\ now + 1 \in Versions /\ now + 1 \notin (0..now) \cup {None}
    BY UserSteps, VersionsAreNumbers, RepoAssumption DEF RepoTypeOK
  <1> QED
    BY <1>1, UserSteps DEF NamesAreListed

LEMMA UserKeepsInv ==
    ASSUME RepoInv, ~RacyIndex, User
    PROVE  StampsAreOld' /\ CacheKnows' /\ RequestKnows'
  <1> USE DEF RepoInv
  <1>1. now \in Nat /\ now + 1 \in Versions /\ now + 1 \notin (0..now) \cup {None}
    BY UserSteps, VersionsAreNumbers, RepoAssumption DEF RepoTypeOK
  <1>2. UNCHANGED <<repo, pc, req>> /\ now' = now + 1 /\ world'.honest = world.honest
    BY UserSteps
  <1>3. StampsAreOld'
    <2>1. (0..now) \subseteq (0..now') /\ now + 1 \in 0..now'
      BY <1>1, <1>2
    <2> QED
      BY <1>2, <2>1, UserSteps DEF StampsAreOld
  <1>4. repo # None =>
           /\ {repo.index_stat, repo.staged_index_stat} \subseteq (0..now) \cup {None}
           /\ repo.index_tree # None => repo.index_tree.st \in (0..now) \cup {None}
    BY DEF StampsAreOld
  <1>5. \A st \in (0..now) \cup {None} :
           st = world'.stamp => st = world.stamp /\ world'.index = world.index
    BY <1>1, UserSteps
  <1>6. CacheKnows'
    <2> SUFFICES ASSUME repo # None
                 PROVE  CacheKnows'
      BY <1>2 DEF CacheKnows
    <2>1. repo.index_tree # None => NamesAreListed(repo.index_tree)'
      BY <1>2, <1>4, UserKeepsNames DEF CacheKnows, NamesAreListed
    <2>2. repo.index_tree # None => NamesAreApart(repo.index_tree)'
      BY <1>2 DEF CacheKnows, NamesAreApart
    <2>3. repo'.staged_head # None /\ repo'.staged_index_stat = world'.stamp /\ ~repo'.torn =>
             repo'.staged = Cardinality(StagedFiles(repo'.staged_head, world'.index))
      BY <1>2, <1>4, <1>5 DEF CacheKnows
    <2>4. repo'.index_tree # None /\ repo'.index_stat = world'.stamp =>
             repo'.index_tree.entries = world'.index
      BY <1>2, <1>4, <1>5 DEF CacheKnows
    <2> QED
      BY <1>2, <2>1, <2>2, <2>3, <2>4 DEF CacheKnows
  <1>7. RequestKnows'
    <2>1. pc \in StatKnown /\ pc # "list" => NamesAreListed(req.index)'
      BY <1>2, UserKeepsNames, RequestsHave DEF StampsAreOld, RequestKnows, NamesAreListed
    <2>2. pc = "stat" => req.git_index = world'.index
      BY UserSteps DEF RequestKnows
    <2>3. pc \in StatKnown /\ repo.index_stat = world'.stamp =>
             req.git_index = world'.index /\ req.index.entries = world'.index
      BY <1>4, <1>5, RequestsHave DEF RequestKnows, StatKnown, StagedKnown
    <2> QED
      BY <1>2, <2>1, <2>2, <2>3 DEF RequestKnows, NamesAreApart
  <1> QED
    BY <1>3, <1>6, <1>7

\* The steps of a request put into the cache only what belongs to its stamps.
LEMMA StatKeepsInv ==
    ASSUME RepoInv, StatIndex
    PROVE  StampsAreOld' /\ CacheKnows' /\ RequestKnows'
  <1> USE DEF RepoInv
  <1> DEFINE old == repo.index_tree
             new == TreeFor(old)
  <1>1. /\ repo \in Cached /\ req \in Request /\ world \in World /\ old \in Tree \cup {None}
        /\ pc = "stat"
    BY DEF StatIndex, RequestKnows, RepoTypeOK, Cached
  <1>2. /\ repo' = [repo EXCEPT !.index_tree = None, !.index_stat = world.stamp]
        /\ req' = [req EXCEPT !.index = new]
        /\ pc' = "staged" /\ UNCHANGED <<now, world>>
    BY DEF StatIndex, Step
  <1>3. /\ repo'.index_tree = None /\ repo'.index_stat = world.stamp
        /\ repo'.staged_head = repo.staged_head /\ repo'.staged = repo.staged
        /\ repo'.staged_index_stat = repo.staged_index_stat /\ repo'.probe = repo.probe
        /\ repo' \in Cached /\ repo'.torn = repo.torn
    BY <1>1, <1>2 DEF Cached, World
  <1>4. /\ req'.index = new /\ req'.git_index = req.git_index /\ req'.untracked = req.untracked
        /\ req'.since = req.since /\ req'.probed = req.probed /\ req'.stats = req.stats
    BY <1>1, <1>2 DEF Request
  <1>5. /\ new \in Tree /\ new.include_untracked = req.untracked
        /\ \/ new = old /\ old # None /\ repo.index_stat = world.stamp
           \/ new.entries = req.git_index /\ new.st = None /\ new.unmatched = {}
           \/ /\ new.entries = req.git_index /\ old # None
              /\ new.st = old.st /\ new.unmatched = old.unmatched
              /\ Tracked(old.entries) = Tracked(req.git_index)
    BY <1>1, TreesFor
  <1> HIDE DEF new
  <1>6. /\ new.entries = world.index /\ new.entries = req.git_index
        /\ NamesAreApart(new) /\ NamesAreListed(new)
        /\ new.st \in (0..now) \cup {None} /\ world.mtime # None
    <2>0. req.git_index = world.index /\ repo # None /\ world.mtime # None
      BY <1>1, RepoAssumption DEF RequestKnows, World
    <2>1. CASE new = old /\ old # None /\ repo.index_stat = world.stamp
      BY <2>0, <2>1 DEF CacheKnows, StampsAreOld
    <2>2. CASE new.entries = req.git_index /\ new.st = None /\ new.unmatched = {}
      BY <2>0, <2>2 DEF NamesAreApart, NamesAreListed
    <2>3. CASE /\ new.entries = req.git_index /\ old # None
               /\ new.st = old.st /\ new.unmatched = old.unmatched
               /\ Tracked(old.entries) = Tracked(req.git_index)
      BY <2>0, <2>3 DEF NamesAreApart, NamesAreListed, CacheKnows, StampsAreOld
    <2> QED
      BY <1>5, <2>1, <2>2, <2>3
  <1>7. StampsAreOld'
    <2>1. repo # None /\ now' = now /\ world' = world
      BY <1>1, <1>2, RequestsHave DEF RequestKnows
    <2> QED
      BY <1>3, <1>4, <1>6, <2>1 DEF StampsAreOld
  <1>8. CacheKnows'
    <2>1. repo # None /\ world' = world
      BY <1>1, <1>2, RequestsHave DEF RequestKnows
    <2> QED
      BY <1>3, <2>1 DEF CacheKnows
  <1>9. RequestKnows'
    <2>1. new # None /\ NamesAreApart(req.index)' /\ NamesAreListed(req.index)' /\ repo' # None
      BY <1>2, <1>3, <1>4, <1>5, <1>6, RepoAssumption DEF NamesAreApart, NamesAreListed
    <2> QED
      BY <1>1, <1>2, <1>3, <1>4, <1>5, <1>6, <2>1 DEF RequestKnows
  <1> QED
    BY <1>7, <1>8, <1>9

\* So do those that list the directory: its mtime is from before the listing.
LEMMA ListingKeepsInv ==
    ASSUME RepoInv, StatDir \/ ListDir
    PROVE  StampsAreOld' /\ CacheKnows' /\ RequestKnows'
  <1> USE DEF RepoInv
  <1>1. /\ req.index \in Tree /\ req \in Request /\ world \in World
        /\ pc \in {"dir", "list"} /\ UNCHANGED <<now, world, repo>>
        /\ repo # None
    BY DEF StatDir, ListDir, Step, RequestKnows, StatKnown, StagedKnown, RepoTypeOK, Request
  <1>2. CacheKnows'
    BY <1>1 DEF CacheKnows, NamesAreListed, NamesAreApart
  <1>3. CASE StatDir
    <2>1. /\ pc = "dir" /\ req'.git_index = req.git_index /\ req'.untracked = req.untracked
          /\ req'.since = req.since /\ req'.probed = req.probed /\ req'.stats = req.stats
          /\ req'.index.entries = req.index.entries /\ req'.index # None
          /\ req'.index.include_untracked = req.index.include_untracked
          /\ req'.index.unmatched = req.index.unmatched
          /\ \/ pc' = "count" /\ req'.index = req.index
             \/ pc' = "list" /\ req'.index.st \in {req.index.st, world.mtime}
      <3>1. CASE pc' = "count"
        BY <1>1, <1>3, <3>1, RepoAssumption DEF StatDir, Step, Request
      <3>2. CASE pc' # "count"
        <4>1. req' = [req EXCEPT !.index.st = IF Enabled THEN world.mtime ELSE @] /\ pc' = "list"
          BY <1>3, <3>2 DEF StatDir, Step
        <4>2. pc = "dir"
          BY <1>3 DEF StatDir
        <4> QED
          BY <1>1, <4>1, <4>2, RepoAssumption DEF Request, Tree, World
      <3> QED
        BY <3>1, <3>2
    <2>2. StampsAreOld'
      <3>1. req'.index.st \in (0..now) \cup {None}
        BY <2>1, <1>1, RepoAssumption DEF StampsAreOld
      <3> QED
        BY <1>1, <2>1, <3>1 DEF StampsAreOld
    <2>3. NamesAreApart(req.index)' /\ (pc' # "list" => NamesAreListed(req.index)')
      BY <1>1, <2>1 DEF RequestKnows, StatKnown, StagedKnown, NamesAreApart, NamesAreListed
    <2> QED
      BY <1>1, <1>2, <2>1, <2>2, <2>3 DEF RequestKnows, StatKnown, StagedKnown
  <1>4. CASE ListDir
    <2> DEFINE unmatched == Present(world.work) \ Tracked(req.index.entries)
               found == req.candidates \cup unmatched \cup DirtyFiles(req.index.entries, world.work)
    <2>0. req' = [req EXCEPT !.index.unmatched = unmatched, !.candidates = found] /\ pc' = "count"
          /\ pc = "list"
      BY <1>4 DEF ListDir, Step
    <2>1. /\ req'.git_index = req.git_index /\ req'.untracked = req.untracked
          /\ req'.since = req.since /\ req'.probed = req.probed /\ req'.stats = req.stats
          /\ req'.index.entries = req.index.entries /\ req'.index # None
          /\ req'.index.include_untracked = req.index.include_untracked
          /\ req'.index.st = req.index.st /\ req'.index.unmatched = unmatched
      <3>1. unmatched \subseteq Files
        BY DEF Present, Tracked
      <3> HIDE DEF unmatched, found
      <3>2. req'.index = [req.index EXCEPT !.unmatched = unmatched]
        BY <1>1, <2>0 DEF Request
      <3>3. req'.index \in Tree
        BY <1>1, <3>1, <3>2 DEF Tree
      <3> QED
        BY <1>1, <2>0, <3>2, <3>3, RepoAssumption DEF Request, Tree
    <2>2. StampsAreOld'
      <3>1. req'.index.st \in (0..now) \cup {None}
        BY <2>1, <1>1, RepoAssumption DEF StampsAreOld
      <3> QED
        BY <1>1, <2>1, <3>1 DEF StampsAreOld
    <2>3. NamesAreApart(req.index)' /\ NamesAreListed(req.index)'
      BY <1>1, <2>1 DEF NamesAreApart, NamesAreListed
    <2> QED
      BY <1>1, <1>2, <2>0, <2>1, <2>2, <2>3 DEF RequestKnows, StatKnown, StagedKnown
  <1> QED
    BY <1>3, <1>4

\* A request may begin and end at any moment.
LEMMA RequestKeepsInv ==
    ASSUME RepoInv, ~Errors,
           \/ \E skip \in BOOLEAN : Open(skip)
           \/ ProbeEnds \/ ReadHead \/ ReadIndex \/ Staged \/ CountStaged
           \/ StatFiles \/ CountDirty
           \/ PutTree \/ Close \/ Panic \/ Evict
    PROVE  StampsAreOld' /\ CacheKnows' /\ RequestKnows'
  <1> USE DEF RepoInv
  <1>0. /\ world \in World /\ req \in Request /\ repo \in Cached \cup {None}
        /\ UNCHANGED <<now, world>> /\ now \in Nat
    BY StagedSteps, VersionsAreNumbers
    DEF RepoTypeOK, Open, ProbeEnds, ReadHead, ReadIndex, Staged, StatFiles, CountDirty,
        PutTree, Close, Panic, Evict, Step
  <1>1. ASSUME NEW skip \in BOOLEAN, Open(skip)
        PROVE  StampsAreOld' /\ CacheKnows' /\ RequestKnows'
    <2> DEFINE r == IF repo = None THEN NewRepo ELSE repo
    <2>1. /\ pc = "idle" /\ pc' = "head" /\ repo' = r
          /\ req' = [NoRequest EXCEPT !.skip = skip, !.since = now,
                                      !.probed = r.probe # "running"]
      BY <1>1 DEF Open, Step
    <2>2. /\ req'.since = now /\ req'.index = None /\ req'.stats = NoCounts
          /\ req'.probed = (repo'.probe # "running")
      BY <2>1 DEF NoRequest
    <2>3. repo' # None
      BY <2>1, NewValues
    <2>4. StampsAreOld'
      <3>1. CASE repo = None
        BY <1>0, <2>1, <2>2, <3>1 DEF StampsAreOld, NewRepo
      <3>2. CASE repo # None
        BY <1>0, <2>1, <2>2, <3>2 DEF StampsAreOld
      <3> QED
        BY <3>1, <3>2
    <2>5. CacheKnows'
      <3>1. CASE repo = None
        BY <1>0, <2>1, <3>1 DEF CacheKnows, NewRepo
      <3>2. CASE repo # None
        BY <1>0, <2>1, <3>2 DEF CacheKnows, NamesAreListed, NamesAreApart
      <3> QED
        BY <3>1, <3>2
    <2>6. RequestKnows'
      <3>1. pc' = "head" /\ req'.stats.unstaged = 0 /\ req'.stats.untracked = 0
        BY <2>1, <2>2 DEF NoCounts
      <3> QED
        BY <2>2, <2>3, <3>1 DEF RequestKnows, StatKnown, StagedKnown
    <2> QED
      BY <2>4, <2>5, <2>6
  <1>2. CASE ProbeEnds
    <2>1. /\ repo \in Cached /\ repo' = [repo EXCEPT !.probe = IF world.honest THEN "yes" ELSE "no"]
          /\ UNCHANGED <<pc, req>>
      BY <1>0, <1>2 DEF ProbeEnds
    <2>2. /\ repo'.index_tree = repo.index_tree /\ repo'.index_stat = repo.index_stat
          /\ repo'.staged_head = repo.staged_head /\ repo'.staged = repo.staged
          /\ repo'.staged_index_stat = repo.staged_index_stat /\ repo'.torn = repo.torn
          /\ repo'.probe = (IF world.honest THEN "yes" ELSE "no")
          /\ repo' # None /\ repo # None
      BY <1>2, <2>1, RepoAssumption DEF ProbeEnds, Cached
    <2> QED
      BY <1>0, <2>1, <2>2
      DEF StampsAreOld, CacheKnows, RequestKnows, NamesAreListed, NamesAreApart
  <1>3. CASE ReadHead \/ ReadIndex \/ StatFiles
    <2>1. /\ repo' = repo /\ pc # "idle" /\ pc' # "idle" /\ pc' # "list" /\ req'.index = req.index
          /\ pc' \in StatKnown =>
                pc \in StatKnown \ {"list"} /\ req'.untracked = req.untracked /\ req'.git_index = req.git_index
          /\ pc' = "stat" => req'.git_index = world.index
          /\ pc' # "compute"
          /\ req'.since = req.since /\ req'.probed = req.probed /\ req'.stats = req.stats
          /\ pc \notin {"put", "answer"} /\ pc' # "put"
      BY <1>0, <1>3 DEF ReadHead, ReadIndex, StatFiles, Step, StatKnown, StagedKnown, Request
    <2>2. StampsAreOld' /\ CacheKnows'
      BY <1>0, <2>1 DEF StampsAreOld, CacheKnows, NamesAreListed, NamesAreApart
    <2>3. RequestKnows'
      BY <1>0, <2>1 DEF RequestKnows, NamesAreListed, NamesAreApart
    <2> QED
      BY <2>2, <2>3
  <1>4. CASE Staged \/ CountStaged
    <2>1. /\ req'.index = req.index /\ req'.untracked = req.untracked
          /\ req'.git_index = req.git_index /\ req'.since = req.since
          /\ req'.probed = req.probed /\ req'.stats.unstaged = req.stats.unstaged
          /\ req'.stats.untracked = req.stats.untracked
      BY <1>0, <1>4, StagedSteps DEF Request, Counts
    <2>2. /\ pc \in {"staged", "compute"} /\ pc' \in {"compute", "files", "put"} /\ repo # None /\ repo' # None
      BY <1>4, StagedSteps, RequestsHave, RepoAssumption
    <2>3. StampsAreOld'
      BY <1>0, <1>4, <2>1, <2>2, StagedSteps DEF StampsAreOld
    <2>4. CacheKnows'
      <3>1. repo.index_stat = world.stamp => req.git_index = world.index
        BY <2>2 DEF RequestKnows, StatKnown
      <3>2. pc = "compute" => /\ req.dirty /\ req.head # None /\ repo.staged_head = req.head
                              /\ repo.staged_index_stat = repo.index_stat
        BY DEF RequestKnows
      <3>3. repo'.staged_head # None /\ repo'.staged_index_stat = world.stamp /\ ~repo'.torn =>
               repo'.staged = Cardinality(StagedFiles(repo'.staged_head, world.index))
        <4>1. CASE repo' = repo
          BY <2>2, <4>1 DEF CacheKnows
        <4>2. CASE repo' # repo
          BY <1>4, <3>1, <3>2, <4>2, StagedSteps
        <4> QED
          BY <4>1, <4>2
      <3>4. /\ repo'.index_tree = repo.index_tree /\ repo'.index_stat = repo.index_stat
            /\ repo'.probe = repo.probe
        BY <1>4, StagedSteps
      <3> QED
        BY <1>0, <2>2, <3>3, <3>4 DEF CacheKnows, NamesAreListed, NamesAreApart
    <2>5. RequestKnows'
      <3>1. repo'.index_stat = repo.index_stat /\ repo'.probe = repo.probe
        BY <1>4, StagedSteps
      <3>2. pc' = "compute" =>
               /\ req'.dirty /\ req'.head # None
               /\ repo'.staged_head = req'.head /\ repo'.staged_index_stat = repo'.index_stat
        BY <1>4, <3>1, StagedSteps
      <3> QED
        BY <1>0, <2>1, <2>2, <3>1, <3>2 DEF RequestKnows, StatKnown, StagedKnown, NamesAreListed, NamesAreApart
    <2> QED
      BY <2>3, <2>4, <2>5
  <1>5. CASE CountDirty
    <2>1. /\ repo' = repo /\ pc = "count" /\ pc' = "put" /\ req'.index = req.index
          /\ req'.untracked = req.untracked /\ req'.git_index = req.git_index
          /\ req'.since = req.since /\ req'.probed = req.probed
      BY <1>0, <1>5 DEF CountDirty, Step, Request
    <2> QED
      BY <1>0, <2>1 DEF StampsAreOld, CacheKnows, RequestKnows, NamesAreListed, NamesAreApart,
                        StatKnown, StagedKnown
  <1>6. CASE PutTree
    <2>1. /\ pc = "put" /\ pc' = "answer" /\ req' = req /\ repo \in Cached
          /\ repo' = [repo EXCEPT !.index_tree = req.index]
      BY <1>0, <1>6, RequestsHave DEF PutTree, Step, RequestKnows
    <2>2. /\ repo'.index_tree = req.index /\ repo'.index_stat = repo.index_stat
          /\ repo'.staged_head = repo.staged_head /\ repo'.staged = repo.staged
          /\ repo'.staged_index_stat = repo.staged_index_stat
          /\ repo'.probe = repo.probe /\ repo' # None /\ repo # None
      BY <1>0, <2>1, RepoAssumption DEF Cached, Request
    <2>3. StampsAreOld'
      BY <1>0, <2>1, <2>2 DEF StampsAreOld
    <2>4. CacheKnows'
      BY <1>0, <2>1, <2>2 DEF CacheKnows, RequestKnows, NamesAreListed, NamesAreApart, StatKnown, StagedKnown
    <2>5. RequestKnows'
      BY <1>0, <2>1, <2>2 DEF RequestKnows, StatKnown, StagedKnown
    <2> QED
      BY <2>3, <2>4, <2>5
  <1>7. CASE Close \/ Panic
    <2>1. /\ pc' = "idle" /\ repo' = repo /\ req'.since = 0 /\ req'.index = None
          /\ req'.stats = NoCounts
      BY <1>7 DEF Close, Panic, Step, NoRequest
    <2> QED
      BY <1>0, <2>1 DEF StampsAreOld, CacheKnows, RequestKnows, NamesAreListed, NamesAreApart,
                        StatKnown, StagedKnown, NoCounts
  <1>8. CASE Evict
    BY <1>0, <1>8 DEF Evict, StampsAreOld, CacheKnows, RequestKnows, StatKnown, StagedKnown
  <1> QED
    BY <1>1, <1>2, <1>3, <1>4, <1>5, <1>6, <1>7, <1>8

----------------------------------------------------------------------------
(* What is answered. *)

\* The staged counts of a request that nobody disturbs.
LEMMA QuietStaged ==
    ASSUME RepoInv, QuietRequestKnows, ~Errors, req.since = now, Staged \/ CountStaged
    PROVE  QuietRequestKnows' /\ pc' # "answer"
  <1> USE DEF RepoInv
  <1>0. /\ req \in Request /\ world \in World /\ pc \in {"staged", "compute"}
        /\ UNCHANGED <<now, world>>
    BY StagedSteps DEF RepoTypeOK
  <1>1. /\ req.head = world.head /\ req.untracked = world.untracked /\ req.dirty = world.dirty
        /\ req.git_index = world.index /\ repo.index_stat = world.stamp /\ repo # None
        /\ req.stats.unstaged = 0 /\ req.stats.untracked = 0
        /\ world.stamp # None
    BY <1>0, RepoAssumption, RequestsHave
    DEF QuietRequestKnows, RequestKnows, IndexKnown, StatKnown, World
  <1>2. /\ req'.head = req.head /\ req'.untracked = req.untracked /\ req'.dirty = req.dirty
        /\ req'.git_index = req.git_index
        /\ pc' # "compute" => req'.stats.staged = repo'.staged
        /\ req'.stats.unstaged = 0 /\ req'.stats.untracked = 0
        /\ repo'.index_stat = world.stamp
    <2>1. CASE pc' = "compute"
      BY <1>0, <1>1, <2>1, StagedSteps
    <2>2. CASE pc' # "compute"
      BY <1>0, <1>1, <2>2, StagedSteps DEF Request, Counts
    <2> QED
      BY <2>1, <2>2
  <1>3. pc' # "compute" /\ ~repo'.torn => repo'.staged = Truth.staged
    <2> SUFFICES ASSUME pc' # "compute", ~repo'.torn
                 PROVE  repo'.staged = Truth.staged
      OBVIOUS
    <2>1. CASE ~req.dirty \/ req.head = None
      <3>1. pc = "staged"
        BY <1>0, <2>1 DEF RequestKnows
      <3> QED
        BY <1>1, <2>1, <3>1, StagedSteps DEF Truth, StagedFiles
    <2>2. CASE req.dirty /\ req.head # None /\ StagedIsCached /\ repo' = repo
      BY <1>1, <2>2 DEF Truth, StagedIsCached, CacheKnows
    <2>3. CASE /\ req.dirty /\ req.head # None
               /\ repo'.staged = Cardinality(StagedFiles(req.head, req.git_index))
      BY <1>1, <2>3 DEF Truth
    <2> QED
      BY <2>1, <2>2, <2>3, StagedSteps
  <1>4. Truth' = Truth
    BY <1>0 DEF Truth
  <1>5. /\ pc' = "put" => ~world.dirty /\ ~world.untracked
        /\ pc' \in {"compute", "files", "put"}
    BY <1>0, <1>1, StagedSteps
  <1>6. pc' = "put" => FileCountsAreTrue'
    BY <1>2, <1>4, <1>5 DEF FileCountsAreTrue, Truth
  <1> QED
    BY <1>0, <1>1, <1>2, <1>3, <1>4, <1>5, <1>6
    DEF QuietRequestKnows, IndexKnown, StatKnown, StagedKnown

\* What a request that nobody disturbs finds in its files and its directory.
LEMMA QuietFiles ==
    ASSUME RepoInv, QuietRequestKnows, req.since = now,
           StatFiles \/ StatDir \/ ListDir \/ CountDirty
    PROVE  QuietRequestKnows' /\ pc' # "answer"
  <1> USE DEF RepoInv
  <1> DEFINE dirty == DirtyFiles(world.index, world.work)
             tracked == Tracked(world.index)
             names == Present(world.work) \ tracked
  <1>0. /\ req \in Request /\ world \in World /\ UNCHANGED <<now, world, repo>>
        /\ pc \in {"files", "dir", "list", "count"} /\ req.index \in Tree
    BY DEF StatFiles, StatDir, ListDir, CountDirty, Step, RepoTypeOK, RequestKnows,
           StatKnown, StagedKnown, Request
  <1>1. /\ req.head = world.head /\ req.untracked = world.untracked /\ req.dirty = world.dirty
        /\ req.git_index = world.index /\ repo.index_stat = world.stamp
        /\ (~repo.torn => req.stats.staged = Truth.staged) /\ repo # None
        /\ req.index.entries = world.index /\ req.index.include_untracked = req.untracked
        /\ req.index.unmatched \cap tracked = {}
        /\ pc # "list" => NamesAreListed(req.index)
    BY <1>0, RequestsHave DEF QuietRequestKnows, RequestKnows, IndexKnown, StatKnown, StagedKnown, NamesAreApart
  <1>2. Truth' = Truth /\ dirty \subseteq tracked /\ names \cap tracked = {}
    BY <1>0 DEF Truth, DirtyFiles
  <1>3. CASE StatFiles
    <2>1. /\ req' = [req EXCEPT !.candidates = dirty]
          /\ pc' = IF req.index.include_untracked THEN "dir" ELSE "count"
      BY <1>1, <1>3 DEF StatFiles, Step
    <2>2. /\ req'.head = req.head /\ req'.untracked = req.untracked /\ req'.dirty = req.dirty
          /\ req'.git_index = req.git_index /\ req'.stats = req.stats
          /\ req'.candidates = dirty
      BY <1>0, <2>1 DEF Request
    <2> HIDE DEF dirty, names, tracked
    <2>3. pc' = "count" => dirty \cap tracked = dirty /\ ~req.untracked
      BY <1>1, <1>2, <2>1
    <2>4. pc' \in {"dir", "count"} /\ (pc' = "dir" => req.untracked)
      BY <1>1, <2>1
    <2> QED
      BY <1>0, <1>1, <1>2, <2>2, <2>3, <2>4
      DEF QuietRequestKnows, IndexKnown, StatKnown, StagedKnown, dirty, tracked
  <1>4. CASE StatDir
    <2>0. pc = "dir" /\ req.candidates = dirty /\ req.untracked
      BY <1>0, <1>4 DEF StatDir, QuietRequestKnows
    <2>1. CASE Enabled /\ req.index.st = world.mtime
      <3>1. pc' = "count" /\ req' = [req EXCEPT !.candidates = @ \cup req.index.unmatched]
        BY <1>4, <2>1 DEF StatDir, Step
      <3>2. /\ req'.head = req.head /\ req'.untracked = req.untracked /\ req'.dirty = req.dirty
            /\ req'.git_index = req.git_index /\ req'.stats = req.stats /\ req'.probed = req.probed
            /\ req'.candidates = dirty \cup req.index.unmatched
        BY <1>0, <2>0, <3>1 DEF Request
      <3>3. req.probed => world.honest
        BY <1>0, <1>1, <2>0, <2>1 DEF Enabled, RequestKnows, CacheKnows, RepoTypeOK, Cached
      <3>4. req.probed \/ world.honest => req.index.unmatched = names
        BY <1>1, <2>0, <2>1, <3>3 DEF NamesAreListed
      <3>5. req'.candidates \cap tracked = dirty /\ req'.candidates \ tracked = req.index.unmatched
        BY <1>1, <1>2, <3>2
      <3> HIDE DEF dirty, names, tracked
      <3> QED
        BY <1>0, <1>1, <1>2, <3>1, <3>2, <3>4, <3>5
        DEF QuietRequestKnows, IndexKnown, StatKnown, StagedKnown, dirty, tracked, names
    <2>2. CASE ~(Enabled /\ req.index.st = world.mtime)
      <3>1. pc' = "list" /\ req' = [req EXCEPT !.index.st = IF Enabled THEN world.mtime ELSE @]
        BY <1>4, <2>2 DEF StatDir, Step
      <3>2. /\ req'.head = req.head /\ req'.untracked = req.untracked /\ req'.dirty = req.dirty
            /\ req'.git_index = req.git_index /\ req'.stats = req.stats
            /\ req'.candidates = dirty
        BY <1>0, <2>0, <3>1 DEF Request
      <3> QED
        BY <1>0, <1>1, <1>2, <2>0, <3>1, <3>2
        DEF QuietRequestKnows, IndexKnown, StatKnown, StagedKnown
    <2> QED
      BY <2>1, <2>2
  <1>5. CASE ListDir
    <2>0. pc = "list" /\ req.candidates = dirty /\ req.untracked /\ pc' = "count"
      BY <1>0, <1>5 DEF ListDir, Step, QuietRequestKnows
    <2>1. req' = [req EXCEPT !.index.unmatched = names, !.candidates = @ \cup names \cup dirty]
      BY <1>1, <1>5 DEF ListDir, Step
    <2>2. /\ req'.head = req.head /\ req'.untracked = req.untracked /\ req'.dirty = req.dirty
          /\ req'.git_index = req.git_index /\ req'.stats = req.stats /\ req'.probed = req.probed
          /\ req'.candidates = dirty \cup names
      BY <1>0, <2>0, <2>1 DEF Request
    <2>3. req'.candidates \cap tracked = dirty /\ req'.candidates \ tracked = names
      BY <1>2, <2>2
    <2> HIDE DEF dirty, names, tracked
    <2> QED
      BY <1>0, <1>1, <1>2, <2>0, <2>2, <2>3
      DEF QuietRequestKnows, IndexKnown, StatKnown, StagedKnown, dirty, tracked, names
  <1>6. CASE CountDirty
    <2> DEFINE unstaged == IF req.dirty THEN Cardinality(req.candidates \cap tracked) ELSE 0
               untracked == IF req.untracked THEN Cardinality(req.candidates \ tracked) ELSE 0
    <2>0. pc = "count" /\ pc' = "put"
      BY <1>6 DEF CountDirty, Step
    <2>1. req' = [req EXCEPT !.stats.unstaged = unstaged, !.stats.untracked = untracked]
      BY <1>1, <1>6 DEF CountDirty, Step
    <2>2. /\ req.candidates \cap tracked = dirty
          /\ (req.probed \/ world.honest) /\ req.untracked => req.candidates \ tracked = names
      BY <1>0, <2>0 DEF QuietRequestKnows
    <2>3. unstaged = Truth.unstaged
      BY <1>1, <2>2 DEF Truth
    <2>4. req.probed \/ world.honest => untracked = Truth.untracked
      BY <1>1, <2>2 DEF Truth
    <2> HIDE DEF unstaged, untracked
    <2>5. /\ req'.head = req.head /\ req'.untracked = req.untracked /\ req'.dirty = req.dirty
          /\ req'.git_index = req.git_index /\ req'.probed = req.probed
          /\ req'.stats.staged = req.stats.staged
          /\ req'.stats.unstaged = unstaged /\ req'.stats.untracked = untracked
      BY <1>0, <2>1 DEF Request, Counts
    <2>6. FileCountsAreTrue'
      BY <1>0, <1>2, <2>3, <2>4, <2>5 DEF FileCountsAreTrue
    <2> QED
      BY <1>0, <1>1, <1>2, <2>0, <2>5, <2>6
      DEF QuietRequestKnows, IndexKnown, StatKnown, StagedKnown
  <1> QED
    BY <1>3, <1>4, <1>5, <1>6

\* Every step of an undisturbed request keeps what the earlier ones have read true.
LEMMA QuietNext ==
    ASSUME RepoInv, QuietRequestKnows, QuietAnswerIsTrue, ~RacyIndex, ~Errors,
           [RepoNext]_repoVars
    PROVE  QuietRequestKnows' /\ QuietAnswerIsTrue'
  <1> USE DEF RepoInv
  <1>1. CASE User
    <2>1. req.since \in 0..now /\ now \in Nat /\ req' = req /\ now' = now + 1
      BY <1>1, UserSteps, VersionsAreNumbers DEF StampsAreOld, RepoTypeOK
    <2>2. req'.since # now'
      BY <2>1
    <2> QED
      BY <2>2 DEF QuietRequestKnows, QuietAnswerIsTrue
  <1>2. CASE ProbeEnds
    <2>1. /\ repo'.index_stat = repo.index_stat /\ repo'.torn = repo.torn
          /\ UNCHANGED <<now, world, pc, req>>
      BY <1>2 DEF ProbeEnds, RepoTypeOK, Cached
    <2>2. Truth' = Truth
      BY <2>1 DEF Truth
    <2> QED
      BY <2>1, <2>2 DEF QuietRequestKnows, QuietAnswerIsTrue, FileCountsAreTrue
  <1>3. ASSUME NEW skip \in BOOLEAN, Open(skip)
        PROVE  QuietRequestKnows' /\ QuietAnswerIsTrue'
    BY <1>3 DEF Open, Step, QuietRequestKnows, QuietAnswerIsTrue, IndexKnown, StatKnown, StagedKnown
  <1>4. CASE ReadHead \/ ReadIndex
    <2>1. /\ req \in Request /\ world \in World
      BY DEF RepoTypeOK
    <2>2. CASE ReadHead
      BY <2>1, <2>2 DEF ReadHead, Step, QuietRequestKnows, QuietAnswerIsTrue,
                        IndexKnown, StatKnown, StagedKnown, Request
    <2>3. CASE ReadIndex
      BY <2>1, <2>3 DEF ReadIndex, Step, QuietRequestKnows, QuietAnswerIsTrue,
                        IndexKnown, StatKnown, StagedKnown, Request
    <2> QED
      BY <1>4, <2>2, <2>3
  <1>5. CASE StatIndex
    <2>1. /\ req \in Request /\ repo \in Cached /\ pc = "stat" /\ pc' = "staged"
          /\ UNCHANGED <<now, world>>
      BY <1>5 DEF StatIndex, Step, RepoTypeOK, RequestKnows
    <2>2. /\ repo'.index_stat = world.stamp
          /\ req'.head = req.head /\ req'.untracked = req.untracked /\ req'.dirty = req.dirty
          /\ req'.git_index = req.git_index /\ req'.since = req.since
      BY <1>5, <2>1 DEF StatIndex, Step, Cached, Request
    <2> QED
      BY <2>1, <2>2 DEF QuietRequestKnows, QuietAnswerIsTrue, IndexKnown, StatKnown, StagedKnown
  <1>6. CASE Staged \/ CountStaged \/ StatFiles \/ StatDir \/ ListDir \/ CountDirty
    <2>1. req'.since = req.since /\ now' = now
      <3>1. req \in Request
        BY DEF RepoTypeOK
      <3> QED
        BY <1>6, <3>1, StagedSteps DEF StatFiles, StatDir, ListDir, CountDirty, Step, Request
    <2>2. CASE req.since = now
      BY <1>6, <2>2, QuietStaged, QuietFiles DEF QuietAnswerIsTrue
    <2>3. CASE req.since # now
      BY <2>1, <2>3 DEF QuietRequestKnows, QuietAnswerIsTrue
    <2> QED
      BY <2>2, <2>3
  <1>7. CASE PutTree
    <2>1. pc = "put" /\ pc' = "answer" /\ UNCHANGED <<now, world, req>>
      BY <1>7 DEF PutTree, Step
    <2>2. Truth' = Truth
      BY <2>1 DEF Truth
    <2>3. repo'.torn = repo.torn
      BY <1>7, RequestsHave DEF PutTree, Step, Cached
    <2> QED
      BY <2>1, <2>2, <2>3 DEF QuietRequestKnows, QuietAnswerIsTrue, FileCountsAreTrue,
                        IndexKnown, StatKnown, StagedKnown
  <1>8. CASE Close \/ Panic \/ Evict
    BY <1>8 DEF Close, Panic, Evict, Step, QuietRequestKnows, QuietAnswerIsTrue
  <1>9. CASE UNCHANGED repoVars
    BY <1>9 DEF repoVars, QuietRequestKnows, QuietAnswerIsTrue, FileCountsAreTrue, Truth
  <1> QED
    BY <1>1, <1>2, <1>3, <1>4, <1>5, <1>6, <1>7, <1>8, <1>9 DEF RepoNext, Build

----------------------------------------------------------------------------
(* Theorems. *)

LEMMA RepoInits == RepoInit => RepoInv /\ QuietRequestKnows /\ QuietAnswerIsTrue
  <1> SUFFICES ASSUME RepoInit
               PROVE  RepoInv /\ QuietRequestKnows /\ QuietAnswerIsTrue
    OBVIOUS
  <1>1. PICK honest \in BOOLEAN, start \in [Files -> {0, 1}] :
           world = [head |-> None, index |-> [f \in Files |-> 0], stamp |-> 0,
                    work |-> start, mtime |-> 1, honest |-> honest,
                    untracked |-> TRUE, dirty |-> TRUE]
    BY DEF RepoInit
  <1>2. world \in World
    BY <1>1, Files0, VersionsAreNumbers DEF World, Contents
  <1>3. RepoTypeOK
    BY <1>2, NewValues, VersionsAreNumbers DEF RepoInit, RepoTypeOK, StatKnown, StagedKnown
  <1>4. StampsAreOld
    BY <1>1 DEF RepoInit, StampsAreOld, NoRequest
  <1> QED
    BY <1>3, <1>4 DEF RepoInit, RepoInv, CacheKnows, RequestKnows, QuietRequestKnows,
                      QuietAnswerIsTrue, StatKnown, StagedKnown, NoRequest, NoCounts

\* One step keeps it, whoever makes it.
LEMMA RepoInvNext ==
    ASSUME ~RacyIndex, ~Errors, RepoInv, [RepoNext]_repoVars
    PROVE  RepoInv'
  <1>1. RepoTypeOK'
    BY RepoTypesNext DEF RepoInv
  <1>2. CASE UNCHANGED repoVars
    BY <1>2 DEF repoVars, RepoInv, RepoTypeOK, StampsAreOld, CacheKnows, RequestKnows,
                NamesAreListed, NamesAreApart
  <1>3. CASE RepoNext
    BY <1>1, <1>3, UserKeepsInv, StatKeepsInv, ListingKeepsInv, RequestKeepsInv
    DEF RepoNext, Build, RepoInv
  <1> QED
    BY <1>2, <1>3

\* What is cached is what the stamps say.
LEMMA InvIsCache == RepoInv => CacheIsTrue
  BY DEF RepoInv, CacheIsTrue, CacheKnows, NamesAreListed

\* Whatever the user changes between two reads of whatever request, and wherever a panic
\* cuts it short, what the repository keeps for the next request is what was there
\* under its stamp (repo.rs, index_tree_or_rebuild and the staged path; scan.rs,
\* scan_dirs), but for the staged counts after a panic in compute_staged, whose keys are
\* stored first (torn).  It needs an index that does not change between its reading and its
\* stat, and a libgit2 that does not fail.  In these three places the code is wrong, see README.
THEOREM CacheStaysTrue ==
    ASSUME ~RacyIndex, ~Errors
    PROVE  RepoSpec => []CacheIsTrue
  <1>1. RepoInit => RepoInv
    BY RepoInits
  <1>2. RepoInv /\ [RepoNext]_repoVars => RepoInv'
    BY RepoInvNext
  <1> QED
    BY <1>1, <1>2, InvIsCache, PTL DEF RepoSpec

\* Whatever was cached before, an answer is true when nobody changed anything while it was
\* computed, but for staged counts that a panic in compute_staged has torn: the stamps, HEAD and
\* the mtime of the directory together miss no change (repo.rs, build_fields).
THEOREM QuietAnswersAreTrue ==
    ASSUME ~RacyIndex, ~Errors
    PROVE  RepoSpec => []QuietAnswerIsTrue
  <1>1. RepoInit => RepoInv /\ QuietRequestKnows /\ QuietAnswerIsTrue
    BY RepoInits
  <1>2. RepoInv /\ QuietRequestKnows /\ QuietAnswerIsTrue /\ [RepoNext]_repoVars =>
           (RepoInv /\ QuietRequestKnows /\ QuietAnswerIsTrue)'
    BY RepoInvNext, QuietNext
  <1> QED
    BY <1>1, <1>2, PTL DEF RepoSpec
=============================================================================
