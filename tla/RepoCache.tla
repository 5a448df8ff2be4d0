----------------------------- MODULE RepoCache -----------------------------
(***************************************************************************)
(* One cached repository of the git status library (repo.rs) and what it   *)
(* keeps from request to request: the staged counts, the tree of the index *)
(* and the untracked names of its directory (scan.rs, untracked_cache.rs). *)
(*                                                                         *)
(* The library reads HEAD, the configuration, the index, its stat, every   *)
(* file and the directory one after the other while the user works; a      *)
(* change may fall between any two.  A version number stands for a content *)
(* and its stat: 0 is "no such file", every edit makes a new one.  Counts  *)
(* have no caps here (see Scan).                                           *)
(***************************************************************************)
EXTENDS Naturals, FiniteSets

CONSTANTS Files,        \* names in the working directory
          None,
          MaxChanges,   \* bound: what the user does
          RacyIndex,    \* the index may change between its reading and its stat
          Errors        \* libgit2 may fail to compute the staged diff

VARIABLES
    now,    \* the newest version
    world,  \* the repository on disk, see World
    repo,   \* struct Repo: the cached state, None when the repository is not cached
    pc,     \* where build_fields is, "idle" between requests
    req     \* its local variables

repoVars == <<now, world, repo, pc, req>>

Versions == 0..MaxChanges + 1
Contents == [Files -> Versions]

\* head: the tree of HEAD, None on an unborn branch; stamp and mtime: the stat of
\* .git/index and of the directory; honest: creating and removing a file changes
\* the mtime of the directory; untracked, dirty: status.showUntrackedFiles and
\* bash.showDirtyState are not false.
World == [head : Contents \cup {None}, index : Contents, stamp : Versions,
          work : Contents, mtime : Versions, honest : BOOLEAN,
          untracked : BOOLEAN, dirty : BOOLEAN]

Counts == [staged : Nat, unstaged : Nat, untracked : Nat]
NoCounts == [staged |-> 0, unstaged |-> 0, untracked |-> 0]

\* Index: entries, and the directory as it was listed last.
Tree == [entries : Contents, include_untracked : BOOLEAN,
         st : Versions \cup {None}, unmatched : SUBSET Files]

\* Repo, and the local variables of a request.
\* torn, a history variable: HEAD and the stat were stored, the counts that belong to them not (yet).
Cached == [staged_head : Contents \cup {None}, staged_index_stat : Versions \cup {None}, staged : Nat,
           torn : BOOLEAN,
           index_tree : Tree \cup {None}, index_stat : Versions \cup {None},
           probe : {"running", "yes", "no"}]
Request == [skip : BOOLEAN, since : Versions, probed : BOOLEAN, head : Contents \cup {None},
            untracked : BOOLEAN, dirty : BOOLEAN, git_index : Contents, index : Tree \cup {None},
            candidates : SUBSET Files, stats : Counts]

\* A directory has finitely many names; None is nothing else.
ASSUME RepoAssumption ==
    /\ MaxChanges \in Nat
    /\ {RacyIndex, Errors} \subseteq BOOLEAN
    /\ IsFiniteSet(Files)
    /\ None \notin Contents /\ None \notin Versions /\ None \notin Tree /\ None \notin Cached

Tracked(entries) == {f \in Files : entries[f] # 0}
Present(work) == Tracked(work)

StagedFiles(head, entries) ==
    IF head = None THEN Tracked(entries) ELSE {f \in Files : head[f] # entries[f]}

\* is_modified, or no such file.
DirtyFiles(entries, work) == {f \in Tracked(entries) : work[f] # entries[f]}

\* What a request must answer when nothing moves.
Truth ==
    [staged    |-> IF world.dirty THEN Cardinality(StagedFiles(world.head, world.index)) ELSE 0,
     unstaged  |-> IF world.dirty THEN Cardinality(DirtyFiles(world.index, world.work)) ELSE 0,
     untracked |-> IF world.untracked
                      THEN Cardinality(Present(world.work) \ Tracked(world.index)) ELSE 0]

\* Repo::open
NewRepo == [staged_head |-> None, staged_index_stat |-> None, staged |-> 0, torn |-> FALSE,
            index_tree |-> None, index_stat |-> None, probe |-> "running"]

NoRequest == [skip |-> FALSE, since |-> 0, probed |-> FALSE, head |-> None, untracked |-> FALSE,
              dirty |-> FALSE, git_index |-> [f \in Files |-> 0], index |-> None,
              candidates |-> {}, stats |-> NoCounts]

\* A clone, or a directory after git init.
RepoInit ==
    /\ now = 1
    /\ \E honest \in BOOLEAN, start \in [Files -> {0, 1}] :
          world = [head |-> None, index |-> [f \in Files |-> 0], stamp |-> 0,
                   work |-> start, mtime |-> 1, honest |-> honest,
                   untracked |-> TRUE, dirty |-> TRUE]
    /\ repo = None
    /\ pc = "idle"
    /\ req = NoRequest

-----------------------------------------------------------------------------
(* The user *)

Changed(w) ==
    /\ now <= MaxChanges
    /\ now' = now + 1
    /\ world' = w
    /\ UNCHANGED <<repo, pc, req>>

New == now + 1

\* The mtime of the directory after a name has come or gone.
Touched(f, v) == IF world.honest /\ (v = 0) # (world.work[f] = 0) THEN New ELSE world.mtime

Edit(f, v) == Changed([world EXCEPT !.work[f] = v, !.mtime = Touched(f, v)])

\* git add, git rm --cached; not in the window of RacyIndex.
Add(f, v) ==
    /\ RacyIndex \/ pc # "stat"
    /\ v # world.index[f]
    /\ Changed([world EXCEPT !.index[f] = v, !.stamp = New])

Commit == world.index # world.head /\ Changed([world EXCEPT !.head = world.index])

Configure ==
    \/ Changed([world EXCEPT !.untracked = ~@])
    \/ Changed([world EXCEPT !.dirty = ~@])

User == \/ \E f \in Files : \/ Edit(f, New)
                            \/ world.work[f] # 0 /\ Edit(f, 0)
                            \/ \E v \in {0, world.work[f]} : Add(f, v)
        \/ Commit
        \/ Configure

-----------------------------------------------------------------------------
(* A request: get_or_open and build_fields *)

\* probe_support has made its files, slept and looked.
ProbeEnds ==
    /\ repo # None /\ repo.probe = "running"
    /\ repo' = [repo EXCEPT !.probe = IF world.honest THEN "yes" ELSE "no"]
    /\ UNCHANGED <<now, world, pc, req>>

\* UntrackedCache::enabled: supported until the probe says otherwise.
Enabled == repo.probe # "no"

Step(to, r, q) ==
    /\ pc' = to
    /\ repo' = r
    /\ req' = q
    /\ UNCHANGED <<now, world>>

Open(skip) ==
    /\ pc = "idle"
    /\ LET r == IF repo = None THEN NewRepo ELSE repo IN
       Step("head", r, [NoRequest EXCEPT !.skip = skip, !.since = now,
                                         !.probed = r.probe # "running"])

\* HEAD is read anew for every request.
ReadHead ==
    /\ pc = "head"
    /\ Step(IF req.skip THEN "answer" ELSE "index", repo, [req EXCEPT !.head = world.head])

\* get_index_stats: the switches, then the index.
ReadIndex ==
    /\ pc = "index"
    /\ Step("stat", repo, [req EXCEPT !.untracked = world.untracked, !.dirty = world.dirty,
                                      !.git_index = world.index])

NewTree(entries, include) ==
    [entries |-> entries, include_untracked |-> include, st |-> None, unmatched |-> {}]

\* update_stats, and the untracked names of the other setting dropped.
Refreshed(tree) ==
    IF tree.include_untracked = req.untracked
       THEN [tree EXCEPT !.entries = req.git_index]
       ELSE NewTree(req.git_index, req.untracked)

\* index_tree_or_rebuild: the tree as it is while .git/index has its old stat,
\* refreshed while it has its old paths, or built anew.
TreeFor(old) ==
    IF old = None THEN NewTree(req.git_index, req.untracked)
    ELSE IF repo.index_stat = world.stamp /\ old.include_untracked = req.untracked THEN old
    ELSE IF Tracked(old.entries) = Tracked(req.git_index) THEN Refreshed(old)
    ELSE NewTree(req.git_index, req.untracked)

\* The tree leaves the cache until the request has ended.
StatIndex ==
    /\ pc = "stat"
    /\ Step("staged", [repo EXCEPT !.index_tree = None, !.index_stat = world.stamp],
            [req EXCEPT !.index = TreeFor(repo.index_tree)])

\* compute_staged; an error leaves the counts at zero.
ComputeStaged ==
    {Cardinality(StagedFiles(req.head, req.git_index))} \cup IF Errors THEN {0} ELSE {}

\* A mutant of StagedIsCached: the counts are kept as long as HEAD does not move.
StagedByHead == repo.staged_head = req.head

StagedIsCached ==
    /\ repo.staged_head = req.head
    /\ repo.staged_index_stat = repo.index_stat

\* The answer's staged counts are those of the cache.
Counted(r) ==
    Step(IF req.dirty \/ req.untracked THEN "files" ELSE "put", r,
         [req EXCEPT !.stats.staged = r.staged])

\* The staged path: off or an unborn branch, cached by HEAD and index stat, or to be
\* computed: the keys are stored before the counts.
Staged ==
    /\ pc = "staged"
    /\ \/ /\ ~req.dirty \/ req.head = None
          /\ Counted([repo EXCEPT !.staged_head = None, !.staged_index_stat = None, !.torn = FALSE,
                        !.staged = IF req.dirty THEN Cardinality(Tracked(req.git_index)) ELSE 0])
       \/ req.dirty /\ req.head # None /\ StagedIsCached /\ Counted(repo)
       \/ /\ req.dirty /\ req.head # None /\ ~StagedIsCached
          /\ Step("compute", [repo EXCEPT !.staged_head = req.head,
                                !.staged_index_stat = repo.index_stat, !.torn = TRUE], req)

\* The counts follow, unless compute_staged panics.
CountStaged ==
    /\ pc = "compute"
    /\ \E n \in ComputeStaged : Counted([repo EXCEPT !.staged = n, !.torn = FALSE])

\* scan_dirs, StatFiles: every entry against its file.
StatFiles ==
    /\ pc = "files"
    /\ Step(IF req.index.include_untracked THEN "dir" ELSE "count", repo,
            [req EXCEPT !.candidates = DirtyFiles(req.index.entries, world.work)])

\* The mtime of the directory, before it is listed.
StatDir ==
    /\ pc = "dir"
    /\ IF Enabled /\ req.index.st = world.mtime
          THEN Step("count", repo, [req EXCEPT !.candidates = @ \cup req.index.unmatched])
          ELSE Step("list", repo,
                    [req EXCEPT !.index.st = IF Enabled THEN world.mtime ELSE @])

\* list_dir and the merge with the entries, which are looked at once more.
ListDir ==
    /\ pc = "list"
    /\ LET unmatched == Present(world.work) \ Tracked(req.index.entries) IN
       Step("count", repo, [req EXCEPT !.index.unmatched = unmatched,
               !.candidates = @ \cup unmatched \cup DirtyFiles(req.index.entries, world.work)])

\* compute_dirty: a candidate of the index is unstaged, any other untracked.
CountDirty ==
    /\ pc = "count"
    /\ LET tracked == Tracked(req.index.entries) IN
       Step("put", repo, [req EXCEPT
          !.stats.unstaged  = IF req.dirty THEN Cardinality(req.candidates \cap tracked) ELSE 0,
          !.stats.untracked = IF req.untracked THEN Cardinality(req.candidates \ tracked) ELSE 0])

\* A mutant of PutTree: the directory is stat'ed when everything has been read.
PutTreeStamped ==
    /\ pc = "put"
    /\ Step("answer", [repo EXCEPT !.index_tree =
                         [req.index EXCEPT !.st = IF @ = None THEN @ ELSE world.mtime]], req)

\* The tree goes back into the cache.
PutTree ==
    /\ pc = "put"
    /\ Step("answer", [repo EXCEPT !.index_tree = req.index], req)

\* The answer is written, and the request forgotten.
Close == pc = "answer" /\ Step("idle", repo, NoRequest)

\* Something in libgit2 or a scan thread panics: the loop catches it and goes on
\* with the repository as the request left it.
Panic == pc \notin {"idle", "answer"} /\ Step("idle", repo, NoRequest)

Build == \/ ReadHead \/ ReadIndex \/ StatIndex \/ Staged \/ CountStaged \/ StatFiles
         \/ StatDir \/ ListDir \/ CountDirty \/ PutTree

\* evict_expired, between requests.
Evict ==
    /\ pc = "idle" /\ repo # None
    /\ repo' = None
    /\ UNCHANGED <<now, world, pc, req>>

RepoNext == \/ User \/ ProbeEnds \/ (\E skip \in BOOLEAN : Open(skip)) \/ Build
            \/ Close \/ Panic \/ Evict

RepoSpec == RepoInit /\ [][RepoNext]_repoVars

-----------------------------------------------------------------------------
\* Where a request is when it has read the index, its stat, and the staged counts.
StagedKnown == {"files", "dir", "list", "count", "put"}
StatKnown   == {"staged", "compute"} \cup StagedKnown
IndexKnown  == {"stat"} \cup StatKnown

\* A request has a repository, and from the stat on an index.
RepoTypeOK ==
    /\ now \in Versions
    /\ world \in World
    /\ repo \in Cached \cup {None}
    /\ pc \in {"idle", "head", "index", "stat", "staged", "compute", "files", "dir", "list",
               "count", "put", "answer"}
    /\ req \in Request
    /\ pc # "idle" => repo # None
    /\ pc \in StatKnown => req.index # None

\* A stamp that something was cached under is not from the future: the next change of the
\* index or the directory gets another.
StampsAreOld ==
    LET old == 0..now
        Stamped(tree) == tree # None => tree.st \in old \cup {None}
    IN  /\ {world.stamp, world.mtime, req.since} \subseteq old
        /\ Stamped(req.index)
        /\ repo # None =>
              /\ {repo.index_stat, repo.staged_index_stat} \subseteq old \cup {None}
              /\ Stamped(repo.index_tree)

\* The untracked names of a tree are none of its entries, and those of the directory while
\* that has the mtime they were listed under.
NamesAreApart(tree) == tree.unmatched \cap Tracked(tree.entries) = {}
NamesAreListed(tree) ==
    world.honest /\ tree.st = world.mtime =>
       tree.unmatched = Present(world.work) \ Tracked(tree.entries)

\* What is cached, at any moment of a request: it may end in a panic.
CacheKnows ==
    repo # None =>
       /\ repo.staged_head # None /\ repo.staged_index_stat = world.stamp /\ ~repo.torn =>
             repo.staged = Cardinality(StagedFiles(repo.staged_head, world.index))
       /\ repo.index_tree # None =>
             /\ repo.index_stat = world.stamp => repo.index_tree.entries = world.index
             /\ NamesAreApart(repo.index_tree) /\ NamesAreListed(repo.index_tree)
       /\ repo.probe = "yes" => world.honest
       /\ repo.probe = "no" => ~world.honest

\* What a request has in its hands, which it is about to put into the cache.
RequestKnows ==
    /\ pc # "idle" /\ req.probed => repo.probe # "running"
    /\ pc = "stat" => req.git_index = world.index
    /\ pc = "compute" =>
          /\ req.dirty /\ req.head # None
          /\ repo.staged_head = req.head /\ repo.staged_index_stat = repo.index_stat
    /\ pc \in StatKnown =>
          /\ req.index.include_untracked = req.untracked
          /\ repo.index_stat = world.stamp =>
                req.git_index = world.index /\ req.index.entries = world.index
          /\ NamesAreApart(req.index) /\ (pc # "list" => NamesAreListed(req.index))
    /\ pc \notin {"put", "answer"} => req.stats.unstaged = 0 /\ req.stats.untracked = 0

\* Between requests what is cached under a stamp is what was there when the stamp
\* was true: counts and entries under that of the index and HEAD, names under the
\* mtime of a directory that keeps one, whatever the user did between two reads and
\* wherever a panic cut a request short, with one exception: a panic in
\* compute_staged leaves the keys of the counts it did not make over the old counts
\* (torn; repo.rs, index_tree_or_rebuild and the staged path; scan.rs, scan_dirs).
\* The first three conjuncts say it of every moment of a request, and of what the
\* request holds.
CacheIsTrue ==
    /\ RepoTypeOK
    /\ StampsAreOld /\ CacheKnows /\ RequestKnows
    /\ pc = "idle" /\ repo # None =>
          /\ repo.staged_head = world.head /\ repo.staged_index_stat = world.stamp =>
                \/ world.head = None \/ repo.torn
                \/ repo.staged = Cardinality(StagedFiles(world.head, world.index))
          /\ repo.index_tree # None /\ repo.index_stat = world.stamp =>
                LET tree == repo.index_tree IN
                /\ tree.entries = world.index
                /\ world.honest /\ tree.include_untracked /\ tree.st = world.mtime =>
                      tree.unmatched = Present(world.work) \ Tracked(world.index)

\* The counts of the working directory in the answer are those of the moment.
FileCountsAreTrue ==
    /\ req.stats.unstaged = Truth.unstaged
    /\ req.probed \/ world.honest => req.stats.untracked = Truth.untracked

\* What a request has read while nobody changed anything.
QuietRequestKnows ==
    pc # "idle" /\ req.since = now =>
       /\ pc \in {"index"} \cup IndexKnown => req.head = world.head
       /\ pc \in IndexKnown =>
             /\ req.untracked = world.untracked /\ req.dirty = world.dirty
             /\ req.git_index = world.index
       /\ pc \in StatKnown => repo.index_stat = world.stamp
       /\ pc \in StagedKnown /\ ~repo.torn => req.stats.staged = Truth.staged
       /\ pc \in {"dir", "list"} => req.candidates = DirtyFiles(world.index, world.work)
       /\ pc \in {"dir", "list"} => req.untracked
       /\ pc = "count" =>
             /\ req.candidates \cap Tracked(world.index) = DirtyFiles(world.index, world.work)
             /\ (req.probed \/ world.honest) /\ req.untracked =>
                   req.candidates \ Tracked(world.index) = Present(world.work) \ Tracked(world.index)
       /\ pc = "put" => FileCountsAreTrue

\* Whatever was cached before, an answer is true when nobody changed anything
\* while it was computed, but for the staged counts that a panic in compute_staged
\* has left under the keys of others (torn): stamps, HEAD and the mtime of the directory together
\* notice every change (repo.rs, index_tree_or_rebuild and the staged path;
\* scan.rs).  Until the probe has ended a file system whose directories keep
\* their mtime is trusted, and the untracked names may be old.  On the way to the
\* answer every step of the request has read what is there.
QuietAnswerIsTrue ==
    /\ QuietRequestKnows
    /\ pc = "answer" /\ ~req.skip /\ req.since = now =>
          (repo.torn \/ req.stats.staged = Truth.staged) /\ FileCountsAreTrue
=============================================================================
