-------------------------------- MODULE Scan --------------------------------
(***************************************************************************)
(* The scan of the working directory (index.rs, scan.rs, compute_dirty of  *)
(* repo.rs) as a function of the index and the disk: the index becomes a   *)
(* tree, shards of it are scanned by one thread each, every directory is   *)
(* listed and merged with its entries, and the candidates are counted up   *)
(* to the caps.  Nothing changes while it runs, and nothing is cached (see *)
(* RepoCache for both).                                                    *)
(*                                                                         *)
(* A path is a sequence of names.  Only the order of names matters, and    *)
(* there are two: a name alone, and a name with a `/` behind it, which is  *)
(* how it sorts inside a path ("a-b/" comes before "a/", "a" before        *)
(* "a-b").                                                                 *)
(***************************************************************************)
EXTENDS Integers, FiniteSets, SequencesExt

CONSTANTS
    DirNames,       \* names of directories
    FileNames,      \* names of files, none of which is a directory
    Paths,          \* files that may be tracked or there
    Order,          \* all <<name, has a slash behind it>>, as bytes sort them
    MinShardWeight  \* MIN_SHARD_WEIGHT, small here

ASSUME ScanAssumption ==
    /\ DirNames \cap FileNames = {}
    /\ ToSet(Order) = (DirNames \X BOOLEAN) \cup (FileNames \X {FALSE})
    /\ IsInjective(Order)
    /\ Paths \subseteq {<<f>> : f \in FileNames} \cup (DirNames \X FileNames)

\* What a file is: tracked, and its file gone, as recorded or touched since; or not
\* tracked, and not there, there, or there and ignored.
Tracked  == {"deleted", "clean", "modified"}
OnDisk   == {"clean", "modified", "untracked", "ignored"}
FileState == Tracked \cup {"none", "untracked", "ignored"}

\* files; nested: directories that are repositories of their own; the options
\* num_threads, -e, -u and -d (negative: no cap).
World == [files : [Paths -> FileState], nested : SUBSET DirNames, threads : Nat,
          recurse : BOOLEAN, max_unstaged : Int, max_untracked : Int]

-----------------------------------------------------------------------------
(* The index: entries, tree, shards *)

Rank(name, slash) == CHOOSE i \in DOMAIN Order : Order[i] = <<name, slash>>

\* The order of whole paths, of which one is not the start of another's name.
PathLess(p, q) ==
    \E k \in 1..Len(p) :
       /\ k <= Len(q)
       /\ \A j \in 1..k - 1 : p[j] = q[j]
       /\ Rank(p[k], k < Len(p)) < Rank(q[k], k < Len(q))

NameLess(m, n) == Rank(m, FALSE) < Rank(n, FALSE)

\* git keeps the entries sorted by path.
Entries(w) == SetToSortSeq({p \in Paths : w.files[p] \in Tracked}, PathLess)

Root == [path |-> <<>>, files |-> <<>>, subdirs |-> <<>>]

\* from_entries: an entry whose directory is the one at the top of the stack is filed
\* there; any other pops the stack to the root and makes a directory of its own.
WithEntry(dirs, p) ==
    IF Len(p) = 1
       THEN [dirs EXCEPT ![1].files = Append(@, p[1])]
       ELSE LET top  == dirs[Len(dirs)]
                made == Append([dirs EXCEPT ![1].subdirs = Append(@, p[1])],
                               [Root EXCEPT !.path = <<p[1]>>])
                in   == IF top.path = <<p[1]>> THEN dirs ELSE made
            IN  [in EXCEPT ![Len(in)].files = Append(@, p[2])]

\* The directories in pre-order.
Tree(w) == FoldLeft(WithEntry, <<Root>>, Entries(w))

Weight(dir) == 1 + Len(dir.subdirs) + Len(dir.files)

Larger(m, n) == IF m < n THEN n ELSE m
Smaller(m, n) == IF m < n THEN m ELSE n

\* init_splits: where shards begin and end.
Splits(dirs, threads) ==
    LET total == FoldLeft(LAMBDA n, d : n + Weight(d), 0, dirs)
        limit == Larger(MinShardWeight, total \div (16 * Larger(threads, 1)))
        step(acc, i) == IF acc.w + Weight(dirs[i]) >= limit
                           THEN [w |-> 0, at |-> Append(acc.at, i)]
                           ELSE [acc EXCEPT !.w = @ + Weight(dirs[i])]
        at == FoldLeft(step, [w |-> 0, at |-> <<0>>], [i \in DOMAIN dirs |-> i]).at
    IN  IF Last(at) = Len(dirs) THEN at ELSE Append(at, Len(dirs))

-----------------------------------------------------------------------------
(* The scan *)

IsModified(state) == state # "clean"

\* readdir of a directory, sorted by name.
ListDir(w, dir) ==
    LET here == {p \in Paths : w.files[p] \in OnDisk}
        names == IF dir = <<>>
                    THEN {p[1] : p \in here} \cup w.nested
                    ELSE {p[2] : p \in {q \in here : Len(q) = 2 /\ q[1] = dir[1]}}
    IN  SetToSortSeq(names, NameLess)

\* A candidate; dir: with a slash at the end.
Candidate(path, dir) == [path |-> path, dir |-> dir]

\* The first position from i on whose name is not less.
From(names, i, name) ==
    CHOOSE j \in i..Len(names) + 1 :
       /\ j <= Len(names) => ~NameLess(names[j], name)
       /\ \A k \in i..j - 1 : NameLess(names[k], name)

At(names, j, name) == j <= Len(names) /\ names[j] = name

\* The merge join of one listed name with the files and the subdirectories.
MergeName(dir, acc, name) ==
    LET f == From(dir.files, acc.fi, name)
        s == From(dir.subdirs, acc.si, name)
    IN  IF At(dir.files, f, name) THEN [acc EXCEPT !.fi = f + 1]
        ELSE IF At(dir.subdirs, s, name) THEN [acc EXCEPT !.fi = f, !.si = s + 1]
        ELSE [fi |-> f, si |-> s, unmatched |-> acc.unmatched \cup
                {Candidate(Append(dir.path, name), name \in DirNames)}]

Unmatched(w, dir) ==
    FoldLeft(LAMBDA acc, name : MergeName(dir, acc, name),
             [fi |-> 1, si |-> 1, unmatched |-> {}], ListDir(w, dir.path)).unmatched

\* scan_dirs: every entry against its file, and the listing unless nobody asks.
\* The second look at an entry during the merge finds what the first one found.
ScanDirs(w, dirs) ==
    UNION {LET d == dirs[i]
               entry(n) == Append(d.path, d.files[n])
           IN  {Candidate(entry(n), FALSE) :
                   n \in {m \in DOMAIN d.files : IsModified(w.files[entry(m)])}}
               \cup (IF w.max_untracked # 0 THEN Unmatched(w, d) ELSE {}) :
           i \in DOMAIN dirs}

\* get_dirty_candidates: the shards joined, sorted, without duplicates.
Candidates(w) ==
    LET dirs   == Tree(w)
        splits == Splits(dirs, w.threads)
        shard(i) == SubSeq(dirs, splits[i] + 1, splits[i + 1])
        found  == UNION {ScanDirs(w, shard(i)) : i \in 1..Len(splits) - 1}
        less(c, d) == \/ c.path # d.path /\ \E k \in 1..Len(c.path) :
                            /\ k <= Len(d.path)
                            /\ \A j \in 1..k - 1 : c.path[j] = d.path[j]
                            /\ Rank(c.path[k], c.dir \/ k < Len(c.path))
                                  < Rank(d.path[k], d.dir \/ k < Len(d.path))
    IN  SetToSortSeq(found, less)

-----------------------------------------------------------------------------
(* The counts *)

\* cap: negative is no cap.
Cap(count, max) == IF max < 0 THEN count ELSE Smaller(count, max)
Reached(count, max) == max >= 0 /\ count >= max

\* The entries of a directory that are neither tracked nor ignored.
Below(w, d) == {p \in Paths : Len(p) = 2 /\ p[1] = d /\ w.files[p] = "untracked"}

\* A mutant of UntrackedBelow: files below are counted without -e too.
UntrackedBelowAll(w, d) == IF d \in w.nested THEN 1 ELSE Cardinality(Below(w, d))

\* count_untracked_below: a repository of its own is one; else one for all, or every
\* one with -e.
UntrackedBelow(w, d) ==
    IF d \in w.nested THEN 1
    ELSE IF w.recurse THEN Cardinality(Below(w, d))
    ELSE IF Below(w, d) # {} THEN 1 ELSE 0

NoCounts == [unstaged |-> 0, deleted |-> 0, untracked |-> 0]

\* One candidate of compute_dirty, unless both caps have been reached; with both at
\* zero nothing is scanned.
Count(w, n, c) ==
    IF Reached(n.unstaged, w.max_unstaged) /\ Reached(n.untracked, w.max_untracked)
       THEN n
    ELSE IF c.dir THEN
       [n EXCEPT !.untracked = IF w.max_untracked = 0 THEN @ ELSE @ + UntrackedBelow(w, c.path[1])]
    ELSE IF w.files[c.path] \in Tracked THEN
       [n EXCEPT !.unstaged = @ + 1, !.deleted = @ + (IF w.files[c.path] = "deleted" THEN 1 ELSE 0)]
    ELSE [n EXCEPT !.untracked = @ + (IF w.files[c.path] = "untracked" THEN 1 ELSE 0)]

\* compute_dirty
Counts(w) ==
    LET n == FoldLeft(LAMBDA acc, c : Count(w, acc, c), NoCounts, Candidates(w))
        unstaged == Cap(n.unstaged, w.max_unstaged)
    IN  [unstaged |-> unstaged, deleted |-> Cap(n.deleted, unstaged),
         untracked |-> Cap(n.untracked, w.max_untracked)]

-----------------------------------------------------------------------------
(* What git says *)

WithState(w, states) == {p \in Paths : w.files[p] \in states}

TrackedDir(w, d) == \E p \in WithState(w, Tracked) : Len(p) = 2 /\ p[1] = d

\* Files that are not tracked count one by one in the root and in directories with
\* tracked files, others by their directory, or by file with -e.
TrueUntracked(w) ==
    LET loose == {p \in WithState(w, {"untracked"}) : Len(p) = 1 \/ TrackedDir(w, p[1])}
        dirs  == {d \in DirNames : ~TrackedDir(w, d)}
        held(d) == Below(w, d)
    IN  Cardinality(loose) + Cardinality(dirs \cap w.nested) +
        (IF w.recurse
            THEN Cardinality(UNION {held(d) : d \in dirs \ w.nested})
            ELSE Cardinality({d \in dirs \ w.nested : held(d) # {}}))

TrueCounts(w) ==
    [unstaged |-> Cap(Cardinality(WithState(w, {"deleted", "modified"})), w.max_unstaged),
     untracked |-> Cap(TrueUntracked(w), w.max_untracked)]

\* Names of tracked directories sort in a path as they sort alone.
SameOrder(w) ==
    \A d, e \in {x \in DirNames : TrackedDir(w, x)} :
       NameLess(d, e) <=> Rank(d, TRUE) < Rank(e, TRUE)

IsTrue(w, counts) ==
    counts.unstaged = TrueCounts(w).unstaged /\ counts.untracked = TrueCounts(w).untracked

\* Whatever the shards, the options and the order of candidates, the capped numbers of
\* unstaged and untracked files are git's (index.rs, the comment of the module: "precise
\* counts"), as long as directories sort alike in both orders.
ScanIsExact(w, counts) == SameOrder(w) => IsTrue(w, counts)
=============================================================================
