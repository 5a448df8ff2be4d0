----------------------------- MODULE DirShorten -----------------------------
(***************************************************************************)
(* The strategies that shorten the path of the `dir` segment               *)
(* (dir_shorten.rs), as functions of the levels of the path below home or  *)
(* the root.  A name is a sequence of characters; the delimiter is of a    *)
(* character that no name holds, or empty.                                 *)
(***************************************************************************)
EXTENDS Naturals, Sequences, FiniteSets, SequencesExt

CONSTANTS
    Letters,            \* the characters of names
    NoBudget            \* the line fits: truncate_to_unique leaves the path alone

Ellipsis == "..."

ASSUME DirShortenAssumption == Ellipsis \notin Letters

Strategies == {"unique", "middle", "from_right", "to_last", "first_and_last", "absolute",
               "folder_marker", "fold_to_last"}

\* The levels of a path.
Levelled == Seq(Seq(Letters) \ {<<>>})

\* Opts, with a length of one at least; `marked` are the levels with a marker file,
\* `siblings` the names beside a level, its own included.
IsOpts(o, parts) ==
    /\ o \in [strategy : Strategies, length : Nat \ {0}, delimiter : Seq({Ellipsis}),
              budget : Nat \cup {NoBudget}, marked : SUBSET DOMAIN parts,
              siblings : [DOMAIN parts -> SUBSET Seq(Letters)]]
    /\ \A i \in DOMAIN parts : parts[i] \in o.siblings[i] /\ IsFiniteSet(o.siblings[i])

Part(text, class) == [text |-> text, class |-> class]

\* class_for
ClassFor(i, n) == IF i = n THEN "anchor" ELSE "normal"

Whole(parts, i) == Part(parts[i], ClassFor(i, Len(parts)))
Folded(text) == <<Part(text, "shortened")>>

\* plain, from a level on.
FromLevel(parts, first) == [k \in 1..Len(parts) - first + 1 |-> Whole(parts, first + k - 1)]
Plain(parts) == FromLevel(parts, 1)

-----------------------------------------------------------------------------
(* truncate_to_unique *)

StartsWith(name, prefix) == Len(prefix) <= Len(name) /\ SubSeq(name, 1, Len(prefix)) = prefix

\* A mutant of IsUnique: one other name with the prefix is let pass.
IsUniqueOrNot(prefix, names) == Cardinality({s \in names : StartsWith(s, prefix)}) <= 2

IsUnique(prefix, names) == Cardinality({s \in names : StartsWith(s, prefix)}) <= 1

\* shorten_component; its cache holds while the parent has its mtime.
ShortenComponent(name, names) ==
    LET unique == {j \in 1..Len(name) : IsUnique(SubSeq(name, 1, j), names)}
    IN  IF unique = {} THEN name
        ELSE SubSeq(name, 1, CHOOSE j \in unique : \A k \in unique : j <= k)

IsAnchor(parts, i, o) ==
    i > Len(parts) - o.length \/ i \in o.marked

\* One level from the front: folded as long as columns have to be saved.
FoldLevel(parts, o, acc, i) ==
    LET name  == parts[i]
        short == ShortenComponent(name, o.siblings[i])
        cost  == Len(short) + Len(o.delimiter)
        gain  == IF Len(name) > cost THEN Len(name) - cost ELSE 0
        fold  == o.budget # NoBudget /\ gain > 0 /\ acc.saved < o.budget
    IN  IF IsAnchor(parts, i, o)
           THEN [acc EXCEPT !.out = Append(@, Part(name, "anchor"))]
        ELSE IF fold
           THEN [saved |-> acc.saved + gain, out |-> Append(acc.out, Part(short, "shortened"))]
           ELSE [acc EXCEPT !.out = Append(@, Part(name, "normal"))]

FoldUnique(parts, o) ==
    LET acc[i \in 0..Len(parts)] == IF i = 0 THEN [saved |-> 0, out |-> <<>>]
                                    ELSE FoldLevel(parts, o, acc[i - 1], i)
    IN  acc[Len(parts)].out

-----------------------------------------------------------------------------
(* The other strategies *)

\* fold_truncate: levels but the first and the last, head and maybe tail.
FoldTruncate(parts, o, middle) ==
    LET suffix == IF middle THEN o.length ELSE 0
        level(i) ==
           LET name == parts[i] IN
           IF i \notin {1, Len(parts)} /\ Len(name) > o.length + suffix + Len(o.delimiter)
              THEN Part(SubSeq(name, 1, o.length) \o o.delimiter
                           \o SubSeq(name, Len(name) - suffix + 1, Len(name)), "shortened")
              ELSE Whole(parts, i)
    IN  [i \in DOMAIN parts |-> level(i)]

\* fold_to_last: no ellipsis without a delimiter.
FoldToLast(parts, o) ==
    IF Len(parts) <= o.length THEN Plain(parts)
    ELSE (IF o.delimiter = <<>> THEN <<>> ELSE Folded(o.delimiter))
            \o FromLevel(parts, Len(parts) - o.length + 1)

\* fold_first_last
FoldFirstLast(parts, o) ==
    LET n == Len(parts)
        anchors(a, b) == [k \in 1..b - a + 1 |-> Part(parts[a + k - 1], "anchor")]
    IN  IF n <= o.length * 2 THEN Plain(parts)
        ELSE anchors(1, o.length) \o Folded(o.delimiter) \o anchors(n - o.length + 1, n)

\* The columns of the levels behind i, a separator each.
Behind(parts, i) == FoldLeft(LAMBDA sum, p : sum + Len(p) + 1, 0, SubSeq(parts, i + 1, Len(parts)))

\* fold_absolute: the last level that does not fit loses its head; it then follows
\* once more as a whole.
FoldAbsolute(parts, o) ==
    LET over  == {i \in DOMAIN parts : Behind(parts, i) + Len(parts[i]) + 1 > o.length}
        start == IF over = {} THEN 1 ELSE CHOOSE i \in over : \A j \in over : j <= i
        acc   == Behind(parts, start)
        keep  == IF o.length > acc THEN o.length - acc ELSE 0
        name  == parts[start]
        tail  == IF keep > 0 /\ keep < Len(name)
                    THEN o.delimiter \o SubSeq(name, Len(name) - keep + 1, Len(name)) ELSE name
    IN  (IF start > 1 THEN Folded(tail) ELSE <<>>) \o FromLevel(parts, start)

\* The levels that fold_folder_marker hides: between two marked levels, and before the
\* first one.
Hidden(parts, o) ==
    LET marks == o.marked \cap DOMAIN parts
        before(i) == {m \in marks \cup {0} : m < i}
    IN  {i \in DOMAIN parts : \E hi \in marks :
            LET lo == CHOOSE m \in before(hi) : \A k \in before(hi) : k <= m
            IN  hi - lo > 2 /\ lo < i /\ i < hi}

\* One ellipsis for all that is hidden.
FoldMarker(parts, o) ==
    LET hidden == Hidden(parts, o)
        first(i) == i \in hidden /\ \A j \in hidden : i <= j
        level(i) == IF i \notin hidden THEN <<Whole(parts, i)>>
                    ELSE IF first(i) /\ o.delimiter # <<>> THEN Folded(o.delimiter) ELSE <<>>
        out[i \in 0..Len(parts)] == IF i = 0 THEN <<>> ELSE out[i - 1] \o level(i)
    IN  out[Len(parts)]

\* fold_keep_last
FoldKeepLast(parts, o) ==
    IF Len(parts) <= o.length THEN Plain(parts)
    ELSE Folded(o.delimiter) \o FromLevel(parts, Len(parts) - o.length + 1)

\* shorten
Shorten(parts, o) ==
    IF parts = <<>> THEN <<>> ELSE
    CASE o.strategy = "unique"          -> FoldUnique(parts, o)
      [] o.strategy = "middle"          -> FoldTruncate(parts, o, TRUE)
      [] o.strategy = "from_right"      -> FoldTruncate(parts, o, FALSE)
      [] o.strategy = "to_last"         -> FoldToLast(parts, o)
      [] o.strategy = "first_and_last"  -> FoldFirstLast(parts, o)
      [] o.strategy = "absolute"        -> FoldAbsolute(parts, o)
      [] o.strategy = "folder_marker"   -> FoldMarker(parts, o)
      [] OTHER                          -> FoldKeepLast(parts, o)

-----------------------------------------------------------------------------
\* The columns of a path, a separator each.
Width(out) ==
    LET sum[i \in 0..Len(out)] == IF i = 0 THEN 0 ELSE sum[i - 1] + Len(out[i].text) + 1
    IN  sum[Len(out)]

\* A text stands for a name: its characters, but for one stretch of them, where the
\* delimiter may be; it is no longer than the name.
StandsFor(text, name, delimiter) ==
    /\ Len(text) <= Len(name)
    /\ \E i \in 0..Len(name), j \in 1..Len(name) + 1, gap \in {<<>>, delimiter} :
          /\ i < j /\ (i # 0 \/ j <= Len(name))
          /\ text = SubSeq(name, 1, i) \o gap \o SubSeq(name, j, Len(name))

\* Every part is the delimiter or stands for a level, levels come in their order, none
\* twice, and the current directory comes last and whole.
ReadsAsPath(parts, out, o) ==
    LET shown == {k \in DOMAIN out : out[k].text # o.delimiter} IN
    /\ parts # <<>> => out # <<>> /\ Last(out).text = Last(parts)
    /\ \E at \in [shown -> DOMAIN parts] :
          /\ \A i, j \in shown : i < j => at[i] < at[j]
          /\ \A i \in shown : StandsFor(out[i].text, parts[at[i]], o.delimiter)

\* The path as fold_unique counts it: the delimiter behind every folded level, which
\* truncate_to_unique never shows.
WithDelimiter(p, o) ==
    IF p.class = "shortened" THEN Part(p.text \o o.delimiter, "shortened") ELSE p
Counted(out, o) == [k \in DOMAIN out |-> WithDelimiter(out[k], o)]

\* A folded level is the only one with its prefix and no anchor, and is folded only while
\* the levels before it, as they are counted, have not saved enough.
FoldsUniquely(parts, o, out) ==
    LET counted  == Counted(out, o)
        saved(k) == Width(Plain(parts)) - Width(SubSeq(counted, 1, k) \o FromLevel(parts, k + 1))
    IN  \A i \in DOMAIN out : out[i].class = "shortened" =>
           /\ {s \in o.siblings[i] : StartsWith(s, out[i].text)} = {parts[i]}
           /\ i \notin o.marked /\ i <= Len(parts) - o.length
           /\ saved(i - 1) < o.budget

\* No strategy but truncate_absolute makes a path unreadable, and with
\* truncate_to_unique a folded level is the only one with its prefix, anchors stay
\* whole, and nothing more is folded once the line is short enough (dir_shorten.rs,
\* the comments of the module and of fold_unique).  What is saved counts as if the
\* delimiter were shown: but for an empty one more may be folded than has to be.
IsReadable(parts, o, out) ==
    o.strategy # "absolute" =>
       /\ ReadsAsPath(parts, out, o)
       /\ o.strategy = "unique" => FoldsUniquely(parts, o, out)
=============================================================================
