-------------------------------- MODULE Glob --------------------------------
(***************************************************************************)
(* The pattern matchers: fnmatch for the version of the daemon             *)
(* (options.rs), the glob of directory classes and disabled workdirs, and  *)
(* the rewriting of zsh groups to globs (render.rs).  Patterns and texts   *)
(* are sequences of characters.                                            *)
(***************************************************************************)
EXTENDS Naturals, Sequences, FiniteSets, SequencesExt

CONSTANTS Bytes         \* the characters, in their order

ASSUME GlobAssumption == Bytes \in Seq(STRING) /\ IsInjective(Bytes)

Chars == Seq(ToSet(Bytes))

Ord(c) == CHOOSE i \in DOMAIN Bytes : Bytes[i] = c
Between(lo, hi) == {Bytes[i] : i \in Ord(lo)..Ord(hi)}
Rest(s, n) == SubSeq(s, n + 1, Len(s))

\* The texts that begin with a character of `set` and go on as one of `rest`.
Begin(set, rest) == {t \in Chars : t # <<>> /\ t[1] \in set /\ Tail(t) \in rest}

-----------------------------------------------------------------------------
(* fnmatch *)

\* parse_class behind a leading bracket: the members, and the length up to the bracket
\* that closes, 0 for none.
ClassFrom[p \in Chars] ==
    IF p = <<>> THEN [set |-> {}, end |-> 0]
    ELSE IF p[1] = "]" THEN [set |-> {}, end |-> 1]
    ELSE LET range == Len(p) >= 3 /\ p[2] = "-" /\ p[3] # "]"
             n     == IF range THEN 3 ELSE 1
             rest  == ClassFrom[Rest(p, n)]
         IN  [set |-> rest.set \cup (IF range THEN Between(p[1], p[3]) ELSE {p[1]}),
              end |-> IF rest.end = 0 THEN 0 ELSE n + rest.end]

\* Whether the class begins with a bracket, which is a member then.
\* A mutant: it closes the class.
LeadsNowhere(p) == FALSE
Leads(p) == p # <<>> /\ p[1] = "]"

\* `^` is an extension of GNU's.
Negates(c) == c \in {"!", "^"}

\* parse_class of what follows `[`, its escapes aside.
ParseClass(p) ==
    LET negated == p # <<>> /\ Negates(p[1])
        start   == IF negated THEN 1 ELSE 0
        lead    == IF Leads(Rest(p, start)) THEN 1 ELSE 0
        class   == ClassFrom[Rest(p, start + lead)]
        set     == class.set \cup (IF lead = 1 THEN {"]"} ELSE {})
    IN  [set |-> IF negated THEN ToSet(Bytes) \ set ELSE set,
         end |-> IF class.end = 0 THEN 0 ELSE start + lead + class.end]

\* The texts that a pattern matches, escapes aside.
FnMatch[p \in Chars] ==
    IF p = <<>> THEN {<<>>}
    ELSE CASE p[1] = "*" -> {t \in Chars : \E i \in 0..Len(t) : Rest(t, i) \in FnMatch[Tail(p)]}
           [] p[1] = "?" -> Begin(ToSet(Bytes), FnMatch[Tail(p)])
           [] p[1] = "[" -> LET class == ParseClass(Tail(p)) IN
                            IF class.end > 0 THEN Begin(class.set, FnMatch[Rest(p, 1 + class.end)])
                            ELSE Begin({"["}, FnMatch[Tail(p)])
           [] OTHER      -> Begin({p[1]}, FnMatch[Tail(p)])

-----------------------------------------------------------------------------
(* glob_match *)

\* The members of a class; a range counts with something behind its dash.
Members[set \in Chars] ==
    IF set = <<>> THEN {}
    ELSE IF Len(set) >= 3 /\ set[2] = "-" THEN Between(set[1], set[3]) \cup Members[Rest(set, 3)]
    ELSE {set[1]} \cup Members[Tail(set)]

InName == ToSet(Bytes) \ {"/"}

\* How far a `*` may reach.
\* A mutant of StarEnds: over a slash.
StarEndsAnywhere(t) == 0..Len(t)

StarEnds(t) == {i \in 0..Len(t) : \A j \in 1..i : t[j] # "/"}

GlobMatch[p \in Chars] ==
    IF p = <<>> THEN {<<>>}
    ELSE LET close == {i \in 2..Len(p) : p[i] = "]"}
             end   == CHOOSE i \in close : \A j \in close : i <= j
         IN  CASE p[1] = "*" ->
                    IF Len(p) > 1 /\ p[2] = "*"
                       THEN {t \in Chars : \E i \in 0..Len(t) : Rest(t, i) \in GlobMatch[Rest(p, 2)]}
                       ELSE {t \in Chars : \E i \in StarEnds(t) : Rest(t, i) \in GlobMatch[Tail(p)]}
               [] p[1] = "?" -> Begin(InName, GlobMatch[Tail(p)])
               [] p[1] = "[" -> IF close = {} THEN Begin({"["}, GlobMatch[Tail(p)])
                                ELSE Begin(Members[SubSeq(p, 2, end - 1)] \ {"/"}, GlobMatch[Rest(p, end)])
               [] OTHER      -> Begin({p[1]}, GlobMatch[Tail(p)])

\* glob_match_path: a pattern that ends with a slash is for all below it.
GlobMatchPath(p, t) ==
    t \in GlobMatch[IF p # <<>> /\ Last(p) = "/" THEN p \o <<"*", "*">> ELSE p]

-----------------------------------------------------------------------------
(* zsh groups *)

\* What the scanners of split_top_level and expand_groups know at a character, it
\* included: the depth of parentheses, and whether in a bracket.
ScanChar(acc, c) ==
    CASE c = "[" /\ ~acc.bracket -> [acc EXCEPT !.bracket = TRUE]
      [] c = "]" /\ acc.bracket -> [acc EXCEPT !.bracket = FALSE]
      [] c = "(" /\ ~acc.bracket -> [acc EXCEPT !.depth = @ + 1]
      [] c = ")" /\ ~acc.bracket /\ acc.depth > 0 -> [acc EXCEPT !.depth = @ - 1]
      [] OTHER -> acc
ScanAt(s, i) == FoldLeft(ScanChar, [depth |-> 0, bracket |-> FALSE], SubSeq(s, 1, i))

\* split_top_level by `|`.
SplitTopLevel(s) ==
    LET bars == SetToSortSeq({i \in DOMAIN s : s[i] = "|" /\ ScanAt(s, i) = [depth |-> 0, bracket |-> FALSE]}
                                \cup {0, Len(s) + 1}, <)
    IN  [k \in 1..Len(bars) - 1 |-> SubSeq(s, bars[k] + 1, bars[k + 1] - 1)]

\* The first group: where it closes, where it opens.
Closes(s) == {i \in DOMAIN s : s[i] = ")" /\ ScanAt(s, i).depth = 0 /\ ~ScanAt(s, i).bracket
                                /\ ScanAt(s, i - 1).depth = 1}
FirstClose(s) == CHOOSE i \in Closes(s) : \A j \in Closes(s) : i <= j
Opens(s) == CHOOSE o \in 1..FirstClose(s) : /\ s[o] = "(" /\ ScanAt(s, o).depth = 1
                                            /\ ScanAt(s, o - 1).depth = 0

\* A mutant of AfterGroup: nothing is behind the first group.
AfterGroupNothing(s) == <<>>

\* The text behind the first group, whose own groups are expanded in turn.
AfterGroup(s) == Rest(s, FirstClose(s))

\* expand_groups (with pattern_alternatives of the inside of the group).
Expand[s \in Seq(STRING)] ==
    IF Closes(s) = {} THEN {s}
    ELSE LET inner  == SubSeq(s, Opens(s) + 1, FirstClose(s) - 1)
             prefix == SubSeq(s, 1, Opens(s) - 1)
             alts   == UNION {Expand[b] : b \in ToSet(SplitTopLevel(inner))}
         IN  UNION {Expand[prefix \o alt \o AfterGroup(s)] : alt \in alts}

\* pattern_alternatives
Alternatives(s) == UNION {Expand[b] : b \in ToSet(SplitTopLevel(s))}

\* workdir_matches, `~` aside.
WorkdirMatches(pattern, t) ==
    pattern # <<>> /\ \E p \in Alternatives(pattern) : GlobMatchPath(p, t)

-----------------------------------------------------------------------------
(* What patterns mean *)

\* The elements of a pattern: one character of `set`, or any number of them.
One(set) == [set |-> set, star |-> FALSE]
Star(set) == [set |-> set, star |-> TRUE]

\* The text falls into pieces, one for each element.
Denotes(elems, t) ==
    \E cut \in [0..Len(elems) -> 0..Len(t)] :
       /\ cut[0] = 0 /\ cut[Len(elems)] = Len(t)
       /\ \A k \in DOMAIN elems :
             /\ IF elems[k].star THEN cut[k - 1] <= cut[k] ELSE cut[k] = cut[k - 1] + 1
             /\ \A i \in cut[k - 1] + 1..cut[k] : t[i] \in elems[k].set

\* The bracket that closes the class a pattern begins with, 0 for none: in fnmatch one
\* that is not the first in it.
ClosedAt(p, fn) ==
    LET first == IF fn /\ Len(p) > 1 /\ Negates(p[2]) THEN 3 ELSE 2
        ends  == {j \in first..Len(p) : p[j] = "]" /\ (fn => j > first)}
    IN  IF ends = {} THEN 0 ELSE CHOOSE j \in ends : \A k \in ends : j <= k

\* The element a pattern begins with, of fnmatch or of the glob, and its length.
First(p, fn) ==
    LET every == IF fn THEN ToSet(Bytes) ELSE InName
        close == ClosedAt(p, fn)
        not   == fn /\ Negates(p[2])
        set   == Members[SubSeq(p, IF not THEN 3 ELSE 2, close - 1)]
    IN  CASE p[1] = "*" -> IF ~fn /\ Len(p) > 1 /\ p[2] = "*" THEN [is |-> Star(ToSet(Bytes)), length |-> 2]
                           ELSE [is |-> Star(every), length |-> 1]
          [] p[1] = "?" -> [is |-> One(every), length |-> 1]
          [] p[1] = "[" /\ close > 0 ->
               [is |-> One(every \cap (IF not THEN ToSet(Bytes) \ set ELSE set)), length |-> close]
          [] OTHER -> [is |-> One({p[1]}), length |-> 1]

FnElements[p \in Chars] ==
    IF p = <<>> THEN <<>> ELSE <<First(p, TRUE).is>> \o FnElements[Rest(p, First(p, TRUE).length)]
GlobElements[p \in Chars] ==
    IF p = <<>> THEN <<>> ELSE <<First(p, FALSE).is>> \o GlobElements[Rest(p, First(p, FALSE).length)]

\* The matchers that backtrack match what their patterns mean ("Equivalent to glibc
\* fnmatch", options.rs; "`*` / `?` / `[..]` do not cross `/`", render.rs).  Left out are the
\* patterns of fnmatch with escapes, and with a class that begins with `]-`: glibc reads a
\* range there, the code does not.
Unmarred(p) ==
    /\ \A i \in 1..Len(p) : p[i] # "\\"
    /\ \A i \in 1..Len(p) - 1 : p[i] # "]" \/ p[i + 1] # "-"
IsFnMatch(p, matched, texts) ==
    Unmarred(p) => matched = {t \in texts : Denotes(FnElements[p], t)}
IsGlobMatch(p, matched, texts) ==
    matched = {t \in texts : Denotes(GlobElements[p], t)}

\* Groups may hold groups and follow one another: the globs are the words of the pattern
\* ("expanding top-level `|` and every `(...)` group", render.rs).
AreAlternatives(words, alternatives) == alternatives = words
=============================================================================
