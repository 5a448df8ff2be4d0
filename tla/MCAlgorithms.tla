---------------------------- MODULE MCAlgorithms ----------------------------
(***************************************************************************)
(* Small sets of inputs for the algorithms, and the meaning of groups,     *)
(* which recurs over trees.                                                *)
(***************************************************************************)
EXTENDS Algorithms

Upto(n, chars) == UNION {[1..k -> chars] : k \in 0..n}

Names == {<<"p">>, <<"q">>, <<"p", "q">>, <<"p", "p">>}
ScanPaths == {<<"f">>, <<"a", "f">>, <<"a", "g">>, <<"a-b", "f">>}
ScanOrder == <<<<"a", FALSE>>, <<"a-b", FALSE>>, <<"a-b", TRUE>>, <<"a", TRUE>>,
               <<"f", FALSE>>, <<"g", FALSE>>>>

\* A directory that is a repository of its own holds nothing of this one.
MCWorlds == {w \in [files : [Paths -> FileState], nested : {{}, {"a"}}, threads : {1},
                  recurse : BOOLEAN, max_unstaged : {-1, 0, 1}, max_untracked : {-1, 1, 2}] :
              \A p \in Paths : p[1] \in w.nested => w.files[p] = "none"}

\* Streams of at most so many tokens, in reads cut anywhere.
MaxStream == 5
Reads(s, cuts) ==
    LET ends == SetToSortSeq(cuts \cup {Len(s)}, <)
    IN  [i \in DOMAIN ends |-> SubSeq(s, IF i = 1 THEN 1 ELSE ends[i - 1] + 1, ends[i])]
ReadsOf(tokens) == UNION {{Reads(s, cuts) : cuts \in SUBSET (1..Len(s) - 1)} : s \in Upto(MaxStream, tokens)}
MCAnnounceReads == ReadsOf(AnnounceTokens)
MCOutputReads == ReadsOf(OutputTokens)

\* Levels of a path; what a strategy does not look at has one value.
MCShortenOpts(parts) ==
    LET none == {parts[i] : i \in {}}
        opts(strategies, budgets, marks, names) ==
           [strategy : strategies, length : 1..2, delimiter : {<<>>, <<Ellipsis>>},
            budget : budgets, marked : marks,
            siblings : {[i \in DOMAIN parts |-> {parts[i]} \cup s] : s \in names}]
    IN  opts({"unique"}, {NoBudget, 1, 2}, SUBSET DOMAIN parts, {{n} : n \in Names})
        \cup opts({"folder_marker"}, {NoBudget}, SUBSET DOMAIN parts, {none})
        \cup opts(Strategies \ {"unique", "folder_marker"}, {NoBudget}, {{}}, {none})

MCLevelsOfPaths == UNION {[1..n -> Names] : n \in 1..3}

Arg(form, name, value, text) == [form |-> form, name |-> name, value |-> value, text |-> text]
Word(text) == Arg("word", "", <<>>, text)

\* Command lines of these: options of every kind in their spellings, good and bad.
Args == {Arg("short", "s", <<>>, "-s"), Arg("short", "s", <<"-3">>, "-s-3"),
         Arg("long", "max-num-staged", <<"2">>, "--max-num-staged=2"),
         Arg("long", "max-num-staged", <<>>, "--max-num-staged"),
         Arg("short", "t", <<>>, "-t"), Arg("short", "G", <<"v1.*">>, "-Gv1.*"),
         Arg("long", "version-glob", <<"v2">>, "--version-glob=v2"),
         Arg("short", "v", <<>>, "-v"), Arg("short", "e", <<>>, "-e"),
         Arg("short", "e", <<"2">>, "-e2"), Arg("short", "3", <<>>, "-3"),
         Arg("long", "recurse-untracked-dirs", <<>>, "--recurse-untracked-dirs"),
         Arg("help", "", <<>>, "-h"), Arg("version", "", <<>>, "--version"),
         Word("2"), Word("0"), Word("warn")}

MCNumber == "0" :> 0 @@ "2" :> 2 @@ "-3" :> -3

MCCommandLines == Upto(3, Args)

MCBytes == <<"!", "*", "-", "/", "?", "[", "]", "^", "a", "b">>
MCFnPatterns   == Upto(4, ToSet(Bytes) \ {"/"})
MCGlobPatterns == Upto(4, ToSet(Bytes) \ {"!", "^"})
MCFnTexts   == Upto(2, {"-", "]", "a", "b"})
MCGlobTexts == Upto(3, {"/", "a", "b"})

\* Trees of groups in groups, with something before or behind.
Char(c)    == <<"char", c>>
Group(t)   == <<"group", t>>
Branches0  == {<<>>, <<Char("a")>>, <<Char("b")>>}
Trees0     == {{b, c} : b, c \in Branches0}
Nodes1     == {Char("a"), Char("b")} \cup {Group(t) : t \in Trees0}
Branches1  == Upto(2, Nodes1)
Trees1     == {{b, c} : b \in Branches1, c \in {<<>>, <<Char("a")>>}}
Trees      == {{<<Group(t), n>>, <<>>} : t \in Trees1, n \in Nodes1}
              \cup {{<<n, Group(t)>>} : t \in Trees1, n \in Nodes1}

\* A zsh pattern as a tree: a set of branches, each a sequence of characters and trees.
RECURSIVE Words(_)
\* The words of one branch, and of a tree.
Words(branches) ==
    LET node(words, x) ==
           IF x[1] = "char" THEN {Append(w, x[2]) : w \in words}
           ELSE {w \o v : w \in words, v \in Words(x[2])}
    IN  UNION {FoldLeft(node, {<<>>}, b) : b \in branches}

RECURSIVE Written(_)
\* A tree as it is written, its branches in some order.
Written(branches) ==
    LET node(text, x) ==
           IF x[1] = "char" THEN Append(text, x[2])
           ELSE text \o <<"(">> \o Written(x[2]) \o <<")">>
        texts == SetToSeq({FoldLeft(node, <<>>, b) : b \in branches})
    IN  FoldLeft(LAMBDA t, i : IF i = 1 THEN texts[1] ELSE t \o <<"|">> \o texts[i],
                 <<>>, [i \in DOMAIN texts |-> i])

MCGroups == {<<Written(t), Words(t)>> : t \in Trees}

Red == <<Fg(Xterm(1)), Style(Rgb("#ff5c57"), NamedColor("blue"), TRUE)>>
\* What is not the default of a field.
MCValues ==
    [mode |-> {"ascii", "compatible", "nerdfont-complete"},
     layout |-> {NoLayout} \cup
        {[NoLayout EXCEPT !.left = l, !.newline = n, !.transient = t, !.ruler = r, !.indent = i] :
            l \in {<<>>, <<<<>>>>, <<<<<<"seg", "dir">>, <<"joined", "vcs">>>>, <<<<"text", "dir">>>>>>},
            n \in 0..2, t \in {"off", "always", "same-dir"}, r \in BOOLEAN, i \in 0..1},
     segments |-> {Empty} \cup
        {"dir" :> [NoSegment EXCEPT !.style = s, !.shown = b, !.states = t, !.prefix = p,
                      !.attach["text-left"] = a, !.props = q] :
            s \in {NoStyle, Red[2]}, b \in BOOLEAN, p \in {Empty, <<"">>},
            t \in {Empty, "ANCHOR" :> [style |-> Red[1], char |-> <<"x">>]},
            a \in {Empty, <<[text |-> "", fg |-> Empty]>>, <<[text |-> "x", fg |-> <<Default>>]>>},
            q \in {Empty, "verbose" :> Bool(FALSE)}},
     defaults |-> {NoStyle, Red[1]},
     separators |-> {NoSeparators, [NoSeparators EXCEPT !.text["gap"] = "-", !.color["gap-foreground"] = <<Default>>],
                     [NoSeparators EXCEPT !.color["sub-foreground"] = <<Xterm(240)>>]},
     frame |-> {NoFrame, [NoFrame EXCEPT !.style = Red[1]],
                [NoFrame EXCEPT !.pieces["last-prefix"] = [text |-> "", style |-> <<Red[2]>>]]},
     vcs_remote_icons |-> {DefaultIcons, <<>>, Tail(DefaultIcons)},
     icon |-> {Empty, "ok" :> [t \in IconTables |-> IF t = "all" THEN <<"">> ELSE Empty]},
     dir_classes |-> {<<>>, <<[pattern |-> "p", state |-> "", icon |-> "i"], [pattern |-> "p", state |-> "s", icon |-> ""]>>},
     shell |-> {Empty, <<"zsh">>}, padding |-> {"none", "moderate"}]

RowElements(forms, colors, widths) == [form : forms, bg : colors, widths : widths]
\* Rows in terminals of every width, and rows with every neighbourhood of segments.
Sized == Upto(2, RowElements({"seg"}, {"red"}, {{1}, {1, 2, 4}}) \cup RowElements({"text"}, {NoColor}, {{2}}))
Colored == Upto(3, RowElements({"seg", "joined"}, Colors \cup {NoColor}, {{0}, {1}})
                   \cup RowElements({"text"}, {NoColor, "red"}, {{1}}))
MCRowsToLayOut ==
    [cols : 0..20, prefix : 0..1, suffix : 0..1, indent : 0..1, seps : {{}, Separators}, left : Sized, right : Sized]
    \cup UNION {[cols : {40}, prefix : {1}, suffix : {1}, indent : {1}, seps : {Separators, Separators \ {"sub", "right_segment"}},
                 left : c[1], right : c[2]] : c \in {<<Colored, {<<>>}>>, <<{<<>>}, Colored>>}}
=============================================================================
