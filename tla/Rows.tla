-------------------------------- MODULE Rows --------------------------------
(***************************************************************************)
(* The layout of one row of the header (render.rs): segments to columns,   *)
(* separators between them, the right column at its edge or dropped, the   *)
(* frame around both.  A row is a sequence of cells, one per column of the *)
(* terminal; a cell has what it shows and its two colours.                 *)
(***************************************************************************)
EXTENDS Naturals, Sequences, FiniteSets, SequencesExt, FiniteSetsExt

CONSTANTS Colors        \* the backgrounds of segments that have one

NoColor == "default"
Own     == "own"        \* the foreground of a text: no neighbour depends on it

\* A row to lay out is [cols, prefix, suffix, indent, seps, left, right]: widths of the
\* frame's pieces, the separators that are not empty, and two lists of elements
\*   [form : {"seg", "joined", "text"}, bg, widths]
\* whose text has one of `widths` (only `dir` has a choice, and shortened as it may be it
\* shows something; nothing to show is 0).

Separators == {"left_tail", "sub", "segment", "end", "right_start", "right_sub", "right_segment",
               "right_tail"}

IsElement(e) ==
    /\ e \in [form : {"seg", "joined", "text"}, bg : Colors \cup {NoColor}, widths : SUBSET Nat]
    /\ e.widths = {0} \/ (e.widths # {} /\ 0 \notin e.widths /\ IsFiniteSet(e.widths))
IsRow(t) ==
    /\ DOMAIN t = {"cols", "prefix", "suffix", "indent", "seps", "left", "right"}
    /\ {t.cols, t.prefix, t.suffix, t.indent} \subseteq Nat /\ t.seps \subseteq Separators
    /\ \A line \in {t.left, t.right} : line \in Seq(ToSet(line)) /\ \A e \in ToSet(line) : IsElement(e)

Cell(shows, fg, bg) == [shows |-> shows, fg |-> fg, bg |-> bg]
Cells(n, shows, bg) == [i \in 1..n |-> Cell(shows, Own, bg)]
Blank(bg) == Cells(1, "blank", bg)
Glyph(seps, name, fg, bg) == IF name \in seps THEN <<Cell(name, fg, bg)>> ELSE <<>>

Monus(a, b) == IF a > b THEN a - b ELSE 0       \* saturating_sub

\* The dir segment saves as many columns as it is told to, if it can (FoldLevel of
\* DirShorten stops there).
WidthFor(e, budget) ==
    LET saving == {w \in e.widths : w + budget <= Max(e.widths)}
    IN  IF saving = {} THEN Min(e.widths) ELSE Max(saving)

\* render_segment, and render_row for a text: padded to both sides, but not where a line
\* begins without a background, and not where a block is continued.
SegmentBlock(e, right, budget) ==
    LET n    == WidthFor(e, budget)
        lead == e.form = "seg" /\ (right \/ e.bg # NoColor)
        text == Cells(n, "text", e.bg)
        pad  == (IF lead THEN Blank(e.bg) ELSE <<>>) \o text \o Blank(e.bg)
    IN  [cells |-> IF n = 0 \/ e.form = "text" THEN text ELSE pad,
         bg |-> e.bg, padded |-> e.form # "text", joined |-> e.form = "joined"]

\* The blocks of the segments that show something.
Blocks(line, right, budget) ==
    LET shown[i \in 0..Len(line)] ==
           IF i = 0 THEN <<>>
           ELSE LET b == SegmentBlock(line[i], right, budget)
                IN  IF b.cells = <<>> THEN shown[i - 1] ELSE Append(shown[i - 1], b)
    IN  shown[Len(line)]

-----------------------------------------------------------------------------
(* assemble_row *)

\* What is drawn between two blocks of a column.
LeftJoint(seps, a, b) ==
    LET name  == IF a.bg = b.bg THEN "sub" ELSE "segment"
        glyph == Glyph(seps, name, IF a.bg = b.bg THEN Own ELSE a.bg, b.bg)
    IN  IF b.joined THEN <<>>
        ELSE IF a.bg # NoColor /\ glyph # <<>> THEN glyph
        ELSE IF a.padded THEN <<>> ELSE Blank(NoColor)

\* A mutant of RightJoint: the arrow has the colours it has on the left.
RightJointAsLeft(seps, a, b) ==
    IF b.joined \/ a.bg = NoColor THEN <<>>
    ELSE IF a.bg = b.bg THEN Glyph(seps, "right_sub", Own, b.bg)
    ELSE Glyph(seps, "right_segment", a.bg, b.bg)

RightJoint(seps, a, b) ==
    IF b.joined \/ a.bg = NoColor THEN <<>>
    ELSE IF a.bg = b.bg THEN Glyph(seps, "right_sub", Own, b.bg)
    ELSE Glyph(seps, "right_segment", b.bg, a.bg)

\* The cells of the blocks, with joint[i] before the i-th but the first.
Chain(blocks, joint) ==
    FlattenSeq([i \in DOMAIN blocks |-> (IF i = 1 THEN <<>> ELSE joint[i]) \o blocks[i].cells])

\* A cap at the outer end of a column needs a background to be the end of.
EndCap(seps, name, block) ==
    IF block.bg = NoColor THEN <<>> ELSE Glyph(seps, name, block.bg, NoColor)

LeftColumn(seps, blocks) ==
    IF blocks = <<>> THEN <<>>
    ELSE LET first == Head(blocks)
             lead  == IF first.joined /\ first.bg # NoColor THEN Blank(first.bg) ELSE <<>>
         IN  EndCap(seps, "left_tail", first) \o lead
             \o Chain(blocks, [i \in 2..Len(blocks) |-> LeftJoint(seps, blocks[i - 1], blocks[i])])
             \o EndCap(seps, "end", Last(blocks))

RightColumn(seps, blocks) ==
    IF blocks = <<>> THEN <<>>
    ELSE LET first == Head(blocks)
             lead  == IF first.joined THEN Blank(first.bg) ELSE <<>>
         IN  Glyph(seps, "right_start", first.bg, NoColor) \o lead
             \o Chain(blocks, [i \in 2..Len(blocks) |-> RightJoint(seps, blocks[i - 1], blocks[i])])
             \o EndCap(seps, "right_tail", Last(blocks))

\* The right column ends `indent` columns before the end; the gap takes the rest.
Assembled(left, right, cols, indent) ==
    LET gap == Monus(Monus(Monus(cols, indent), Len(right)), Len(left))
    IN  IF right = <<>> THEN left ELSE left \o Cells(gap, "gap", NoColor) \o right

-----------------------------------------------------------------------------
(* render_header_lines *)

\* A mutant of BodyBudget: the frame's suffix is forgotten.
BodyBudgetNoSuffix(t) == Monus(t.cols, t.prefix)

BodyBudget(t) == Monus(t.cols, t.prefix + t.suffix)

LeftOf(t, budget)  == LeftColumn(t.seps, Blocks(t.left, FALSE, budget))
RightOf(t, budget) == RightColumn(t.seps, Blocks(t.right, TRUE, budget))

Fits(t, left, right) == Len(left) + Len(right) + t.indent < BodyBudget(t)

\* The columns in the first of three passes that fits: as they are, with dir shortened by
\* what is too much, without the right column.
BothColumns(t) ==
    LET too_much == Monus(Len(LeftOf(t, 0)) + Len(RightOf(t, 0)) + t.indent + 1, BodyBudget(t))
        passes == {b \in {0, too_much} : Fits(t, LeftOf(t, b), RightOf(t, b))}
        alone == Monus(Len(LeftOf(t, 0)), BodyBudget(t))
    IN  IF passes = {} THEN [left |-> LeftOf(t, alone), right |-> <<>>]
        ELSE [left |-> LeftOf(t, Min(passes)), right |-> RightOf(t, Min(passes))]

Row(t) ==
    LET columns == BothColumns(t)
    IN  Cells(t.prefix, "frame", NoColor)
        \o Assembled(columns.left, columns.right, BodyBudget(t), t.indent)
        \o Cells(t.suffix, "frame", NoColor)

-----------------------------------------------------------------------------

\* The same row with every text as narrow as it can be.
Narrow(line) == [i \in DOMAIN line |-> [line[i] EXCEPT !.widths = {Min(@)}]]
Narrowest(t) == [t EXCEPT !.left = Narrow(@), !.right = Narrow(@)]

\* Cells of the right column: what comes behind the gap, which is never empty.
HasGap(row) == \E i \in DOMAIN row : row[i].shows = "gap"

\* A row with a right column ends at its edge, to the column, whatever the frame, the
\* separators and the shortening of dir; the column is dropped only if it would not fit
\* with dir at its shortest; and no row is wider than the terminal if that can be helped.
IsAtItsEdge(t, row) ==
    LET narrow == Narrowest(t)
        left   == LeftOf(narrow, 0)
        right  == RightOf(narrow, 0)
    IN  /\ HasGap(row) => Len(row) = t.cols - t.indent
        /\ ~HasGap(row) /\ right # <<>> => ~Fits(t, left, right)
        /\ Len(row) > t.cols => t.prefix + Len(left) + t.suffix > t.cols

\* Every arrow has the background of the block it comes out of as its colour, and stands
\* on that of the block it points into; a thin separator stands inside of one background:
\* no seam shows, whatever segments are hidden or joined.
IsSeamless(row) ==
    LET bg(i)  == IF i \in DOMAIN row THEN row[i].bg ELSE NoColor
    IN  \A i \in DOMAIN row :
           LET c == row[i] IN
           /\ c.shows \in {"segment", "end", "right_tail"} => c.fg = bg(i - 1)
           /\ c.shows \in {"right_segment", "left_tail", "right_start"} => c.fg = bg(i + 1)
           /\ c.shows \in {"segment", "sub", "right_sub"} => c.bg = bg(i + 1)
           /\ c.shows \in {"right_segment", "sub", "right_sub"} => c.bg = bg(i - 1)
=============================================================================
