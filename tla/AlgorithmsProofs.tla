-------------------------- MODULE AlgorithmsProofs --------------------------
(***************************************************************************)
(* Theorems about five algorithms for every input: the rows of the header, *)
(* with any segments, frame, separators and terminal, end at their edge    *)
(* and show no seam in their arrows; the two streams the engine reads, cut *)
(* into reads anywhere, yield the announcements, the signals and the bytes *)
(* that the uncut streams hold; the command line of the daemon sets what   *)
(* it says; the two pattern matchers match what a pattern means; and a     *)
(* shortened path still reads as the path.                                 *)
(***************************************************************************)
EXTENDS Algorithms, WellFoundedInduction, FiniteSetTheorems, SequenceTheorems, TLAPS

----------------------------------------------------------------------------
(* Induction over a bounded set, and functions that recur over one. *)

LEMMA Induct ==
    ASSUME NEW n \in Nat, NEW T, 0 \in T, \A i \in 0..n - 1 : i \in T => i + 1 \in T
    PROVE  \A i \in 0..n : i \in T
  <1> DEFINE U == {i \in 0..n : i \notin T}
  <1>1. SUFFICES ASSUME U # {} PROVE FALSE
    OBVIOUS
  <1>2. U \subseteq Nat
    OBVIOUS
  <1>3. PICK i \in U : \A j \in U : <<j, i>> \notin OpToRel(<, Nat)
    <2> HIDE DEF U
    <2> QED  BY <1>1, <1>2, NatLessThanWellFounded, WFMin
  <1>4. \A j \in U : ~(j < i)
    BY <1>2, <1>3 DEF OpToRel
  <1>5. i # 0
    OBVIOUS
  <1>6. i - 1 \in 0..n - 1 /\ i - 1 \notin U
    BY <1>4, <1>5
  <1> QED  BY <1>6

Recurs(f, n, base, step) == f[0] = base /\ \A i \in 1..n : f[i] = step[i][f[i - 1]]

LEMMA Recursion ==
    ASSUME NEW n \in Nat, NEW S, NEW base \in S, NEW step \in [1..n -> [S -> S]]
    PROVE  \E f \in [0..n -> S] : Recurs(f, n, base, step)
  <1> DEFINE Upto(k) == {f \in [0..k -> S] : f[0] = base /\ \A i \in 1..k : f[i] = step[i][f[i - 1]]}
             T == {k \in 0..n : Upto(k) # {}}
  <1>1. 0 \in T
    <2> DEFINE f == [i \in 0..0 |-> base]
    <2>1. f \in Upto(0)
      OBVIOUS
    <2> QED  BY <2>1
  <1>2. ASSUME NEW i \in 0..n - 1, i \in T PROVE i + 1 \in T
    <2>1. PICK f \in Upto(i) : TRUE
      BY <1>2
    <2> DEFINE g == [j \in 0..i + 1 |-> IF j = i + 1 THEN step[i + 1][f[i]] ELSE f[j]]
    <2>2. step[i + 1][f[i]] \in S
      BY <2>1
    <2>3. g \in [0..i + 1 -> S]
      BY <2>1, <2>2
    <2>4. g[0] = base
      BY <2>1
    <2>5. ASSUME NEW j \in 1..i + 1 PROVE g[j] = step[j][g[j - 1]]
      <3>1. CASE j = i + 1
        <4>1. g[j - 1] = f[i] /\ g[j] = step[i + 1][f[i]]
          BY <3>1
        <4> QED  BY <3>1, <4>1
      <3>2. CASE j \in 1..i
        <4>1. g[j - 1] = f[j - 1] /\ g[j] = f[j]
          BY <3>2
        <4> QED  BY <2>1, <3>2, <4>1
      <3> QED  BY <3>1, <3>2
    <2> HIDE DEF g
    <2>6. g \in Upto(i + 1)
      BY <2>3, <2>4, <2>5
    <2>7. i + 1 \in 0..n
      OBVIOUS
    <2> QED  BY <2>6, <2>7
  <1>3. n \in T
    <2> HIDE DEF T
    <2>1. \A i \in 0..n : i \in T
      BY <1>1, <1>2, Induct
    <2> QED  BY <2>1
  <1> QED  BY <1>3 DEF Recurs

----------------------------------------------------------------------------
(* Numbers of a finite set. *)

LEMMA Greatest ==
    ASSUME NEW W, W \subseteq Nat, W # {}, IsFiniteSet(W)
    PROVE  Max(W) \in W /\ \A w \in W : w <= Max(W)
  <1>1. PICK n \in Nat : ExistsSurjection(1..n, W)
    BY FS_NatSurjection
  <1>2. PICK f \in [1..n -> W] : \A w \in W : \E i \in 1..n : f[i] = w
    BY <1>1 DEF ExistsSurjection, Surjection
  <1> DEFINE T == {k \in 0..n : k = 0 \/ \E i \in 1..k : \A j \in 1..k : f[j] <= f[i]}
  <1>3. 0 \in T
    OBVIOUS
  <1>4. ASSUME NEW k \in 0..n - 1, k \in T PROVE k + 1 \in T
    <2>1. k + 1 \in 1..n /\ f[k + 1] \in Nat
      <3>1. k + 1 \in 1..n
        OBVIOUS
      <3>2. f[k + 1] \in W
        BY <1>2, <3>1
      <3> QED  BY <3>1, <3>2
    <2>2. CASE k = 0
      BY <2>1, <2>2
    <2>3. CASE k # 0
      <3>1. PICK i \in 1..k : \A j \in 1..k : f[j] <= f[i]
        BY <1>4, <2>3
      <3>2. ASSUME NEW j \in 1..k PROVE f[j] \in Nat
        <4>1. j \in 1..n
          OBVIOUS
        <4>2. f[j] \in W
          BY <1>2, <4>1
        <4> QED  BY <4>2
      <3>3. CASE f[k + 1] <= f[i]
        <4>1. \A j \in 1..k + 1 : f[j] <= f[i]
          BY <3>1, <3>3
        <4> QED  BY <4>1
      <3>4. CASE f[i] <= f[k + 1]
        <4>1. \A j \in 1..k + 1 : f[j] <= f[k + 1]
          BY <3>1, <3>2, <3>4, <2>1
        <4> QED  BY <4>1
      <3> QED  BY <3>2, <3>3, <3>4, <2>1
    <2> QED  BY <2>2, <2>3
  <1>5. n \in T
    <2> HIDE DEF T
    <2>1. \A i \in 0..n : i \in T
      BY <1>3, <1>4, Induct
    <2> QED  BY <2>1
  <1>6. n # 0
    <2>1. PICK w \in W : TRUE
      OBVIOUS
    <2>2. PICK i \in 1..n : f[i] = w
      BY <1>2, <2>1
    <2> QED  BY <2>2
  <1>7. PICK i \in 1..n : \A j \in 1..n : f[j] <= f[i]
    BY <1>5, <1>6
  <1>8. f[i] \in W /\ \A w \in W : f[i] >= w
    BY <1>2, <1>7
  <1>9. Max(W) \in W /\ \A w \in W : Max(W) >= w
    BY <1>8 DEF Max
  <1> QED  BY <1>9

LEMMA Least ==
    ASSUME NEW W, W \subseteq Nat, W # {}
    PROVE  Min(W) \in W /\ \A w \in W : Min(W) <= w
  <1>1. PICK i \in W : \A j \in W : <<j, i>> \notin OpToRel(<, Nat)
    BY NatLessThanWellFounded, WFMin
  <1>2. \A j \in W : ~(j < i)
    BY <1>1 DEF OpToRel
  <1>3. \A j \in W : i <= j
    BY <1>2
  <1> QED  BY <1>3 DEF Min

----------------------------------------------------------------------------
(* Blocks: what is shown of a line. *)

AllColors == Colors \cup {NoColor, Own}
CellSet  == [shows : Separators \cup {"text", "blank", "gap", "frame"}, fg : AllColors, bg : AllColors]
BlockSet == [cells : Seq(CellSet), bg : AllColors, padded : BOOLEAN, joined : BOOLEAN]

\* The cells of a block stand on its background, and no arrow is among them.
PlainOn(cells, bg) == \A i \in DOMAIN cells : cells[i].shows \in {"text", "blank"} /\ cells[i].bg = bg

\* What is shown of a segment beside its text.
Padding(e, right) ==
    IF e.form = "text" THEN 0 ELSE IF e.form = "seg" /\ (right \/ e.bg # NoColor) THEN 2 ELSE 1

LEMMA CellsAre ==
    ASSUME NEW n \in Nat, NEW shows \in {"text", "blank", "gap", "frame"}, NEW bg \in AllColors
    PROVE  /\ Cells(n, shows, bg) \in Seq(CellSet) /\ Len(Cells(n, shows, bg)) = n
           /\ \A i \in 1..n : Cells(n, shows, bg)[i] = Cell(shows, Own, bg)
  <1>1. Cell(shows, Own, bg) \in CellSet
    BY DEF Cell, CellSet, AllColors
  <1> QED  BY <1>1 DEF Cells

\* Two plain sequences of cells are one.
LEMMA PlainJoined ==
    ASSUME NEW a \in Seq(CellSet), NEW b \in Seq(CellSet), NEW bg, PlainOn(a, bg), PlainOn(b, bg)
    PROVE  a \o b \in Seq(CellSet) /\ Len(a \o b) = Len(a) + Len(b) /\ PlainOn(a \o b, bg)
  <1>1. a \o b \in Seq(CellSet) /\ Len(a \o b) = Len(a) + Len(b)
    OBVIOUS
  <1>2. \A i \in 1..Len(a) + Len(b) : (a \o b)[i] = IF i <= Len(a) THEN a[i] ELSE b[i - Len(a)]
    OBVIOUS
  <1>3. ASSUME NEW i \in 1..Len(a) + Len(b)
        PROVE  (a \o b)[i].shows \in {"text", "blank"} /\ (a \o b)[i].bg = bg
    <2>1. CASE i <= Len(a)
      <3>1. i \in DOMAIN a
        BY <2>1
      <3> QED  BY <1>2, <2>1, <3>1 DEF PlainOn
    <2>2. CASE i > Len(a)
      <3>1. i - Len(a) \in DOMAIN b
        BY <2>2
      <3> QED  BY <1>2, <2>2, <3>1 DEF PlainOn
    <2> QED  BY <2>1, <2>2
  <1> QED  BY <1>1, <1>3 DEF PlainOn

\* The dir segment saves what it is told to, or all it can.
LEMMA Widths ==
    ASSUME NEW e, IsElement(e), NEW budget \in Nat
    PROVE  LET w == WidthFor(e, budget) IN
           /\ w \in e.widths /\ w \in Nat /\ Min(e.widths) \in e.widths /\ Min(e.widths) <= w
           /\ w = Min(e.widths) \/ w + budget <= WidthFor(e, 0)
           /\ w <= WidthFor(e, 0)
  <1> DEFINE W == e.widths
             saving(b) == {w \in W : w + b <= Max(W)}
  <1>1. W \subseteq Nat /\ W # {} /\ IsFiniteSet(W)
    <2>1. IsFiniteSet({0})
      BY FS_Singleton
    <2> QED  BY <2>1 DEF IsElement
  <1>2. Max(W) \in W /\ \A w \in W : w <= Max(W)
    BY <1>1, Greatest
  <1>3. Min(W) \in W /\ \A w \in W : Min(W) <= w
    BY <1>1, Least
  <1>4. ASSUME NEW b \in Nat, saving(b) # {}
        PROVE  Max(saving(b)) \in saving(b) /\ \A w \in saving(b) : w <= Max(saving(b))
    <2>1. saving(b) \subseteq Nat /\ IsFiniteSet(saving(b))
      BY <1>1, FS_Subset
    <2> HIDE DEF saving
    <2> QED  BY <1>4, <2>1, Greatest
  <1>5. WidthFor(e, 0) = Max(W)
    <2>1. Max(W) \in saving(0)
      BY <1>1, <1>2
    <2>2. WidthFor(e, 0) = Max(saving(0))
      BY <2>1 DEF WidthFor
    <2>3. Max(saving(0)) \in saving(0) /\ Max(W) <= Max(saving(0))
      BY <1>4, <2>1
    <2>4. Max(saving(0)) \in W /\ Max(saving(0)) <= Max(W)
      BY <1>2, <2>3
    <2>5. Max(W) \in Nat /\ Max(saving(0)) \in Nat
      BY <1>1, <1>2, <2>4
    <2>6. Max(W) = Max(saving(0))
      BY <2>3, <2>4, <2>5
    <2> QED  BY <2>2, <2>6
  <1>6. CASE saving(budget) = {}
    <2>1. WidthFor(e, budget) = Min(W)
      BY <1>6 DEF WidthFor
    <2> HIDE DEF saving, W
    <2> QED  BY <1>1, <1>2, <1>3, <1>5, <2>1 DEF W
  <1>7. CASE saving(budget) # {}
    <2>1. WidthFor(e, budget) = Max(saving(budget))
      BY <1>7 DEF WidthFor
    <2>2. WidthFor(e, budget) \in W /\ WidthFor(e, budget) + budget <= Max(W)
      BY <1>4, <1>7, <2>1
    <2> HIDE DEF saving, W
    <2> QED  BY <1>1, <1>2, <1>3, <1>5, <2>2 DEF W
  <1> QED  BY <1>6, <1>7

\* render_segment: the columns of a segment, its text and what is around it.
LEMMA SegmentIs ==
    ASSUME NEW e, IsElement(e), NEW right \in BOOLEAN, NEW budget \in Nat
    PROVE  LET b == SegmentBlock(e, right, budget) IN
           /\ b \in BlockSet /\ PlainOn(b.cells, b.bg)
           /\ b.bg = e.bg /\ b.padded = (e.form # "text") /\ b.joined = (e.form = "joined")
           /\ b.cells = <<>> <=> e.widths = {0}
           /\ e.widths # {0} => Len(b.cells) = WidthFor(e, budget) + Padding(e, right)
  <1> DEFINE n == WidthFor(e, budget)
             lead == e.form = "seg" /\ (right \/ e.bg # NoColor)
             text == Cells(n, "text", e.bg)
             before == IF lead THEN Blank(e.bg) ELSE <<>>
             b == SegmentBlock(e, right, budget)
  <1>1. n \in e.widths /\ n \in Nat
    BY Widths
  <1>2. e.bg \in AllColors /\ e.form \in {"seg", "joined", "text"}
        /\ (e.widths = {0} \/ 0 \notin e.widths)
    BY DEF IsElement, AllColors
  <1>3. n = 0 <=> e.widths = {0}
    BY <1>1, <1>2
  <1> HIDE DEF n
  <1>4. text \in Seq(CellSet) /\ Len(text) = n /\ PlainOn(text, e.bg)
    <2>1. \A i \in 1..n : text[i] = Cell("text", Own, e.bg)
      BY <1>1, <1>2, CellsAre
    <2>2. text \in Seq(CellSet) /\ Len(text) = n
      BY <1>1, <1>2, CellsAre
    <2> HIDE DEF text
    <2> QED  BY <2>1, <2>2 DEF PlainOn, Cell
  <1>5. Blank(e.bg) \in Seq(CellSet) /\ Len(Blank(e.bg)) = 1 /\ PlainOn(Blank(e.bg), e.bg)
    <2>1. \A i \in 1..1 : Blank(e.bg)[i] = Cell("blank", Own, e.bg)
      BY <1>2, CellsAre DEF Blank
    <2>2. Blank(e.bg) \in Seq(CellSet) /\ Len(Blank(e.bg)) = 1
      BY <1>2, CellsAre DEF Blank
    <2> QED  BY <2>1, <2>2 DEF PlainOn, Cell
  <1>6. before \in Seq(CellSet) /\ PlainOn(before, e.bg) /\ Len(before) = IF lead THEN 1 ELSE 0
    <2>1. <<>> \in Seq(CellSet) /\ Len(<<>>) = 0 /\ PlainOn(<<>>, e.bg)
      BY DEF PlainOn
    <2>2. CASE lead
      <3>1. before = Blank(e.bg)
        BY <2>2
      <3> HIDE DEF before, lead
      <3> QED  BY <1>5, <2>2, <3>1
    <2>3. CASE ~lead
      <3>1. before = <<>>
        BY <2>3
      <3> HIDE DEF before, lead
      <3> QED  BY <2>1, <2>3, <3>1
    <2> QED  BY <2>2, <2>3
  <1>7. b = [cells |-> IF n = 0 \/ e.form = "text" THEN text ELSE before \o text \o Blank(e.bg),
             bg |-> e.bg, padded |-> e.form # "text", joined |-> e.form = "joined"]
    BY DEF SegmentBlock, n
  <1> HIDE DEF before, text, b
  <1>8. /\ before \o text \in Seq(CellSet) /\ PlainOn(before \o text, e.bg)
        /\ Len(before \o text) = Len(before) + n
    BY <1>4, <1>6, PlainJoined
  <1>9. /\ (before \o text) \o Blank(e.bg) \in Seq(CellSet) /\ PlainOn((before \o text) \o Blank(e.bg), e.bg)
        /\ Len((before \o text) \o Blank(e.bg)) = Len(before) + n + 1
    BY <1>5, <1>8, PlainJoined
  <1>10. b \in BlockSet /\ PlainOn(b.cells, b.bg) /\ b.bg = e.bg
    BY <1>2, <1>4, <1>7, <1>9 DEF BlockSet
  <1>11. b.padded = (e.form # "text") /\ b.joined = (e.form = "joined")
    BY <1>7
  <1>12. Len(b.cells) = IF n = 0 THEN 0 ELSE n + Padding(e, right)
    <2>1. CASE n = 0 \/ e.form = "text"
      BY <1>1, <1>4, <1>7, <2>1 DEF Padding
    <2>2. CASE n # 0 /\ e.form # "text"
      BY <1>1, <1>2, <1>6, <1>7, <1>9, <2>2 DEF Padding
    <2> QED  BY <2>1, <2>2
  <1>13. Padding(e, right) \in Nat
    BY DEF Padding
  <1>14. b.cells = <<>> <=> Len(b.cells) = 0
    BY <1>10 DEF BlockSet
  <1>15. b.cells = <<>> <=> e.widths = {0}
    BY <1>1, <1>3, <1>12, <1>13, <1>14
  <1>16. e.widths # {0} => Len(b.cells) = WidthFor(e, budget) + Padding(e, right)
    BY <1>3, <1>12 DEF n
  <1> QED  BY <1>10, <1>11, <1>15, <1>16 DEF b

IsLine(line) == line \in Seq(ToSet(line)) /\ \A e \in ToSet(line) : IsElement(e)

\* The blocks of a line, one segment after the other.
BlocksBy(g, line, right, budget) ==
    /\ g[0] = <<>> /\ Blocks(line, right, budget) = g[Len(line)]
    /\ \A i \in 1..Len(line) :
          g[i] = IF line[i].widths = {0} THEN g[i - 1]
                 ELSE Append(g[i - 1], SegmentBlock(line[i], right, budget))

LEMMA BlocksAre ==
    ASSUME NEW line, IsLine(line), NEW right \in BOOLEAN, NEW budget \in Nat
    PROVE  \E g \in [0..Len(line) -> Seq(BlockSet)] : BlocksBy(g, line, right, budget)
  <1> DEFINE n == Len(line)
             block(i) == SegmentBlock(line[i], right, budget)
             step == [i \in 1..n |-> [bs \in Seq(BlockSet) |->
                         IF block(i).cells = <<>> THEN bs ELSE Append(bs, block(i))]]
             shown(f) == [i \in 0..n |-> IF i = 0 THEN <<>>
                                         ELSE IF block(i).cells = <<>> THEN f[i - 1] ELSE Append(f[i - 1], block(i))]
  <1>1. n \in Nat /\ \A i \in 1..n : IsElement(line[i])
    BY DEF IsLine, ToSet
  <1>2. \A i \in 1..n : block(i) \in BlockSet /\ (block(i).cells = <<>> <=> line[i].widths = {0})
    BY <1>1, SegmentIs
  <1> HIDE DEF n, block
  <1>3. step \in [1..n -> [Seq(BlockSet) -> Seq(BlockSet)]]
    BY <1>2
  <1>4. \E f \in [0..n -> Seq(BlockSet)] : Recurs(f, n, <<>>, step)
    <2> HIDE DEF step
    <2>1. <<>> \in Seq(BlockSet)
      OBVIOUS
    <2> QED  BY <1>1, <1>3, <2>1, Recursion
  <1>5. PICK f \in [0..n -> Seq(BlockSet)] : f[0] = <<>> /\ \A i \in 1..n : f[i] = step[i][f[i - 1]]
    BY <1>4 DEF Recurs
  <1>6. ASSUME NEW i \in 1..n
        PROVE  f[i] = IF block(i).cells = <<>> THEN f[i - 1] ELSE Append(f[i - 1], block(i))
    <2>1. i - 1 \in 0..n
      BY <1>1
    <2>2. f[i - 1] \in Seq(BlockSet)
      BY <2>1
    <2> QED  BY <1>5, <2>2
  <1>7. f = shown(f)
    <2>1. f = [i \in 0..n |-> f[i]]
      OBVIOUS
    <2> HIDE DEF step
    <2>2. ASSUME NEW i \in 0..n
          PROVE  f[i] = IF i = 0 THEN <<>>
                        ELSE IF block(i).cells = <<>> THEN f[i - 1] ELSE Append(f[i - 1], block(i))
      <3>1. CASE i = 0
        BY <1>5, <3>1
      <3>2. CASE i # 0
        <4>1. i \in 1..n
          BY <1>1, <3>2
        <4> QED  BY <1>6, <3>2, <4>1
      <3> QED  BY <3>1, <3>2
    <2> QED  BY <2>1, <2>2
  <1> HIDE DEF step
  <1> DEFINE g == CHOOSE h : h = shown(h)
  <1>8. g = shown(g)
    BY <1>7
  <1>9. Blocks(line, right, budget) = g[n]
    BY DEF Blocks, n, block
  <1> HIDE DEF g
  <1>10. g[0] = <<>>
    BY <1>1, <1>8
  <1>11. \A i \in 1..n : g[i] = IF block(i).cells = <<>> THEN g[i - 1] ELSE Append(g[i - 1], block(i))
    <2>1. \A i \in 0..n : g[i] = IF i = 0 THEN <<>>
             ELSE IF block(i).cells = <<>> THEN g[i - 1] ELSE Append(g[i - 1], block(i))
      BY <1>8
    <2> QED  BY <1>1, <2>1
  <1> DEFINE T == {k \in 0..n : g[k] = f[k]}
  <1>12. 0 \in T
    BY <1>1, <1>5, <1>10
  <1>13. ASSUME NEW k \in 0..n - 1, k \in T PROVE k + 1 \in T
    <2>1. k + 1 \in 1..n /\ (k + 1) - 1 = k
      BY <1>1
    <2>2. g[k + 1] = f[k + 1]
      BY <1>6, <1>11, <1>13, <2>1
    <2> QED  BY <2>1, <2>2
  <1>14. \A k \in 0..n : g[k] = f[k]
    <2>1. \A k \in 0..n : k \in T
      <3> HIDE DEF T
      <3> QED  BY <1>1, <1>12, <1>13, Induct
    <2> QED  BY <2>1
  <1>15. \A i \in 1..n : f[i] = IF line[i].widths = {0} THEN f[i - 1] ELSE Append(f[i - 1], block(i))
    BY <1>2, <1>6
  <1>16. Blocks(line, right, budget) = f[n]
    BY <1>1, <1>9, <1>14
  <1> QED  BY <1>5, <1>15, <1>16 DEF BlocksBy, n, block

\* Sequences put together, one after the other.
FlatBy(f, pieces, n) ==
    /\ f[1] = pieces[1] /\ FlattenSeq(pieces) = f[n]
    /\ \A i \in 2..n : f[i] = f[i - 1] \o pieces[i]

LEMMA Flattened ==
    ASSUME NEW n \in Nat \ {0}, NEW S, NEW pieces \in [1..n -> Seq(S)]
    PROVE  \E f \in [1..n -> Seq(S)] : FlatBy(f, pieces, n)
  <1> DEFINE step == [i \in 1..n |-> [s \in Seq(S) |-> s \o pieces[i]]]
             flat(f) == [i \in 1..n |-> IF i = 1 THEN pieces[i] ELSE f[i - 1] \o pieces[i]]
  <1>1. step \in [1..n -> [Seq(S) -> Seq(S)]]
    OBVIOUS
  <1>2. \E f \in [0..n -> Seq(S)] : Recurs(f, n, <<>>, step)
    <2> HIDE DEF step
    <2>1. <<>> \in Seq(S) /\ n \in Nat
      OBVIOUS
    <2> QED  BY <1>1, <2>1, Recursion
  <1>3. PICK f \in [0..n -> Seq(S)] : f[0] = <<>> /\ \A i \in 1..n : f[i] = step[i][f[i - 1]]
    BY <1>2 DEF Recurs
  <1>4. ASSUME NEW i \in 1..n PROVE f[i] = f[i - 1] \o pieces[i]
    <2>1. f[i - 1] \in Seq(S)
      OBVIOUS
    <2>2. step[i][f[i - 1]] = f[i - 1] \o pieces[i]
      BY <2>1
    <2> HIDE DEF step
    <2> QED  BY <1>3, <2>2
  <1> HIDE DEF step
  <1>5. f[1] = pieces[1]
    <2>1. 1 \in 1..n /\ 1 - 1 = 0 /\ pieces[1] \in Seq(S)
      OBVIOUS
    <2>2. f[1] = f[1 - 1] \o pieces[1]
      BY <1>4, <2>1
    <2>3. <<>> \o pieces[1] = pieces[1]
      BY <2>1
    <2> QED  BY <1>3, <2>1, <2>2, <2>3
  <1> DEFINE e == [i \in 1..n |-> f[i]]
  <1>6. e \in [1..n -> Seq(S)] /\ e[1] = pieces[1] /\ \A i \in 2..n : e[i] = e[i - 1] \o pieces[i]
    <2>1. e \in [1..n -> Seq(S)] /\ e[1] = pieces[1]
      BY <1>5
    <2>2. ASSUME NEW i \in 2..n PROVE e[i] = e[i - 1] \o pieces[i]
      <3>1. i \in 1..n /\ i - 1 \in 1..n
        OBVIOUS
      <3>2. e[i] = f[i] /\ e[i - 1] = f[i - 1]
        BY <3>1
      <3> HIDE DEF e
      <3> QED  BY <1>4, <3>1, <3>2
    <2> QED  BY <2>1, <2>2
  <1> HIDE DEF e
  <1>7. e = flat(e)
    <2>1. ASSUME NEW i \in 1..n PROVE e[i] = IF i = 1 THEN pieces[i] ELSE e[i - 1] \o pieces[i]
      <3>1. CASE i = 1
        BY <1>6, <3>1
      <3>2. CASE i # 1
        <4>1. i \in 2..n
          BY <3>2
        <4> QED  BY <1>6, <3>2, <4>1
      <3> QED  BY <3>1, <3>2
    <2>2. e = [i \in 1..n |-> e[i]]
      BY <1>6
    <2> QED  BY <2>1, <2>2
  <1> DEFINE g == CHOOSE h : h = flat(h)
  <1>8. g = flat(g)
    BY <1>7
  <1>9. FlattenSeq(pieces) = g[n]
    <2>1. Len(pieces) = n
      OBVIOUS
    <2> QED  BY <2>1 DEF FlattenSeq
  <1> HIDE DEF g
  <1>10. g[1] = pieces[1] /\ \A i \in 2..n : g[i] = g[i - 1] \o pieces[i]
    <2>1. \A i \in 1..n : g[i] = IF i = 1 THEN pieces[i] ELSE g[i - 1] \o pieces[i]
      BY <1>8
    <2>2. g[1] = pieces[1]
      BY <2>1
    <2>3. ASSUME NEW i \in 2..n PROVE g[i] = g[i - 1] \o pieces[i]
      <3>1. i \in 1..n /\ i # 1
        OBVIOUS
      <3> QED  BY <2>1, <3>1
    <2> QED  BY <2>2, <2>3
  <1> DEFINE T == {k \in 0..n - 1 : g[k + 1] = e[k + 1]}
  <1>11. 0 \in T
    BY <1>6, <1>10
  <1>12. ASSUME NEW k \in 0..(n - 1) - 1, k \in T PROVE k + 1 \in T
    <2>1. k + 2 \in 2..n /\ (k + 2) - 1 = k + 1 /\ k + 1 \in 0..n - 1
      OBVIOUS
    <2>2. g[k + 1] = e[k + 1]
      BY <1>12
    <2>3. g[k + 2] = g[k + 1] \o pieces[k + 2] /\ e[k + 2] = e[k + 1] \o pieces[k + 2]
      BY <1>6, <1>10, <2>1
    <2>4. (k + 1) + 1 = k + 2 /\ g[k + 2] = e[k + 2]
      BY <2>2, <2>3
    <2> QED  BY <2>1, <2>4
  <1>13. n - 1 \in T
    <2>1. \A k \in 0..n - 1 : k \in T
      <3>1. n - 1 \in Nat
        OBVIOUS
      <3> DEFINE m == n - 1
      <3>2. \A k \in 0..m : k \in T
        <4> HIDE DEF T, m
        <4>1. m \in Nat /\ \A k \in 0..m - 1 : k \in T => k + 1 \in T
          BY <1>12, <3>1 DEF m
        <4> QED  BY <1>11, <4>1, Induct
      <3> QED  BY <3>2
    <2>2. n - 1 \in 0..n - 1
      OBVIOUS
    <2> QED  BY <2>1, <2>2
  <1>14. FlattenSeq(pieces) = e[n]
    <2>1. g[(n - 1) + 1] = e[(n - 1) + 1] /\ (n - 1) + 1 = n
      BY <1>13
    <2> QED  BY <1>9, <2>1
  <1> QED  BY <1>6, <1>14 DEF FlatBy

----------------------------------------------------------------------------
(* Blocks of one line at two widths. *)

GoodBlock(b) == b \in BlockSet /\ b.cells # <<>> /\ PlainOn(b.cells, b.bg)
GoodBlocks(bs) == bs \in Seq(BlockSet) /\ \A i \in 1..Len(bs) : GoodBlock(bs[i])

\* The same blocks, none wider than its counterpart; one of them narrower by d.
AlikeBlock(b, c) ==
    b.bg = c.bg /\ b.padded = c.padded /\ b.joined = c.joined /\ Len(b.cells) <= Len(c.cells)
Alike(bs, cs) == Len(bs) = Len(cs) /\ \A i \in 1..Len(bs) : AlikeBlock(bs[i], cs[i])
Saves(bs, cs, d) == \E i \in 1..Len(bs) : Len(bs[i].cells) + d <= Len(cs[i].cells)

LEMMA GoodAppended ==
    ASSUME NEW bs, GoodBlocks(bs), NEW b, GoodBlock(b)
    PROVE  GoodBlocks(Append(bs, b))
  <1>1. bs \in Seq(BlockSet) /\ b \in BlockSet
    BY DEF GoodBlocks, GoodBlock
  <1>2. /\ Append(bs, b) \in Seq(BlockSet) /\ Len(Append(bs, b)) = Len(bs) + 1
        /\ Append(bs, b)[Len(bs) + 1] = b /\ \A i \in 1..Len(bs) : Append(bs, b)[i] = bs[i]
    BY <1>1
  <1> HIDE <1>1
  <1>3. Len(bs) \in Nat
    BY <1>1
  <1>4. \A i \in 1..Len(bs) + 1 : i = Len(bs) + 1 \/ i \in 1..Len(bs)
    BY <1>3
  <1> QED  BY <1>2, <1>4 DEF GoodBlocks

LEMMA AlikeAppended ==
    ASSUME NEW bs \in Seq(BlockSet), NEW cs \in Seq(BlockSet), NEW b \in BlockSet, NEW c \in BlockSet,
           Alike(bs, cs), AlikeBlock(b, c), NEW d \in Nat
    PROVE  /\ Alike(Append(bs, b), Append(cs, c))
           /\ Saves(bs, cs, d) \/ Len(b.cells) + d <= Len(c.cells) => Saves(Append(bs, b), Append(cs, c), d)
  <1>1. /\ Len(Append(bs, b)) = Len(bs) + 1
        /\ Append(bs, b)[Len(bs) + 1] = b /\ \A i \in 1..Len(bs) : Append(bs, b)[i] = bs[i]
    OBVIOUS
  <1>2. /\ Len(Append(cs, c)) = Len(cs) + 1
        /\ Append(cs, c)[Len(cs) + 1] = c /\ \A i \in 1..Len(cs) : Append(cs, c)[i] = cs[i]
    OBVIOUS
  <1>3. Len(bs) \in Nat /\ Len(bs) = Len(cs)
    BY DEF Alike
  <1>4. \A i \in 1..Len(bs) + 1 : i = Len(bs) + 1 \/ i \in 1..Len(bs)
    BY <1>3
  <1>5. Alike(Append(bs, b), Append(cs, c))
    BY <1>1, <1>2, <1>3, <1>4 DEF Alike
  <1>6. ASSUME Len(b.cells) + d <= Len(c.cells) PROVE Saves(Append(bs, b), Append(cs, c), d)
    <2>1. Len(bs) + 1 \in 1..Len(bs) + 1
      BY <1>3
    <2> QED  BY <1>1, <1>2, <1>3, <1>6, <2>1 DEF Saves
  <1>7. ASSUME Saves(bs, cs, d) PROVE Saves(Append(bs, b), Append(cs, c), d)
    <2>1. PICK i \in 1..Len(bs) : Len(bs[i].cells) + d <= Len(cs[i].cells)
      BY <1>7 DEF Saves
    <2>2. i \in 1..Len(bs) + 1
      BY <1>3
    <2> QED  BY <1>1, <1>2, <1>3, <2>1, <2>2 DEF Saves
  <1> QED  BY <1>5, <1>6, <1>7

\* Two segments that differ in their widths only.
LikeElement(e, f) == e.form = f.form /\ e.bg = f.bg /\ (e.widths = {0} <=> f.widths = {0})

LEMMA SegmentsAlike ==
    ASSUME NEW e, NEW f, IsElement(e), IsElement(f), LikeElement(e, f), e.widths # {0},
           NEW right \in BOOLEAN, NEW m \in Nat, NEW n \in Nat, WidthFor(e, m) <= WidthFor(f, n)
    PROVE  LET b == SegmentBlock(e, right, m)
               c == SegmentBlock(f, right, n)
           IN  /\ GoodBlock(b) /\ GoodBlock(c) /\ AlikeBlock(b, c)
               /\ Len(b.cells) = WidthFor(e, m) + Padding(e, right)
               /\ Len(c.cells) = WidthFor(f, n) + Padding(e, right)
               /\ WidthFor(e, m) = WidthFor(f, n) => b = c
  <1> DEFINE b == SegmentBlock(e, right, m)
             c == SegmentBlock(f, right, n)
  <1>1. WidthFor(e, m) \in Nat /\ WidthFor(f, n) \in Nat /\ Padding(e, right) \in Nat
    BY Widths DEF Padding
  <1>2. f.widths # {0} /\ Padding(f, right) = Padding(e, right)
    BY DEF LikeElement, Padding
  <1>3. GoodBlock(b) /\ Len(b.cells) = WidthFor(e, m) + Padding(e, right)
        /\ b.bg = e.bg /\ b.padded = (e.form # "text") /\ b.joined = (e.form = "joined")
    BY SegmentIs DEF GoodBlock
  <1>4. GoodBlock(c) /\ Len(c.cells) = WidthFor(f, n) + Padding(e, right)
        /\ c.bg = f.bg /\ c.padded = (f.form # "text") /\ c.joined = (f.form = "joined")
    BY <1>2, SegmentIs DEF GoodBlock
  <1>5. WidthFor(e, m) = WidthFor(f, n) => b = c
    BY DEF SegmentBlock, LikeElement
  <1>6. AlikeBlock(b, c)
    BY <1>1, <1>3, <1>4 DEF AlikeBlock, LikeElement
  <1> QED  BY <1>3, <1>4, <1>5, <1>6

\* The same line twice, the first time told to save m, the second to save n, and no wider
\* the first time: at all; by d in one segment; by nothing.
Thinner(x, m, y, n) ==
    /\ IsLine(x) /\ IsLine(y) /\ Len(x) = Len(y)
    /\ \A i \in 1..Len(x) : LikeElement(x[i], y[i]) /\ WidthFor(x[i], m) <= WidthFor(y[i], n)
ThinnerBy(x, m, y, n, d) ==
    \E i \in 1..Len(x) : x[i].widths # {0} /\ WidthFor(x[i], m) + d <= WidthFor(y[i], n)
AsWide(x, m, y, n) == \A i \in 1..Len(x) : WidthFor(x[i], m) = WidthFor(y[i], n)

LEMMA BlocksAlike ==
    ASSUME NEW x, NEW y, NEW right \in BOOLEAN,
           NEW m \in Nat, NEW n \in Nat, NEW d \in Nat, Thinner(x, m, y, n)
    PROVE  LET bs == Blocks(x, right, m)
               cs == Blocks(y, right, n)
           IN  /\ GoodBlocks(bs) /\ GoodBlocks(cs) /\ Alike(bs, cs)
               /\ ThinnerBy(x, m, y, n, d) => Saves(bs, cs, d)
               /\ AsWide(x, m, y, n) => bs = cs
  <1> DEFINE len == Len(x)
             p(i) == SegmentBlock(x[i], right, m)
             q(i) == SegmentBlock(y[i], right, n)
             saved(i) == x[i].widths # {0} /\ WidthFor(x[i], m) + d <= WidthFor(y[i], n)
             same(i) == WidthFor(x[i], m) = WidthFor(y[i], n)
  <1>0. /\ IsLine(x) /\ IsLine(y) /\ Len(x) = Len(y)
        /\ \A i \in 1..Len(x) : LikeElement(x[i], y[i]) /\ WidthFor(x[i], m) <= WidthFor(y[i], n)
    BY DEF Thinner
  <1>1. len \in Nat /\ \A i \in 1..len : IsElement(x[i]) /\ IsElement(y[i])
    BY <1>0 DEF IsLine, ToSet
  <1>2. PICK g \in [0..len -> Seq(BlockSet)] :
           /\ g[0] = <<>> /\ Blocks(x, right, m) = g[len]
           /\ \A i \in 1..len : g[i] = IF x[i].widths = {0} THEN g[i - 1] ELSE Append(g[i - 1], p(i))
    <2>1. \E g \in [0..Len(x) -> Seq(BlockSet)] : BlocksBy(g, x, right, m)
      BY <1>0, BlocksAre
    <2> QED  BY <2>1 DEF BlocksBy
  <1>3. PICK h \in [0..len -> Seq(BlockSet)] :
           /\ h[0] = <<>> /\ Blocks(y, right, n) = h[len]
           /\ \A i \in 1..len : h[i] = IF y[i].widths = {0} THEN h[i - 1] ELSE Append(h[i - 1], q(i))
    <2>1. \E h \in [0..Len(y) -> Seq(BlockSet)] : BlocksBy(h, y, right, n)
      BY <1>0, BlocksAre
    <2> QED  BY <1>0, <2>1 DEF BlocksBy
  <1> DEFINE holds(k) == /\ GoodBlocks(g[k]) /\ GoodBlocks(h[k]) /\ Alike(g[k], h[k])
                         /\ (\E i \in 1..k : saved(i)) => Saves(g[k], h[k], d)
                         /\ (\A i \in 1..k : same(i)) => g[k] = h[k]
             T == {k \in 0..len : holds(k)}
  <1>4. 0 \in T
    <2>1. GoodBlocks(<<>>) /\ Alike(<<>>, <<>>)
      BY DEF GoodBlocks, Alike
    <2> HIDE DEF saved, same
    <2> QED  BY <1>1, <1>2, <1>3, <2>1
  <1>5. ASSUME NEW k \in 0..len - 1, k \in T PROVE k + 1 \in T
    <2> DEFINE j == k + 1
    <2>1. j \in 1..len /\ j - 1 = k /\ k \in 0..len /\ \A i \in 1..j : i \in 1..k \/ i = j
      BY <1>1
    <2>2. 1..k \subseteq 1..j /\ j \in 1..j
      BY <2>1
    <2> HIDE DEF len, p, q, j
    <2>3. g[k] \in Seq(BlockSet) /\ h[k] \in Seq(BlockSet) /\ holds(k)
      BY <1>5, <2>1
    <2>4. LikeElement(x[j], y[j]) /\ WidthFor(x[j], m) <= WidthFor(y[j], n)
      BY <1>0, <2>1 DEF len
    <2>5. CASE x[j].widths = {0}
      <3>1. y[j].widths = {0}
        BY <2>4, <2>5 DEF LikeElement
      <3>2. g[j] = g[k] /\ h[j] = h[k] /\ ~saved(j)
        BY <1>2, <1>3, <2>1, <2>5, <3>1
      <3> HIDE DEF saved, same
      <3>3. (\E i \in 1..j : saved(i)) => Saves(g[k], h[k], d)
        BY <2>1, <2>3, <3>2
      <3>4. (\A i \in 1..j : same(i)) => g[k] = h[k]
        BY <2>2, <2>3
      <3>5. holds(j)
        BY <2>3, <3>2, <3>3, <3>4
      <3> QED  BY <2>1, <3>5 DEF j
    <2>6. CASE x[j].widths # {0}
      <3>1. /\ GoodBlock(p(j)) /\ GoodBlock(q(j)) /\ AlikeBlock(p(j), q(j))
            /\ Len(p(j).cells) = WidthFor(x[j], m) + Padding(x[j], right)
            /\ Len(q(j).cells) = WidthFor(y[j], n) + Padding(x[j], right)
            /\ same(j) => p(j) = q(j)
        <4>1. IsElement(x[j]) /\ IsElement(y[j])
          BY <1>1, <2>1
        <4> QED  BY <2>4, <2>6, <4>1, SegmentsAlike DEF p, q
      <3>2. g[j] = Append(g[k], p(j)) /\ h[j] = Append(h[k], q(j))
        BY <1>2, <1>3, <2>1, <2>4, <2>6 DEF LikeElement
      <3>3. saved(j) => Len(p(j).cells) + d <= Len(q(j).cells)
        <4>1. WidthFor(x[j], m) \in Nat /\ WidthFor(y[j], n) \in Nat
          BY <1>1, <2>1, Widths
        <4>2. Padding(x[j], right) \in Nat
          BY DEF Padding
        <4> QED  BY <3>1, <4>1, <4>2
      <3>4. p(j) \in BlockSet /\ q(j) \in BlockSet
        BY <3>1 DEF GoodBlock
      <3> HIDE DEF saved, same
      <3>5. GoodBlocks(g[j]) /\ GoodBlocks(h[j])
        BY <2>3, <3>1, <3>2, GoodAppended
      <3>6. Alike(g[j], h[j]) /\ (Saves(g[k], h[k], d) \/ saved(j) => Saves(g[j], h[j], d))
        BY <2>3, <3>1, <3>2, <3>3, <3>4, AlikeAppended
      <3>7. (\E i \in 1..j : saved(i)) => Saves(g[j], h[j], d)
        BY <2>1, <2>3, <3>6
      <3>8. (\A i \in 1..j : same(i)) => g[j] = h[j]
        BY <2>2, <2>3, <3>1, <3>2
      <3>9. holds(j)
        BY <3>5, <3>6, <3>7, <3>8
      <3> QED  BY <2>1, <3>9 DEF j
    <2> QED  BY <2>5, <2>6
  <1>6. len \in T
    <2> HIDE DEF T
    <2>1. \A k \in 0..len : k \in T
      BY <1>1, <1>4, <1>5, Induct
    <2> QED  BY <1>1, <2>1
  <1>7. holds(len)
    BY <1>6
  <1> HIDE DEF saved, same
  <1>8. /\ GoodBlocks(g[len]) /\ GoodBlocks(h[len]) /\ Alike(g[len], h[len])
        /\ (\E i \in 1..len : saved(i)) => Saves(g[len], h[len], d)
        /\ (\A i \in 1..len : same(i)) => g[len] = h[len]
    BY <1>7
  <1> QED  BY <1>2, <1>3, <1>8 DEF saved, same, ThinnerBy, AsWide

----------------------------------------------------------------------------
(* Cells between two colours. *)

\* The background beside a row that stands between l and r.
Beside(row, i, l, r) == IF i < 1 THEN l ELSE IF i > Len(row) THEN r ELSE row[i].bg

\* An arrow or separator between backgrounds a and b.
CellFits(c, a, b) ==
    /\ c.shows \in {"segment", "end", "right_tail"} => c.fg = a
    /\ c.shows \in {"right_segment", "left_tail", "right_start"} => c.fg = b
    /\ c.shows \in {"segment", "sub", "right_sub"} => c.bg = b
    /\ c.shows \in {"right_segment", "sub", "right_sub"} => c.bg = a

SeamlessIn(row, l, r) ==
    \A i \in 1..Len(row) : CellFits(row[i], Beside(row, i - 1, l, r), Beside(row, i + 1, l, r))

FirstBg(row, r) == IF row = <<>> THEN r ELSE row[1].bg
LastBg(row, l)  == IF row = <<>> THEN l ELSE row[Len(row)].bg

NoGapIn(row) == \A i \in 1..Len(row) : row[i].shows # "gap"

LEMMA SeamlessJoined ==
    ASSUME NEW a \in Seq(CellSet), NEW b \in Seq(CellSet), NEW l, NEW r,
           SeamlessIn(a, l, FirstBg(b, r)), SeamlessIn(b, LastBg(a, l), r)
    PROVE  SeamlessIn(a \o b, l, r)
  <1> DEFINE m == Len(a)
             n == Len(b)
             row == a \o b
  <1>1. m \in Nat /\ n \in Nat /\ row \in Seq(CellSet) /\ Len(row) = m + n
    OBVIOUS
  <1>2. /\ \A i \in 1..m : row[i] = a[i]
        /\ \A i \in m + 1..m + n : row[i] = b[i - m]
    OBVIOUS
  <1>3. (a = <<>> <=> m = 0) /\ (b = <<>> <=> n = 0)
    OBVIOUS
  <1> HIDE DEF m, n, row
  <1>4. ASSUME NEW i \in 1..m + n
        PROVE  CellFits(row[i], Beside(row, i - 1, l, r), Beside(row, i + 1, l, r))
    <2>1. CASE i <= m
      <3>1. CellFits(a[i], Beside(a, i - 1, l, FirstBg(b, r)), Beside(a, i + 1, l, FirstBg(b, r)))
        BY <1>1, <2>1 DEF SeamlessIn, m
      <3>2. row[i] = a[i]
        BY <1>1, <1>2, <2>1
      <3>3. Beside(row, i - 1, l, r) = Beside(a, i - 1, l, FirstBg(b, r))
        <4>1. i = 1 \/ i - 1 \in 1..m
          BY <1>1, <2>1
        <4> QED  BY <1>1, <1>2, <2>1, <4>1 DEF Beside, m
      <3>4. Beside(row, i + 1, l, r) = Beside(a, i + 1, l, FirstBg(b, r))
        <4>1. CASE i < m
          <5>1. i + 1 \in 1..m
            BY <1>1, <4>1
          <5> QED  BY <1>1, <1>2, <5>1 DEF Beside, m
        <4>2. CASE i = m /\ n = 0
          BY <1>1, <1>3, <4>2 DEF Beside, m, FirstBg
        <4>3. CASE i = m /\ n # 0
          <5>1. m + 1 \in m + 1..m + n /\ (m + 1) - m = 1
            BY <1>1, <4>3
          <5>2. row[m + 1] = b[1]
            BY <1>2, <5>1
          <5> QED  BY <1>1, <1>3, <4>3, <5>2 DEF Beside, m, FirstBg
        <4> QED  BY <1>1, <2>1, <4>1, <4>2, <4>3
      <3> QED  BY <3>1, <3>2, <3>3, <3>4
    <2>2. CASE i > m
      <3> DEFINE j == i - m
      <3>1. j \in 1..n /\ i \in m + 1..m + n /\ j + m = i
        BY <1>1, <2>2
      <3> HIDE DEF j
      <3>2. CellFits(b[j], Beside(b, j - 1, LastBg(a, l), r), Beside(b, j + 1, LastBg(a, l), r))
        BY <1>1, <3>1 DEF SeamlessIn, n
      <3>3. row[i] = b[j]
        BY <1>1, <1>2, <3>1 DEF j
      <3>4. Beside(row, i + 1, l, r) = Beside(b, j + 1, LastBg(a, l), r)
        <4>1. CASE j = n
          BY <1>1, <3>1, <4>1 DEF Beside, n
        <4>2. CASE j < n
          <5>1. i + 1 \in m + 1..m + n /\ (i + 1) - m = j + 1
            BY <1>1, <3>1, <4>2
          <5>2. row[i + 1] = b[j + 1]
            BY <1>2, <5>1
          <5> QED  BY <1>1, <3>1, <4>2, <5>1, <5>2 DEF Beside, n
        <4> QED  BY <1>1, <3>1, <4>1, <4>2
      <3>5. Beside(row, i - 1, l, r) = Beside(b, j - 1, LastBg(a, l), r)
        <4>1. CASE j = 1 /\ m = 0
          BY <1>1, <1>3, <3>1, <4>1 DEF Beside, LastBg
        <4>2. CASE j = 1 /\ m # 0
          <5>1. i - 1 = m /\ m \in 1..m
            BY <1>1, <3>1, <4>2
          <5>2. row[m] = a[m]
            BY <1>2, <5>1
          <5> QED  BY <1>1, <1>3, <4>2, <5>1, <5>2 DEF Beside, LastBg, m
        <4>3. CASE j # 1
          <5>1. i - 1 \in m + 1..m + n /\ (i - 1) - m = j - 1 /\ j - 1 \in 1..n
            BY <1>1, <3>1, <4>3
          <5>2. row[i - 1] = b[j - 1]
            BY <1>2, <5>1
          <5> QED  BY <1>1, <3>1, <4>3, <5>1, <5>2 DEF Beside, n
        <4> QED  BY <4>1, <4>2, <4>3
      <3> QED  BY <3>2, <3>3, <3>4, <3>5
    <2> QED  BY <1>1, <2>1, <2>2
  <1> QED  BY <1>1, <1>4 DEF SeamlessIn, row

\* Without a gap, and seamless wherever it stands.
Tight(row) == row \in Seq(CellSet) /\ NoGapIn(row) /\ \A l, r \in AllColors : SeamlessIn(row, l, r)

LEMMA BgsAre ==
    ASSUME NEW row \in Seq(CellSet), NEW c \in AllColors
    PROVE  FirstBg(row, c) \in AllColors /\ LastBg(row, c) \in AllColors
  <1>1. CASE row = <<>>
    BY <1>1 DEF FirstBg, LastBg
  <1>2. CASE row # <<>>
    <2>1. row[1] \in CellSet /\ row[Len(row)] \in CellSet
      BY <1>2
    <2> QED  BY <1>2, <2>1 DEF FirstBg, LastBg, CellSet
  <1> QED  BY <1>1, <1>2

LEMMA NoGapJoined ==
    ASSUME NEW a \in Seq(CellSet), NEW b \in Seq(CellSet), NoGapIn(a), NoGapIn(b)
    PROVE  NoGapIn(a \o b)
  <1>1. Len(a \o b) = Len(a) + Len(b) /\ Len(a) \in Nat /\ Len(b) \in Nat
    OBVIOUS
  <1>2. ASSUME NEW i \in 1..Len(a) + Len(b) PROVE (a \o b)[i].shows # "gap"
    <2>1. CASE i <= Len(a)
      <3>1. (a \o b)[i] = a[i] /\ i \in 1..Len(a)
        BY <2>1
      <3> QED  BY <3>1 DEF NoGapIn
    <2>2. CASE i > Len(a)
      <3>1. (a \o b)[i] = b[i - Len(a)] /\ i - Len(a) \in 1..Len(b)
        BY <2>2
      <3> QED  BY <3>1 DEF NoGapIn
    <2> QED  BY <1>1, <2>1, <2>2
  <1> QED  BY <1>1, <1>2 DEF NoGapIn

\* Seamless wherever it stands.
Sound(row) == row \in Seq(CellSet) /\ \A l, r \in AllColors : SeamlessIn(row, l, r)

LEMMA SoundJoined ==
    ASSUME NEW a, NEW b, Sound(a), Sound(b)
    PROVE  Sound(a \o b) /\ Len(a \o b) = Len(a) + Len(b)
  <1>1. a \in Seq(CellSet) /\ b \in Seq(CellSet)
    BY DEF Sound
  <1>2. ASSUME NEW l \in AllColors, NEW r \in AllColors PROVE SeamlessIn(a \o b, l, r)
    <2>1. FirstBg(b, r) \in AllColors /\ LastBg(a, l) \in AllColors
      BY <1>1, BgsAre
    <2> QED  BY <1>1, <2>1, SeamlessJoined DEF Sound
  <1>3. a \o b \in Seq(CellSet) /\ Len(a \o b) = Len(a) + Len(b)
    BY <1>1
  <1> QED  BY <1>2, <1>3 DEF Sound

----------------------------------------------------------------------------
(* Columns *)

LEMMA FillingTight ==
    ASSUME NEW row \in Seq(CellSet), \A i \in 1..Len(row) : row[i].shows \in {"text", "blank", "frame"}
    PROVE  Tight(row)
  BY DEF Tight, NoGapIn, SeamlessIn, CellFits

LEMMA NothingTight == Tight(<<>>)
  <1>1. <<>> \in Seq(CellSet) /\ Len(<<>>) = 0
    OBVIOUS
  <1> QED  BY <1>1 DEF Tight, NoGapIn, SeamlessIn

LEMMA GoodBlockIs ==
    ASSUME NEW b, GoodBlock(b)
    PROVE  /\ Tight(b.cells) /\ b.cells # <<>> /\ b.bg \in AllColors /\ Len(b.cells) \in Nat
           /\ b.cells[1].bg = b.bg /\ b.cells[Len(b.cells)].bg = b.bg
  <1>1. b.cells \in Seq(CellSet) /\ b.bg \in AllColors /\ b.cells # <<>>
    BY DEF GoodBlock, BlockSet
  <1>2. \A i \in 1..Len(b.cells) : b.cells[i].shows \in {"text", "blank"} /\ b.cells[i].bg = b.bg
    BY <1>1 DEF GoodBlock, PlainOn
  <1>3. 1 \in 1..Len(b.cells) /\ Len(b.cells) \in 1..Len(b.cells)
    BY <1>1
  <1>4. Tight(b.cells)
    BY <1>1, <1>2, FillingTight
  <1> QED  BY <1>1, <1>2, <1>3, <1>4

LEMMA GlyphIs ==
    ASSUME NEW seps, NEW name \in Separators, NEW fg \in AllColors, NEW bg \in AllColors
    PROVE  LET g == Glyph(seps, name, fg, bg) IN
           /\ g \in Seq(CellSet) /\ NoGapIn(g)
           /\ \A l, r : CellFits(Cell(name, fg, bg), l, r) => SeamlessIn(g, l, r)
  <1> DEFINE c == Cell(name, fg, bg)
  <1>1. c \in CellSet /\ c.shows = name
    BY DEF Cell, CellSet
  <1>2. name # "gap"
    BY DEF Separators
  <1>3. Glyph(seps, name, fg, bg) = <<>> \/ Glyph(seps, name, fg, bg) = <<c>>
    BY DEF Glyph
  <1> HIDE DEF c
  <1>4. <<c>> \in Seq(CellSet) /\ Len(<<c>>) = 1 /\ <<c>>[1] = c
    BY <1>1
  <1>5. NoGapIn(<<c>>) /\ NoGapIn(<<>>) /\ <<>> \in Seq(CellSet)
    BY <1>1, <1>2, <1>4 DEF NoGapIn
  <1>6. ASSUME NEW l, NEW r, CellFits(c, l, r) PROVE SeamlessIn(<<c>>, l, r)
    <2>1. Beside(<<c>>, 0, l, r) = l /\ Beside(<<c>>, 2, l, r) = r
      BY <1>4 DEF Beside
    <2>2. \A i \in 1..1 : i - 1 = 0 /\ i + 1 = 2 /\ i = 1
      OBVIOUS
    <2> QED  BY <1>4, <1>6, <2>1, <2>2 DEF SeamlessIn
  <1>7. \A l, r : SeamlessIn(<<>>, l, r)
    BY DEF SeamlessIn
  <1> QED  BY <1>3, <1>4, <1>5, <1>6, <1>7 DEF c

\* What is between two blocks: it fits there.
JointOk(joint, a, b) == joint \in Seq(CellSet) /\ NoGapIn(joint) /\ SeamlessIn(joint, a.bg, b.bg)

LEMMA NothingIsJoint ==
    ASSUME NEW a, NEW b
    PROVE  JointOk(<<>>, a, b)
  BY DEF JointOk, NoGapIn, SeamlessIn

LEMMA BlankTight ==
    ASSUME NEW bg \in AllColors
    PROVE  Tight(Blank(bg)) /\ Blank(bg) # <<>> /\ FirstBg(Blank(bg), bg) = bg /\ LastBg(Blank(bg), bg) = bg
  <1>1. Blank(bg) \in Seq(CellSet) /\ Len(Blank(bg)) = 1 /\ Blank(bg)[1] = Cell("blank", Own, bg)
    <2>1. \A i \in 1..1 : Blank(bg)[i] = Cell("blank", Own, bg)
      BY CellsAre DEF Blank
    <2>2. Blank(bg) \in Seq(CellSet) /\ Len(Blank(bg)) = 1
      BY CellsAre DEF Blank
    <2>3. 1 \in 1..1
      OBVIOUS
    <2> QED  BY <2>1, <2>2, <2>3
  <1>2. Blank(bg)[1].shows = "blank" /\ Blank(bg)[1].bg = bg
    BY <1>1 DEF Cell
  <1>3. Tight(Blank(bg))
    BY <1>1, <1>2, FillingTight
  <1> QED  BY <1>1, <1>2, <1>3 DEF FirstBg, LastBg

LEMMA LeftJointOk ==
    ASSUME NEW seps, NEW a, NEW b, GoodBlock(a), GoodBlock(b)
    PROVE  JointOk(LeftJoint(seps, a, b), a, b)
  <1> DEFINE name  == IF a.bg = b.bg THEN "sub" ELSE "segment"
             fg == IF a.bg = b.bg THEN Own ELSE a.bg
             glyph == Glyph(seps, name, fg, b.bg)
  <1>1. a.bg \in AllColors /\ b.bg \in AllColors /\ Own \in AllColors /\ NoColor \in AllColors
    BY GoodBlockIs DEF AllColors
  <1>2. name \in Separators /\ fg \in AllColors
    BY <1>1 DEF Separators
  <1>3. CellFits(Cell(name, fg, b.bg), a.bg, b.bg)
    BY DEF CellFits, Cell
  <1>4. JointOk(glyph, a, b)
    <2> HIDE DEF name, fg
    <2> QED  BY <1>1, <1>2, <1>3, GlyphIs DEF JointOk
  <1>5. JointOk(Blank(NoColor), a, b)
    BY <1>1, BlankTight DEF JointOk, Tight
  <1>6. \/ LeftJoint(seps, a, b) = <<>> \/ LeftJoint(seps, a, b) = glyph
        \/ LeftJoint(seps, a, b) = Blank(NoColor)
    BY DEF LeftJoint
  <1> HIDE DEF glyph
  <1> QED  BY <1>4, <1>5, <1>6, NothingIsJoint

LEMMA RightJointOk ==
    ASSUME NEW seps, NEW a, NEW b, GoodBlock(a), GoodBlock(b)
    PROVE  JointOk(RightJoint(seps, a, b), a, b)
  <1>1. a.bg \in AllColors /\ b.bg \in AllColors /\ Own \in AllColors
    BY GoodBlockIs DEF AllColors
  <1>2. a.bg = b.bg => JointOk(Glyph(seps, "right_sub", Own, b.bg), a, b)
    <2>1. "right_sub" \in Separators
      BY DEF Separators
    <2>2. a.bg = b.bg => CellFits(Cell("right_sub", Own, b.bg), a.bg, b.bg)
      BY DEF CellFits, Cell
    <2> QED  BY <1>1, <2>1, <2>2, GlyphIs DEF JointOk
  <1>3. JointOk(Glyph(seps, "right_segment", b.bg, a.bg), a, b)
    <2>1. "right_segment" \in Separators
      BY DEF Separators
    <2>2. CellFits(Cell("right_segment", b.bg, a.bg), a.bg, b.bg)
      BY DEF CellFits, Cell
    <2> QED  BY <1>1, <2>1, <2>2, GlyphIs DEF JointOk
  <1> QED  BY <1>2, <1>3, NothingIsJoint DEF RightJoint

----------------------------------------------------------------------------
(* A chain of blocks *)

JointsOk(joint, bs) == \A i \in 2..Len(bs) : JointOk(joint[i], bs[i - 1], bs[i])

ChainBy(f, bs, joint) ==
    /\ f[1] = bs[1].cells /\ Chain(bs, joint) = f[Len(bs)]
    /\ \A i \in 2..Len(bs) : f[i] = f[i - 1] \o (joint[i] \o bs[i].cells)

LEMMA ChainIs ==
    ASSUME NEW bs, GoodBlocks(bs), bs # <<>>, NEW joint, JointsOk(joint, bs)
    PROVE  \E f \in [1..Len(bs) -> Seq(CellSet)] : ChainBy(f, bs, joint)
  <1> DEFINE n == Len(bs)
             pieces == [i \in DOMAIN bs |-> (IF i = 1 THEN <<>> ELSE joint[i]) \o bs[i].cells]
  <1>1. n \in Nat \ {0} /\ DOMAIN bs = 1..n
    BY DEF GoodBlocks
  <1>2. ASSUME NEW i \in 1..n PROVE bs[i].cells \in Seq(CellSet)
    BY <1>2 DEF GoodBlocks, GoodBlock, BlockSet
  <1>3. ASSUME NEW i \in 2..n PROVE joint[i] \in Seq(CellSet)
    BY <1>3 DEF JointsOk, JointOk
  <1> HIDE DEF n
  <1>4. 1 \in 1..n /\ pieces[1] = bs[1].cells
    <2>1. 1 \in 1..n
      BY <1>1
    <2>2. <<>> \o bs[1].cells = bs[1].cells
      BY <1>2, <2>1
    <2> QED  BY <1>1, <2>1, <2>2
  <1>5. ASSUME NEW i \in 2..n PROVE i \in 1..n /\ pieces[i] = joint[i] \o bs[i].cells
    <2>1. i \in 1..n /\ i # 1
      BY <1>1
    <2> QED  BY <1>1, <2>1
  <1>6. pieces \in [1..n -> Seq(CellSet)]
    <2>1. ASSUME NEW i \in 1..n PROVE pieces[i] \in Seq(CellSet)
      <3>1. CASE i = 1
        BY <1>2, <1>4, <3>1
      <3>2. CASE i # 1
        <4>1. i \in 2..n
          BY <1>1, <3>2
        <4>2. pieces[i] = joint[i] \o bs[i].cells
          BY <1>5, <4>1
        <4>3. joint[i] \in Seq(CellSet) /\ bs[i].cells \in Seq(CellSet)
          BY <1>2, <1>3, <4>1
        <4> HIDE DEF pieces
        <4> QED  BY <4>2, <4>3
      <3> QED  BY <3>1, <3>2
    <2>2. pieces = [i \in 1..n |-> pieces[i]]
      BY <1>1
    <2> HIDE DEF pieces
    <2> QED  BY <2>1, <2>2
  <1>7. Chain(bs, joint) = FlattenSeq(pieces)
    BY DEF Chain
  <1> HIDE DEF pieces
  <1>8. \E f \in [1..n -> Seq(CellSet)] : FlatBy(f, pieces, n)
    BY <1>1, <1>6, Flattened
  <1>9. PICK f \in [1..n -> Seq(CellSet)] : FlatBy(f, pieces, n)
    BY <1>8
  <1>10. ChainBy(f, bs, joint)
    BY <1>4, <1>5, <1>7, <1>9 DEF FlatBy, ChainBy, n
  <1> QED  BY <1>10 DEF n

\* A column of blocks with what fits between them: seamless wherever it stands.
LEMMA ChainTight ==
    ASSUME NEW bs, GoodBlocks(bs), bs # <<>>, NEW joint, JointsOk(joint, bs)
    PROVE  LET c == Chain(bs, joint) IN
           /\ Tight(c) /\ c # <<>> /\ c[1].bg = bs[1].bg /\ c[Len(c)].bg = bs[Len(bs)].bg
  <1> DEFINE n == Len(bs)
             m == n - 1
             good(c, a, b) == Tight(c) /\ c # <<>> /\ c[1].bg = a.bg /\ c[Len(c)].bg = b.bg
  <1>1. n \in Nat \ {0} /\ m \in Nat /\ n = m + 1
    BY DEF GoodBlocks
  <1>2. \A i \in 1..n : GoodBlock(bs[i])
    BY DEF GoodBlocks
  <1>3. PICK f \in [1..n -> Seq(CellSet)] : ChainBy(f, bs, joint)
    BY ChainIs
  <1>4. /\ f[1] = bs[1].cells /\ Chain(bs, joint) = f[n]
        /\ \A i \in 2..n : f[i] = f[i - 1] \o (joint[i] \o bs[i].cells)
    BY <1>3 DEF ChainBy
  <1>5. \A i \in 2..n : JointOk(joint[i], bs[i - 1], bs[i])
    BY DEF JointsOk
  <1> DEFINE T == {k \in 0..m : good(f[k + 1], bs[1], bs[k + 1])}
  <1> HIDE DEF n, m
  <1>6. 0 \in T
    <2>1. 1 \in 1..n /\ 0 \in 0..m
      BY <1>1
    <2>2. GoodBlock(bs[1])
      BY <1>2, <2>1
    <2>3. good(f[1], bs[1], bs[1])
      BY <1>4, <2>2, GoodBlockIs
    <2> QED  BY <2>1, <2>3
  <1>7. ASSUME NEW k \in 0..m - 1, k \in T PROVE k + 1 \in T
    <2> DEFINE i == k + 2
               a == f[k + 1]
               j == joint[i]
               c == bs[i].cells
    <2>1. i \in 2..n /\ i \in 1..n /\ i - 1 = k + 1 /\ k + 1 \in 0..m /\ k + 1 \in 1..n
          /\ (k + 1) + 1 = i
      BY <1>1
    <2>2. good(a, bs[1], bs[k + 1])
      BY <1>7
    <2>3. f[i] = a \o (j \o c)
      BY <1>4, <2>1
    <2>4. GoodBlock(bs[i]) /\ JointOk(j, bs[k + 1], bs[i])
      BY <1>2, <1>5, <2>1
    <2> HIDE DEF i, j, c, a
    <2>5. good(a \o (j \o c), bs[1], bs[i])
      <3>1. Tight(c) /\ c # <<>> /\ c[1].bg = bs[i].bg /\ c[Len(c)].bg = bs[i].bg
        BY <2>4, GoodBlockIs DEF c
      <3>2. a \in Seq(CellSet) /\ j \in Seq(CellSet) /\ c \in Seq(CellSet) /\ a # <<>>
        BY <2>2, <2>4, <3>1 DEF Tight, JointOk
      <3>3. NoGapIn(a) /\ NoGapIn(j) /\ NoGapIn(c) /\ SeamlessIn(j, bs[k + 1].bg, bs[i].bg)
        BY <2>2, <2>4, <3>1 DEF Tight, JointOk
      <3>4. j \o c \in Seq(CellSet) /\ NoGapIn(j \o c)
        BY <3>2, <3>3, NoGapJoined
      <3>5. a \o (j \o c) \in Seq(CellSet) /\ NoGapIn(a \o (j \o c))
        <4> DEFINE d == j \o c
        <4> HIDE DEF d
        <4>1. d \in Seq(CellSet) /\ NoGapIn(d)
          BY <3>4 DEF d
        <4>2. a \o d \in Seq(CellSet) /\ NoGapIn(a \o d)
          BY <3>2, <3>3, <4>1, NoGapJoined
        <4> QED  BY <4>2 DEF d
      <3>6. LastBg(a, NoColor) = bs[k + 1].bg /\ FirstBg(c, NoColor) = bs[i].bg
            /\ \A l : LastBg(a, l) = bs[k + 1].bg /\ FirstBg(c, l) = bs[i].bg
        BY <2>2, <3>1 DEF LastBg, FirstBg
      <3>7. ASSUME NEW l \in AllColors, NEW r \in AllColors PROVE SeamlessIn(a \o (j \o c), l, r)
        <4>1. bs[k + 1].bg \in AllColors /\ LastBg(j, bs[k + 1].bg) \in AllColors
          <5>1. GoodBlock(bs[k + 1])
            BY <1>2, <2>1
          <5>2. bs[k + 1].bg \in AllColors
            BY <5>1, GoodBlockIs
          <5> QED  BY <3>2, <5>2, BgsAre
        <4>2. SeamlessIn(c, LastBg(j, bs[k + 1].bg), r)
          BY <3>1, <4>1 DEF Tight
        <4>3. SeamlessIn(j, bs[k + 1].bg, FirstBg(c, r))
          BY <3>3, <3>6
        <4>4. SeamlessIn(j \o c, bs[k + 1].bg, r)
          BY <3>2, <4>2, <4>3, SeamlessJoined
        <4>5. FirstBg(j \o c, r) \in AllColors
          BY <3>4, BgsAre
        <4>6. SeamlessIn(a, l, FirstBg(j \o c, r))
          BY <2>2, <4>5 DEF Tight
        <4>7. SeamlessIn(j \o c, LastBg(a, l), r)
          BY <3>6, <4>4
        <4> QED  BY <3>2, <3>4, <4>6, <4>7, SeamlessJoined
      <3>8. Tight(a \o (j \o c))
        BY <3>5, <3>7 DEF Tight
      <3>9. Len(a) \in Nat /\ Len(a) # 0 /\ Len(j) \in Nat /\ Len(c) \in Nat /\ Len(c) # 0
            /\ Len(j \o c) = Len(j) + Len(c) /\ (j \o c)[Len(j) + Len(c)] = c[Len(c)]
        BY <3>1, <3>2
      <3>10. /\ Len(a \o (j \o c)) = Len(a) + (Len(j) + Len(c))
             /\ (a \o (j \o c))[1] = a[1]
             /\ (a \o (j \o c))[Len(a) + (Len(j) + Len(c))] = (j \o c)[Len(j) + Len(c)]
        BY <3>2, <3>4, <3>9
      <3>11. a \o (j \o c) # <<>>
        BY <3>5, <3>9, <3>10
      <3> QED  BY <2>2, <3>1, <3>8, <3>9, <3>10, <3>11
    <2> QED  BY <2>1, <2>3, <2>5
  <1>8. m \in T
    <2>1. \A k \in 0..m : k \in T
      <3> HIDE DEF T
      <3> QED  BY <1>1, <1>6, <1>7, Induct
    <2> QED  BY <1>1, <2>1
  <1> QED  BY <1>1, <1>4, <1>8 DEF n

\* Chains of alike blocks: what a block saves, the chain saves.
LEMMA ChainsAlike ==
    ASSUME NEW bs, NEW cs, GoodBlocks(bs), GoodBlocks(cs), Alike(bs, cs), bs # <<>>,
           NEW joint, JointsOk(joint, bs), JointsOk(joint, cs), NEW d \in Nat
    PROVE  /\ Len(Chain(bs, joint)) <= Len(Chain(cs, joint))
           /\ Saves(bs, cs, d) => Len(Chain(bs, joint)) + d <= Len(Chain(cs, joint))
  <1> DEFINE n == Len(bs)
             m == n - 1
             saved(i) == Len(bs[i].cells) + d <= Len(cs[i].cells)
  <1>1. n \in Nat \ {0} /\ m \in Nat /\ n = m + 1 /\ Len(cs) = n /\ cs # <<>>
    BY DEF GoodBlocks, Alike
  <1>2. \A i \in 1..n : /\ bs[i].cells \in Seq(CellSet) /\ cs[i].cells \in Seq(CellSet)
                        /\ Len(bs[i].cells) <= Len(cs[i].cells)
    BY <1>1 DEF GoodBlocks, GoodBlock, BlockSet, Alike, AlikeBlock
  <1>3. PICK f \in [1..n -> Seq(CellSet)] : ChainBy(f, bs, joint)
    BY ChainIs
  <1>4. PICK g \in [1..n -> Seq(CellSet)] : ChainBy(g, cs, joint)
    BY <1>1, ChainIs
  <1>5. /\ f[1] = bs[1].cells /\ Chain(bs, joint) = f[n]
        /\ \A i \in 2..n : f[i] = f[i - 1] \o (joint[i] \o bs[i].cells)
    BY <1>3 DEF ChainBy
  <1>6. /\ g[1] = cs[1].cells /\ Chain(cs, joint) = g[n]
        /\ \A i \in 2..n : g[i] = g[i - 1] \o (joint[i] \o cs[i].cells)
    BY <1>1, <1>4 DEF ChainBy
  <1>7. \A i \in 2..n : joint[i] \in Seq(CellSet)
    BY DEF JointsOk, JointOk
  <1> DEFINE holds(k) == /\ Len(f[k]) <= Len(g[k])
                         /\ (\E i \in 1..k : saved(i)) => Len(f[k]) + d <= Len(g[k])
             T == {k \in 0..m : holds(k + 1)}
  <1> HIDE DEF n, m
  <1>8. 0 \in T
    <2>1. 1 \in 1..n /\ 0 \in 0..m /\ 0 + 1 = 1 /\ \A i \in 1..1 : i = 1
      BY <1>1
    <2>2. holds(1)
      BY <1>2, <1>5, <1>6, <2>1
    <2> HIDE DEF holds
    <2> QED  BY <2>1, <2>2
  <1>9. ASSUME NEW k \in 0..m - 1, k \in T PROVE k + 1 \in T
    <2> DEFINE i == k + 2
               j == k + 1
    <2>1. i \in 2..n /\ i \in 1..n /\ i - 1 = j /\ j \in 0..m /\ j \in 1..n /\ j + 1 = i
          /\ \A l \in 1..i : l \in 1..j \/ l = i
      BY <1>1
    <2>2. holds(j)
      BY <1>9
    <2> HIDE DEF i, j
    <2>3. /\ f[i] = f[j] \o (joint[i] \o bs[i].cells)
          /\ g[i] = g[j] \o (joint[i] \o cs[i].cells)
      BY <1>5, <1>6, <2>1
    <2>4. /\ f[j] \in Seq(CellSet) /\ g[j] \in Seq(CellSet) /\ joint[i] \in Seq(CellSet)
          /\ bs[i].cells \in Seq(CellSet) /\ cs[i].cells \in Seq(CellSet)
          /\ Len(bs[i].cells) <= Len(cs[i].cells)
      BY <1>2, <1>7, <2>1
    <2>5. /\ Len(f[i]) = Len(f[j]) + (Len(joint[i]) + Len(bs[i].cells))
          /\ Len(g[i]) = Len(g[j]) + (Len(joint[i]) + Len(cs[i].cells))
          /\ Len(f[j]) \in Nat /\ Len(g[j]) \in Nat /\ Len(joint[i]) \in Nat
          /\ Len(bs[i].cells) \in Nat /\ Len(cs[i].cells) \in Nat
      BY <2>3, <2>4
    <2>6. Len(f[j]) <= Len(g[j]) /\ Len(bs[i].cells) <= Len(cs[i].cells)
      BY <2>2, <2>4
    <2> DEFINE v == Len(f[j])
               w == Len(g[j])
               x == Len(joint[i])
               y == Len(bs[i].cells)
               z == Len(cs[i].cells)
    <2>7. /\ v \in Nat /\ w \in Nat /\ x \in Nat /\ y \in Nat /\ z \in Nat /\ v <= w /\ y <= z
          /\ Len(f[i]) = v + (x + y) /\ Len(g[i]) = w + (x + z)
      BY <2>5, <2>6
    <2>8. saved(i) => y + d <= z
      OBVIOUS
    <2>9. (\E l \in 1..j : saved(l)) => v + d <= w
      BY <2>2
    <2> HIDE DEF v, w, x, y, z, saved
    <2>10. Len(f[i]) <= Len(g[i])
      BY <2>7
    <2>11. ASSUME NEW l \in 1..i, saved(l) PROVE Len(f[i]) + d <= Len(g[i])
      <3>1. CASE l \in 1..j
        <4>1. v + d <= w
          BY <2>9, <2>11, <3>1
        <4> QED  BY <2>7, <4>1
      <3>2. CASE l = i
        <4>1. y + d <= z
          BY <2>8, <2>11, <3>2
        <4> QED  BY <2>7, <4>1
      <3> QED  BY <2>1, <3>1, <3>2
    <2>12. holds(i)
      BY <2>10, <2>11
    <2> HIDE DEF holds
    <2> QED  BY <2>1, <2>12 DEF j
  <1>10. m \in T
    <2>1. \A k \in 0..m : k \in T
      <3> HIDE DEF T
      <3> QED  BY <1>1, <1>8, <1>9, Induct
    <2> QED  BY <1>1, <2>1
  <1>11. holds(n)
    BY <1>1, <1>10
  <1> QED  BY <1>5, <1>6, <1>11 DEF Saves, n

----------------------------------------------------------------------------
(* A column: what is at its ends, and the chain between them. *)

ColumnOf(seps, bs, right) == IF right THEN RightColumn(seps, bs) ELSE LeftColumn(seps, bs)

CapOf(seps, b, right) ==
    IF right THEN Glyph(seps, "right_start", b.bg, NoColor) ELSE EndCap(seps, "left_tail", b)
LeadOf(b, right) == IF b.joined /\ (right \/ b.bg # NoColor) THEN Blank(b.bg) ELSE <<>>
JointsOf(seps, bs, right) ==
    IF right THEN [i \in 2..Len(bs) |-> RightJoint(seps, bs[i - 1], bs[i])]
    ELSE [i \in 2..Len(bs) |-> LeftJoint(seps, bs[i - 1], bs[i])]
EndOf(seps, b, right) == IF right THEN EndCap(seps, "right_tail", b) ELSE EndCap(seps, "end", b)

LEMMA PartsAre ==
    ASSUME NEW seps, NEW bs \in Seq(BlockSet), bs # <<>>, NEW right \in BOOLEAN
    PROVE  ColumnOf(seps, bs, right) =
             CapOf(seps, bs[1], right) \o LeadOf(bs[1], right)
             \o Chain(bs, JointsOf(seps, bs, right)) \o EndOf(seps, bs[Len(bs)], right)
  <1>1. Head(bs) = bs[1] /\ Last(bs) = bs[Len(bs)]
    BY DEF Last
  <1>2. CASE right
    <2>1. LeadOf(bs[1], right) = IF bs[1].joined THEN Blank(bs[1].bg) ELSE <<>>
      BY <1>2 DEF LeadOf
    <2>2. JointsOf(seps, bs, right) = [i \in 2..Len(bs) |-> RightJoint(seps, bs[i - 1], bs[i])]
      BY <1>2 DEF JointsOf
    <2> QED  BY <1>1, <1>2, <2>1, <2>2 DEF ColumnOf, RightColumn, CapOf, EndOf
  <1>3. CASE ~right
    <2>1. LeadOf(bs[1], right) = IF bs[1].joined /\ bs[1].bg # NoColor THEN Blank(bs[1].bg) ELSE <<>>
      BY <1>3 DEF LeadOf
    <2>2. JointsOf(seps, bs, right) = [i \in 2..Len(bs) |-> LeftJoint(seps, bs[i - 1], bs[i])]
      BY <1>3 DEF JointsOf
    <2> QED  BY <1>1, <1>3, <2>1, <2>2 DEF ColumnOf, LeftColumn, CapOf, EndOf
  <1> QED  BY <1>2, <1>3

LEMMA JointsAreOk ==
    ASSUME NEW seps, NEW bs, GoodBlocks(bs), NEW right \in BOOLEAN
    PROVE  JointsOk(JointsOf(seps, bs, right), bs)
  <1>1. ASSUME NEW i \in 2..Len(bs) PROVE GoodBlock(bs[i]) /\ GoodBlock(bs[i - 1])
    <2>1. Len(bs) \in Nat
      BY DEF GoodBlocks
    <2>2. i \in 1..Len(bs) /\ i - 1 \in 1..Len(bs)
      BY <2>1
    <2> QED  BY <2>2 DEF GoodBlocks
  <1>2. CASE right
    <2>1. \A i \in 2..Len(bs) : JointsOf(seps, bs, right)[i] = RightJoint(seps, bs[i - 1], bs[i])
      BY <1>2 DEF JointsOf
    <2> QED  BY <1>1, <2>1, RightJointOk DEF JointsOk
  <1>3. CASE ~right
    <2>1. \A i \in 2..Len(bs) : JointsOf(seps, bs, right)[i] = LeftJoint(seps, bs[i - 1], bs[i])
      BY <1>3 DEF JointsOf
    <2> QED  BY <1>1, <2>1, LeftJointOk DEF JointsOk
  <1> QED  BY <1>2, <1>3

\* What is at an end of a column looks to the column only.
EndsOk(cap, end, a, b) ==
    /\ cap \in Seq(CellSet) /\ NoGapIn(cap) /\ end \in Seq(CellSet) /\ NoGapIn(end)
    /\ \A l \in AllColors : SeamlessIn(cap, l, a)
    /\ \A r \in AllColors : SeamlessIn(end, b, r)

LEMMA EndsAreOk ==
    ASSUME NEW seps, NEW a, NEW b, GoodBlock(a), GoodBlock(b), NEW right \in BOOLEAN
    PROVE  EndsOk(CapOf(seps, a, right), EndOf(seps, b, right), a.bg, b.bg)
  <1>1. a.bg \in AllColors /\ b.bg \in AllColors /\ NoColor \in AllColors
    BY GoodBlockIs DEF AllColors
  <1>2. <<>> \in Seq(CellSet) /\ NoGapIn(<<>>) /\ \A l, r : SeamlessIn(<<>>, l, r)
    BY DEF NoGapIn, SeamlessIn
  <1>3. ASSUME NEW name \in {"left_tail", "right_start"}
        PROVE  LET g == Glyph(seps, name, a.bg, NoColor) IN
               g \in Seq(CellSet) /\ NoGapIn(g) /\ \A l : SeamlessIn(g, l, a.bg)
    <2>1. name \in Separators
      BY DEF Separators
    <2>2. \A l : CellFits(Cell(name, a.bg, NoColor), l, a.bg)
      BY DEF CellFits, Cell
    <2> QED  BY <1>1, <2>1, <2>2, GlyphIs
  <1>4. ASSUME NEW name \in {"end", "right_tail"}
        PROVE  LET g == Glyph(seps, name, b.bg, NoColor) IN
               g \in Seq(CellSet) /\ NoGapIn(g) /\ \A r : SeamlessIn(g, b.bg, r)
    <2>1. name \in Separators
      BY DEF Separators
    <2>2. \A r : CellFits(Cell(name, b.bg, NoColor), b.bg, r)
      BY DEF CellFits, Cell
    <2> QED  BY <1>1, <2>1, <2>2, GlyphIs
  <1>5. /\ CapOf(seps, a, right) \in Seq(CellSet) /\ NoGapIn(CapOf(seps, a, right))
        /\ \A l : SeamlessIn(CapOf(seps, a, right), l, a.bg)
    BY <1>2, <1>3 DEF CapOf, EndCap
  <1>6. /\ EndOf(seps, b, right) \in Seq(CellSet) /\ NoGapIn(EndOf(seps, b, right))
        /\ \A r : SeamlessIn(EndOf(seps, b, right), b.bg, r)
    BY <1>2, <1>4 DEF EndOf, EndCap
  <1> QED  BY <1>5, <1>6 DEF EndsOk

\* Whatever its blocks, no seam shows in a column, wherever it stands.
LEMMA ColumnTight ==
    ASSUME NEW seps, NEW bs, GoodBlocks(bs), NEW right \in BOOLEAN
    PROVE  Tight(ColumnOf(seps, bs, right))
  <1>1. CASE bs = <<>>
    <2>1. ColumnOf(seps, bs, right) = <<>>
      BY <1>1 DEF ColumnOf, LeftColumn, RightColumn
    <2> QED  BY <2>1, NothingTight
  <1>2. CASE bs # <<>>
    <2> DEFINE n     == Len(bs)
               cap   == CapOf(seps, bs[1], right)
               lead  == LeadOf(bs[1], right)
               chain == Chain(bs, JointsOf(seps, bs, right))
               end   == EndOf(seps, bs[n], right)
               a     == bs[1].bg
               b     == bs[n].bg
    <2>1. n \in Nat \ {0} /\ bs \in Seq(BlockSet) /\ 1 \in 1..n /\ n \in 1..n
      BY <1>2 DEF GoodBlocks
    <2>2. GoodBlock(bs[1]) /\ GoodBlock(bs[n])
      BY <2>1 DEF GoodBlocks
    <2>3. EndsOk(cap, end, a, b) /\ a \in AllColors /\ b \in AllColors
      BY <2>2, EndsAreOk, GoodBlockIs
    <2>4. Tight(lead) /\ \A r : FirstBg(lead, a) = a
      <3>1. Tight(<<>>) /\ FirstBg(<<>>, a) = a
        BY NothingTight DEF FirstBg
      <3>2. lead = <<>> \/ lead = Blank(a)
        BY DEF LeadOf
      <3> QED  BY <2>3, <3>1, <3>2, BlankTight
    <2>5. Tight(chain) /\ chain # <<>> /\ chain[1].bg = a /\ chain[Len(chain)].bg = b
      BY <1>2, JointsAreOk, ChainTight
    <2>6. ColumnOf(seps, bs, right) = ((cap \o lead) \o chain) \o end
      BY <1>2, <2>1, PartsAre
    <2> HIDE DEF cap, lead, chain, end, a, b, n
    <2>7. /\ cap \in Seq(CellSet) /\ lead \in Seq(CellSet) /\ chain \in Seq(CellSet) /\ end \in Seq(CellSet)
          /\ NoGapIn(cap) /\ NoGapIn(lead) /\ NoGapIn(chain) /\ NoGapIn(end)
      BY <2>3, <2>4, <2>5 DEF EndsOk, Tight
    <2>8. ASSUME NEW l \in AllColors PROVE SeamlessIn(cap \o lead, l, a)
      <3>1. SeamlessIn(cap, l, FirstBg(lead, a))
        BY <2>3, <2>4 DEF EndsOk
      <3>2. LastBg(cap, l) \in AllColors
        BY <2>7, BgsAre
      <3>3. SeamlessIn(lead, LastBg(cap, l), a)
        BY <2>3, <2>4, <3>2 DEF Tight
      <3> QED  BY <2>7, <3>1, <3>3, SeamlessJoined
    <2> DEFINE front == cap \o lead
               body  == front \o chain
    <2>9. front \in Seq(CellSet) /\ NoGapIn(front)
      BY <2>7, NoGapJoined
    <2> HIDE DEF front
    <2>10. body \in Seq(CellSet) /\ NoGapIn(body)
      BY <2>7, <2>9, NoGapJoined
    <2>11. LastBg(body, NoColor) = b /\ \A l : LastBg(body, l) = b
      <3>1. /\ Len(front) \in Nat /\ Len(chain) \in Nat /\ Len(chain) # 0
            /\ Len(body) = Len(front) + Len(chain) /\ body[Len(front) + Len(chain)] = chain[Len(chain)]
        BY <2>5, <2>7, <2>9
      <3>2. body # <<>>
        BY <2>10, <3>1
      <3> QED  BY <2>5, <3>1, <3>2 DEF LastBg
    <2>12. ASSUME NEW l \in AllColors, NEW r \in AllColors PROVE SeamlessIn(body, l, r)
      <3>1. SeamlessIn(front, l, FirstBg(chain, r))
        BY <2>5, <2>8 DEF FirstBg, front
      <3>2. LastBg(front, l) \in AllColors
        BY <2>9, BgsAre
      <3>3. SeamlessIn(chain, LastBg(front, l), r)
        BY <2>5, <3>2 DEF Tight
      <3> QED  BY <2>7, <2>9, <3>1, <3>3, SeamlessJoined
    <2> HIDE DEF body
    <2>13. ASSUME NEW l \in AllColors, NEW r \in AllColors PROVE SeamlessIn(body \o end, l, r)
      <3>1. FirstBg(end, r) \in AllColors
        BY <2>7, BgsAre
      <3>2. SeamlessIn(body, l, FirstBg(end, r))
        BY <2>12, <3>1
      <3>3. SeamlessIn(end, LastBg(body, l), r)
        BY <2>3, <2>11 DEF EndsOk
      <3> QED  BY <2>7, <2>10, <3>2, <3>3, SeamlessJoined
    <2>14. body \o end \in Seq(CellSet) /\ NoGapIn(body \o end)
      BY <2>7, <2>10, NoGapJoined
    <2>15. Tight(body \o end)
      BY <2>13, <2>14 DEF Tight
    <2> QED  BY <2>6, <2>15 DEF body, front
  <1> QED  BY <1>1, <1>2

LEMMA ColumnLen ==
    ASSUME NEW seps, NEW bs, GoodBlocks(bs), bs # <<>>, NEW right \in BOOLEAN
    PROVE  LET cap == CapOf(seps, bs[1], right)
               lead == LeadOf(bs[1], right)
               chain == Chain(bs, JointsOf(seps, bs, right))
               end == EndOf(seps, bs[Len(bs)], right)
           IN  /\ Len(ColumnOf(seps, bs, right)) = ((Len(cap) + Len(lead)) + Len(chain)) + Len(end)
               /\ Len(cap) \in Nat /\ Len(lead) \in Nat /\ Len(chain) \in Nat /\ Len(end) \in Nat
               /\ ColumnOf(seps, bs, right) # <<>>
  <1> DEFINE n     == Len(bs)
             cap   == CapOf(seps, bs[1], right)
             lead  == LeadOf(bs[1], right)
             chain == Chain(bs, JointsOf(seps, bs, right))
             end   == EndOf(seps, bs[n], right)
  <1>1. n \in Nat \ {0} /\ bs \in Seq(BlockSet) /\ 1 \in 1..n /\ n \in 1..n
    BY DEF GoodBlocks
  <1>2. GoodBlock(bs[1]) /\ GoodBlock(bs[n])
    BY <1>1 DEF GoodBlocks
  <1>3. cap \in Seq(CellSet) /\ end \in Seq(CellSet)
    BY <1>2, EndsAreOk DEF EndsOk
  <1>4. lead \in Seq(CellSet)
    <2>1. Blank(bs[1].bg) \in Seq(CellSet)
      BY <1>2, GoodBlockIs, BlankTight DEF Tight
    <2> QED  BY <2>1 DEF LeadOf
  <1>5. chain \in Seq(CellSet) /\ chain # <<>>
    BY JointsAreOk, ChainTight DEF Tight
  <1>6. ColumnOf(seps, bs, right) = ((cap \o lead) \o chain) \o end
    BY <1>1, PartsAre
  <1> HIDE DEF cap, lead, chain, end, n
  <1>7. /\ Len(((cap \o lead) \o chain) \o end) = ((Len(cap) + Len(lead)) + Len(chain)) + Len(end)
        /\ Len(cap) \in Nat /\ Len(lead) \in Nat /\ Len(chain) \in Nat /\ Len(chain) # 0 /\ Len(end) \in Nat
    BY <1>3, <1>4, <1>5
  <1>8. Len(((cap \o lead) \o chain) \o end) # 0
    BY <1>7
  <1>9. ((cap \o lead) \o chain) \o end # <<>>
    BY <1>8
  <1> QED  BY <1>6, <1>7, <1>9 DEF cap, lead, chain, end, n

\* What a block saves, its column saves.
LEMMA ColumnsAlike ==
    ASSUME NEW seps, NEW bs, NEW cs, GoodBlocks(bs), GoodBlocks(cs), Alike(bs, cs),
           NEW right \in BOOLEAN, NEW d \in Nat
    PROVE  LET x == ColumnOf(seps, bs, right)
               y == ColumnOf(seps, cs, right)
           IN  /\ Len(x) \in Nat /\ Len(y) \in Nat /\ Len(x) <= Len(y) /\ (x = <<>> <=> y = <<>>)
               /\ Saves(bs, cs, d) => Len(x) + d <= Len(y)
  <1> DEFINE n == Len(bs)
  <1>1. n \in Nat /\ Len(cs) = n /\ (bs = <<>> <=> n = 0) /\ (cs = <<>> <=> n = 0)
    BY DEF GoodBlocks, Alike
  <1>2. CASE n = 0
    <2>1. ColumnOf(seps, bs, right) = <<>> /\ ColumnOf(seps, cs, right) = <<>>
      BY <1>1, <1>2 DEF ColumnOf, LeftColumn, RightColumn
    <2>2. ~Saves(bs, cs, d)
      BY <1>2 DEF Saves
    <2> QED  BY <2>1, <2>2
  <1>3. CASE n # 0
    <2>1. \A i \in 1..n : bs[i].bg = cs[i].bg /\ bs[i].padded = cs[i].padded /\ bs[i].joined = cs[i].joined
      BY DEF Alike, AlikeBlock
    <2>2. JointsOf(seps, bs, right) = JointsOf(seps, cs, right)
      <3>1. \A i \in 2..n : i \in 1..n /\ i - 1 \in 1..n
        BY <1>1
      <3>2. \A i \in 2..n : RightJoint(seps, bs[i - 1], bs[i]) = RightJoint(seps, cs[i - 1], cs[i])
        BY <2>1, <3>1 DEF RightJoint
      <3>3. \A i \in 2..n : LeftJoint(seps, bs[i - 1], bs[i]) = LeftJoint(seps, cs[i - 1], cs[i])
        BY <2>1, <3>1 DEF LeftJoint
      <3> QED  BY <1>1, <3>2, <3>3 DEF JointsOf
    <2> DEFINE joint == JointsOf(seps, bs, right)
               u == Len(CapOf(seps, bs[1], right)) + Len(LeadOf(bs[1], right))
               v == Len(EndOf(seps, bs[n], right))
               p == Len(Chain(bs, joint))
               q == Len(Chain(cs, joint))
               x == ColumnOf(seps, bs, right)
               y == ColumnOf(seps, cs, right)
    <2>3. /\ CapOf(seps, bs[1], right) = CapOf(seps, cs[1], right) /\ LeadOf(bs[1], right) = LeadOf(cs[1], right)
          /\ EndOf(seps, bs[n], right) = EndOf(seps, cs[n], right)
      <3>1. 1 \in 1..n /\ n \in 1..n
        BY <1>1, <1>3
      <3>2. bs[1].bg = cs[1].bg /\ bs[1].joined = cs[1].joined /\ bs[n].bg = cs[n].bg
        BY <2>1, <3>1
      <3> HIDE DEF n
      <3> QED  BY <3>2 DEF CapOf, LeadOf, EndOf, EndCap
    <2>4. Len(x) = (u + p) + v /\ u \in Nat /\ p \in Nat /\ v \in Nat /\ x # <<>>
      <3>1. bs # <<>>
        BY <1>1, <1>3
      <3> QED  BY <3>1, ColumnLen
    <2>5. Len(y) = (u + q) + v /\ q \in Nat /\ y # <<>>
      <3>1. cs # <<>>
        BY <1>1, <1>3
      <3> QED  BY <1>1, <2>2, <2>3, <3>1, ColumnLen
    <2>6. p <= q /\ (Saves(bs, cs, d) => p + d <= q)
      <3>1. JointsOk(joint, bs) /\ JointsOk(joint, cs)
        BY <2>2, JointsAreOk
      <3>2. bs # <<>>
        BY <1>1, <1>3
      <3> HIDE DEF joint
      <3> QED  BY <3>1, <3>2, ChainsAlike
    <2> HIDE DEF u, p, v, q, x, y
    <2>7. Len(x) \in Nat /\ Len(y) \in Nat /\ Len(x) <= Len(y) /\ (Saves(bs, cs, d) => Len(x) + d <= Len(y))
      BY <2>4, <2>5, <2>6
    <2> QED  BY <2>4, <2>5, <2>7 DEF x, y
  <1> QED  BY <1>2, <1>3

----------------------------------------------------------------------------
(* One line at all its widths. *)

LEMMA NarrowIs ==
    ASSUME NEW line, IsLine(line)
    PROVE  /\ IsLine(Narrow(line)) /\ Len(Narrow(line)) = Len(line)
           /\ \A i \in 1..Len(line) : /\ LikeElement(Narrow(line)[i], line[i])
                                      /\ WidthFor(Narrow(line)[i], 0) = Min(line[i].widths)
  <1> DEFINE n == Len(line)
             e(i) == line[i]
             f(i) == [line[i] EXCEPT !.widths = {Min(@)}]
  <1>1. n \in Nat /\ DOMAIN line = 1..n /\ \A i \in 1..n : IsElement(line[i])
    BY DEF IsLine, ToSet
  <1>2. Narrow(line) = [i \in 1..n |-> f(i)]
    BY <1>1 DEF Narrow
  <1>3. ASSUME NEW i \in 1..n
        PROVE  /\ IsElement(f(i)) /\ LikeElement(f(i), line[i])
               /\ WidthFor(f(i), 0) = Min(line[i].widths)
    <2> DEFINE w == Min(line[i].widths)
    <2>1. IsElement(line[i])
      BY <1>1
    <2>2. w \in line[i].widths /\ line[i].widths \subseteq Nat
      BY <2>1, Widths DEF IsElement
    <2>3. f(i).form = line[i].form /\ f(i).bg = line[i].bg /\ f(i).widths = {w}
      BY <2>1 DEF IsElement
    <2>4. f(i) \in [form : {"seg", "joined", "text"}, bg : Colors \cup {NoColor}, widths : SUBSET Nat]
      BY <2>1, <2>2 DEF IsElement
    <2>5. w = 0 <=> line[i].widths = {0}
      BY <2>1, <2>2 DEF IsElement
    <2> HIDE DEF w, f
    <2>6. IsElement(f(i))
      <3>1. IsFiniteSet({w})
        BY FS_Singleton
      <3> QED  BY <2>3, <2>4, <3>1 DEF IsElement
    <2>7. LikeElement(f(i), line[i])
      BY <2>3, <2>5 DEF LikeElement
    <2>8. WidthFor(f(i), 0) \in {w}
      BY <2>3, <2>6, Widths
    <2> QED  BY <2>6, <2>7, <2>8 DEF w
  <1> HIDE DEF f, n
  <1>4. Len(Narrow(line)) = n /\ DOMAIN Narrow(line) = 1..n /\ \A i \in 1..n : Narrow(line)[i] = f(i)
    BY <1>1, <1>2
  <1>5. IsLine(Narrow(line))
    <2>1. ToSet(Narrow(line)) = {f(i) : i \in 1..n}
      BY <1>2, <1>4 DEF ToSet
    <2>2. Narrow(line) \in Seq(ToSet(Narrow(line)))
      BY <1>1, <1>2, <2>1
    <2> QED  BY <1>3, <2>1, <2>2 DEF IsLine
  <1> QED  BY <1>3, <1>4, <1>5 DEF n

\* Told to save b columns, a line saves them, or it is as narrow as it can be.
LEMMA Savings ==
    ASSUME NEW seps, NEW line, IsLine(line), NEW right \in BOOLEAN, NEW b \in Nat
    PROVE  LET col   == ColumnOf(seps, Blocks(line, right, b), right)
               full  == ColumnOf(seps, Blocks(line, right, 0), right)
               least == ColumnOf(seps, Blocks(Narrow(line), right, 0), right)
           IN  /\ Tight(col) /\ Len(col) \in Nat /\ Len(full) \in Nat /\ Len(least) \in Nat
               /\ Len(least) <= Len(col) /\ Len(col) <= Len(full) /\ (col = <<>> <=> least = <<>>)
               /\ col = least \/ Len(col) + b <= Len(full)
  <1> DEFINE n == Len(line)
             thin == Narrow(line)
             bs == Blocks(line, right, b)
             cs == Blocks(line, right, 0)
             ls == Blocks(thin, right, 0)
             w(i) == WidthFor(line[i], b)
  <1>1. /\ IsLine(thin) /\ Len(thin) = n
        /\ \A i \in 1..n : LikeElement(thin[i], line[i]) /\ WidthFor(thin[i], 0) = Min(line[i].widths)
    BY NarrowIs
  <1>2. \A i \in 1..n : IsElement(line[i])
    BY DEF IsLine, ToSet
  <1>3. ASSUME NEW i \in 1..n
        PROVE  /\ w(i) \in Nat /\ w(i) \in line[i].widths /\ Min(line[i].widths) <= w(i)
               /\ w(i) = Min(line[i].widths) \/ w(i) + b <= WidthFor(line[i], 0)
               /\ w(i) <= WidthFor(line[i], 0) /\ Min(line[i].widths) \in line[i].widths
    BY <1>2, Widths
  <1>4. 0 \in Nat /\ Thinner(line, b, line, 0) /\ Thinner(thin, 0, line, b)
    <2>1. \A i \in 1..n : LikeElement(line[i], line[i])
      BY DEF LikeElement
    <2>2. Thinner(line, b, line, 0)
      BY <1>3, <2>1 DEF Thinner
    <2> HIDE DEF thin
    <2>3. Thinner(thin, 0, line, b)
      BY <1>1, <1>3 DEF Thinner
    <2> QED  BY <2>2, <2>3
  <1>5. /\ GoodBlocks(bs) /\ GoodBlocks(cs) /\ Alike(bs, cs)
        /\ ThinnerBy(line, b, line, 0, b) => Saves(bs, cs, b)
    BY <1>4, BlocksAlike
  <1>6. /\ GoodBlocks(ls) /\ Alike(ls, bs)
        /\ AsWide(thin, 0, line, b) => ls = bs
    BY <1>4, BlocksAlike
  <1>7. ls = bs \/ Saves(bs, cs, b)
    <2>1. CASE \A i \in 1..n : w(i) = Min(line[i].widths)
      <3>1. AsWide(thin, 0, line, b)
        BY <1>1, <2>1 DEF AsWide
      <3> QED  BY <1>6, <3>1
    <2>2. CASE \E i \in 1..n : w(i) # Min(line[i].widths)
      <3>1. PICK i \in 1..n : w(i) # Min(line[i].widths)
        BY <2>2
      <3>2. line[i].widths # {0}
        BY <1>3, <3>1
      <3>3. ThinnerBy(line, b, line, 0, b)
        BY <1>3, <3>1, <3>2 DEF ThinnerBy
      <3> QED  BY <1>5, <3>3
    <2> QED  BY <2>1, <2>2
  <1> HIDE DEF bs, cs, ls, n, thin
  <1> DEFINE col   == ColumnOf(seps, bs, right)
             full  == ColumnOf(seps, cs, right)
             least == ColumnOf(seps, ls, right)
  <1>8. /\ Len(col) \in Nat /\ Len(full) \in Nat /\ Len(col) <= Len(full) /\ (Saves(bs, cs, b) => Len(col) + b <= Len(full))
    BY <1>5, ColumnsAlike
  <1>9. Len(least) \in Nat /\ Len(least) <= Len(col) /\ (col = <<>> <=> least = <<>>)
    <2>1. 0 \in Nat
      OBVIOUS
    <2> QED  BY <1>5, <1>6, <2>1, ColumnsAlike
  <1>10. Tight(col)
    BY <1>5, ColumnTight
  <1>11. col = least \/ Len(col) + b <= Len(full)
    BY <1>7, <1>8
  <1> HIDE DEF col, full, least
  <1>12. /\ Tight(col) /\ Len(col) \in Nat /\ Len(full) \in Nat /\ Len(least) \in Nat
         /\ Len(least) <= Len(col) /\ Len(col) <= Len(full) /\ (col = <<>> <=> least = <<>>)
         /\ col = least \/ Len(col) + b <= Len(full)
    BY <1>8, <1>9, <1>10, <1>11
  <1> QED  BY <1>12 DEF col, full, least, bs, cs, ls, thin

----------------------------------------------------------------------------
(* The row *)

LEMMA FrameIs ==
    ASSUME NEW n \in Nat, NEW shows \in {"frame", "gap"}
    PROVE  LET c == Cells(n, shows, NoColor) IN
           /\ Sound(c) /\ Len(c) = n
           /\ shows = "frame" => NoGapIn(c)
           /\ \A i \in 1..n : c[i].shows = shows
  <1> DEFINE c == Cells(n, shows, NoColor)
  <1>1. NoColor \in AllColors
    BY DEF AllColors
  <1>2. c \in Seq(CellSet) /\ Len(c) = n /\ \A i \in 1..n : c[i] = Cell(shows, Own, NoColor)
    BY <1>1, CellsAre
  <1> HIDE DEF c
  <1>3. \A i \in 1..n : c[i].shows = shows
    BY <1>2 DEF Cell
  <1>4. Sound(c)
    BY <1>2, <1>3 DEF Sound, SeamlessIn, CellFits
  <1>5. shows = "frame" => NoGapIn(c)
    BY <1>2, <1>3 DEF NoGapIn
  <1> QED  BY <1>2, <1>3, <1>4, <1>5 DEF c

Framed(p, s, b, indent, left, right) ==
    Cells(p, "frame", NoColor) \o Assembled(left, right, b, indent) \o Cells(s, "frame", NoColor)

\* A row without a right column: its parts, and no gap.
LEMMA RowAlone ==
    ASSUME NEW p \in Nat, NEW s \in Nat, NEW b, NEW indent, NEW left, Tight(left)
    PROVE  LET row == Framed(p, s, b, indent, left, <<>>)
           IN  Sound(row) /\ Len(row) = p + Len(left) + s /\ ~HasGap(row)
  <1> DEFINE x == Cells(p, "frame", NoColor)
             y == Cells(s, "frame", NoColor)
  <1>1. Sound(x) /\ Len(x) = p /\ NoGapIn(x) /\ Sound(y) /\ Len(y) = s /\ NoGapIn(y)
    BY FrameIs
  <1>2. Assembled(left, <<>>, b, indent) = left
    BY DEF Assembled
  <1> HIDE DEF x, y
  <1>3. Sound(left) /\ NoGapIn(left)
    BY DEF Tight, Sound
  <1>4. Sound(x \o left) /\ Len(x \o left) = p + Len(left) /\ NoGapIn(x \o left)
    <2>1. NoGapIn(x \o left)
      BY <1>1, <1>3, NoGapJoined DEF Sound
    <2> QED  BY <1>1, <1>3, <2>1, SoundJoined
  <1> DEFINE z == x \o left
             row == z \o y
  <1> HIDE DEF z
  <1>5. Sound(row) /\ Len(row) = p + Len(left) + s /\ NoGapIn(row)
    <2>1. Sound(z) /\ Len(z) = p + Len(left) /\ NoGapIn(z)
      BY <1>4 DEF z
    <2>2. NoGapIn(row)
      BY <1>1, <2>1, NoGapJoined DEF Sound
    <2> QED  BY <1>1, <2>1, <2>2, SoundJoined
  <1>6. ~HasGap(row)
    <2> HIDE DEF row
    <2>1. DOMAIN row = 1..Len(row)
      BY <1>5 DEF Sound
    <2> QED  BY <1>5, <2>1 DEF HasGap, NoGapIn
  <1> QED  BY <1>2, <1>5, <1>6 DEF x, y, z, Framed

\* A row of a frame of p and s columns and of b columns in it, with a right column.
IsFilled(row, p, s, b, indent) == Sound(row) /\ Len(row) = p + (b - indent) + s /\ HasGap(row)
FitIn(left, right, indent, b) == Len(left) + Len(right) + indent < b

\* A row with a right column: the gap fills it to its edge.
LEMMA RowWithRight ==
    ASSUME NEW p \in Nat, NEW s \in Nat, NEW b \in Nat, NEW indent \in Nat,
           NEW left, Tight(left), NEW right, Tight(right), right # <<>>,
           FitIn(left, right, indent, b)
    PROVE  IsFilled(Framed(p, s, b, indent, left, right), p, s, b, indent)
  <1> DEFINE x == Cells(p, "frame", NoColor)
             y == Cells(s, "frame", NoColor)
             n == Monus(Monus(Monus(b, indent), Len(right)), Len(left))
             g == Cells(n, "gap", NoColor)
             u == Len(left)
             v == Len(right)
  <1>1. left \in Seq(CellSet) /\ right \in Seq(CellSet) /\ u \in Nat /\ v \in Nat
    BY DEF Tight
  <1>2. n \in Nat /\ n = b - indent - v - u /\ n >= 1
    <2>1. n = Monus(Monus(Monus(b, indent), v), u) /\ u + v + indent < b
      BY DEF FitIn
    <2> HIDE DEF n, u, v
    <2> QED  BY <1>1, <2>1 DEF Monus
  <1>3. Assembled(left, right, b, indent) = (left \o g) \o right
    BY DEF Assembled
  <1> HIDE DEF n
  <1>4. Sound(x) /\ Len(x) = p /\ Sound(y) /\ Len(y) = s
    BY FrameIs
  <1>5. Sound(g) /\ Len(g) = n /\ g[1].shows = "gap"
    <2>1. 1 \in 1..n
      BY <1>2
    <2> QED  BY <1>2, <2>1, FrameIs
  <1>6. Sound(left) /\ Sound(right)
    BY DEF Tight, Sound
  <1> HIDE DEF x, y, g, u, v
  <1> DEFINE a == left \o g
             m == a \o right
             z == x \o m
             row == z \o y
  <1>7. Sound(a) /\ Len(a) = u + n
    BY <1>5, <1>6, SoundJoined DEF u
  <1>8. a[u + 1].shows = "gap"
    <2>1. g \in Seq(CellSet)
      BY <1>5 DEF Sound
    <2>2. u + 1 \in 1..Len(left) + Len(g) /\ ~(u + 1 <= Len(left)) /\ (u + 1) - Len(left) = 1
      BY <1>1, <1>2, <1>5 DEF u
    <2>3. a[u + 1] = g[1]
      BY <1>1, <2>1, <2>2
    <2> QED  BY <1>5, <2>3
  <1> HIDE DEF a
  <1>9. Sound(m) /\ Len(m) = u + n + v /\ m[u + 1].shows = "gap"
    <2>1. a \in Seq(CellSet) /\ u + 1 \in 1..Len(a)
      BY <1>1, <1>2, <1>7 DEF Sound
    <2>2. m[u + 1] = a[u + 1]
      BY <1>1, <2>1
    <2> QED  BY <1>6, <1>7, <1>8, <2>2, SoundJoined DEF v
  <1> HIDE DEF m
  <1>10. Sound(z) /\ Len(z) = p + (u + n + v) /\ z[p + (u + 1)].shows = "gap"
    <2>1. m \in Seq(CellSet) /\ x \in Seq(CellSet) /\ Len(x) = p /\ u + 1 \in 1..Len(m)
      BY <1>1, <1>2, <1>4, <1>9 DEF Sound
    <2>2. z[p + (u + 1)] = m[u + 1]
      <3>1. /\ p + (u + 1) \in 1..Len(x) + Len(m) /\ ~(p + (u + 1) <= Len(x))
            /\ (p + (u + 1)) - Len(x) = u + 1
        BY <1>1, <2>1
      <3> QED  BY <2>1, <3>1
    <2> QED  BY <1>4, <1>9, <2>2, SoundJoined
  <1> HIDE DEF z
  <1>11. Sound(row) /\ Len(row) = p + (b - indent) + s
    <2>1. Sound(row) /\ Len(row) = (p + (u + n + v)) + s
      BY <1>4, <1>10, SoundJoined
    <2> HIDE DEF row
    <2> QED  BY <1>1, <1>2, <2>1
  <1>12. HasGap(row)
    <2> DEFINE i == p + (u + 1)
    <2>1. z \in Seq(CellSet) /\ y \in Seq(CellSet) /\ i \in 1..Len(z) /\ Len(z) \in Nat /\ Len(y) \in Nat
      BY <1>1, <1>2, <1>4, <1>10 DEF Sound
    <2> HIDE DEF i
    <2>2. row[i] = z[i] /\ i \in DOMAIN row
      BY <2>1
    <2> HIDE DEF row
    <2> QED  BY <1>10, <2>2 DEF HasGap, i
  <1> QED  BY <1>3, <1>11, <1>12 DEF x, y, a, m, z, Framed, IsFilled

LEMMA BudgetIs ==
    ASSUME NEW a \in Nat, NEW b \in Nat
    PROVE  Monus(a, b) \in Nat /\ (a > b => Monus(a, b) = a - b) /\ (a <= b => Monus(a, b) = 0)
  BY DEF Monus

\* The columns at one budget, and as narrow as they can be.
LEMMA ColumnsAre ==
    ASSUME NEW t, IsRow(t), NEW b \in Nat
    PROVE  LET left == LeftOf(t, b)
               right == RightOf(t, b)
               l0 == LeftOf(t, 0)
               r0 == RightOf(t, 0)
               ln == LeftOf(Narrowest(t), 0)
               rn == RightOf(Narrowest(t), 0)
           IN  /\ Tight(left) /\ Tight(right)
               /\ \A x \in {left, right, l0, r0, ln, rn} : Len(x) \in Nat
               /\ Len(ln) <= Len(left) /\ Len(rn) <= Len(right) /\ (right = <<>> <=> rn = <<>>)
               /\ left = ln \/ Len(left) + b <= Len(l0)
               /\ right = rn \/ Len(right) + b <= Len(r0)
               /\ Len(left) <= Len(l0) /\ Len(right) <= Len(r0)
  <1>1. IsLine(t.left) /\ IsLine(t.right) /\ {"left", "right", "seps"} \subseteq DOMAIN t
    BY DEF IsRow, IsLine
  <1>2. /\ Narrowest(t).left = Narrow(t.left) /\ Narrowest(t).right = Narrow(t.right)
        /\ Narrowest(t).seps = t.seps
    BY <1>1 DEF Narrowest
  <1>3. /\ LeftOf(t, b) = ColumnOf(t.seps, Blocks(t.left, FALSE, b), FALSE)
        /\ LeftOf(t, 0) = ColumnOf(t.seps, Blocks(t.left, FALSE, 0), FALSE)
        /\ LeftOf(Narrowest(t), 0) = ColumnOf(t.seps, Blocks(Narrow(t.left), FALSE, 0), FALSE)
    BY <1>2 DEF LeftOf, ColumnOf
  <1>4. /\ RightOf(t, b) = ColumnOf(t.seps, Blocks(t.right, TRUE, b), TRUE)
        /\ RightOf(t, 0) = ColumnOf(t.seps, Blocks(t.right, TRUE, 0), TRUE)
        /\ RightOf(Narrowest(t), 0) = ColumnOf(t.seps, Blocks(Narrow(t.right), TRUE, 0), TRUE)
    BY <1>2 DEF RightOf, ColumnOf
  <1>5. /\ Tight(LeftOf(t, b)) /\ Len(LeftOf(t, b)) \in Nat /\ Len(LeftOf(t, 0)) \in Nat
        /\ Len(LeftOf(Narrowest(t), 0)) \in Nat /\ Len(LeftOf(Narrowest(t), 0)) <= Len(LeftOf(t, b))
        /\ LeftOf(t, b) = LeftOf(Narrowest(t), 0) \/ Len(LeftOf(t, b)) + b <= Len(LeftOf(t, 0))
        /\ Len(LeftOf(t, b)) <= Len(LeftOf(t, 0))
    BY <1>1, <1>3, Savings
  <1>6. /\ Tight(RightOf(t, b)) /\ Len(RightOf(t, b)) \in Nat /\ Len(RightOf(t, 0)) \in Nat
        /\ Len(RightOf(Narrowest(t), 0)) \in Nat /\ Len(RightOf(Narrowest(t), 0)) <= Len(RightOf(t, b))
        /\ RightOf(t, b) = <<>> <=> RightOf(Narrowest(t), 0) = <<>>
        /\ RightOf(t, b) = RightOf(Narrowest(t), 0) \/ Len(RightOf(t, b)) + b <= Len(RightOf(t, 0))
        /\ Len(RightOf(t, b)) <= Len(RightOf(t, 0))
    BY <1>1, <1>4, Savings
  <1> QED  BY <1>5, <1>6

\* The passes of render_header_lines: one fits, or neither does.
LEMMA PassesAre ==
    ASSUME NEW t, IsRow(t)
    PROVE  LET c == BothColumns(t)
               much == Monus(Len(LeftOf(t, 0)) + Len(RightOf(t, 0)) + t.indent + 1, BodyBudget(t))
           IN  \/ \E b \in Nat : /\ c = [left |-> LeftOf(t, b), right |-> RightOf(t, b)]
                                 /\ Fits(t, LeftOf(t, b), RightOf(t, b))
               \/ /\ c = [left |-> LeftOf(t, Monus(Len(LeftOf(t, 0)), BodyBudget(t))), right |-> <<>>]
                  /\ ~Fits(t, LeftOf(t, 0), RightOf(t, 0)) /\ ~Fits(t, LeftOf(t, much), RightOf(t, much))
  <1> DEFINE much == Monus(Len(LeftOf(t, 0)) + Len(RightOf(t, 0)) + t.indent + 1, BodyBudget(t))
             passes == {b \in {0, much} : Fits(t, LeftOf(t, b), RightOf(t, b))}
             c == BothColumns(t)
  <1>1. much \in Nat
    <2>1. 0 \in Nat
      OBVIOUS
    <2>2. Len(LeftOf(t, 0)) \in Nat /\ Len(RightOf(t, 0)) \in Nat
      BY <2>1, ColumnsAre
    <2>3. t.indent \in Nat /\ t.cols \in Nat /\ t.prefix + t.suffix \in Nat
      BY DEF IsRow
    <2>4. BodyBudget(t) \in Nat
      BY <2>3, BudgetIs DEF BodyBudget
    <2>5. Len(LeftOf(t, 0)) + Len(RightOf(t, 0)) + t.indent + 1 \in Nat
      BY <2>2, <2>3
    <2> QED  BY <2>4, <2>5, BudgetIs
  <1>2. CASE passes = {}
    <2>1. c = [left |-> LeftOf(t, Monus(Len(LeftOf(t, 0)), BodyBudget(t))), right |-> <<>>]
      BY <1>2 DEF BothColumns
    <2>2. ~Fits(t, LeftOf(t, 0), RightOf(t, 0)) /\ ~Fits(t, LeftOf(t, much), RightOf(t, much))
      BY <1>2
    <2> QED  BY <2>1, <2>2
  <1>3. CASE passes # {}
    <2>1. c = [left |-> LeftOf(t, Min(passes)), right |-> RightOf(t, Min(passes))]
      BY <1>3 DEF BothColumns
    <2>2. passes \subseteq Nat
      BY <1>1
    <2>3. Min(passes) \in passes
      <3> HIDE DEF passes
      <3> QED  BY <1>3, <2>2, Least
    <2> DEFINE b == Min(passes)
    <2>4. b \in Nat /\ Fits(t, LeftOf(t, b), RightOf(t, b))
      BY <2>2, <2>3
    <2> HIDE DEF b, passes, much
    <2> QED  BY <2>1, <2>4 DEF b
  <1> QED  BY <1>2, <1>3

\* Every row ends at its edge, and keeps its right column if it can, whatever its
\* segments are; and no seam shows in it.
LEMMA RowIs ==
    ASSUME NEW t, IsRow(t)
    PROVE  IsAtItsEdge(t, Row(t)) /\ IsSeamless(Row(t))
  <1> DEFINE cols == t.cols
             pre == t.prefix
             suf == t.suffix
             ind == t.indent
             B == BodyBudget(t)
             c == BothColumns(t)
             row == Row(t)
             l0 == Len(LeftOf(t, 0))
             r0 == Len(RightOf(t, 0))
             much == Monus(l0 + r0 + ind + 1, B)
             over == Monus(l0, B)
             ln == Len(LeftOf(Narrowest(t), 0))
             rn == Len(RightOf(Narrowest(t), 0))
  <1>1. cols \in Nat /\ pre \in Nat /\ suf \in Nat /\ ind \in Nat
    BY DEF IsRow
  <1>2. B \in Nat /\ (cols > pre + suf => B = cols - (pre + suf))
        /\ (cols <= pre + suf => B = 0)
    <2>1. pre + suf \in Nat
      BY <1>1
    <2> QED  BY <1>1, <2>1, BudgetIs DEF BodyBudget
  <1>3. row = Framed(pre, suf, B, ind, c.left, c.right)
    BY DEF Row, Framed
  <1>4. 0 \in Nat /\ l0 \in Nat /\ r0 \in Nat /\ ln \in Nat /\ rn \in Nat
    <2>1. 0 \in Nat
      OBVIOUS
    <2> QED  BY <2>1, ColumnsAre
  <1>5. Fits(t, LeftOf(Narrowest(t), 0), RightOf(Narrowest(t), 0)) <=> ln + rn + ind < B
    BY DEF Fits
  <1>6. \/ \E b \in Nat : /\ c = [left |-> LeftOf(t, b), right |-> RightOf(t, b)]
                          /\ Fits(t, LeftOf(t, b), RightOf(t, b))
        \/ /\ c = [left |-> LeftOf(t, over), right |-> <<>>]
           /\ ~Fits(t, LeftOf(t, 0), RightOf(t, 0)) /\ ~Fits(t, LeftOf(t, much), RightOf(t, much))
    BY PassesAre
  <1> DEFINE edge == /\ HasGap(row) => Len(row) = cols - ind
                     /\ ~HasGap(row) /\ RightOf(Narrowest(t), 0) # <<>> => ~(ln + rn + ind < B)
                     /\ Len(row) > cols => pre + ln + suf > cols
  <1>7. SUFFICES Sound(row) /\ edge
    <2>1. ASSUME Sound(row) PROVE IsSeamless(row)
      <3>1. NoColor \in AllColors
        BY DEF AllColors
      <3>2. SeamlessIn(row, NoColor, NoColor) /\ row \in Seq(CellSet)
        BY <2>1, <3>1 DEF Sound
      <3> HIDE DEF row
      <3>3. DOMAIN row = 1..Len(row) /\ Len(row) \in Nat
        BY <3>2
      <3>4. ASSUME NEW i \in Int
            PROVE  Beside(row, i, NoColor, NoColor) = IF i \in DOMAIN row THEN row[i].bg ELSE NoColor
        BY <3>3 DEF Beside
      <3>5. ASSUME NEW i \in DOMAIN row
            PROVE  CellFits(row[i], IF i - 1 \in DOMAIN row THEN row[i - 1].bg ELSE NoColor,
                                    IF i + 1 \in DOMAIN row THEN row[i + 1].bg ELSE NoColor)
        <4>1. i \in 1..Len(row) /\ i - 1 \in Int /\ i + 1 \in Int
          BY <3>3
        <4>2. CellFits(row[i], Beside(row, i - 1, NoColor, NoColor), Beside(row, i + 1, NoColor, NoColor))
          BY <3>2, <4>1 DEF SeamlessIn
        <4> QED  BY <3>4, <4>1, <4>2
      <3> QED  BY <3>5 DEF IsSeamless, CellFits
    <2>2. ASSUME edge PROVE IsAtItsEdge(t, row)
      BY <1>5, <2>2 DEF IsAtItsEdge
    <2> QED  BY <1>7, <2>1, <2>2
  <1> HIDE DEF row, cols, pre, suf, ind
  <1>8. ASSUME NEW b \in Nat, c = [left |-> LeftOf(t, b), right |-> RightOf(t, b)],
               Fits(t, LeftOf(t, b), RightOf(t, b))
        PROVE  Sound(row) /\ edge
    <2> DEFINE left == LeftOf(t, b)
               right == RightOf(t, b)
    <2>1. /\ Tight(left) /\ Tight(right) /\ Len(left) \in Nat /\ Len(right) \in Nat
          /\ right = <<>> <=> RightOf(Narrowest(t), 0) = <<>>
      BY ColumnsAre
    <2>2. Len(left) + Len(right) + ind < B
      BY <1>8 DEF Fits, ind
    <2>3. c.left = left /\ c.right = right
      BY <1>8
    <2> HIDE DEF c, left, right, B, ln, rn
    <2>4. cols > pre + suf /\ B = cols - (pre + suf)
      BY <1>1, <1>2, <2>1, <2>2
    <2>5. CASE right = <<>>
      <3>1. Sound(row) /\ Len(row) = pre + Len(left) + suf /\ ~HasGap(row)
        BY <1>1, <1>3, <2>1, <2>3, <2>5, RowAlone
      <3>2. Len(right) = 0
        BY <2>5
      <3>3. ~(Len(row) > cols)
        <4>1. Len(row) = pre + Len(left) + suf /\ Len(left) \in Nat /\ Len(left) + 0 + ind < B
          BY <2>1, <2>2, <3>1, <3>2
        <4> QED  BY <1>1, <2>4, <4>1
      <3> QED  BY <2>1, <2>5, <3>1, <3>3
    <2>6. CASE right # <<>>
      <3>1. Sound(row) /\ Len(row) = pre + (B - ind) + suf /\ HasGap(row)
        <4>1. row = Framed(pre, suf, B, ind, left, right)
          BY <1>3, <2>3
        <4>2. IsFilled(Framed(pre, suf, B, ind, left, right), pre, suf, B, ind)
          <5>1. FitIn(left, right, ind, B)
            BY <2>2 DEF FitIn
          <5>2. pre \in Nat /\ suf \in Nat /\ ind \in Nat /\ B \in Nat /\ Tight(left) /\ Tight(right)
            BY <1>1, <1>2, <2>1
          <5>3. right # <<>>
            BY <2>6
          <5> QED  BY <5>1, <5>2, <5>3, RowWithRight
        <4> QED  BY <4>1, <4>2 DEF IsFilled
      <3>2. Len(row) = cols - ind /\ ~(Len(row) > cols)
        <4>1. Len(row) = pre + (B - ind) + suf
          BY <3>1
        <4> QED  BY <1>1, <2>4, <4>1
      <3> QED  BY <3>1, <3>2
    <2> QED  BY <2>5, <2>6
  <1>9. ASSUME c = [left |-> LeftOf(t, over), right |-> <<>>],
               ~Fits(t, LeftOf(t, 0), RightOf(t, 0)), ~Fits(t, LeftOf(t, much), RightOf(t, much))
        PROVE  Sound(row) /\ edge
    <2> DEFINE left == LeftOf(t, over)
               lm == Len(LeftOf(t, much))
               rm == Len(RightOf(t, much))
    <2>1. over \in Nat /\ (l0 > B => over = l0 - B) /\ (l0 <= B => over = 0)
      BY <1>2, <1>4, BudgetIs
    <2>2. l0 + r0 + ind >= B
      <3>1. ~(l0 + r0 + ind < B)
        BY <1>9 DEF Fits, ind
      <3> HIDE DEF l0, r0, B
      <3> QED  BY <1>1, <1>2, <1>4, <3>1
    <2>3. much \in Nat /\ much = l0 + r0 + ind + 1 - B
      <3> DEFINE a == l0 + r0 + ind + 1
      <3>1. much = Monus(a, B)
        OBVIOUS
      <3> HIDE DEF l0, r0, B, much
      <3>2. a \in Nat /\ a > B
        BY <1>1, <1>2, <1>4, <2>2
      <3> HIDE DEF a
      <3>3. Monus(a, B) \in Nat /\ Monus(a, B) = a - B
        BY <1>2, <3>2, BudgetIs
      <3>4. much \in Nat /\ much = a - B
        BY <3>1, <3>3
      <3> QED  BY <1>1, <1>2, <1>4, <3>4 DEF a
    <2>4. lm + rm + ind >= B /\ lm \in Nat /\ rm \in Nat
      <3>1. ~(lm + rm + ind < B)
        BY <1>9 DEF Fits, ind
      <3>2. lm \in Nat /\ rm \in Nat
        BY <2>3, ColumnsAre
      <3> HIDE DEF lm, rm, B
      <3> QED  BY <1>1, <1>2, <3>1, <3>2
    <2>5. /\ lm = ln \/ lm + much <= l0
          /\ rm = rn \/ rm + much <= r0
          /\ lm <= l0 /\ rm <= r0
      BY <2>3, ColumnsAre
    <2>6. /\ Tight(left) /\ Len(left) \in Nat
          /\ Len(left) = ln \/ Len(left) + over <= l0
      BY <2>1, ColumnsAre
    <2>7. c.left = left /\ c.right = <<>>
      BY <1>9
    <2> HIDE DEF c, left, lm, rm, l0, r0, ln, rn, B, much, over
    <2>8. ~(ln + rn + ind < B)
      BY <1>1, <1>2, <1>4, <2>2, <2>3, <2>4, <2>5
    <2>9. Sound(row) /\ Len(row) = pre + Len(left) + suf /\ ~HasGap(row)
      <3>1. row = Framed(pre, suf, B, ind, left, <<>>)
        BY <1>3, <2>7
      <3> QED  BY <1>1, <2>6, <3>1, RowAlone
    <2>10. Len(row) > cols => pre + ln + suf > cols
      <3>1. CASE Len(left) = ln
        BY <2>9, <3>1
      <3>2. CASE Len(left) + over <= l0
        <4>1. Len(row) = pre + Len(left) + suf
          BY <2>9
        <4>2. Len(left) <= B
          BY <1>2, <1>4, <2>1, <2>6, <3>2
        <4> QED  BY <1>1, <1>2, <1>4, <2>6, <4>1, <4>2
      <3> QED  BY <2>6, <3>1, <3>2
    <2> QED  BY <2>8, <2>9, <2>10
  <1> QED  BY <1>6, <1>8, <1>9

----------------------------------------------------------------------------
(* Lines of a stream, however the reads cut it *)

Lf == "nl"

\* The newline at e is the last.
IsEnd(s, e) == /\ e \in 0..Len(s) /\ (e # 0 => s[e] = Lf)
               /\ \A i \in 1..Len(s) : i > e => s[i] # Lf

LEMMA EndIs ==
    ASSUME NEW S, NEW s \in Seq(S)
    PROVE  IsEnd(s, EndOfLines(s)) /\ \A e : IsEnd(s, e) => e = EndOfLines(s)
  <1> DEFINE I == {i \in 1..Len(s) : s[i] = Lf}
             end == EndOfLines(s)
  <1>1. Len(s) \in Nat /\ I \subseteq Nat
    OBVIOUS
  <1>2. IsFiniteSet(I)
    <2>1. IsFiniteSet(1..Len(s))
      BY <1>1, FS_Interval
    <2> QED  BY <2>1, FS_Subset
  <1>3. end = IF I # {} THEN Max(I) ELSE 0
    BY DEF EndOfLines, SelectLastInSeq, Lf
  <1>4. IsEnd(s, end)
    <2>1. CASE I = {}
      BY <1>1, <1>3, <2>1 DEF IsEnd
    <2>2. CASE I # {}
      <3>1. Max(I) \in I /\ \A i \in I : i <= Max(I)
        <4> HIDE DEF I
        <4> QED  BY <1>1, <1>2, <2>2, Greatest
      <3>2. end \in I /\ \A i \in I : i <= end
        BY <1>3, <2>2, <3>1
      <3> HIDE DEF end
      <3>3. end \in 1..Len(s) /\ s[end] = Lf
        BY <3>2
      <3>4. ASSUME NEW i \in 1..Len(s), i > end PROVE s[i] # Lf
        BY <1>1, <3>2, <3>3, <3>4
      <3> QED  BY <1>1, <3>3, <3>4 DEF IsEnd
    <2> QED  BY <2>1, <2>2
  <1>5. ASSUME NEW e, IsEnd(s, e) PROVE e = end
    <2> HIDE DEF end
    <2>1. e \in 0..Len(s) /\ end \in 0..Len(s)
      BY <1>4, <1>5 DEF IsEnd
    <2>2. ~(e < end)
      <3>1. SUFFICES ASSUME e < end PROVE FALSE
        OBVIOUS
      <3>2. end \in 1..Len(s) /\ end # 0 /\ end > e
        BY <1>1, <2>1, <3>1
      <3> QED  BY <1>4, <1>5, <3>2 DEF IsEnd
    <2>3. ~(end < e)
      <3>1. SUFFICES ASSUME end < e PROVE FALSE
        OBVIOUS
      <3>2. e \in 1..Len(s) /\ e # 0 /\ e > end
        BY <1>1, <2>1, <3>1
      <3> QED  BY <1>4, <1>5, <3>2 DEF IsEnd
    <2> QED  BY <1>1, <2>1, <2>2, <2>3
  <1> QED  BY <1>4, <1>5

\* Two sequences joined, by position.
LEMMA JoinedAt ==
    ASSUME NEW S, NEW a \in Seq(S), NEW b \in Seq(S)
    PROVE  /\ a \o b \in Seq(S) /\ Len(a \o b) = Len(a) + Len(b) /\ Len(a) \in Nat /\ Len(b) \in Nat
           /\ \A i \in 1..Len(a) : (a \o b)[i] = a[i]
           /\ \A i \in 1..Len(b) : (a \o b)[Len(a) + i] = b[i]
  <1>1. \A i \in 1..Len(b) : Len(a) + i \in 1..Len(a) + Len(b) /\ ~(Len(a) + i <= Len(a))
                             /\ (Len(a) + i) - Len(a) = i
    OBVIOUS
  <1> QED  BY <1>1

\* A part of a joined sequence that lies in one of the two.
LEMMA PartOf ==
    ASSUME NEW S, NEW a \in Seq(S), NEW b \in Seq(S), NEW i \in Nat \ {0}, NEW j \in Nat
    PROVE  /\ j <= Len(a) => SubSeq(a \o b, i, j) = SubSeq(a, i, j)
           /\ j <= Len(b) => SubSeq(a \o b, Len(a) + i, Len(a) + j) = SubSeq(b, i, j)
  <1>1. /\ Len(a) \in Nat /\ Len(b) \in Nat
        /\ \A k \in 1..Len(a) : (a \o b)[k] = a[k]
        /\ \A k \in 1..Len(b) : (a \o b)[Len(a) + k] = b[k]
    BY JoinedAt
  <1> DEFINE c == a \o b
  <1> HIDE DEF c
  <1>2. ASSUME j <= Len(a) PROVE SubSeq(c, i, j) = SubSeq(a, i, j)
    <2>1. ASSUME NEW k \in i..j PROVE c[k] = a[k] /\ a[k] \in S
      <3>1. k \in 1..Len(a)
        BY <1>1, <1>2
      <3> QED  BY <1>1, <3>1 DEF c
    <2>2. ASSUME NEW k \in 1..j - i + 1 PROVE i + k - 1 \in i..j
      OBVIOUS
    <2>3. /\ SubSeq(c, i, j) \in Seq(S) /\ Len(SubSeq(c, i, j)) = IF i <= j THEN j - i + 1 ELSE 0
          /\ \A k \in 1..j - i + 1 : SubSeq(c, i, j)[k] = c[i + k - 1]
      BY <2>1, SubSeqProperties
    <2>4. /\ SubSeq(a, i, j) \in Seq(S) /\ Len(SubSeq(a, i, j)) = IF i <= j THEN j - i + 1 ELSE 0
          /\ \A k \in 1..j - i + 1 : SubSeq(a, i, j)[k] = a[i + k - 1]
      BY <2>1, SubSeqProperties
    <2> DEFINE u == SubSeq(c, i, j)
               v == SubSeq(a, i, j)
    <2> HIDE DEF u, v
    <2>5. u \in Seq(S) /\ v \in Seq(S) /\ Len(u) = Len(v) /\ \A k \in 1..Len(u) : u[k] = v[k]
      BY <2>1, <2>2, <2>3, <2>4 DEF u, v
    <2>6. u = v
      BY <2>5, SeqEqual
    <2> QED  BY <2>6 DEF u, v
  <1>3. ASSUME j <= Len(b) PROVE SubSeq(c, Len(a) + i, Len(a) + j) = SubSeq(b, i, j)
    <2> DEFINE m == Len(a)
    <2>1. ASSUME NEW k \in i..j PROVE c[m + k] = b[k] /\ b[k] \in S
      <3>1. k \in 1..Len(b)
        BY <1>1, <1>3
      <3> QED  BY <1>1, <3>1 DEF c
    <2>2. m \in Nat
      BY <1>1
    <2> HIDE DEF m
    <2>3. ASSUME NEW k \in 1..j - i + 1 PROVE i + k - 1 \in i..j /\ (m + i) + k - 1 = m + (i + k - 1)
      BY <2>2
    <2>4. ASSUME NEW k \in (m + i)..(m + j) PROVE c[k] \in S
      <3>1. k - m \in i..j /\ m + (k - m) = k
        BY <2>2
      <3> QED  BY <2>1, <3>1
    <2> DEFINE u == SubSeq(c, m + i, m + j)
               v == SubSeq(b, i, j)
    <2>5. /\ u \in Seq(S) /\ Len(u) = (IF m + i <= m + j THEN (m + j) - (m + i) + 1 ELSE 0)
          /\ \A k \in 1..(m + j) - (m + i) + 1 : u[k] = c[(m + i) + k - 1]
      <3>1. m + i \in Int /\ m + j \in Int
        BY <2>2
      <3> QED  BY <2>4, <3>1, SubSeqProperties
    <2>6. /\ v \in Seq(S) /\ Len(v) = (IF i <= j THEN j - i + 1 ELSE 0)
          /\ \A k \in 1..j - i + 1 : v[k] = b[i + k - 1]
      BY <2>1, SubSeqProperties
    <2> HIDE DEF u, v
    <2>7. (m + j) - (m + i) + 1 = j - i + 1 /\ (m + i <= m + j <=> i <= j)
      BY <2>2
    <2>8. Len(u) = Len(v)
      BY <2>5, <2>6, <2>7
    <2>9. ASSUME NEW k \in 1..Len(u) PROVE u[k] = v[k]
      <3>1. k \in 1..j - i + 1
        BY <2>6, <2>8
      <3>2. u[k] = c[m + (i + k - 1)] /\ v[k] = b[i + k - 1]
        BY <2>3, <2>5, <2>6, <2>7, <3>1
      <3> QED  BY <2>1, <2>3, <3>1, <3>2
    <2>10. u = v
      BY <2>5, <2>6, <2>8, <2>9, SeqEqual
    <2> QED  BY <2>10 DEF u, v, m
  <1> QED  BY <1>2, <1>3 DEF c

LEMMA TakeIs ==
    ASSUME NEW S, NEW s \in Seq(S), NEW n \in 0..Len(s)
    PROVE  /\ Take(s, n) \in Seq(S) /\ Len(Take(s, n)) = n /\ \A i \in 1..n : Take(s, n)[i] = s[i]
           /\ Drop(s, n) \in Seq(S) /\ Len(Drop(s, n)) = Len(s) - n
           /\ \A i \in 1..Len(s) - n : Drop(s, n)[i] = s[n + i]
           /\ Take(s, n) \o Drop(s, n) = s
  <1>1. /\ Take(s, n) \in Seq(S) /\ Len(Take(s, n)) = n /\ \A i \in 1..n : Take(s, n)[i] = s[i]
    BY DEF Take
  <1>2. Drop(s, n) \in Seq(S) /\ Len(Drop(s, n)) = Len(s) - n
    BY DEF Drop
  <1>3. \A i \in 1..Len(s) - n : Drop(s, n)[i] = s[n + i]
    BY DEF Drop
  <1> DEFINE x == Take(s, n)
             y == Drop(s, n)
  <1> HIDE DEF x, y
  <1>4. x \in Seq(S) /\ y \in Seq(S) /\ Len(x) = n /\ Len(y) = Len(s) - n
    BY <1>1, <1>2 DEF x, y
  <1>5. ASSUME NEW i \in 1..Len(s) PROVE (x \o y)[i] = s[i]
    <2>1. CASE i <= n
      BY <1>1, <1>4, <2>1 DEF x
    <2>2. CASE i > n
      <3>1. i - n \in 1..Len(s) - n /\ n + (i - n) = i
        BY <2>2
      <3>2. y[i - n] = s[i]
        BY <1>3, <3>1 DEF y
      <3>3. (x \o y)[i] = IF i <= Len(x) THEN x[i] ELSE y[i - Len(x)]
        <4>1. i \in 1..Len(x) + Len(y)
          BY <1>4
        <4> QED  BY <1>4, <4>1, ConcatProperties
      <3> QED  BY <1>4, <2>2, <3>2, <3>3
    <2>3. i <= n \/ i > n
      OBVIOUS
    <2> QED  BY <2>1, <2>2, <2>3
  <1>6. x \o y \in Seq(S) /\ Len(x \o y) = Len(s)
    BY <1>4
  <1>7. x \o y = s
    <2> DEFINE z == x \o y
    <2> HIDE DEF z
    <2>1. z \in Seq(S) /\ Len(z) = Len(s) /\ \A i \in 1..Len(s) : z[i] = s[i]
      BY <1>5, <1>6 DEF z
    <2>2. z = s
      BY <2>1
    <2> QED  BY <2>2 DEF z
  <1> QED  BY <1>1, <1>2, <1>3, <1>7 DEF x, y

LEMMA TakeJoined ==
    ASSUME NEW S, NEW a \in Seq(S), NEW b \in Seq(S), NEW j \in 0..Len(b)
    PROVE  Take(a \o b, Len(a) + j) = a \o Take(b, j) /\ Drop(a \o b, Len(a) + j) = Drop(b, j)
  <1> DEFINE c == a \o b
             n == Len(a) + j
             x == Take(c, n)
             y == a \o Take(b, j)
  <1>1. /\ c \in Seq(S) /\ Len(c) = Len(a) + Len(b) /\ Len(a) \in Nat /\ Len(b) \in Nat
        /\ \A i \in 1..Len(a) : c[i] = a[i]
        /\ \A i \in 1..Len(b) : c[Len(a) + i] = b[i]
    BY JoinedAt
  <1>2. Take(b, j) \in Seq(S) /\ Len(Take(b, j)) = j /\ \A i \in 1..j : Take(b, j)[i] = b[i]
    BY TakeIs
  <1>3. /\ y \in Seq(S) /\ Len(y) = n
        /\ \A i \in 1..Len(a) : y[i] = a[i]
        /\ \A i \in 1..j : y[Len(a) + i] = Take(b, j)[i]
    <2> DEFINE u == Take(b, j)
    <2> HIDE DEF u
    <2>1. u \in Seq(S) /\ Len(u) = j
      BY <1>2 DEF u
    <2>2. y = a \o u
      BY DEF u
    <2> HIDE DEF y
    <2>3. /\ y \in Seq(S) /\ Len(y) = Len(a) + Len(u)
          /\ \A i \in 1..Len(a) + Len(u) : y[i] = IF i <= Len(a) THEN a[i] ELSE u[i - Len(a)]
      BY <2>1, <2>2, ConcatProperties
    <2>4. \A i \in 1..Len(a) : y[i] = a[i]
      BY <2>1, <2>3
    <2>5. ASSUME NEW i \in 1..j PROVE y[Len(a) + i] = u[i]
      <3>1. Len(a) + i \in 1..Len(a) + Len(u) /\ ~(Len(a) + i <= Len(a)) /\ (Len(a) + i) - Len(a) = i
        BY <2>1
      <3> QED  BY <2>3, <3>1
    <2> QED  BY <2>1, <2>3, <2>4, <2>5 DEF u
  <1> HIDE DEF c, y
  <1>4. n \in 0..Len(c)
    BY <1>1
  <1>5. x \in Seq(S) /\ Len(x) = n /\ \A i \in 1..n : x[i] = c[i]
    BY <1>1, <1>4, TakeIs
  <1> HIDE DEF x
  <1>6. ASSUME NEW i \in 1..n PROVE x[i] = y[i]
    <2>1. CASE i <= Len(a)
      <3>1. i \in 1..Len(a)
        BY <1>1, <2>1
      <3> QED  BY <1>1, <1>3, <1>5, <3>1
    <2>2. CASE i > Len(a)
      <3> DEFINE k == i - Len(a)
      <3>1. k \in 1..j /\ k \in 1..Len(b) /\ i = Len(a) + k
        BY <1>1, <2>2
      <3> HIDE DEF k
      <3> QED  BY <1>1, <1>2, <1>3, <1>5, <3>1
    <2> QED  BY <1>1, <2>1, <2>2
  <1>7. x = y
    BY <1>3, <1>5, <1>6
  <1>8. Drop(c, n) = Drop(b, j)
    <2>1. Drop(c, n) = SubSeq(c, Len(a) + (j + 1), Len(a) + Len(b))
      BY <1>1 DEF Drop
    <2>2. SubSeq(c, Len(a) + (j + 1), Len(a) + Len(b)) = SubSeq(b, j + 1, Len(b))
      <3>1. j + 1 \in Nat \ {0} /\ Len(b) <= Len(b)
        BY <1>1
      <3> QED  BY <1>1, <3>1, PartOf DEF c
    <2> QED  BY <2>1, <2>2 DEF Drop
  <1> QED  BY <1>7, <1>8 DEF x, y, c

\* Behind a newline everything is as it is alone.
LEMMA EndJoined ==
    ASSUME NEW S, NEW a \in Seq(S), NEW b \in Seq(S), IsEnd(a, Len(a))
    PROVE  EndOfLines(a \o b) = Len(a) + EndOfLines(b)
  <1> DEFINE c == a \o b
             e == EndOfLines(b)
  <1>1. /\ c \in Seq(S) /\ Len(c) = Len(a) + Len(b) /\ Len(a) \in Nat /\ Len(b) \in Nat
        /\ \A i \in 1..Len(a) : c[i] = a[i]
        /\ \A i \in 1..Len(b) : c[Len(a) + i] = b[i]
    BY JoinedAt
  <1>2. IsEnd(b, e)
    BY EndIs
  <1> HIDE DEF c, e
  <1>3. e \in 0..Len(b) /\ (e # 0 => b[e] = Lf) /\ \A i \in 1..Len(b) : i > e => b[i] # Lf
    BY <1>2 DEF IsEnd
  <1>4. Len(a) # 0 => a[Len(a)] = Lf
    BY DEF IsEnd
  <1>5. IsEnd(c, Len(a) + e)
    <2>1. Len(a) + e # 0 => c[Len(a) + e] = Lf
      <3>1. CASE e = 0
        <4>1. Len(a) # 0 => Len(a) \in 1..Len(a)
          BY <1>1
        <4> QED  BY <1>1, <1>4, <3>1, <4>1
      <3>2. CASE e # 0
        BY <1>1, <1>3, <3>2
      <3> QED  BY <3>1, <3>2
    <2>2. ASSUME NEW i \in 1..Len(c), i > Len(a) + e PROVE c[i] # Lf
      <3> DEFINE k == i - Len(a)
      <3>1. k \in 1..Len(b) /\ k > e /\ i = Len(a) + k
        BY <1>1, <1>3, <2>2
      <3> HIDE DEF k
      <3> QED  BY <1>1, <1>3, <3>1
    <2>3. Len(a) + e \in 0..Len(c)
      BY <1>1, <1>3
    <2> QED  BY <2>1, <2>2, <2>3 DEF IsEnd
  <1>6. Len(a) + e = EndOfLines(c)
    BY <1>1, <1>5, EndIs
  <1> QED  BY <1>6 DEF c, e

AppendJoins(x, y, z) == Append(x \o y, z) = x \o Append(y, z)

LEMMA AppendJoined ==
    ASSUME NEW S, NEW x \in Seq(S), NEW y \in Seq(S), NEW z \in S
    PROVE  AppendJoins(x, y, z)
  <1>1. x \o y \in Seq(S) /\ <<z>> \in Seq(S)
    BY ConcatProperties
  <1>2. Append(x \o y, z) = (x \o y) \o <<z>>
    BY <1>1, AppendIsConcat
  <1>3. Append(y, z) = y \o <<z>>
    BY AppendIsConcat
  <1>4. (x \o y) \o <<z>> = x \o (y \o <<z>>)
    BY <1>1, ConcatAssociative
  <1> QED  BY <1>2, <1>3, <1>4 DEF AppendJoins

Associates(x, y, z) == (x \o y) \o z = x \o (y \o z)

LEMMA Associative ==
    ASSUME NEW S, NEW x \in Seq(S), NEW y \in Seq(S), NEW z \in Seq(S)
    PROVE  Associates(x, y, z)
  BY ConcatAssociative DEF Associates

LEMMA LineJoined ==
    ASSUME NEW S, NEW a \in Seq(S), NEW b \in Seq(S)
    PROVE  /\ \A i \in 1..Len(a) : LineAt(a \o b, i) = LineAt(a, i)
           /\ IsEnd(a, Len(a)) => \A j \in 1..Len(b) : LineAt(a \o b, Len(a) + j) = LineAt(b, j)
  <1> DEFINE c == a \o b
             m == Len(a)
  <1>1. c \in Seq(S) /\ m \in Nat /\ Len(b) \in Nat
    BY JoinedAt
  <1>2. ASSUME NEW i \in 1..m PROVE LineAt(c, i) = LineAt(a, i)
    <2> DEFINE t == Take(a, i - 1)
               e == EndOfLines(t)
    <2>1. i - 1 \in 0..m /\ i - 1 \in Nat
      BY <1>1
    <2>2. Take(c, i - 1) = t
      <3>1. 1 \in Nat \ {0} /\ i - 1 <= m
        BY <2>1
      <3> QED  BY <2>1, <3>1, PartOf DEF Take
    <2>3. t \in Seq(S) /\ Len(t) = i - 1
      BY <2>1, TakeIs
    <2> HIDE DEF t
    <2>4. e \in 0..i - 1
      BY <2>3, EndIs DEF IsEnd
    <2> HIDE DEF e
    <2>5. SubSeq(c, e + 1, i - 1) = SubSeq(a, e + 1, i - 1)
      <3> DEFINE p == e + 1
                 q == i - 1
      <3>1. p \in Nat \ {0} /\ q \in Nat /\ q <= Len(a)
        BY <2>1, <2>4
      <3> HIDE DEF p, q
      <3>2. SubSeq(a \o b, p, q) = SubSeq(a, p, q)
        BY <3>1, PartOf
      <3> QED  BY <3>2 DEF p, q
    <2> QED  BY <2>2, <2>5 DEF LineAt, e, t
  <1>3. ASSUME IsEnd(a, m), NEW j \in 1..Len(b) PROVE LineAt(c, m + j) = LineAt(b, j)
    <2> DEFINE t == Take(b, j - 1)
               e == EndOfLines(t)
    <2>1. j - 1 \in 0..Len(b) /\ j - 1 \in Nat /\ (m + j) - 1 = m + (j - 1)
      BY <1>1
    <2>2. Take(c, m + (j - 1)) = a \o t
      BY <2>1, TakeJoined
    <2>3. t \in Seq(S) /\ Len(t) = j - 1
      BY <2>1, TakeIs
    <2> HIDE DEF t
    <2>4. e \in 0..j - 1
      BY <2>3, EndIs DEF IsEnd
    <2>5. EndOfLines(a \o t) = m + e
      BY <1>3, <2>3, EndJoined
    <2> HIDE DEF e, c, m
    <2>6. (m + e) + 1 = m + (e + 1) /\ e + 1 \in Nat \ {0} /\ j - 1 <= Len(b)
      BY <1>1, <2>1, <2>4
    <2>7. SubSeq(c, m + (e + 1), m + (j - 1)) = SubSeq(b, e + 1, j - 1)
      <3> DEFINE x == e + 1
                 y == j - 1
      <3>1. x \in Nat \ {0} /\ y \in Nat /\ y <= Len(b)
        BY <2>1, <2>6
      <3> HIDE DEF x, y
      <3>2. SubSeq(a \o b, Len(a) + x, Len(a) + y) = SubSeq(b, x, y)
        BY <3>1, PartOf
      <3> QED  BY <3>2 DEF c, m, x, y
    <2>8. LineAt(c, m + j) = SubSeq(c, m + (e + 1), m + (j - 1))
      BY <2>1, <2>2, <2>5, <2>6 DEF LineAt
    <2> QED  BY <2>7, <2>8 DEF LineAt, e, t
  <1> QED  BY <1>2, <1>3

LEMMA LineType ==
    ASSUME NEW S, NEW s \in Seq(S), NEW i \in 1..Len(s)
    PROVE  LineAt(s, i) \in Seq(S)
  <1> DEFINE e == EndOfLines(Take(s, i - 1))
  <1>1. i - 1 \in 0..Len(s)
    OBVIOUS
  <1>2. Take(s, i - 1) \in Seq(S)
    BY <1>1, TakeIs
  <1>3. e \in Nat
    BY <1>2, EndIs DEF IsEnd
  <1> HIDE DEF e
  <1>4. \A k \in e + 1..i - 1 : s[k] \in S
    BY <1>1, <1>3
  <1>5. SubSeq(s, e + 1, i - 1) \in Seq(S)
    <2>1. e + 1 \in Int /\ i - 1 \in Int
      BY <1>1, <1>3
    <2> QED  BY <1>4, <2>1, SubSeqProperties
  <1> QED  BY <1>5 DEF LineAt, e

\* The messages of a stream, one line after the other.
EndsMessage(s, i) == s[i] = Lf /\ IsMessage(LineAt(s, i))
ParseBy(f, s) ==
    /\ f[0] = <<>> /\ Parse(s) = f[Len(s)]
    /\ \A i \in 1..Len(s) : f[i] = IF EndsMessage(s, i) THEN Append(f[i - 1], LineAt(s, i)) ELSE f[i - 1]

LEMMA ParseIs ==
    ASSUME NEW S, NEW s \in Seq(S)
    PROVE  \E f \in [0..Len(s) -> Seq(Seq(S))] : ParseBy(f, s)
  <1> DEFINE n == Len(s)
             ends(i) == EndsMessage(s, i)
             line(i) == LineAt(s, i)
             step == [i \in 1..n |-> [ls \in Seq(Seq(S)) |-> IF ends(i) THEN Append(ls, line(i)) ELSE ls]]
             parsed(f) == [i \in 0..n |-> IF i = 0 THEN <<>>
                                          ELSE IF ends(i) THEN Append(f[i - 1], line(i)) ELSE f[i - 1]]
  <1>1. n \in Nat
    OBVIOUS
  <1>2. ASSUME NEW i \in 1..n PROVE line(i) \in Seq(S)
    BY LineType
  <1> HIDE DEF n, ends, line
  <1>3. step \in [1..n -> [Seq(Seq(S)) -> Seq(Seq(S))]]
    BY <1>2
  <1>4. \E f \in [0..n -> Seq(Seq(S))] : Recurs(f, n, <<>>, step)
    <2> HIDE DEF step
    <2>1. <<>> \in Seq(Seq(S))
      OBVIOUS
    <2> QED  BY <1>1, <1>3, <2>1, Recursion
  <1>5. PICK f \in [0..n -> Seq(Seq(S))] : f[0] = <<>> /\ \A i \in 1..n : f[i] = step[i][f[i - 1]]
    BY <1>4 DEF Recurs
  <1>6. ASSUME NEW i \in 1..n PROVE f[i] = IF ends(i) THEN Append(f[i - 1], line(i)) ELSE f[i - 1]
    <2>1. i - 1 \in 0..n
      BY <1>1
    <2>2. f[i - 1] \in Seq(Seq(S))
      BY <2>1
    <2> QED  BY <1>5, <2>2
  <1> HIDE DEF step
  <1>7. f = parsed(f)
    <2>1. ASSUME NEW i \in 0..n
          PROVE  f[i] = IF i = 0 THEN <<>> ELSE IF ends(i) THEN Append(f[i - 1], line(i)) ELSE f[i - 1]
      <3>1. CASE i = 0
        BY <1>5, <3>1
      <3>2. CASE i # 0
        <4>1. i \in 1..n
          BY <1>1, <3>2
        <4> QED  BY <1>6, <3>2, <4>1
      <3> QED  BY <3>1, <3>2
    <2>2. f = [i \in 0..n |-> f[i]]
      OBVIOUS
    <2> QED  BY <2>1, <2>2
  <1> DEFINE g == CHOOSE h : h = parsed(h)
  <1>8. g = parsed(g)
    BY <1>7
  <1>9. Parse(s) = g[n]
    BY DEF Parse, n, ends, line, EndsMessage, Lf
  <1> HIDE DEF g
  <1>10. g[0] = <<>> /\ \A i \in 1..n : g[i] = IF ends(i) THEN Append(g[i - 1], line(i)) ELSE g[i - 1]
    <2>1. \A i \in 0..n : g[i] = IF i = 0 THEN <<>>
             ELSE IF ends(i) THEN Append(g[i - 1], line(i)) ELSE g[i - 1]
      BY <1>8
    <2>2. 0 \in 0..n /\ \A i \in 1..n : i \in 0..n /\ i # 0
      BY <1>1
    <2> QED  BY <2>1, <2>2
  <1> DEFINE T == {k \in 0..n : g[k] = f[k]}
  <1>11. 0 \in T
    BY <1>1, <1>5, <1>10
  <1>12. ASSUME NEW k \in 0..n - 1, k \in T PROVE k + 1 \in T
    <2>1. k + 1 \in 1..n /\ (k + 1) - 1 = k
      BY <1>1
    <2>2. g[k + 1] = f[k + 1]
      BY <1>6, <1>10, <1>12, <2>1
    <2> QED  BY <2>1, <2>2
  <1>13. n \in T
    <2>1. \A k \in 0..n : k \in T
      <3> HIDE DEF T
      <3> QED  BY <1>1, <1>11, <1>12, Induct
    <2> QED  BY <1>1, <2>1
  <1> QED  BY <1>5, <1>6, <1>9, <1>13 DEF ParseBy, n, ends, line

\* Two streams, the first of whole lines: the messages of the one, then of the other.
LEMMA ParseJoined ==
    ASSUME NEW S, NEW a \in Seq(S), NEW b \in Seq(S), IsEnd(a, Len(a))
    PROVE  Parse(a \o b) = Parse(a) \o Parse(b)
  <1> DEFINE c == a \o b
             m == Len(a)
             n == Len(b)
  <1>1. /\ c \in Seq(S) /\ Len(c) = m + n /\ m \in Nat /\ n \in Nat
        /\ \A i \in 1..m : c[i] = a[i]
        /\ \A i \in 1..n : c[m + i] = b[i]
    BY JoinedAt
  <1>2. /\ \A i \in 1..m : EndsMessage(c, i) <=> EndsMessage(a, i)
        /\ \A i \in 1..m : LineAt(c, i) = LineAt(a, i)
    BY <1>1, LineJoined DEF EndsMessage
  <1>3. /\ \A i \in 1..n : EndsMessage(c, m + i) <=> EndsMessage(b, i)
        /\ \A i \in 1..n : LineAt(c, m + i) = LineAt(b, i)
    BY <1>1, LineJoined DEF EndsMessage
  <1> HIDE DEF c
  <1>4. PICK f \in [0..Len(c) -> Seq(Seq(S))] : ParseBy(f, c)
    BY <1>1, ParseIs
  <1>5. PICK g \in [0..m -> Seq(Seq(S))] : ParseBy(g, a)
    BY ParseIs
  <1>6. PICK h \in [0..n -> Seq(Seq(S))] : ParseBy(h, b)
    BY ParseIs
  <1>7. /\ f[0] = <<>> /\ Parse(c) = f[m + n]
        /\ \A i \in 1..m + n : f[i] = IF EndsMessage(c, i) THEN Append(f[i - 1], LineAt(c, i)) ELSE f[i - 1]
    BY <1>1, <1>4 DEF ParseBy
  <1>8. /\ g[0] = <<>> /\ Parse(a) = g[m]
        /\ \A i \in 1..m : g[i] = IF EndsMessage(a, i) THEN Append(g[i - 1], LineAt(a, i)) ELSE g[i - 1]
    BY <1>5 DEF ParseBy
  <1>9. /\ h[0] = <<>> /\ Parse(b) = h[n]
        /\ \A i \in 1..n : h[i] = IF EndsMessage(b, i) THEN Append(h[i - 1], LineAt(b, i)) ELSE h[i - 1]
    BY <1>6 DEF ParseBy
  <1> HIDE DEF m, n
  <1>10. f[m] = g[m]
    <2> DEFINE T == {k \in 0..m : f[k] = g[k]}
    <2>1. 0 \in T
      BY <1>1, <1>7, <1>8
    <2>2. ASSUME NEW k \in 0..m - 1, k \in T PROVE k + 1 \in T
      <3>1. k + 1 \in 1..m /\ k + 1 \in 1..m + n /\ (k + 1) - 1 = k
        BY <1>1
      <3>2. f[k + 1] = g[k + 1]
        BY <1>2, <1>7, <1>8, <2>2, <3>1
      <3> QED  BY <3>1, <3>2
    <2>3. \A k \in 0..m : k \in T
      <3> HIDE DEF T
      <3> QED  BY <1>1, <2>1, <2>2, Induct
    <2> QED  BY <1>1, <2>3
  <1>11. f[m + n] = f[m] \o h[n]
    <2> DEFINE joined(k) == f[m + k] = f[m] \o h[k]
               T == {k \in 0..n : joined(k)}
    <2>0. f[m] \in Seq(Seq(S))
      <3>1. m \in 0..Len(c)
        BY <1>1
      <3> QED  BY <3>1
    <2>1. 0 \in T
      <3>1. m + 0 = m /\ 0 \in 0..n
        BY <1>1
      <3> QED  BY <1>9, <2>0, <3>1
    <2>2. ASSUME NEW k \in 0..n - 1, k \in T PROVE k + 1 \in T
      <3>1. k + 1 \in 1..n /\ m + (k + 1) \in 1..m + n /\ (k + 1) - 1 = k /\ (m + (k + 1)) - 1 = m + k
            /\ k \in 0..n
        BY <1>1
      <3>2. h[k] \in Seq(Seq(S)) /\ f[m + k] = f[m] \o h[k]
        BY <2>2, <3>1
      <3>3. f[m + (k + 1)] = f[m] \o h[k + 1]
        <4>1. CASE EndsMessage(b, k + 1)
          <5>1. f[m + (k + 1)] = Append(f[m + k], LineAt(b, k + 1))
            <6>1. EndsMessage(c, m + (k + 1)) /\ LineAt(c, m + (k + 1)) = LineAt(b, k + 1)
              BY <1>3, <3>1, <4>1
            <6>2. f[m + (k + 1)] = IF EndsMessage(c, m + (k + 1))
                                      THEN Append(f[(m + (k + 1)) - 1], LineAt(c, m + (k + 1)))
                                      ELSE f[(m + (k + 1)) - 1]
              BY <1>7, <3>1
            <6> QED  BY <3>1, <6>1, <6>2
          <5>2. h[k + 1] = Append(h[k], LineAt(b, k + 1))
            BY <1>9, <3>1, <4>1
          <5>3. LineAt(b, k + 1) \in Seq(S)
            BY <3>1, LineType DEF n
          <5> DEFINE x == f[m]
                     y == h[k]
                     z == LineAt(b, k + 1)
          <5> HIDE DEF x, y, z
          <5>4. x \in Seq(Seq(S)) /\ y \in Seq(Seq(S)) /\ z \in Seq(S)
            BY <2>0, <3>2, <5>3 DEF x, y, z
          <5>7. Append(x \o y, z) = x \o Append(y, z)
            <6> DEFINE L == Seq(S)
            <6>1. x \in Seq(L) /\ y \in Seq(L) /\ z \in L
              BY <5>4
            <6> HIDE DEF L
            <6>2. AppendJoins(x, y, z)
              BY <6>1, AppendJoined
            <6> QED  BY <6>2 DEF AppendJoins
          <5>8. f[m + (k + 1)] = Append(x \o y, z) /\ h[k + 1] = Append(y, z)
            BY <3>2, <5>1, <5>2 DEF x, y, z
          <5> QED  BY <5>7, <5>8 DEF x
        <4>2. CASE ~EndsMessage(b, k + 1)
          <5>1. ~EndsMessage(c, m + (k + 1))
            BY <1>3, <3>1, <4>2
          <5>2. f[m + (k + 1)] = IF EndsMessage(c, m + (k + 1))
                                    THEN Append(f[(m + (k + 1)) - 1], LineAt(c, m + (k + 1)))
                                    ELSE f[(m + (k + 1)) - 1]
            BY <1>7, <3>1
          <5>3. h[k + 1] = h[k]
            BY <1>9, <3>1, <4>2
          <5> HIDE DEF T
          <5> QED  BY <3>1, <3>2, <5>1, <5>2, <5>3
        <4> QED  BY <4>1, <4>2
      <3>4. joined(k + 1)
        BY <3>3
      <3> HIDE DEF joined
      <3> QED  BY <3>1, <3>4
    <2>3. \A k \in 0..n : k \in T
      <3> HIDE DEF T
      <3> QED  BY <1>1, <2>1, <2>2, Induct
    <2>4. joined(n)
      <3> HIDE DEF joined
      <3> QED  BY <1>1, <2>3
    <2> QED  BY <2>4
  <1> QED  BY <1>7, <1>8, <1>9, <1>10, <1>11 DEF c

LEMMA ParseNone ==
    ASSUME NEW S, NEW s \in Seq(S), IsEnd(s, 0)
    PROVE  Parse(s) = <<>>
  <1> DEFINE n == Len(s)
  <1>1. n \in Nat /\ \A i \in 1..n : ~EndsMessage(s, i)
    BY DEF IsEnd, EndsMessage
  <1>2. PICK f \in [0..n -> Seq(Seq(S))] : ParseBy(f, s)
    BY ParseIs
  <1>3. f[0] = <<>> /\ Parse(s) = f[n] /\ \A i \in 1..n : f[i] = f[i - 1]
    BY <1>1, <1>2 DEF ParseBy
  <1> HIDE DEF n
  <1> DEFINE T == {k \in 0..n : f[k] = <<>>}
  <1>4. 0 \in T
    BY <1>1, <1>3
  <1>5. ASSUME NEW k \in 0..n - 1, k \in T PROVE k + 1 \in T
    <2>1. k + 1 \in 1..n /\ (k + 1) - 1 = k
      BY <1>1
    <2> QED  BY <1>3, <1>5, <2>1
  <1>6. \A k \in 0..n : k \in T
    <2> HIDE DEF T
    <2> QED  BY <1>1, <1>4, <1>5, Induct
  <1> QED  BY <1>1, <1>3, <1>6

LEMMA ParseType ==
    ASSUME NEW S, NEW s \in Seq(S)
    PROVE  Parse(s) \in Seq(Seq(S))
  <1>1. PICK f \in [0..Len(s) -> Seq(Seq(S))] : ParseBy(f, s)
    BY ParseIs
  <1> QED  BY <1>1 DEF ParseBy

\* A stream is its whole lines and the rest, which holds no newline and no message.
LEMMA WholeLines ==
    ASSUME NEW S, NEW s \in Seq(S)
    PROVE  LET a == Take(s, EndOfLines(s))
               d == Drop(s, EndOfLines(s))
           IN  /\ a \in Seq(S) /\ d \in Seq(S) /\ s = a \o d
               /\ EndOfLines(s) \in 0..Len(s) /\ Len(a) = EndOfLines(s)
               /\ IsEnd(a, Len(a)) /\ IsEnd(d, 0) /\ Parse(s) = Parse(a)
  <1> DEFINE e == EndOfLines(s)
             a == Take(s, e)
             d == Drop(s, e)
  <1>1. /\ e \in 0..Len(s) /\ (e # 0 => s[e] = Lf)
        /\ \A i \in 1..Len(s) : i > e => s[i] # Lf
    BY EndIs DEF IsEnd
  <1> HIDE DEF e
  <1>2. /\ a \in Seq(S) /\ Len(a) = e /\ \A i \in 1..e : a[i] = s[i]
        /\ d \in Seq(S) /\ Len(d) = Len(s) - e
        /\ \A i \in 1..Len(s) - e : d[i] = s[e + i]
        /\ a \o d = s
    BY <1>1, TakeIs
  <1> HIDE DEF a, d
  <1>3. IsEnd(a, Len(a))
    <2>1. e # 0 => a[e] = Lf
      <3>1. e # 0 => e \in 1..e
        BY <1>1
      <3> QED  BY <1>1, <1>2, <3>1
    <2>2. \A i \in 1..Len(a) : ~(i > Len(a))
      OBVIOUS
    <2>3. Len(a) \in 0..Len(a)
      BY <1>2
    <2> QED  BY <1>2, <2>1, <2>2, <2>3 DEF IsEnd
  <1>4. IsEnd(d, 0)
    <2>1. ASSUME NEW i \in 1..Len(d) PROVE d[i] # Lf
      <3>1. e + i \in 1..Len(s) /\ e + i > e /\ i \in 1..Len(s) - e
        BY <1>1, <1>2
      <3> QED  BY <1>1, <1>2, <3>1
    <2>2. 0 \in 0..Len(d)
      BY <1>2
    <2> QED  BY <2>1, <2>2 DEF IsEnd
  <1>5. Parse(s) = Parse(a)
    <2>1. Parse(a \o d) = Parse(a) \o Parse(d)
      BY <1>2, <1>3, ParseJoined
    <2>2. Parse(d) = <<>>
      BY <1>2, <1>4, ParseNone
    <2>3. Parse(a) \in Seq(Seq(S))
      BY <1>2, ParseType
    <2>4. Parse(a) \o <<>> = Parse(a)
      BY <2>3
    <2> QED  BY <1>2, <2>1, <2>2, <2>4
  <1> QED  BY <1>1, <1>2, <1>3, <1>4, <1>5 DEF e, a, d

\* What the loop has of a stream: the messages of its whole lines, and its last line.
OfStream(s) == [msgs |-> Parse(s), pending |-> Drop(s, EndOfLines(s))]

\* A read more: p came before it, t comes after it.
LEMMA PushIs ==
    ASSUME NEW S, NEW p \in Seq(S), NEW chunk \in Seq(S), NEW t \in Seq(S),
           LinesAreShort((p \o chunk) \o t)
    PROVE  PushAnnounce(OfStream(p), chunk) = OfStream(p \o chunk)
  <1> DEFINE e == EndOfLines(p)
             a == Take(p, e)
             d == Drop(p, e)
             bytes == d \o chunk
             q == p \o chunk
             w == q \o t
             f == EndOfLines(bytes)
  <1>1. a \in Seq(S) /\ d \in Seq(S) /\ p = a \o d /\ IsEnd(a, Len(a)) /\ Parse(p) = Parse(a)
    BY WholeLines
  <1>2. OfStream(p) = [msgs |-> Parse(a), pending |-> d]
    BY <1>1 DEF OfStream
  <1> HIDE DEF e, a, d
  <1>3. bytes \in Seq(S) /\ q = a \o bytes /\ Parse(a) \in Seq(Seq(S))
    BY <1>1, ParseType
  <1> HIDE DEF bytes, q
  <1>4. /\ f \in 0..Len(bytes) /\ Take(bytes, f) \in Seq(S)
        /\ Parse(bytes) = Parse(Take(bytes, f))
        /\ IsEnd(bytes, f)
    BY <1>3, WholeLines, EndIs
  <1>5. EndOfLines(q) = Len(a) + f
    BY <1>1, <1>3, EndJoined
  <1> HIDE DEF f
  <1>6. Drop(q, EndOfLines(q)) = Drop(bytes, f)
    BY <1>1, <1>3, <1>4, <1>5, TakeJoined
  <1>7. Parse(q) = Parse(a) \o Parse(bytes)
    BY <1>1, <1>3, ParseJoined
  <1>8. OfStream(q) = [msgs |-> Parse(a) \o Parse(Take(bytes, f)), pending |-> Drop(bytes, f)]
    BY <1>4, <1>6, <1>7 DEF OfStream
  <1>9. CASE f = 0
    <2>1. Len(bytes) <= MaxLine
      <3>1. SUFFICES ASSUME Len(bytes) > MaxLine PROVE FALSE
        BY <1>3, StreamsAssumption
      <3> DEFINE i == Len(a) + 1
                 j == Len(a) + Len(bytes)
      <3>2. /\ w \in Seq(S) /\ Len(w) = (Len(a) + Len(bytes)) + Len(t) /\ Len(a) \in Nat /\ Len(bytes) \in Nat
            /\ Len(t) \in Nat
            /\ \A k \in 1..Len(bytes) : w[Len(a) + k] = bytes[k]
        <4>1. /\ q \in Seq(S) /\ Len(q) = Len(a) + Len(bytes) /\ Len(a) \in Nat /\ Len(bytes) \in Nat
              /\ \A k \in 1..Len(bytes) : q[Len(a) + k] = bytes[k]
          BY <1>1, <1>3, JoinedAt
        <4>2. w = q \o t
          OBVIOUS
        <4> HIDE DEF w
        <4>3. /\ w \in Seq(S) /\ Len(w) = Len(q) + Len(t) /\ Len(t) \in Nat
              /\ \A k \in 1..Len(q) + Len(t) : w[k] = IF k <= Len(q) THEN q[k] ELSE t[k - Len(q)]
          <5>1. q \in Seq(S)
            BY <4>1
          <5>2. /\ q \o t \in Seq(S) /\ Len(q \o t) = Len(q) + Len(t)
                /\ \A k \in 1..Len(q) + Len(t) : (q \o t)[k] = IF k <= Len(q) THEN q[k] ELSE t[k - Len(q)]
            BY <5>1, ConcatProperties
          <5> QED  BY <4>2, <5>2
        <4>4. \A k \in 1..Len(bytes) : Len(a) + k \in 1..Len(q) + Len(t) /\ Len(a) + k <= Len(q)
          BY <4>1, <4>3
        <4> QED  BY <4>1, <4>3, <4>4
      <3>3. LinesAreShort(w)
        BY DEF q
      <3> HIDE DEF w
      <3>4. i \in DOMAIN w /\ j \in DOMAIN w /\ j - i >= MaxLine
        BY <3>1, <3>2, StreamsAssumption
      <3>5. PICK k \in i..j : w[k] = "nl"
        BY <3>3, <3>4 DEF LinesAreShort
      <3>6. k - Len(a) \in 1..Len(bytes) /\ Len(a) + (k - Len(a)) = k
        BY <3>2
      <3>7. bytes[k - Len(a)] = Lf
        BY <3>2, <3>5, <3>6 DEF Lf
      <3>8. k - Len(a) > 0
        BY <3>6
      <3> QED  BY <1>4, <1>9, <3>6, <3>7, <3>8 DEF IsEnd
    <2>2. ~(Len(bytes) > MaxLine)
      BY <1>3, <2>1, StreamsAssumption
    <2>3. PushAnnounce(OfStream(p), chunk) = [msgs |-> Parse(a), pending |-> bytes]
      <3> DEFINE acc == [msgs |-> Parse(a), pending |-> d]
      <3>1. [acc EXCEPT !.pending = bytes] = [msgs |-> Parse(a), pending |-> bytes]
        OBVIOUS
      <3>2. acc.pending \o chunk = bytes
        BY DEF bytes
      <3> HIDE DEF acc
      <3>3. PushAnnounce(acc, chunk) = [acc EXCEPT !.pending = bytes]
        BY <1>9, <2>2, <3>2 DEF PushAnnounce, f
      <3>4. acc = OfStream(p)
        BY <1>2 DEF acc
      <3> QED  BY <3>1, <3>3, <3>4
    <2>4. Drop(bytes, f) = bytes
      BY <1>3, <1>9 DEF Drop
    <2>5. Parse(a) \o Parse(Take(bytes, f)) = Parse(a)
      <3>1. Parse(bytes) = <<>>
        BY <1>3, <1>4, <1>9, ParseNone
      <3> QED  BY <1>3, <1>4, <3>1
    <2> QED  BY <1>8, <2>3, <2>4, <2>5 DEF q
  <1>10. CASE f # 0
    <2>1. PushAnnounce(OfStream(p), chunk)
            = [pending |-> Drop(bytes, f), msgs |-> Parse(a) \o Parse(Take(bytes, f))]
      BY <1>2, <1>10 DEF PushAnnounce, bytes, f
    <2> QED  BY <1>8, <2>1 DEF q
  <1> QED  BY <1>9, <1>10

\* The stream as it grows, read after read.
CutBy(f, reads) ==
    /\ f[0] = <<>> /\ FlattenSeq(reads) = f[Len(reads)]
    /\ \A i \in 1..Len(reads) : f[i] = f[i - 1] \o reads[i]

LEMMA CutIs ==
    ASSUME NEW S, NEW reads \in Seq(Seq(S))
    PROVE  \E f \in [0..Len(reads) -> Seq(S)] : CutBy(f, reads)
  <1> DEFINE n == Len(reads)
  <1>1. n \in Nat /\ reads \in [1..n -> Seq(S)]
    OBVIOUS
  <1> HIDE DEF n
  <1>2. CASE n = 0
    <2> DEFINE f == [i \in 0..n |-> <<>>]
    <2>1. f \in [0..n -> Seq(S)] /\ f[0] = <<>> /\ f[n] = <<>> /\ 1..n = {}
      BY <1>2
    <2>2. reads = <<>> /\ FlattenSeq(reads) = reads
      BY <1>2 DEF n, FlattenSeq
    <2> HIDE DEF f
    <2>3. CutBy(f, reads)
      BY <2>1, <2>2 DEF CutBy, n
    <2> QED  BY <2>1, <2>3 DEF n
  <1>3. CASE n # 0
    <2>1. n \in Nat \ {0}
      BY <1>1, <1>3
    <2>2. PICK g \in [1..n -> Seq(S)] : FlatBy(g, reads, n)
      BY <1>1, <2>1, Flattened
    <2> DEFINE f == [i \in 0..n |-> IF i = 0 THEN <<>> ELSE g[i]]
    <2>3. f \in [0..n -> Seq(S)]
      <3>1. \A i \in 0..n : i # 0 => i \in 1..n
        BY <1>1
      <3> QED  BY <3>1
    <2>4. f[0] = <<>> /\ f[n] = g[n]
      BY <2>1
    <2>5. ASSUME NEW i \in 1..n PROVE f[i] = f[i - 1] \o reads[i]
      <3>1. reads[i] \in Seq(S) /\ f[i] = g[i] /\ i - 1 \in 0..n
        BY <1>1
      <3>2. CASE i = 1
        <4>1. f[i - 1] = <<>> /\ g[i] = reads[i]
          BY <2>2, <3>1, <3>2 DEF FlatBy
        <4>2. <<>> \o reads[i] = reads[i]
          BY <3>1, ConcatEmptySeq
        <4> HIDE DEF f
        <4> QED  BY <3>1, <4>1, <4>2
      <3>3. CASE i # 1
        <4>1. i \in 2..n /\ f[i - 1] = g[i - 1]
          BY <1>1, <3>3
        <4> QED  BY <2>2, <3>1, <4>1 DEF FlatBy
      <3> QED  BY <3>2, <3>3
    <2> HIDE DEF f
    <2>6. CutBy(f, reads)
      BY <2>2, <2>4, <2>5 DEF CutBy, FlatBy, n
    <2> QED  BY <2>3, <2>6 DEF n
  <1> QED  BY <1>2, <1>3

\* What has come is the start of the stream.
LEMMA SomethingFollows ==
    ASSUME NEW S, NEW reads \in Seq(Seq(S)), NEW f \in [0..Len(reads) -> Seq(S)], CutBy(f, reads)
    PROVE  \A k \in 0..Len(reads) : \E t \in Seq(S) : FlattenSeq(reads) = f[k] \o t
  <1> DEFINE n == Len(reads)
             T == {j \in 0..n : \E t \in Seq(S) : f[n] = f[n - j] \o t}
  <1>1. /\ n \in Nat /\ FlattenSeq(reads) = f[n]
        /\ \A i \in 1..n : f[i] = f[i - 1] \o reads[i] /\ reads[i] \in Seq(S)
    <2>1. n \in Nat /\ \A i \in 1..n : reads[i] \in Seq(S)
      OBVIOUS
    <2> QED  BY <2>1 DEF CutBy
  <1> HIDE DEF n
  <1>2. f \in [0..n -> Seq(S)]
    BY DEF n
  <1>3. 0 \in T
    <2>1. f[n] \in Seq(S) /\ <<>> \in Seq(S) /\ n - 0 = n /\ 0 \in 0..n
      BY <1>1, <1>2
    <2>2. f[n] = f[n] \o <<>>
      BY <2>1
    <2> QED  BY <2>1, <2>2
  <1>4. ASSUME NEW j \in 0..n - 1, j \in T PROVE j + 1 \in T
    <2>1. PICK t \in Seq(S) : f[n] = f[n - j] \o t
      BY <1>4
    <2>2. n - j \in 1..n /\ (n - j) - 1 = n - (j + 1) /\ n - (j + 1) \in 0..n /\ j + 1 \in 0..n
      BY <1>1
    <2>3. f[n - j] = f[n - (j + 1)] \o reads[n - j] /\ reads[n - j] \in Seq(S) /\ f[n - (j + 1)] \in Seq(S)
      BY <1>1, <1>2, <2>2
    <2>4. reads[n - j] \o t \in Seq(S) /\ f[n] = f[n - (j + 1)] \o (reads[n - j] \o t)
      <3> DEFINE x == f[n - (j + 1)]
                 y == reads[n - j]
      <3> HIDE DEF x, y
      <3>1. x \in Seq(S) /\ y \in Seq(S) /\ f[n] = (x \o y) \o t
        BY <2>1, <2>3 DEF x, y
      <3>2. x \in Seq(S) /\ y \in Seq(S)
        BY <3>1
      <3>3. y \o t \in Seq(S)
        BY <3>2, ConcatProperties
      <3>4. (x \o y) \o t = x \o (y \o t)
        <4>1. Associates(x, y, t)
          BY <3>2, Associative
        <4> QED  BY <4>1 DEF Associates
      <3> QED  BY <3>1, <3>3, <3>4 DEF x, y
    <2> QED  BY <2>2, <2>4
  <1>5. \A j \in 0..n : j \in T
    <2> HIDE DEF T
    <2> QED  BY <1>1, <1>3, <1>4, Induct
  <1>6. ASSUME NEW k \in 0..n PROVE \E t \in Seq(S) : f[n] = f[k] \o t
    <2>1. n - k \in 0..n /\ n - (n - k) = k
      BY <1>1
    <2>2. n - k \in T
      BY <1>5, <2>1
    <2> QED  BY <2>1, <2>2
  <1> QED  BY <1>1, <1>6 DEF n

\* However the reads cut it, the stream is read whole.
LEMMA AnnouncementsIs ==
    ASSUME NEW S, NEW reads \in Seq(Seq(S)), LinesAreShort(FlattenSeq(reads))
    PROVE  Announcements(reads) = OfStream(FlattenSeq(reads))
  <1> DEFINE n == Len(reads)
             s == FlattenSeq(reads)
             got(h) == [i \in 0..n |-> IF i = 0 THEN NoAnnouncements ELSE PushAnnounce(h[i - 1], reads[i])]
  <1>1. n \in Nat /\ \A i \in 1..n : reads[i] \in Seq(S)
    OBVIOUS
  <1>2. PICK f \in [0..n -> Seq(S)] : CutBy(f, reads)
    BY CutIs
  <1>3. f[0] = <<>> /\ s = f[n] /\ \A i \in 1..n : f[i] = f[i - 1] \o reads[i]
    BY <1>2 DEF CutBy
  <1>4. \A k \in 0..n : \E t \in Seq(S) : s = f[k] \o t
    BY <1>2, SomethingFollows
  <1> HIDE DEF n, s
  <1> DEFINE r == [i \in 0..n |-> OfStream(f[i])]
  <1>5. r[0] = NoAnnouncements
    <2>1. <<>> \in Seq(S) /\ IsEnd(<<>>, 0)
      BY DEF IsEnd
    <2>2. EndOfLines(<<>>) = 0 /\ Parse(<<>>) = <<>>
      BY <2>1, EndIs, ParseNone
    <2>3. OfStream(<<>>) = [msgs |-> <<>>, pending |-> <<>>]
      BY <2>2 DEF OfStream, Drop
    <2>4. 0 \in 0..n
      BY <1>1
    <2>5. r[0] = OfStream(f[0])
      BY <2>4
    <2> QED  BY <1>3, <2>3, <2>5 DEF NoAnnouncements
  <1>6. ASSUME NEW i \in 1..n PROVE r[i] = PushAnnounce(r[i - 1], reads[i])
    <2>1. i - 1 \in 0..n /\ i \in 0..n /\ f[i] = f[i - 1] \o reads[i] /\ f[i - 1] \in Seq(S) /\ reads[i] \in Seq(S)
      <3>1. i - 1 \in 0..n /\ i \in 0..n /\ reads[i] \in Seq(S)
        BY <1>1
      <3>2. f[i - 1] \in Seq(S)
        BY <3>1
      <3>3. f[i] = f[i - 1] \o reads[i]
        BY <1>3
      <3> QED  BY <3>1, <3>2, <3>3
    <2>2. PICK t \in Seq(S) : s = f[i] \o t
      BY <1>4, <2>1
    <2>3. LinesAreShort((f[i - 1] \o reads[i]) \o t)
      BY <2>1, <2>2 DEF s
    <2>4. PushAnnounce(OfStream(f[i - 1]), reads[i]) = OfStream(f[i - 1] \o reads[i])
      BY <2>1, <2>3, PushIs
    <2> QED  BY <2>1, <2>4
  <1>7. r = got(r)
    <2>1. ASSUME NEW i \in 0..n
          PROVE  r[i] = IF i = 0 THEN NoAnnouncements ELSE PushAnnounce(r[i - 1], reads[i])
      <3>1. i # 0 => i \in 1..n
        BY <1>1
      <3> HIDE DEF r
      <3> QED  BY <1>5, <1>6, <3>1
    <2>2. r = [i \in 0..n |-> r[i]]
      OBVIOUS
    <2> HIDE DEF r
    <2> QED  BY <2>1, <2>2
  <1> DEFINE g == CHOOSE h : h = got(h)
  <1>8. g = got(g)
    BY <1>7
  <1>9. Announcements(reads) = g[n]
    BY DEF Announcements, n
  <1> HIDE DEF g
  <1>10. g[0] = NoAnnouncements /\ \A i \in 1..n : g[i] = PushAnnounce(g[i - 1], reads[i])
    <2>1. \A i \in 0..n : g[i] = IF i = 0 THEN NoAnnouncements ELSE PushAnnounce(g[i - 1], reads[i])
      BY <1>8
    <2>2. 0 \in 0..n /\ \A i \in 1..n : i \in 0..n /\ i # 0
      BY <1>1
    <2> QED  BY <2>1, <2>2
  <1> DEFINE T == {k \in 0..n : g[k] = r[k]}
  <1>11. n \in T
    <2> HIDE DEF r
    <2>1. 0 \in T
      BY <1>1, <1>5, <1>10
    <2>2. ASSUME NEW k \in 0..n - 1, k \in T PROVE k + 1 \in T
      <3>1. k + 1 \in 1..n /\ (k + 1) - 1 = k
        BY <1>1
      <3> QED  BY <1>6, <1>10, <2>2, <3>1
    <2>3. \A k \in 0..n : k \in T
      <3> HIDE DEF T
      <3> QED  BY <1>1, <2>1, <2>2, Induct
    <2> QED  BY <1>1, <2>3
  <1>12. r[n] = OfStream(f[n])
    BY <1>1
  <1> HIDE DEF r
  <1> QED  BY <1>3, <1>9, <1>11, <1>12 DEF s

----------------------------------------------------------------------------
(* Functions of sequences that recur over shorter ones *)

LEMMA ByLength ==
    ASSUME NEW A, NEW T,
           \A s \in Seq(A) : (\A t \in Seq(A) : Len(t) < Len(s) => t \in T) => s \in T
    PROVE  \A s \in Seq(A) : s \in T
  <1> SUFFICES ASSUME NEW s \in Seq(A) PROVE s \in T
    OBVIOUS
  <1> DEFINE n == Len(s)
             U == {k \in 0..n : \A t \in Seq(A) : Len(t) <= k => t \in T}
  <1>1. n \in Nat
    OBVIOUS
  <1>2. 0 \in U
    <2>1. ASSUME NEW t \in Seq(A), Len(t) <= 0 PROVE t \in T
      <3>1. \A u \in Seq(A) : ~(Len(u) < Len(t))
        BY <2>1
      <3> QED  BY <3>1
    <2> QED  BY <1>1, <2>1
  <1>3. ASSUME NEW k \in 0..n - 1, k \in U PROVE k + 1 \in U
    <2>1. ASSUME NEW t \in Seq(A), Len(t) <= k + 1 PROVE t \in T
      <3>1. ASSUME NEW u \in Seq(A), Len(u) < Len(t) PROVE u \in T
        <4>1. Len(u) <= k
          BY <1>1, <2>1, <3>1
        <4> QED  BY <1>3, <4>1
      <3> QED  BY <3>1
    <2> QED  BY <1>1, <2>1
  <1>4. n \in U
    <2>1. \A k \in 0..n : k \in U
      <3> HIDE DEF U, n
      <3> QED  BY <1>1, <1>2, <1>3, Induct
    <2> QED  BY <1>1, <2>1
  <1> QED  BY <1>1, <1>4

\* A step looks at shorter sequences only.
Looks(step, A, V) ==
    \A s \in Seq(A) : \A f, g \in [Seq(A) -> V] :
        (\A t \in Seq(A) : Len(t) < Len(s) => f[t] = g[t]) => step[s][f] = step[s][g]
RecursTo(f, A, step, n) == \A s \in Seq(A) : Len(s) < n => f[s] = step[s][f]
RecursOn(f, A, step) == \A s \in Seq(A) : f[s] = step[s][f]

LEMMA RecursionByLength ==
    ASSUME NEW A, NEW V, V # {}, NEW step \in [Seq(A) -> [[Seq(A) -> V] -> V]], Looks(step, A, V)
    PROVE  \E f \in [Seq(A) -> V] : RecursOn(f, A, step)
  <1> DEFINE F == [Seq(A) -> V]
  <1>1. ASSUME NEW n \in Nat PROVE \E f \in F : RecursTo(f, A, step, n)
    <2> DEFINE T == {k \in 0..n : \E f \in F : RecursTo(f, A, step, k)}
    <2>1. 0 \in T
      <3>1. PICK v \in V : TRUE
        OBVIOUS
      <3> DEFINE f == [s \in Seq(A) |-> v]
      <3>2. f \in F
        OBVIOUS
      <3>3. RecursTo(f, A, step, 0)
        BY DEF RecursTo
      <3> QED  BY <3>2, <3>3
    <2>2. ASSUME NEW k \in 0..n - 1, k \in T PROVE k + 1 \in T
      <3>1. PICK f \in F : RecursTo(f, A, step, k)
        BY <2>2
      <3> DEFINE g == [s \in Seq(A) |-> step[s][f]]
      <3>2. g \in F /\ \A s \in Seq(A) : g[s] = step[s][f]
        OBVIOUS
      <3> HIDE DEF g
      <3>3. \A s \in Seq(A) : Len(s) < k => g[s] = f[s]
        BY <3>1, <3>2 DEF RecursTo
      <3>4. ASSUME NEW s \in Seq(A), Len(s) < k + 1 PROVE g[s] = step[s][g]
        <4>1. \A t \in Seq(A) : Len(t) < Len(s) => f[t] = g[t]
          <5>1. \A t \in Seq(A) : Len(t) < Len(s) => Len(t) < k
            BY <3>4
          <5> QED  BY <3>3, <5>1
        <4>2. step[s][f] = step[s][g]
          BY <3>1, <3>2, <4>1 DEF Looks
        <4> QED  BY <3>2, <4>2
      <3>5. RecursTo(g, A, step, k + 1)
        BY <3>4 DEF RecursTo
      <3>6. k + 1 \in 0..n
        OBVIOUS
      <3> HIDE DEF F
      <3> QED  BY <3>2, <3>5, <3>6
    <2>3. \A k \in 0..n : k \in T
      <3> HIDE DEF T
      <3> QED  BY <2>1, <2>2, Induct
    <2> QED  BY <2>3
  <1>2. ASSUME NEW n \in Nat, NEW f \in F, NEW g \in F, RecursTo(f, A, step, n), RecursTo(g, A, step, n),
               NEW s \in Seq(A), Len(s) < n
        PROVE  f[s] = g[s]
    <2> DEFINE T == {t \in Seq(A) : Len(t) < n => f[t] = g[t]}
    <2>1. ASSUME NEW t \in Seq(A), \A u \in Seq(A) : Len(u) < Len(t) => u \in T PROVE t \in T
      <3>1. ASSUME Len(t) < n PROVE f[t] = g[t]
        <4>1. \A u \in Seq(A) : Len(u) < Len(t) => f[u] = g[u]
          <5>1. \A u \in Seq(A) : Len(u) < Len(t) => Len(u) < n
            BY <3>1
          <5> QED  BY <2>1, <5>1
        <4>2. step[t][f] = step[t][g]
          BY <4>1 DEF Looks
        <4> QED  BY <1>2, <3>1, <4>2 DEF RecursTo
      <3> QED  BY <3>1
    <2>2. \A t \in Seq(A) : t \in T
      <3> HIDE DEF T
      <3> QED  BY <2>1, ByLength
    <2> QED  BY <1>2, <2>2
  <1> DEFINE upto(n) == CHOOSE f \in F : RecursTo(f, A, step, n)
             h == [s \in Seq(A) |-> upto(Len(s) + 1)[s]]
  <1>3. ASSUME NEW n \in Nat PROVE upto(n) \in F /\ RecursTo(upto(n), A, step, n)
    <2> HIDE DEF F
    <2> QED  BY <1>1
  <1> HIDE DEF upto
  <1>4. h \in F /\ \A s \in Seq(A) : h[s] = upto(Len(s) + 1)[s]
    <2>1. ASSUME NEW s \in Seq(A) PROVE upto(Len(s) + 1)[s] \in V
      <3>1. Len(s) + 1 \in Nat
        OBVIOUS
      <3> QED  BY <1>3, <3>1
    <2> QED  BY <2>1
  <1> HIDE DEF h
  <1>5. ASSUME NEW s \in Seq(A) PROVE h[s] = step[s][h]
    <2> DEFINE f == upto(Len(s) + 1)
    <2>1. Len(s) + 1 \in Nat /\ Len(s) < Len(s) + 1
      OBVIOUS
    <2>2. f \in F /\ RecursTo(f, A, step, Len(s) + 1)
      BY <1>3, <2>1
    <2>3. h[s] = f[s]
      BY <1>4
    <2> HIDE DEF f
    <2>4. ASSUME NEW t \in Seq(A), Len(t) < Len(s) PROVE h[t] = f[t]
      <3>1. Len(t) + 1 \in Nat /\ Len(t) < Len(t) + 1
        OBVIOUS
      <3>2. upto(Len(t) + 1) \in F /\ RecursTo(upto(Len(t) + 1), A, step, Len(t) + 1)
        BY <1>3, <3>1
      <3>3. RecursTo(f, A, step, Len(t) + 1)
        <4>1. \A u \in Seq(A) : Len(u) < Len(t) + 1 => Len(u) < Len(s) + 1
          BY <2>4
        <4> QED  BY <2>2, <4>1 DEF RecursTo
      <3>4. upto(Len(t) + 1)[t] = f[t]
        BY <1>2, <2>2, <3>1, <3>2, <3>3
      <3> QED  BY <1>4, <3>4
    <2>5. step[s][h] = step[s][f]
      BY <1>4, <2>2, <2>4 DEF Looks
    <2>6. f[s] = step[s][f]
      BY <2>1, <2>2 DEF RecursTo
    <2> QED  BY <2>3, <2>5, <2>6
  <1> QED  BY <1>4, <1>5 DEF RecursOn

----------------------------------------------------------------------------
(* Signals of an output stream *)

Outputs == Seq(OutputTokens)

LEMMA OutputsAssociate ==
    ASSUME NEW x \in Outputs, NEW y \in Outputs, NEW z \in Outputs
    PROVE  Associates(x, y, z)
  BY Associative DEF Outputs

\* StartsAt and PrefixTail, byte by byte.
SigAt(s, i) == i + 2 <= Len(s) /\ s[i] = "esc" /\ s[i + 1] = "1337" /\ s[i + 2] = "bel"
EndsIn(s, n) == IF n = 2 THEN Len(s) >= 2 /\ s[Len(s) - 1] = "esc" /\ s[Len(s)] = "1337"
                ELSE n = 1 /\ Len(s) >= 1 /\ s[Len(s)] = "esc"

LEMMA StartsIs ==
    ASSUME NEW s \in Outputs, NEW i \in Nat \ {0}
    PROVE  StartsAt(s, i) <=> SigAt(s, i)
  <1>1. Len(Signal) = 3 /\ Signal[1] = "esc" /\ Signal[2] = "1337" /\ Signal[3] = "bel" /\ i + 3 - 1 = i + 2
    BY DEF Signal
  <1> DEFINE u == SubSeq(s, i, i + 2)
  <1>2. Signal \in Seq(OutputTokens)
    BY DEF Signal, OutputTokens
  <1>3. SUFFICES ASSUME i + 2 <= Len(s) PROVE u = Signal <=> SigAt(s, i)
    BY <1>1 DEF StartsAt, SigAt
  <1>4. u \in Seq(OutputTokens) /\ Len(u) = 3 /\ u[1] = s[i] /\ u[2] = s[i + 1] /\ u[3] = s[i + 2]
    BY <1>3 DEF Outputs
  <1> HIDE DEF u
  <1>5. u = Signal <=> u[1] = Signal[1] /\ u[2] = Signal[2] /\ u[3] = Signal[3]
    <2>1. 1..3 = {1, 2, 3}
      OBVIOUS
    <2>2. ASSUME u[1] = Signal[1], u[2] = Signal[2], u[3] = Signal[3] PROVE u = Signal
      <3>1. \A k \in 1..3 : u[k] = Signal[k]
        BY <2>1, <2>2
      <3> DEFINE v == Signal
      <3> HIDE DEF v
      <3>2. v \in Seq(OutputTokens) /\ Len(v) = 3 /\ \A k \in 1..3 : u[k] = v[k]
        BY <1>1, <1>2, <3>1 DEF v
      <3>3. u = v
        BY <1>4, <3>2
      <3> QED  BY <3>3 DEF v
    <2> QED  BY <2>2
  <1> QED  BY <1>1, <1>3, <1>4, <1>5 DEF SigAt

LEMMA EndsIs ==
    ASSUME NEW s \in Outputs, NEW n \in 1..2
    PROVE  (n <= Len(s) /\ Drop(s, Len(s) - n) = Take(Signal, n)) <=> EndsIn(s, n)
  <1>1. SUFFICES ASSUME n <= Len(s) PROVE Drop(s, Len(s) - n) = Take(Signal, n) <=> EndsIn(s, n)
    BY DEF EndsIn, Outputs
  <1> DEFINE u == Drop(s, Len(s) - n)
             v == Take(Signal, n)
  <1>2. Signal \in Seq(OutputTokens) /\ Len(Signal) = 3 /\ Signal[1] = "esc" /\ Signal[2] = "1337"
    BY DEF Signal, OutputTokens
  <1>3. v \in Outputs /\ Len(v) = n /\ \A i \in 1..n : v[i] = Signal[i]
    <2>1. n \in 0..Len(Signal)
      BY <1>2
    <2> QED  BY <1>2, <2>1, TakeIs DEF Outputs
  <1>4. u \in Outputs /\ Len(u) = n /\ \A i \in 1..n : u[i] = s[Len(s) - n + i]
    <2>1. Len(s) - n \in 0..Len(s) /\ Len(s) - (Len(s) - n) = n
      BY <1>1 DEF Outputs
    <2> QED  BY <2>1, TakeIs DEF Outputs
  <1> HIDE DEF u, v
  <1>5. u = v <=> \A i \in 1..n : s[Len(s) - n + i] = Signal[i]
    BY <1>3, <1>4 DEF Outputs
  <1>6. CASE n = 1
    <2>1. 1..n = {1} /\ Len(s) - n + 1 = Len(s)
      BY <1>6 DEF Outputs
    <2> QED  BY <1>1, <1>2, <1>5, <1>6, <2>1 DEF EndsIn, u, v
  <1>7. CASE n = 2
    <2>1. 1..n = {1, 2} /\ Len(s) - n + 1 = Len(s) - 1 /\ Len(s) - n + 2 = Len(s)
      BY <1>7 DEF Outputs
    <2> QED  BY <1>1, <1>2, <1>5, <1>7, <2>1 DEF EndsIn, u, v
  <1> QED  BY <1>6, <1>7

\* The longest start of a signal that a stream ends in.
LEMMA TailIs ==
    ASSUME NEW s \in Outputs
    PROVE  /\ PrefixTail(s) \in 0..2 /\ PrefixTail(s) <= Len(s)
           /\ PrefixTail(s) # 0 => EndsIn(s, PrefixTail(s))
           /\ \A n \in 1..2 : EndsIn(s, n) => n <= PrefixTail(s)
           /\ PrefixTail(s) # 0 => Drop(s, Len(s) - PrefixTail(s)) = Take(Signal, PrefixTail(s))
  <1> DEFINE ends(n) == n <= Len(s) /\ Drop(s, Len(s) - n) = Take(Signal, n)
             held == {n \in 1..2 : ends(n)}
  <1>1. Len(Signal) - 1 = 2
    BY DEF Signal
  <1>2. PrefixTail(s) = IF held = {} THEN 0 ELSE CHOOSE n \in held : \A m \in held : m <= n
    <2> DEFINE x == Signal
    <2> HIDE DEF x
    <2>1. PrefixTail(s) = LET H == {n \in 1..Len(x) - 1 : n <= Len(s) /\ Drop(s, Len(s) - n) = Take(x, n)}
                          IN  IF H = {} THEN 0 ELSE CHOOSE n \in H : \A m \in H : m <= n
      BY DEF PrefixTail, x
    <2>2. Len(x) - 1 = 2
      BY <1>1 DEF x
    <2>3. {n \in 1..Len(x) - 1 : n <= Len(s) /\ Drop(s, Len(s) - n) = Take(x, n)} = held
      BY <2>2 DEF x
    <2> QED  BY <2>1, <2>3
  <1>3. \A n \in 1..2 : ends(n) <=> EndsIn(s, n)
    BY EndsIs
  <1> HIDE DEF ends
  <1>4. held # {} => \E n \in held : \A m \in held : m <= n
    <2>1. CASE 2 \in held
      BY <2>1
    <2>2. CASE 2 \notin held /\ 1 \in held
      <3>1. \A m \in held : m = 1
        BY <2>2
      <3> QED  BY <2>2, <3>1
    <2> QED  BY <2>1, <2>2
  <1>5. CASE held = {}
    <2>1. PrefixTail(s) = 0 /\ \A n \in 1..2 : ~EndsIn(s, n)
      BY <1>2, <1>3, <1>5
    <2> QED  BY <2>1 DEF Outputs
  <1>6. CASE held # {}
    <2>1. PrefixTail(s) \in held /\ \A m \in held : m <= PrefixTail(s)
      BY <1>2, <1>4, <1>6
    <2>2. PrefixTail(s) \in 1..2 /\ ends(PrefixTail(s)) /\ \A n \in 1..2 : ends(n) => n <= PrefixTail(s)
      BY <2>1
    <2> QED  BY <1>3, <2>2 DEF ends
  <1> QED  BY <1>5, <1>6

StripOf(f, s) == IF s = <<>> THEN <<>>
                 ELSE IF StartsAt(s, 1) THEN f[Drop(s, 3)] ELSE <<s[1]>> \o f[Tail(s)]

\* What a stream leaves when something at its head is gone is a stream, and shorter.
LEMMA RestIs ==
    ASSUME NEW s \in Outputs, s # <<>>
    PROVE  /\ Tail(s) \in Outputs /\ Len(Tail(s)) < Len(s) /\ s[1] \in OutputTokens /\ <<s[1]>> \in Outputs
           /\ s = <<s[1]>> \o Tail(s)
           /\ \A i \in Nat \ {0} : StartsAt(s, i) => /\ i + 2 \in 0..Len(s)
                                                     /\ Drop(s, i + 2) \in Outputs
                                                     /\ Len(Drop(s, i + 2)) < Len(s)
  <1>1. Len(s) >= 1
    BY DEF Outputs
  <1>2. Tail(s) \in Outputs /\ Len(Tail(s)) < Len(s) /\ s[1] \in OutputTokens
    BY <1>1 DEF Outputs
  <1>3. <<s[1]>> \in Outputs /\ s = <<s[1]>> \o Tail(s)
    BY <1>1, <1>2 DEF Outputs
  <1>4. ASSUME NEW i \in Nat \ {0}, StartsAt(s, i)
        PROVE  i + 2 \in 0..Len(s) /\ Drop(s, i + 2) \in Outputs /\ Len(Drop(s, i + 2)) < Len(s)
    <2>1. i + 2 <= Len(s)
      BY <1>4, StartsIs DEF SigAt
    <2>2. i + 2 \in 0..Len(s)
      BY <2>1 DEF Outputs
    <2>3. Drop(s, i + 2) \in Outputs /\ Len(Drop(s, i + 2)) = Len(s) - (i + 2)
      BY <2>2, TakeIs DEF Outputs
    <2> QED  BY <2>2, <2>3 DEF Outputs
  <1> QED  BY <1>2, <1>3, <1>4

LEMMA StripIs ==
    \A s \in Outputs : Strip[s] \in Outputs /\ Strip[s] = StripOf(Strip, s)
  <1> DEFINE F == [Outputs -> Outputs]
             step == [s \in Outputs |-> [f \in F |-> StripOf(f, s)]]
  <1>1. ASSUME NEW s \in Outputs, s # <<>>
        PROVE  /\ Tail(s) \in Outputs /\ Len(Tail(s)) < Len(s) /\ <<s[1]>> \in Outputs
               /\ StartsAt(s, 1) => Drop(s, 3) \in Outputs /\ Len(Drop(s, 3)) < Len(s)
    <2>1. 1 \in Nat \ {0} /\ 1 + 2 = 3
      OBVIOUS
    <2> QED  BY <1>1, <2>1, RestIs
  <1>2. <<>> \in Outputs
    BY DEF Outputs
  <1>3. ASSUME NEW s \in Outputs, NEW f \in F PROVE StripOf(f, s) \in Outputs
    <2>1. CASE s = <<>>
      BY <1>2, <2>1 DEF StripOf
    <2>2. CASE s # <<>> /\ StartsAt(s, 1)
      <3>1. StripOf(f, s) = f[Drop(s, 3)]
        BY <2>2 DEF StripOf
      <3> QED  BY <1>1, <2>2, <3>1
    <2>3. CASE s # <<>> /\ ~StartsAt(s, 1)
      <3>1. StripOf(f, s) = <<s[1]>> \o f[Tail(s)]
        BY <2>3 DEF StripOf
      <3>2. <<s[1]>> \in Outputs /\ f[Tail(s)] \in Outputs
        BY <1>1, <2>3
      <3> QED  BY <3>1, <3>2 DEF Outputs
    <2> QED  BY <2>1, <2>2, <2>3
  <1>4. step \in [Outputs -> [F -> Outputs]]
    BY <1>3
  <1>5. \A s \in Outputs : \A f \in F : step[s][f] = StripOf(f, s)
    OBVIOUS
  <1>6. Looks(step, OutputTokens, Outputs)
    <2>1. ASSUME NEW s \in Outputs, NEW f \in F, NEW g \in F,
                 \A t \in Outputs : Len(t) < Len(s) => f[t] = g[t]
          PROVE  StripOf(f, s) = StripOf(g, s)
      <3>1. CASE s = <<>>
        BY <3>1 DEF StripOf
      <3>2. CASE s # <<>> /\ StartsAt(s, 1)
        BY <1>1, <2>1, <3>2 DEF StripOf
      <3>3. CASE s # <<>> /\ ~StartsAt(s, 1)
        BY <1>1, <2>1, <3>3 DEF StripOf
      <3> QED  BY <3>1, <3>2, <3>3
    <2> HIDE DEF step
    <2>2. ASSUME NEW s \in Outputs, NEW f \in F, NEW g \in F,
                 \A t \in Outputs : Len(t) < Len(s) => f[t] = g[t]
          PROVE  step[s][f] = step[s][g]
      BY <1>5, <2>1, <2>2
    <2> HIDE DEF F
    <2>3. \A s \in Outputs : \A f, g \in F :
            (\A t \in Outputs : Len(t) < Len(s) => f[t] = g[t]) => step[s][f] = step[s][g]
      BY <2>2
    <2> QED  BY <2>3 DEF Looks, Outputs, F
  <1> HIDE DEF step
  <1>7. PICK h \in F : \A s \in Outputs : h[s] = StripOf(h, s)
    <2>1. \E h \in [Seq(OutputTokens) -> Outputs] : RecursOn(h, OutputTokens, step)
      BY <1>2, <1>4, <1>6, RecursionByLength DEF Outputs
    <2>2. PICK h \in F : RecursOn(h, OutputTokens, step)
      BY <2>1 DEF Outputs
    <2> QED  BY <1>5, <2>2 DEF RecursOn, Outputs
  <1>8. h = [s \in Outputs |-> StripOf(h, s)]
    BY <1>7
  <1>9. Strip = CHOOSE f : f = [s \in Outputs |-> StripOf(f, s)]
    <2>1. Len(Signal) = 3
      BY DEF Signal
    <2> QED  BY <2>1 DEF Strip, StripOf, Outputs
  <1>10. Strip = [s \in Outputs |-> StripOf(Strip, s)]
    BY <1>8, <1>9
  <1>11. \A s \in Outputs : Strip[s] = StripOf(Strip, s)
    BY <1>10
  <1>12. \A s \in Outputs : Strip[s] \in Outputs
    <2> DEFINE T == {s \in Outputs : Strip[s] = h[s]}
    <2>1. ASSUME NEW s \in Outputs, \A t \in Outputs : Len(t) < Len(s) => t \in T PROVE s \in T
      <3>1. \A t \in Outputs : Len(t) < Len(s) => Strip[t] = h[t]
        BY <2>1
      <3>2. StripOf(Strip, s) = StripOf(h, s)
        <4>1. CASE s = <<>>
          BY <4>1 DEF StripOf
        <4>2. CASE s # <<>> /\ StartsAt(s, 1)
          BY <1>1, <3>1, <4>2 DEF StripOf
        <4>3. CASE s # <<>> /\ ~StartsAt(s, 1)
          BY <1>1, <3>1, <4>3 DEF StripOf
        <4> QED  BY <4>1, <4>2, <4>3
      <3> QED  BY <1>7, <1>11, <3>2
    <2>2. \A s \in Outputs : s \in T
      <3> HIDE DEF T
      <3> QED  BY <2>1, ByLength DEF Outputs
    <2>3. \A s \in Outputs : h[s] \in Outputs
      BY <1>7
    <2> QED  BY <2>2, <2>3
  <1> QED  BY <1>11, <1>12

\* Two streams joined: the signals of the one, of the other, and those across the seam.
Signals(s) == {i \in 1..Len(s) : StartsAt(s, i)}
NoStraddle(a, b) == \A i \in 1..Len(a) : StartsAt(a \o b, i) => i + 2 <= Len(a)

LEMMA AtJoined ==
    ASSUME NEW a \in Outputs, NEW b \in Outputs
    PROVE  /\ a \o b \in Outputs
           /\ \A i \in 1..Len(a) : i + 2 <= Len(a) => (StartsAt(a \o b, i) <=> StartsAt(a, i))
           /\ \A i \in 1..Len(b) : StartsAt(a \o b, Len(a) + i) <=> StartsAt(b, i)
  <1> DEFINE c == a \o b
             m == Len(a)
  <1>1. /\ c \in Outputs /\ Len(c) = m + Len(b) /\ m \in Nat /\ Len(b) \in Nat
        /\ \A i \in 1..m : c[i] = a[i]
        /\ \A i \in 1..Len(b) : c[m + i] = b[i]
    BY JoinedAt DEF Outputs
  <1> HIDE DEF c, m
  <1>2. ASSUME NEW i \in 1..m, i + 2 <= m PROVE StartsAt(c, i) <=> StartsAt(a, i)
    <2>1. i \in Nat \ {0} /\ i \in 1..m /\ i + 1 \in 1..m /\ i + 2 \in 1..m
      BY <1>1, <1>2
    <2>2. c[i] = a[i] /\ c[i + 1] = a[i + 1] /\ c[i + 2] = a[i + 2] /\ i + 2 <= Len(c) /\ i + 2 <= Len(a)
      BY <1>1, <1>2, <2>1 DEF m
    <2>3. (StartsAt(c, i) <=> SigAt(c, i)) /\ (StartsAt(a, i) <=> SigAt(a, i))
      BY <1>1, <2>1, StartsIs
    <2> QED  BY <2>2, <2>3 DEF SigAt
  <1>3. ASSUME NEW i \in 1..Len(b) PROVE StartsAt(c, m + i) <=> StartsAt(b, i)
    <2>1. i \in Nat \ {0} /\ m + i \in Nat \ {0}
      BY <1>1
    <2>2. (StartsAt(c, m + i) <=> SigAt(c, m + i)) /\ (StartsAt(b, i) <=> SigAt(b, i))
      BY <1>1, <2>1, StartsIs
    <2>3. (m + i) + 2 <= Len(c) <=> i + 2 <= Len(b)
      BY <1>1
    <2>4. ASSUME i + 2 <= Len(b)
          PROVE  c[m + i] = b[i] /\ c[(m + i) + 1] = b[i + 1] /\ c[(m + i) + 2] = b[i + 2]
      <3>1. i + 1 \in 1..Len(b) /\ i + 2 \in 1..Len(b) /\ (m + i) + 1 = m + (i + 1) /\ (m + i) + 2 = m + (i + 2)
        BY <1>1, <2>4
      <3>2. c[m + i] = b[i]
        BY <1>1
      <3>3. c[m + (i + 1)] = b[i + 1]
        BY <1>1, <3>1
      <3>4. c[m + (i + 2)] = b[i + 2]
        BY <1>1, <3>1
      <3> QED  BY <3>1, <3>2, <3>3, <3>4
    <2> QED  BY <2>2, <2>3, <2>4 DEF SigAt
  <1> QED  BY <1>1, <1>2, <1>3 DEF c, m

LEMMA SignalsAre ==
    ASSUME NEW s \in Outputs
    PROVE  /\ SignalsIn(s) = Cardinality(Signals(s)) /\ IsFiniteSet(Signals(s)) /\ SignalsIn(s) \in Nat
           /\ \A i \in Signals(s) : i + 2 <= Len(s)
  <1>1. DOMAIN s = 1..Len(s) /\ Len(s) \in Nat
    BY DEF Outputs
  <1>2. SignalsIn(s) = Cardinality(Signals(s))
    BY <1>1 DEF SignalsIn, Signals
  <1>3. IsFiniteSet(Signals(s))
    <2>1. IsFiniteSet(1..Len(s))
      BY <1>1, FS_Interval
    <2>2. Signals(s) \subseteq 1..Len(s)
      BY DEF Signals
    <2> QED  BY <2>1, <2>2, FS_Subset
  <1>4. ASSUME NEW i \in Signals(s) PROVE i + 2 <= Len(s)
    <2>1. i \in Nat \ {0} /\ StartsAt(s, i)
      BY <1>1 DEF Signals
    <2> QED  BY <2>1, StartsIs DEF SigAt
  <1> QED  BY <1>2, <1>3, <1>4, FS_CardinalityType

LEMMA CountJoined ==
    ASSUME NEW a \in Outputs, NEW b \in Outputs, NoStraddle(a, b)
    PROVE  SignalsIn(a \o b) = SignalsIn(a) + SignalsIn(b)
  <1> DEFINE c == a \o b
             m == Len(a)
             A == Signals(a)
             B == Signals(b)
             D == {m + i : i \in B}
  <1>1. /\ c \in Outputs /\ Len(c) = m + Len(b) /\ m \in Nat /\ Len(b) \in Nat
    BY JoinedAt DEF Outputs
  <1>2. /\ \A i \in 1..m : i + 2 <= m => (StartsAt(c, i) <=> StartsAt(a, i))
        /\ \A i \in 1..Len(b) : StartsAt(c, m + i) <=> StartsAt(b, i)
        /\ \A i \in 1..m : StartsAt(c, i) => i + 2 <= m
    BY AtJoined DEF NoStraddle
  <1>3. /\ IsFiniteSet(A) /\ IsFiniteSet(B) /\ SignalsIn(a) = Cardinality(A) /\ SignalsIn(b) = Cardinality(B)
        /\ SignalsIn(c) = Cardinality(Signals(c)) /\ \A i \in A : i + 2 <= m
    BY <1>1, SignalsAre
  <1>4. A \subseteq 1..m /\ B \subseteq 1..Len(b)
    BY DEF Signals
  <1> HIDE DEF c, m
  <1>5. Signals(c) = A \cup D
    <2>1. ASSUME NEW i \in Signals(c) PROVE i \in A \cup D
      <3>1. i \in 1..m + Len(b) /\ StartsAt(c, i)
        BY <1>1 DEF Signals
      <3>2. CASE i <= m
        <4>1. i \in 1..m
          BY <1>1, <3>1, <3>2
        <4>2. StartsAt(a, i)
          BY <1>2, <3>1, <4>1
        <4> QED  BY <4>1, <4>2 DEF Signals, m
      <3>3. CASE i > m
        <4>1. i - m \in 1..Len(b) /\ m + (i - m) = i
          BY <1>1, <3>1, <3>3
        <4>2. StartsAt(b, i - m)
          BY <1>2, <3>1, <4>1
        <4>3. i - m \in B
          BY <4>1, <4>2 DEF Signals
        <4> QED  BY <4>1, <4>3
      <3> QED  BY <1>1, <3>1, <3>2, <3>3
    <2>2. ASSUME NEW i \in A PROVE i \in Signals(c)
      <3>1. i \in 1..m /\ StartsAt(a, i) /\ i + 2 <= m
        BY <1>3, <1>4 DEF Signals
      <3>2. StartsAt(c, i) /\ i \in 1..Len(c)
        BY <1>1, <1>2, <3>1
      <3> QED  BY <3>2 DEF Signals
    <2>3. ASSUME NEW i \in B PROVE m + i \in Signals(c)
      <3>1. i \in 1..Len(b) /\ StartsAt(b, i)
        BY DEF Signals
      <3>2. StartsAt(c, m + i) /\ m + i \in 1..Len(c)
        BY <1>1, <1>2, <3>1
      <3> QED  BY <3>2 DEF Signals
    <2> HIDE DEF A, B
    <2> QED  BY <2>1, <2>2, <2>3
  <1> HIDE DEF A, B
  <1>6. A \cap D = {}
    BY <1>1, <1>4
  <1>7. IsFiniteSet(D) /\ Cardinality(D) = Cardinality(B)
    <2> DEFINE f == [i \in B |-> m + i]
    <2>1. f \in [B -> D]
      OBVIOUS
    <2>2. ASSUME NEW i \in B, NEW j \in B, f[i] = f[j] PROVE i = j
      <3>1. i \in Nat /\ j \in Nat /\ m + i = m + j
        BY <1>1, <1>4, <2>2
      <3> QED  BY <1>1, <3>1
    <2>3. \A x \in D : \E i \in B : f[i] = x
      OBVIOUS
    <2>4. f \in Bijection(B, D)
      <3> HIDE DEF f
      <3> QED  BY <2>1, <2>2, <2>3 DEF Bijection, Injection, Surjection, IsInjective
    <2>5. ExistsBijection(B, D)
      BY <2>4 DEF ExistsBijection
    <2> QED  BY <1>3, <2>5, FS_Bijection
  <1>8. Cardinality(A \cup D) = Cardinality(A) + Cardinality(D)
    <2> HIDE DEF D
    <2>1. Cardinality(A \cup D) = Cardinality(A) + Cardinality(D) - Cardinality(A \cap D)
      BY <1>3, <1>7, FS_Union
    <2>2. Cardinality(A \cap D) = 0
      BY <1>6, FS_EmptySet
    <2>3. Cardinality(A) \in Nat /\ Cardinality(D) \in Nat
      BY <1>3, <1>7, FS_CardinalityType
    <2> QED  BY <2>1, <2>2, <2>3
  <1> QED  BY <1>3, <1>5, <1>7, <1>8 DEF c

LEMMA StripJoined ==
    \A a \in Outputs : \A b \in Outputs : NoStraddle(a, b) => Strip[a \o b] = Strip[a] \o Strip[b]
  <1> DEFINE joined(a) == \A b \in Outputs : NoStraddle(a, b) => Strip[a \o b] = Strip[a] \o Strip[b]
             T == {a \in Outputs : joined(a)}
  <1>1. ASSUME NEW a \in Outputs, \A u \in Outputs : Len(u) < Len(a) => u \in T PROVE a \in T
    <2> SUFFICES ASSUME NEW b \in Outputs, NoStraddle(a, b) PROVE Strip[a \o b] = Strip[a] \o Strip[b]
      OBVIOUS
    <2> DEFINE c == a \o b
    <2>0. \A u \in Outputs : Len(u) < Len(a) => joined(u)
      BY <1>1
    <2> HIDE DEF T
    <2>1. /\ c \in Outputs /\ Strip[c] = StripOf(Strip, c) /\ Strip[a] = StripOf(Strip, a)
          /\ Strip[b] \in Outputs
      BY StripIs, JoinedAt DEF Outputs
    <2>2. CASE a = <<>>
      <3>1. c = b
        BY <2>2, ConcatEmptySeq DEF Outputs
      <3>2. Strip[a] = <<>>
        BY <2>1, <2>2 DEF StripOf
      <3>3. <<>> \o Strip[b] = Strip[b]
        BY <2>1, ConcatEmptySeq DEF Outputs
      <3> QED  BY <3>1, <3>2, <3>3
    <2>3. CASE a # <<>>
      <3>1. Len(a) \in Nat \ {0} /\ 1 \in 1..Len(a) /\ Len(c) = Len(a) + Len(b) /\ Len(b) \in Nat
        BY <2>3, JoinedAt, EmptySeq DEF Outputs
      <3>2. c # <<>> /\ c[1] = a[1]
        BY <3>1, JoinedAt DEF Outputs
      <3>3. StartsAt(c, 1) <=> StartsAt(a, 1)
        <4>1. 1 + 2 <= Len(a) => (StartsAt(c, 1) <=> StartsAt(a, 1))
          BY <3>1, AtJoined
        <4>2. StartsAt(c, 1) => 1 + 2 <= Len(a)
          BY <3>1 DEF NoStraddle
        <4>3. StartsAt(a, 1) => 1 + 2 <= Len(a)
          BY StartsIs DEF SigAt
        <4> QED  BY <4>1, <4>2, <4>3
      <3>4. ASSUME NEW k \in 1..Len(a)
            PROVE  /\ Take(a, k) \in Outputs /\ Drop(a, k) \in Outputs /\ Len(Drop(a, k)) < Len(a)
                   /\ Drop(c, k) = Drop(a, k) \o b /\ Strip[Drop(c, k)] = Strip[Drop(a, k)] \o Strip[b]
        <4> DEFINE x == Take(a, k)
                   y == Drop(a, k)
        <4>1. k \in 0..Len(a)
          OBVIOUS
        <4>2. /\ x \in Outputs /\ Len(x) = k /\ y \in Outputs /\ Len(y) = Len(a) - k /\ a = x \o y
          BY <4>1, TakeIs DEF Outputs
        <4> HIDE DEF x, y
        <4>3. y \o b \in Outputs
          BY <4>2, JoinedAt DEF Outputs
        <4>4. c = x \o (y \o b)
          <5>1. x \in Seq(OutputTokens) /\ y \in Seq(OutputTokens) /\ b \in Seq(OutputTokens)
            BY <4>2 DEF Outputs
          <5>2. (x \o y) \o b = x \o (y \o b)
            <6>1. Associates(x, y, b)
              BY <5>1, Associative
            <6> QED  BY <6>1 DEF Associates
          <5> QED  BY <4>2, <5>2
        <4> DEFINE z == y \o b
        <4>5. Drop(x \o z, Len(x) + 0) = Drop(z, 0)
          <5> HIDE DEF z
          <5>1. 0 \in 0..Len(z)
            BY <4>3 DEF Outputs, z
          <5> QED  BY <4>2, <4>3, <5>1, TakeJoined DEF Outputs, z
        <4>6. Drop(c, k) = z
          <5>1. Drop(z, 0) = z
            <6> HIDE DEF z
            <6> QED  BY <4>3, SubSeqFull DEF Drop, Outputs, z
          <5> QED  BY <3>1, <4>2, <4>4, <4>5, <5>1
        <4>7. NoStraddle(y, b)
          <5>1. ASSUME NEW i \in 1..Len(y), StartsAt(z, i) PROVE i + 2 <= Len(y)
            <6>1. i \in 1..Len(z) /\ k + i \in 1..Len(a)
              <7>1. Len(z) = Len(y) + Len(b)
                BY <4>2, JoinedAt DEF Outputs
              <7> QED  BY <3>1, <4>2, <7>1
            <6>2. StartsAt(x \o z, Len(x) + i)
              BY <4>2, <4>3, <5>1, <6>1, AtJoined
            <6>3. StartsAt(c, k + i)
              BY <4>2, <4>4, <6>2
            <6>4. (k + i) + 2 <= Len(a)
              BY <6>1, <6>3 DEF NoStraddle
            <6> QED  BY <3>1, <4>2, <6>4
          <5> QED  BY <5>1 DEF NoStraddle
        <4>8. Len(y) < Len(a)
          BY <3>1, <4>2
        <4>9. Strip[y \o b] = Strip[y] \o Strip[b]
          BY <2>0, <4>2, <4>7, <4>8
        <4> QED  BY <4>2, <4>6, <4>8, <4>9 DEF x, y
      <3>5. CASE StartsAt(a, 1)
        <4>1. 3 \in 1..Len(a)
          <5>1. 1 + 2 <= Len(a)
            BY <3>5, StartsIs DEF SigAt
          <5> QED  BY <3>1, <5>1
        <4>2. Strip[c] = Strip[Drop(c, 3)] /\ Strip[a] = Strip[Drop(a, 3)]
          BY <2>1, <2>3, <3>2, <3>3, <3>5 DEF StripOf
        <4> QED  BY <3>4, <4>1, <4>2
      <3>6. CASE ~StartsAt(a, 1)
        <4>1. Strip[c] = <<c[1]>> \o Strip[Tail(c)] /\ Strip[a] = <<a[1]>> \o Strip[Tail(a)]
          BY <2>1, <2>3, <3>2, <3>3, <3>6 DEF StripOf
        <4>2. Tail(c) = Drop(c, 1) /\ Tail(a) = Drop(a, 1)
          <5>1. ASSUME NEW s \in Outputs, s # <<>> PROVE Tail(s) = Drop(s, 1)
            BY <5>1, TailIsSubSeq DEF Outputs, Drop
          <5> QED  BY <2>1, <2>3, <3>2, <5>1
        <4>3. Strip[Drop(c, 1)] = Strip[Drop(a, 1)] \o Strip[b] /\ Drop(a, 1) \in Outputs
          BY <3>1, <3>4
        <4>4. Strip[Drop(a, 1)] \in Outputs
          BY <4>3, StripIs
        <4>5. <<a[1]>> \in Outputs
          BY <2>3, RestIs
        <4> DEFINE x == <<a[1]>>
                   y == Strip[Drop(a, 1)]
                   z == Strip[b]
        <4>6. x \in Seq(OutputTokens) /\ y \in Seq(OutputTokens) /\ z \in Seq(OutputTokens)
          BY <2>1, <4>4, <4>5 DEF Outputs
        <4> HIDE DEF x, y, z
        <4>7. (x \o y) \o z = x \o (y \o z)
          <5>1. Associates(x, y, z)
            BY <4>6, Associative
          <5> QED  BY <5>1 DEF Associates
        <4> QED  BY <3>2, <4>1, <4>2, <4>3, <4>7 DEF x, y, z
      <3> QED  BY <3>5, <3>6
    <2> QED  BY <2>2, <2>3
  <1>2. \A a \in Outputs : a \in T
    <2> HIDE DEF T
    <2> QED  BY <1>1, ByLength DEF Outputs
  <1> QED  BY <1>2

LEMMA PlainIs ==
    \A s \in Outputs : Signals(s) = {} => Strip[s] = s
  <1> DEFINE T == {s \in Outputs : Signals(s) = {} => Strip[s] = s}
  <1>1. ASSUME NEW s \in Outputs, \A u \in Outputs : Len(u) < Len(s) => u \in T PROVE s \in T
    <2> SUFFICES ASSUME Signals(s) = {} PROVE Strip[s] = s
      OBVIOUS
    <2>0. \A u \in Outputs : Len(u) < Len(s) => (Signals(u) = {} => Strip[u] = u)
      BY <1>1
    <2> HIDE DEF T
    <2>1. Strip[s] = StripOf(Strip, s)
      BY StripIs
    <2>2. CASE s = <<>>
      BY <2>1, <2>2 DEF StripOf
    <2>3. CASE s # <<>>
      <3> DEFINE x == <<s[1]>>
                 y == Tail(s)
      <3>1. x \in Outputs /\ y \in Outputs /\ Len(y) < Len(s) /\ s = x \o y /\ Len(x) = 1
        BY <2>3, RestIs
      <3>2. Len(s) \in Nat /\ Len(s) = 1 + Len(y) /\ Len(y) \in Nat
        BY <2>3, HeadTailProperties DEF Outputs
      <3> HIDE DEF x, y
      <3>3. ~StartsAt(s, 1)
        <4>1. 1 \in 1..Len(s)
          BY <3>2
        <4> QED  BY <4>1 DEF Signals
      <3>4. Signals(y) = {}
        <4>1. ASSUME NEW i \in 1..Len(y), StartsAt(y, i) PROVE FALSE
          <5>1. StartsAt(x \o y, Len(x) + i)
            BY <3>1, <4>1, AtJoined
          <5>2. StartsAt(s, 1 + i) /\ 1 + i \in 1..Len(s)
            BY <3>1, <3>2, <5>1
          <5> QED  BY <5>2 DEF Signals
        <4> QED  BY <4>1 DEF Signals
      <3>5. Strip[y] = y
        BY <2>0, <3>1, <3>4
      <3>6. Strip[s] = x \o Strip[y]
        BY <2>1, <2>3, <3>3 DEF StripOf, x, y
      <3> QED  BY <3>1, <3>5, <3>6
    <2> QED  BY <2>2, <2>3
  <1>2. \A s \in Outputs : s \in T
    <2> HIDE DEF T
    <2> QED  BY <1>1, ByLength DEF Outputs
  <1> QED  BY <1>2

\* A stream without signals is itself, and so is one too short for one.
LEMMA NothingToCut ==
    ASSUME NEW s \in Outputs, Signals(s) = {} \/ Len(s) < 3
    PROVE  Strip[s] = s /\ SignalsIn(s) = 0
  <1>1. Signals(s) = {}
    <2>1. ASSUME Len(s) < 3, NEW i \in Signals(s) PROVE FALSE
      <3>1. i + 2 <= Len(s)
        BY SignalsAre
      <3>2. i \in 1..Len(s) /\ Len(s) \in Nat
        BY DEF Signals, Outputs
      <3> QED  BY <2>1, <3>1, <3>2
    <2> QED  BY <2>1
  <1> QED  BY <1>1, PlainIs, SignalsAre, FS_EmptySet

LEMMA SignalIs ==
    Signal \in Outputs /\ Len(Signal) = 3 /\ Signal[3] = "bel" /\ Strip[Signal] = <<>> /\ SignalsIn(Signal) = 1
  <1>1. /\ Signal \in Outputs /\ Len(Signal) = 3
        /\ Signal[1] = "esc" /\ Signal[2] = "1337" /\ Signal[3] = "bel" /\ Signal # <<>>
    BY DEF Signal, Outputs, OutputTokens
  <1> DEFINE x == Signal
  <1> HIDE DEF x
  <1>2. /\ x \in Outputs /\ Len(x) = 3 /\ x # <<>>
        /\ x[1] = "esc" /\ x[2] = "1337" /\ x[3] = "bel"
    BY <1>1 DEF x
  <1>3. StartsAt(x, 1)
    <2>1. 1 \in Nat \ {0} /\ 1 + 1 = 2 /\ 1 + 2 = 3 /\ 3 <= 3
      OBVIOUS
    <2>2. SigAt(x, 1)
      BY <1>2, <2>1 DEF SigAt
    <2> QED  BY <1>2, <2>1, <2>2, StartsIs
  <1>4. Drop(x, 3) = <<>>
    <2>1. Drop(x, 3) = SubSeq(x, 3 + 1, 3)
      BY <1>2 DEF Drop
    <2>2. SubSeq(x, 3 + 1, 3) = <<>>
      <3>1. 3 + 1 \in Int /\ 3 \in Int /\ 3 < 3 + 1
        OBVIOUS
      <3> QED  BY <3>1, SubSeqEmpty
    <2> QED  BY <2>1, <2>2
  <1>5. Strip[x] = <<>>
    <2>1. Strip[x] = Strip[Drop(x, 3)]
      BY <1>2, <1>3, StripIs DEF StripOf
    <2>2. <<>> \in Outputs
      BY DEF Outputs
    <2>3. Strip[<<>>] = <<>>
      BY <2>2, StripIs DEF StripOf
    <2> QED  BY <1>4, <2>1, <2>3
  <1>6. Signals(x) = {1}
    <2>1. ASSUME NEW i \in Signals(x) PROVE i = 1
      <3>1. i \in 1..3 /\ i + 2 <= 3
        BY <1>2, SignalsAre DEF Signals
      <3> QED  BY <3>1
    <2>2. 1 \in Signals(x)
      BY <1>2, <1>3 DEF Signals
    <2> QED  BY <2>1, <2>2
  <1>7. SignalsIn(x) = 1
    BY <1>2, <1>6, SignalsAre, FS_Singleton
  <1> QED  BY <1>1, <1>5, <1>7 DEF x

\* What a stream ends in is told by its last two bytes.
LEMMA EndsJoined ==
    ASSUME NEW a \in Outputs, NEW b \in Outputs, NEW n \in 1..2, n <= Len(b)
    PROVE  EndsIn(a \o b, n) <=> EndsIn(b, n)
  <1> DEFINE c == a \o b
             m == Len(a)
             k == Len(b)
  <1>1. /\ c \in Outputs /\ Len(c) = m + k /\ m \in Nat /\ k \in Nat
        /\ \A i \in 1..k : c[m + i] = b[i]
    BY JoinedAt DEF Outputs
  <1> HIDE DEF c, m, k
  <1>2. k >= n
    BY DEF k
  <1>3. c[m + k] = b[k]
    <2>1. k \in 1..k
      BY <1>1, <1>2
    <2> QED  BY <1>1, <2>1
  <1>4. CASE n = 1
    <2>1. Len(c) >= 1 /\ k >= 1
      BY <1>1, <1>2, <1>4
    <2>2. c[Len(c)] = b[k]
      BY <1>1, <1>3
    <2> QED  BY <1>4, <2>1, <2>2 DEF EndsIn, c, k
  <1>5. CASE n = 2
    <2>1. k - 1 \in 1..k /\ m + (k - 1) = Len(c) - 1
      BY <1>1, <1>2, <1>5
    <2>2. c[Len(c) - 1] = b[k - 1]
      BY <1>1, <2>1
    <2>3. c[Len(c)] = b[k]
      BY <1>1, <1>3
    <2>4. Len(c) >= 2 /\ k >= 2
      BY <1>1, <1>2, <1>5
    <2> QED  BY <1>5, <2>2, <2>3, <2>4 DEF EndsIn, c, k
  <1> QED  BY <1>4, <1>5

LEMMA SameTail ==
    ASSUME NEW s \in Outputs, NEW t \in Outputs, \A n \in 1..2 : EndsIn(s, n) <=> EndsIn(t, n)
    PROVE  PrefixTail(s) = PrefixTail(t)
  <1> DEFINE x == PrefixTail(s)
             y == PrefixTail(t)
  <1>1. x \in 0..2 /\ (x # 0 => EndsIn(s, x)) /\ \A n \in 1..2 : EndsIn(s, n) => n <= x
    BY TailIs
  <1>2. y \in 0..2 /\ (y # 0 => EndsIn(t, y)) /\ \A n \in 1..2 : EndsIn(t, n) => n <= y
    BY TailIs
  <1> HIDE DEF x, y
  <1>3. x # 0 => x <= y
    <2>1. x # 0 => x \in 1..2
      BY <1>1
    <2> QED  BY <1>1, <1>2, <2>1
  <1>4. y # 0 => y <= x
    <2>1. y # 0 => y \in 1..2
      BY <1>2
    <2> QED  BY <1>1, <1>2, <2>1
  <1>5. x = y
    BY <1>1, <1>2, <1>3, <1>4
  <1> QED  BY <1>5 DEF x, y

\* Nothing crosses the end of a signal.
LEMMA BehindSignal ==
    ASSUME NEW z \in Outputs, Len(z) >= 1, z[Len(z)] = "bel", NEW y \in Outputs
    PROVE  NoStraddle(z, y) /\ PrefixTail(z \o y) = PrefixTail(y)
  <1> DEFINE c == z \o y
             m == Len(z)
             k == Len(y)
  <1>1. /\ c \in Outputs /\ Len(c) = m + k /\ m \in Nat /\ k \in Nat
        /\ \A i \in 1..m : c[i] = z[i]
        /\ \A i \in 1..k : c[m + i] = y[i]
    BY JoinedAt DEF Outputs
  <1>2. m >= 1 /\ z[m] = "bel"
    OBVIOUS
  <1> HIDE DEF c, m, k
  <1>3. c[m] = "bel" /\ m \in 1..m
    BY <1>1, <1>2
  <1>4. ASSUME NEW i \in 1..m, StartsAt(c, i) PROVE i + 2 <= m
    <2>1. i \in Nat \ {0} /\ i \in Nat
      BY <1>1
    <2>2. c[i] = "esc" /\ c[i + 1] = "1337"
      BY <1>1, <1>4, <2>1, StartsIs DEF SigAt
    <2>3. i # m /\ i + 1 # m
      BY <1>3, <2>2
    <2> QED  BY <1>1, <2>1, <2>3
  <1>5. ASSUME NEW n \in 1..2 PROVE EndsIn(c, n) <=> EndsIn(y, n)
    <2>1. CASE n <= k
      BY <2>1, EndsJoined DEF c, k
    <2>2. CASE ~(n <= k)
      <3>1. ~EndsIn(y, n)
        BY <1>1, <2>2 DEF EndsIn, k
      <3>2. CASE k = 0
        <4>1. c[Len(c)] = "bel"
          BY <1>1, <1>3, <3>2
        <4>2. ~EndsIn(c, n)
          BY <4>1 DEF EndsIn
        <4> QED  BY <3>1, <4>2
      <3>3. CASE k = 1 /\ n = 2
        <4>1. Len(c) - 1 = m
          BY <1>1, <3>3
        <4>2. ~EndsIn(c, n)
          BY <1>3, <3>3, <4>1 DEF EndsIn
        <4> QED  BY <3>1, <4>2
      <3> QED  BY <1>1, <2>2, <3>2, <3>3
    <2> QED  BY <2>1, <2>2
  <1>6. PrefixTail(c) = PrefixTail(y)
    BY <1>1, <1>5, SameTail
  <1> QED  BY <1>4, <1>6 DEF NoStraddle, c, m

\* Nor what is held back: a is passed on, d held back, c comes next.
LEMMA BeforeHeld ==
    ASSUME NEW p \in Outputs, NEW chunk \in Outputs
    PROVE  LET a == Take(p, Len(p) - PrefixTail(p))
               d == Drop(p, Len(p) - PrefixTail(p))
           IN  /\ a \in Outputs /\ d \in Outputs /\ p = a \o d /\ Len(d) = PrefixTail(p)
               /\ NoStraddle(a, d \o chunk)
               /\ PrefixTail(p \o chunk) = PrefixTail(d \o chunk)
  <1> DEFINE h == PrefixTail(p)
             n == Len(p)
             a == Take(p, n - h)
             d == Drop(p, n - h)
             b == d \o chunk
             q == p \o chunk
  <1>1. /\ h \in 0..2 /\ h <= n /\ (h # 0 => EndsIn(p, h)) /\ \A i \in 1..2 : EndsIn(p, i) => i <= h
    BY TailIs
  <1>2. n \in Nat
    BY DEF Outputs
  <1> HIDE DEF h, n
  <1>3. n - h \in 0..n /\ n - (n - h) = h
    BY <1>1, <1>2
  <1>4. a \in Outputs /\ Len(a) = n - h /\ d \in Outputs /\ Len(d) = h /\ p = a \o d
    BY <1>3, TakeIs DEF n, Outputs
  <1> HIDE DEF a, d
  <1>5. b \in Outputs /\ q \in Outputs /\ q = a \o b /\ Len(b) = h + Len(chunk) /\ Len(chunk) \in Nat
    <2>1. b \in Outputs /\ Len(b) = Len(d) + Len(chunk) /\ Len(chunk) \in Nat
      BY <1>4, JoinedAt DEF Outputs
    <2>2. q \in Outputs
      BY JoinedAt DEF Outputs
    <2>3. (a \o d) \o chunk = a \o (d \o chunk)
      <3>1. Associates(a, d, chunk)
        BY <1>4, OutputsAssociate
      <3> QED  BY <3>1 DEF Associates
    <2> QED  BY <1>4, <2>1, <2>2, <2>3
  <1>6. Len(q) = n + Len(chunk) /\ \A i \in 1..n : q[i] = p[i]
    BY JoinedAt DEF n, Outputs
  <1> HIDE DEF b, q
  <1> DEFINE k == Len(chunk)
  <1> HIDE DEF k
  <1>7. k \in Nat /\ Len(b) = h + k /\ Len(q) = n + k
    BY <1>5, <1>6 DEF k
  <1>8. /\ EndsIn(p, 1) <=> n >= 1 /\ p[n] = "esc"
        /\ EndsIn(p, 2) <=> n >= 2 /\ p[n - 1] = "esc" /\ p[n] = "1337"
    BY DEF EndsIn, n
  <1>9. ASSUME NEW i \in 1..n - h, StartsAt(q, i) PROVE i + 2 <= n - h
    <2>1. i \in Nat \ {0} /\ i \in Nat /\ i \in 1..n
      BY <1>1, <1>2
    <2>2. q[i] = "esc" /\ q[i + 1] = "1337" /\ q[i + 2] = "bel"
      BY <1>5, <1>9, <2>1, StartsIs DEF SigAt
    <2> SUFFICES ASSUME ~(i + 2 <= n - h) PROVE FALSE
      OBVIOUS
    <2>3. i = n - h \/ i = n - h - 1
      BY <1>1, <1>2, <2>1
    <2>4. p[i] = "esc"
      BY <1>6, <2>1, <2>2
    <2>5. CASE h = 0
      <3>1. CASE i = n
        BY <1>1, <1>2, <1>8, <2>1, <2>4, <2>5, <3>1
      <3>2. CASE i = n - 1
        <4>1. i + 1 = n /\ n \in 1..n /\ n >= 2
          BY <1>2, <2>1, <3>2
        <4>2. p[n] = "1337"
          BY <1>6, <2>2, <4>1
        <4>3. EndsIn(p, 2)
          BY <1>8, <2>4, <3>2, <4>1, <4>2
        <4> QED  BY <1>1, <2>5, <4>3
      <3> QED  BY <1>2, <2>3, <2>5, <3>1, <3>2
    <2>6. CASE h = 1
      <3>1. n >= 1 /\ p[n] = "esc" /\ n \in 1..n
        BY <1>1, <1>2, <1>8, <2>6
      <3>2. q[n] = "esc"
        BY <1>6, <3>1
      <3>3. i + 1 = n \/ i + 2 = n
        BY <1>2, <2>1, <2>3, <2>6
      <3> QED  BY <2>2, <3>2, <3>3
    <2>7. CASE h = 2
      <3>1. n >= 2 /\ p[n - 1] = "esc" /\ n - 1 \in 1..n
        BY <1>1, <1>2, <1>8, <2>7
      <3>2. q[n - 1] = "esc"
        BY <1>6, <3>1
      <3>3. i + 1 = n - 1 \/ i + 2 = n - 1
        BY <1>2, <2>1, <2>3, <2>7
      <3> QED  BY <2>2, <3>2, <3>3
    <2> QED  BY <1>1, <2>5, <2>6, <2>7
  <1>10. ASSUME NEW i \in 1..2 PROVE EndsIn(q, i) <=> EndsIn(b, i)
    <2>1. CASE i <= Len(b)
      BY <1>4, <1>5, <2>1, EndsJoined
    <2>2. CASE ~(i <= Len(b))
      <3>1. ~EndsIn(b, i)
        BY <1>7, <1>1, <2>2 DEF EndsIn
      <3>2. ASSUME EndsIn(q, i) PROVE FALSE
        <4>1. CASE k = 0
          <5>1. q = p
            <6>1. chunk = <<>>
              BY <4>1, EmptySeq DEF k, Outputs
            <6> QED  BY <6>1, ConcatEmptySeq DEF q, Outputs
          <5>2. i <= h
            BY <1>1, <3>2, <5>1
          <5> QED  BY <1>1, <1>7, <2>2, <4>1, <5>2
        <4>2. CASE k # 0
          <5>1. k = 1 /\ h = 0 /\ i = 2
            BY <1>1, <1>7, <2>2, <4>2
          <5>2. Len(q) - 1 = n /\ n + 1 >= 2 /\ n >= 1
            BY <1>2, <1>7, <3>2, <5>1 DEF EndsIn
          <5>3. q[n] = "esc"
            BY <3>2, <5>1, <5>2 DEF EndsIn
          <5>4. p[n] = "esc"
            <6>1. n \in 1..n
              BY <1>2, <5>2
            <6> QED  BY <1>6, <5>3, <6>1
          <5>5. EndsIn(p, 1)
            BY <1>8, <5>2, <5>4
          <5> QED  BY <1>1, <5>1, <5>5
        <4> QED  BY <4>1, <4>2
      <3> QED  BY <3>1, <3>2
    <2> QED  BY <2>1, <2>2
  <1>11. PrefixTail(q) = PrefixTail(b)
    BY <1>5, <1>10, SameTail
  <1>12. NoStraddle(a, b)
    BY <1>4, <1>5, <1>9 DEF NoStraddle
  <1> QED  BY <1>4, <1>11, <1>12 DEF a, d, b, q, h, n

LEMMA StraddleLess ==
    ASSUME NEW a \in Outputs, NEW b \in Outputs, NEW t \in Outputs, NoStraddle(a, b \o t)
    PROVE  NoStraddle(a, b)
  <1> DEFINE c == a \o b
  <1>1. c \in Outputs /\ Len(c) = Len(a) + Len(b) /\ Len(a) \in Nat /\ Len(b) \in Nat
    BY JoinedAt DEF Outputs
  <1>2. c \o t = a \o (b \o t)
    <2>1. Associates(a, b, t)
      BY OutputsAssociate
    <2> QED  BY <2>1 DEF Associates, c
  <1> HIDE DEF c
  <1>3. ASSUME NEW i \in 1..Len(a), StartsAt(c, i) PROVE i + 2 <= Len(a)
    <2>1. i \in Nat \ {0} /\ i \in 1..Len(c)
      BY <1>1
    <2>2. i + 2 <= Len(c)
      BY <1>1, <1>3, <2>1, StartsIs DEF SigAt
    <2>3. StartsAt(c \o t, i)
      BY <1>1, <1>3, <2>1, <2>2, AtJoined
    <2> QED  BY <1>2, <2>3 DEF NoStraddle
  <1> QED  BY <1>3 DEF NoStraddle, c

\* The first signal has none before it.
LEMMA FirstIs ==
    ASSUME NEW s \in Outputs
    PROVE  /\ FirstSignal(s) = 0 => Signals(s) = {}
           /\ FirstSignal(s) # 0 => /\ FirstSignal(s) \in Signals(s)
                                    /\ \A j \in Signals(s) : FirstSignal(s) <= j
  <1> DEFINE at == Signals(s)
  <1>1. DOMAIN s = 1..Len(s)
    BY DEF Outputs
  <1>2. FirstSignal(s) = IF at = {} THEN 0 ELSE CHOOSE i \in at : \A j \in at : i <= j
    BY <1>1 DEF FirstSignal, Signals
  <1>3. at \subseteq Nat \ {0}
    BY DEF Signals, Outputs
  <1> HIDE DEF at
  <1>4. at # {} => \E i \in at : \A j \in at : i <= j
    <2>1. at \subseteq Nat
      BY <1>3
    <2> QED  BY <2>1, Least
  <1> DEFINE w == CHOOSE i \in at : \A j \in at : i <= j
  <1>5. at # {} => w \in at /\ \A j \in at : w <= j
    BY <1>4
  <1> HIDE DEF w
  <1>6. CASE at = {}
    BY <1>2, <1>6 DEF at
  <1>7. CASE at # {}
    <2>1. FirstSignal(s) = w
      BY <1>2, <1>7 DEF w
    <2> QED  BY <1>3, <1>5, <1>7, <2>1 DEF at
  <1> QED  BY <1>6, <1>7

ScanSet == [before : Outputs, signals : Nat, after : Outputs, pending : Outputs]

CutOf(f, s) ==
    LET at == FirstSignal(s)
        n  == Len(s) - PrefixTail(s)
        rest == f[Drop(s, at + 2)]
    IN  IF at = 0 THEN [before |-> Take(s, n), signals |-> 0, after |-> <<>>, pending |-> Drop(s, n)]
        ELSE [before |-> Take(s, at - 1), signals |-> rest.signals + 1,
              after |-> rest.before \o rest.after, pending |-> rest.pending]

\* What is held back of a stream, and what is not.
LEMMA HeldIs ==
    ASSUME NEW s \in Outputs
    PROVE  LET n == Len(s) - PrefixTail(s) IN
           n \in 0..Len(s) /\ Take(s, n) \in Outputs /\ Drop(s, n) \in Outputs /\ s = Take(s, n) \o Drop(s, n)
  <1> DEFINE n == Len(s) - PrefixTail(s)
  <1>1. n \in 0..Len(s)
    BY TailIs DEF Outputs
  <1> HIDE DEF n
  <1>2. Take(s, n) \in Outputs /\ Drop(s, n) \in Outputs /\ Take(s, n) \o Drop(s, n) = s
    BY <1>1, TakeIs DEF Outputs
  <1> QED  BY <1>1, <1>2 DEF n

LEMMA CutsAre ==
    \A s \in Outputs : Cut[s] \in ScanSet /\ Cut[s] = CutOf(Cut, s)
  <1> DEFINE F == [Outputs -> ScanSet]
             step == [s \in Outputs |-> [f \in F |-> CutOf(f, s)]]
  <1>1. ASSUME NEW s \in Outputs, FirstSignal(s) # 0
        PROVE  /\ FirstSignal(s) \in Nat \ {0} /\ FirstSignal(s) - 1 \in 0..Len(s)
               /\ Drop(s, FirstSignal(s) + 2) \in Outputs /\ Len(Drop(s, FirstSignal(s) + 2)) < Len(s)
    <2> DEFINE at == FirstSignal(s)
    <2>1. at \in Signals(s)
      BY <1>1, FirstIs
    <2>2. at \in 1..Len(s) /\ StartsAt(s, at) /\ Len(s) \in Nat
      BY <2>1 DEF Signals, Outputs
    <2> HIDE DEF at
    <2>3. at \in Nat \ {0} /\ at - 1 \in 0..Len(s) /\ s # <<>>
      BY <2>2
    <2>4. Drop(s, at + 2) \in Outputs /\ Len(Drop(s, at + 2)) < Len(s)
      BY <2>2, <2>3, RestIs
    <2> QED  BY <2>3, <2>4 DEF at
  <1>2. <<>> \in Outputs
    BY DEF Outputs
  <1>3. ASSUME NEW s \in Outputs, NEW f \in F PROVE CutOf(f, s) \in ScanSet
    <2> DEFINE at == FirstSignal(s)
               n == Len(s) - PrefixTail(s)
               rest == f[Drop(s, at + 2)]
    <2>1. CASE at = 0
      <3>1. CutOf(f, s) = [before |-> Take(s, n), signals |-> 0, after |-> <<>>, pending |-> Drop(s, n)]
        BY <2>1 DEF CutOf
      <3>2. Take(s, n) \in Outputs /\ Drop(s, n) \in Outputs
        BY HeldIs
      <3> HIDE DEF n
      <3> QED  BY <1>2, <3>1, <3>2 DEF ScanSet
    <2>2. CASE at # 0
      <3>1. rest \in ScanSet
        BY <1>1, <2>2
      <3>2. Take(s, at - 1) \in Outputs
        BY <1>1, <2>2, TakeIs DEF Outputs
      <3> DEFINE x == Take(s, at - 1)
      <3>3. CutOf(f, s) = [before |-> x, signals |-> rest.signals + 1,
                           after |-> rest.before \o rest.after, pending |-> rest.pending]
        BY <2>2 DEF CutOf
      <3> HIDE DEF rest, x
      <3>4. /\ rest.signals \in Nat /\ rest.before \in Outputs /\ rest.after \in Outputs
            /\ rest.pending \in Outputs
        BY <3>1 DEF ScanSet
      <3>5. rest.before \o rest.after \in Outputs
        BY <3>4, ConcatProperties DEF Outputs
      <3>6. x \in Outputs
        BY <3>2 DEF x
      <3> QED  BY <3>3, <3>4, <3>5, <3>6 DEF ScanSet
    <2> QED  BY <2>1, <2>2
  <1>4. step \in [Outputs -> [F -> ScanSet]]
    BY <1>3
  <1>5. \A s \in Outputs : \A f \in F : step[s][f] = CutOf(f, s)
    OBVIOUS
  <1>6. ASSUME NEW s \in Outputs, NEW f, NEW g, \A t \in Outputs : Len(t) < Len(s) => f[t] = g[t]
        PROVE  CutOf(f, s) = CutOf(g, s)
    <2>1. CASE FirstSignal(s) = 0
      BY <2>1 DEF CutOf
    <2>2. CASE FirstSignal(s) # 0
      <3>1. f[Drop(s, FirstSignal(s) + 2)] = g[Drop(s, FirstSignal(s) + 2)]
        BY <1>1, <1>6, <2>2
      <3> QED  BY <2>2, <3>1 DEF CutOf
    <2> QED  BY <2>1, <2>2
  <1>7. Looks(step, OutputTokens, ScanSet)
    <2> HIDE DEF step
    <2>2. ASSUME NEW s \in Outputs, NEW f \in F, NEW g \in F,
                 \A t \in Outputs : Len(t) < Len(s) => f[t] = g[t]
          PROVE  step[s][f] = step[s][g]
      BY <1>5, <1>6, <2>2
    <2> HIDE DEF F
    <2>3. \A s \in Outputs : \A f, g \in F :
            (\A t \in Outputs : Len(t) < Len(s) => f[t] = g[t]) => step[s][f] = step[s][g]
      BY <2>2
    <2> QED  BY <2>3 DEF Looks, Outputs, F
  <1> HIDE DEF step
  <1>8. PICK h \in F : \A s \in Outputs : h[s] = CutOf(h, s)
    <2>1. ScanSet # {}
      <3>1. [before |-> <<>>, signals |-> 0, after |-> <<>>, pending |-> <<>>] \in ScanSet
        BY <1>2 DEF ScanSet
      <3> QED  BY <3>1
    <2>2. \E h \in [Seq(OutputTokens) -> ScanSet] : RecursOn(h, OutputTokens, step)
      BY <1>4, <1>7, <2>1, RecursionByLength DEF Outputs
    <2>3. PICK h \in F : RecursOn(h, OutputTokens, step)
      BY <2>2 DEF Outputs
    <2> QED  BY <1>5, <2>3 DEF RecursOn, Outputs
  <1>9. h = [s \in Outputs |-> CutOf(h, s)]
    BY <1>8
  <1>10. Cut = CHOOSE f : f = [s \in Outputs |-> CutOf(f, s)]
    <2> DEFINE m == Len(Signal)
               body(f, s) == LET at == FirstSignal(s) IN
                   IF at = 0
                      THEN [NoScan EXCEPT !.before = Take(s, Len(s) - Held(s)), !.pending = Drop(s, Len(s) - Held(s))]
                      ELSE LET rest == f[Drop(s, at + m - 1)] IN
                           [before |-> Take(s, at - 1), signals |-> rest.signals + 1,
                            after |-> rest.before \o rest.after, pending |-> rest.pending]
    <2>1. Cut = CHOOSE f : f = [s \in Outputs |-> body(f, s)]
      BY DEF Cut, Outputs
    <2>2. m = 3
      BY SignalIs
    <2> HIDE DEF m
    <2>3. ASSUME NEW f, NEW s \in Outputs PROVE body(f, s) = CutOf(f, s)
      <3>1. CASE FirstSignal(s) = 0
        <4> DEFINE x == Take(s, Len(s) - PrefixTail(s))
                   y == Drop(s, Len(s) - PrefixTail(s))
        <4> HIDE DEF x, y
        <4>1. body(f, s) = [NoScan EXCEPT !.before = x, !.pending = y]
          BY <3>1 DEF Held, x, y
        <4>2. CutOf(f, s) = [before |-> x, signals |-> 0, after |-> <<>>, pending |-> y]
          BY <3>1 DEF CutOf, x, y
        <4>3. [NoScan EXCEPT !.before = x, !.pending = y]
                = [before |-> x, signals |-> 0, after |-> <<>>, pending |-> y]
          <5> DEFINE none == <<>>
          <5> HIDE DEF none
          <5>1. NoScan = [before |-> none, signals |-> 0, after |-> none, pending |-> none]
            BY DEF NoScan, none
          <5>2. [[before |-> none, signals |-> 0, after |-> none, pending |-> none]
                    EXCEPT !.before = x, !.pending = y]
                  = [before |-> x, signals |-> 0, after |-> none, pending |-> y]
            <6> DEFINE R == [before |-> none, signals |-> 0, after |-> none, pending |-> none]
                       e == [R EXCEPT !.before = x, !.pending = y]
            <6>1. e = [[R EXCEPT !.before = x] EXCEPT !.pending = y]
              <7> HIDE DEF R
              <7> QED  OBVIOUS
            <6>2. [R EXCEPT !.before = x] = [before |-> x, signals |-> 0, after |-> none, pending |-> none]
              OBVIOUS
            <6>3. [[before |-> x, signals |-> 0, after |-> none, pending |-> none] EXCEPT !.pending = y]
                    = [before |-> x, signals |-> 0, after |-> none, pending |-> y]
              OBVIOUS
            <6> HIDE DEF R
            <6> QED  BY <6>1, <6>2, <6>3 DEF R
          <5> QED  BY <5>1, <5>2 DEF none
        <4> QED  BY <4>1, <4>2, <4>3
      <3>2. CASE FirstSignal(s) # 0
        <4>1. FirstSignal(s) + m - 1 = FirstSignal(s) + 2
          BY <1>1, <2>2, <3>2
        <4> QED  BY <3>2, <4>1 DEF CutOf
      <3> QED  BY <3>1, <3>2
    <2> HIDE DEF body
    <2>4. \A f : [s \in Outputs |-> body(f, s)] = [s \in Outputs |-> CutOf(f, s)]
      BY <2>3
    <2> QED  BY <2>1, <2>4
  <1>11. Cut = [s \in Outputs |-> CutOf(Cut, s)]
    <2> DEFINE is(f) == f = [s \in Outputs |-> CutOf(f, s)]
               g == CHOOSE f : is(f)
    <2>1. is(h)
      BY <1>9
    <2> HIDE DEF is
    <2>2. is(g)
      BY <2>1
    <2>3. Cut = g
      BY <1>10 DEF is
    <2> QED  BY <2>2, <2>3 DEF is
  <1>12. \A s \in Outputs : Cut[s] = CutOf(Cut, s)
    BY <1>11
  <1>13. \A s \in Outputs : Cut[s] = h[s]
    <2> DEFINE T == {s \in Outputs : Cut[s] = h[s]}
    <2>1. ASSUME NEW s \in Outputs, \A t \in Outputs : Len(t) < Len(s) => t \in T PROVE s \in T
      <3>1. \A t \in Outputs : Len(t) < Len(s) => Cut[t] = h[t]
        BY <2>1
      <3>2. CutOf(Cut, s) = CutOf(h, s)
        BY <1>6, <3>1
      <3> QED  BY <1>8, <1>12, <3>2
    <2>2. \A s \in Outputs : s \in T
      <3> HIDE DEF T
      <3> QED  BY <2>1, ByLength DEF Outputs
    <2> QED  BY <2>2
  <1> QED  BY <1>12, <1>13

\* What a push returns of the bytes at hand: all but the held ones without their signals.
ScanIs(c, s) ==
    LET n == Len(s) - PrefixTail(s) IN
    /\ c \in ScanSet /\ c.before \o c.after = Strip[Take(s, n)]
    /\ c.signals = SignalsIn(s) /\ c.pending = Drop(s, n)

LEMMA PlainScan ==
    ASSUME NEW s \in Outputs, FirstSignal(s) = 0
    PROVE  ScanIs(Cut[s], s)
  <1> DEFINE n == Len(s) - PrefixTail(s)
             a == Take(s, n)
             d == Drop(s, n)
             c == Cut[s]
  <1>1. c \in ScanSet /\ c = [before |-> a, signals |-> 0, after |-> <<>>, pending |-> d]
    BY CutsAre DEF CutOf
  <1>2. n \in 0..Len(s) /\ a \in Outputs /\ d \in Outputs /\ s = a \o d
    BY HeldIs
  <1>3. Len(a) = n /\ Len(s) \in Nat
    BY <1>2, TakeIs DEF Outputs
  <1>4. Signals(s) = {}
    BY FirstIs
  <1> HIDE DEF n, a, d, c
  <1>5. Signals(a) = {}
    <2>1. ASSUME NEW i \in Signals(a) PROVE FALSE
      <3>1. i \in 1..Len(a) /\ StartsAt(a, i) /\ i + 2 <= Len(a)
        BY <1>2, SignalsAre DEF Signals
      <3>2. StartsAt(s, i)
        BY <1>2, <3>1, AtJoined
      <3>3. i \in 1..Len(s)
        BY <1>2, <1>3, <3>1
      <3> QED  BY <1>4, <3>2, <3>3 DEF Signals
    <2> QED  BY <2>1
  <1>6. Strip[a] = a /\ SignalsIn(s) = 0
    BY <1>2, <1>4, <1>5, NothingToCut
  <1>7. a \o <<>> = a
    BY <1>2, ConcatEmptySeq DEF Outputs
  <1>8. c.before \o c.after = a /\ c.signals = 0 /\ c.pending = d
    BY <1>1, <1>7
  <1> QED  BY <1>1, <1>6, <1>8 DEF ScanIs, a, d, n, c

LEMMA ScanOf ==
    \A s \in Outputs : ScanIs(Cut[s], s)
  <1> DEFINE T == {s \in Outputs : ScanIs(Cut[s], s)}
  <1>1. ASSUME NEW s \in Outputs, \A u \in Outputs : Len(u) < Len(s) => u \in T PROVE s \in T
    <2>0. \A u \in Outputs : Len(u) < Len(s) => ScanIs(Cut[u], u)
      BY <1>1
    <2> SUFFICES ScanIs(Cut[s], s)
      OBVIOUS
    <2> HIDE DEF T
    <2>1. CASE FirstSignal(s) = 0
      BY <2>1, PlainScan
    <2>2. CASE FirstSignal(s) # 0
      <3> DEFINE at == FirstSignal(s)
                 x == Take(s, at - 1)
                 z == Take(s, at + 2)
                 y == Drop(s, at + 2)
                 c == Cut[s]
                 rest == Cut[y]
                 m == Len(y) - PrefixTail(y)
                 w == Take(y, m)
      <3>1. at \in Signals(s) /\ \A j \in Signals(s) : at <= j
        BY <2>2, FirstIs
      <3>2. at \in 1..Len(s) /\ at + 2 <= Len(s) /\ Len(s) \in Nat /\ SigAt(s, at)
        <4>1. at \in 1..Len(s) /\ StartsAt(s, at) /\ Len(s) \in Nat
          BY <3>1 DEF Signals, Outputs
        <4>2. SigAt(s, at)
          BY <4>1, StartsIs
        <4> QED  BY <4>1, <4>2 DEF SigAt
      <3>3. c \in ScanSet /\ c = [before |-> x, signals |-> rest.signals + 1,
                                  after |-> rest.before \o rest.after, pending |-> rest.pending]
        BY <2>2, CutsAre DEF CutOf
      <3> HIDE DEF at
      <3>4. at - 1 \in 0..Len(s) /\ at + 2 \in 0..Len(s)
        BY <3>2
      <3>5. /\ x \in Outputs /\ Len(x) = at - 1 /\ \A i \in 1..at - 1 : x[i] = s[i]
        BY <3>4, TakeIs DEF Outputs
      <3>6. /\ z \in Outputs /\ Len(z) = at + 2 /\ \A i \in 1..at + 2 : z[i] = s[i]
            /\ y \in Outputs /\ Len(y) = Len(s) - (at + 2) /\ s = z \o y
        BY <3>4, TakeIs DEF Outputs
      <3> HIDE DEF x, y, z
      <3>7. Len(y) < Len(s)
        BY <3>2, <3>6
      <3>8. m \in 0..Len(y) /\ w \in Outputs
        BY <3>6, HeldIs
      <3>9. /\ rest \in ScanSet /\ rest.before \o rest.after = Strip[w]
            /\ rest.signals = SignalsIn(y) /\ rest.pending = Drop(y, m)
        BY <2>0, <3>6, <3>7 DEF ScanIs
      <3> HIDE DEF c, rest, m, w
      <3>10. z = x \o Signal
        <4> DEFINE g == Signal
                   v == x \o g
        <4>1. g \in Outputs /\ Len(g) = 3 /\ g[1] = "esc" /\ g[2] = "1337" /\ g[3] = "bel"
          BY SignalIs DEF Signal
        <4> HIDE DEF g
        <4>2. v \in Outputs /\ Len(v) = Len(x) + 3 /\ (\A i \in 1..Len(x) : v[i] = x[i])
              /\ \A i \in 1..3 : v[Len(x) + i] = g[i]
          <5>1. x \in Seq(OutputTokens) /\ g \in Seq(OutputTokens)
            BY <3>5, <4>1 DEF Outputs
          <5>2. /\ x \o g \in Seq(OutputTokens) /\ Len(x \o g) = Len(x) + Len(g)
                /\ \A i \in 1..Len(x) + Len(g) : (x \o g)[i] = IF i <= Len(x) THEN x[i] ELSE g[i - Len(x)]
            BY <5>1, ConcatProperties
          <5> HIDE DEF v
          <5>3. /\ v \in Outputs /\ Len(v) = Len(x) + 3 /\ Len(x) \in Nat
                /\ \A i \in 1..Len(x) + 3 : v[i] = IF i <= Len(x) THEN x[i] ELSE g[i - Len(x)]
            BY <4>1, <5>1, <5>2 DEF v, Outputs
          <5>4. \A i \in 1..3 : Len(x) + i \in 1..Len(x) + 3 /\ ~(Len(x) + i <= Len(x)) /\ (Len(x) + i) - Len(x) = i
            BY <5>3
          <5>5. ASSUME NEW i \in 1..Len(x) PROVE v[i] = x[i]
            <6>1. i \in 1..Len(x) + 3 /\ i <= Len(x)
              BY <5>3
            <6> QED  BY <5>3, <6>1
          <5>6. ASSUME NEW i \in 1..3 PROVE v[Len(x) + i] = g[i]
            <6> DEFINE k == Len(x) + i
            <6>1. k \in 1..Len(x) + 3 /\ ~(k <= Len(x)) /\ k - Len(x) = i
              BY <5>4
            <6> HIDE DEF k
            <6>2. v[k] = g[i]
              BY <5>3, <6>1
            <6> QED  BY <6>2 DEF k
          <5> QED  BY <5>3, <5>5, <5>6
        <4> HIDE DEF v
        <4>3. ASSUME NEW i \in 1..Len(z) PROVE z[i] = v[i]
          <5>1. CASE i <= at - 1
            <6>1. i \in 1..at - 1 /\ i \in 1..at + 2
              BY <3>2, <5>1
            <6>2. v[i] = x[i] /\ x[i] = s[i] /\ z[i] = s[i]
              BY <3>5, <3>6, <4>2, <6>1
            <6> QED  BY <6>2
          <5>2. CASE i > at - 1
            <6>1. i \in at..at + 2 /\ i \in 1..at + 2 /\ i - at + 1 \in 1..3 /\ (at - 1) + (i - at + 1) = i
              BY <3>2, <3>6, <5>2
            <6>2. v[i] = g[i - at + 1] /\ z[i] = s[i]
              BY <3>5, <3>6, <4>2, <6>1
            <6>3. s[at] = "esc" /\ s[at + 1] = "1337" /\ s[at + 2] = "bel"
              BY <3>2 DEF SigAt
            <6>4. i = at \/ i = at + 1 \/ i = at + 2
              BY <3>2, <6>1
            <6>5. CASE i = at
              <7>1. i - at + 1 = 1
                BY <3>2, <6>5
              <7> QED  BY <4>1, <6>2, <6>3, <6>5, <7>1
            <6>6. CASE i = at + 1
              <7>1. i - at + 1 = 2
                BY <3>2, <6>6
              <7> QED  BY <4>1, <6>2, <6>3, <6>6, <7>1
            <6>7. CASE i = at + 2
              <7>1. i - at + 1 = 3
                BY <3>2, <6>7
              <7> QED  BY <4>1, <6>2, <6>3, <6>7, <7>1
            <6> QED  BY <6>4, <6>5, <6>6, <6>7
          <5> QED  BY <3>2, <5>1, <5>2
        <4>4. Len(z) = Len(v)
          BY <3>2, <3>5, <3>6, <4>2
        <4>5. z = v
          BY <3>6, <4>2, <4>3, <4>4, SeqEqual DEF Outputs
        <4> QED  BY <4>5 DEF v, g
      <3>11. Len(z) >= 1 /\ z[Len(z)] = "bel"
        <4>1. at + 2 \in 1..at + 2 /\ s[at + 2] = "bel"
          BY <3>2 DEF SigAt
        <4> QED  BY <3>2, <3>6, <4>1
      <3>12. /\ NoStraddle(z, y) /\ NoStraddle(z, w)
             /\ PrefixTail(s) = PrefixTail(y)
        BY <3>6, <3>8, <3>11, BehindSignal
      <3>13. Signals(x) = {} /\ NoStraddle(x, Signal)
        <4>1. ASSUME NEW i \in 1..Len(x), StartsAt(z, i) PROVE FALSE
          <5>1. i \in Nat \ {0} /\ i \in 1..Len(z) /\ i \in 1..Len(s) /\ i < at
            BY <3>2, <3>5, <3>6
          <5>2. i + 2 <= Len(z)
            BY <3>6, <4>1, <5>1, StartsIs DEF SigAt
          <5>3. StartsAt(s, i)
            BY <3>6, <4>1, <5>1, <5>2, AtJoined
          <5>4. i \in Signals(s)
            BY <5>1, <5>3 DEF Signals
          <5>5. at <= i
            BY <3>1, <5>4
          <5> QED  BY <3>2, <5>1, <5>5
        <4>2. NoStraddle(x, Signal)
          BY <3>10, <4>1 DEF NoStraddle
        <4>3. ASSUME NEW i \in Signals(x) PROVE FALSE
          <5>1. i \in 1..Len(x) /\ StartsAt(x, i) /\ i + 2 <= Len(x)
            BY <3>5, SignalsAre DEF Signals
          <5>2. StartsAt(z, i)
            BY <3>5, <3>10, <5>1, SignalIs, AtJoined
          <5> QED  BY <4>1, <5>1, <5>2
        <4> QED  BY <4>2, <4>3
      <3>14. Strip[z] = x /\ SignalsIn(z) = 1
        <4>1. Strip[z] = Strip[x] \o Strip[Signal] /\ SignalsIn(z) = SignalsIn(x) + SignalsIn(Signal)
          BY <3>5, <3>10, <3>13, SignalIs, StripJoined, CountJoined
        <4>2. Strip[x] = x /\ SignalsIn(x) = 0
          BY <3>5, <3>13, NothingToCut
        <4>3. x \o <<>> = x
          BY <3>5, ConcatEmptySeq DEF Outputs
        <4> QED  BY <4>1, <4>2, <4>3, SignalIs
      <3>15. SignalsIn(s) = SignalsIn(y) + 1
        <4>1. SignalsIn(s) = SignalsIn(z) + SignalsIn(y)
          BY <3>6, <3>12, CountJoined
        <4>2. SignalsIn(y) \in Nat
          BY <3>6, SignalsAre
        <4> QED  BY <3>14, <4>1, <4>2
      <3>16. Len(s) - PrefixTail(s) = Len(z) + m
        <4>1. PrefixTail(y) \in Nat /\ Len(y) \in Nat
          BY <3>6, TailIs DEF Outputs
        <4> QED  BY <3>2, <3>6, <3>12, <4>1 DEF m
      <3>17. Take(s, Len(s) - PrefixTail(s)) = z \o w /\ Drop(s, Len(s) - PrefixTail(s)) = Drop(y, m)
        <4>1. Take(z \o y, Len(z) + m) = z \o Take(y, m) /\ Drop(z \o y, Len(z) + m) = Drop(y, m)
          BY <3>6, <3>8, TakeJoined DEF Outputs
        <4> QED  BY <3>6, <3>16, <4>1 DEF w
      <3>18. Strip[z \o w] = x \o Strip[w]
        BY <3>6, <3>8, <3>12, <3>14, StripJoined
      <3>19. c.before \o c.after = x \o Strip[w] /\ c.signals = SignalsIn(y) + 1 /\ c.pending = Drop(y, m)
        <4>1. c.before = x /\ c.after = Strip[w] /\ c.signals = rest.signals + 1 /\ c.pending = rest.pending
          BY <3>3, <3>9
        <4> QED  BY <3>9, <4>1
      <3> QED  BY <3>3, <3>15, <3>17, <3>18, <3>19 DEF ScanIs, c
    <2> QED  BY <2>1, <2>2
  <1>2. \A s \in Outputs : s \in T
    <2> HIDE DEF T
    <2> QED  BY <1>1, ByLength DEF Outputs
  <1> QED  BY <1>2

\* What the terminal and the loop have of a stream.
OfOutput(s) ==
    LET n == Len(s) - PrefixTail(s) IN
    [pending |-> Drop(s, n), signals |-> SignalsIn(s), out |-> Strip[Take(s, n)]]

LEMMA PushedOutput ==
    ASSUME NEW p \in Outputs, NEW chunk \in Outputs
    PROVE  Push(OfOutput(p), chunk) = OfOutput(p \o chunk)
  <1> DEFINE a == Take(p, Len(p) - PrefixTail(p))
             d == Drop(p, Len(p) - PrefixTail(p))
             b == d \o chunk
             q == p \o chunk
             m == Len(b) - PrefixTail(b)
             w == Take(b, m)
             scan == Cut[b]
  <1>1. OfOutput(p) = [pending |-> d, signals |-> SignalsIn(p), out |-> Strip[a]]
    BY DEF OfOutput
  <1>2. /\ a \in Outputs /\ d \in Outputs /\ p = a \o d /\ Len(d) = PrefixTail(p)
        /\ NoStraddle(a, b) /\ PrefixTail(q) = PrefixTail(b)
    BY BeforeHeld
  <1> HIDE DEF a, d
  <1>3. b \in Outputs /\ q \in Outputs /\ q = a \o b /\ Len(q) = Len(a) + Len(b)
        /\ Len(a) \in Nat /\ Len(b) \in Nat
    <2>1. b \in Outputs
      BY <1>2, ConcatProperties DEF Outputs
    <2>2. q \in Outputs
      BY ConcatProperties DEF Outputs
    <2>3. (a \o d) \o chunk = a \o (d \o chunk)
      <3>1. Associates(a, d, chunk)
        BY <1>2, OutputsAssociate
      <3> QED  BY <3>1 DEF Associates
    <2>4. q = a \o b
      BY <1>2, <2>3
    <2> HIDE DEF q, b
    <2>5. Len(q) = Len(a) + Len(b) /\ Len(a) \in Nat /\ Len(b) \in Nat
      BY <1>2, <2>1, <2>4, JoinedAt DEF Outputs
    <2> QED  BY <2>1, <2>2, <2>4, <2>5
  <1> HIDE DEF b, q
  <1>4. m \in 0..Len(b) /\ w \in Outputs /\ Drop(b, m) \in Outputs /\ b = w \o Drop(b, m)
    BY <1>3, HeldIs
  <1>5. /\ scan \in ScanSet /\ scan.before \o scan.after = Strip[w]
        /\ scan.signals = SignalsIn(b) /\ scan.pending = Drop(b, m)
    BY <1>3, ScanOf DEF ScanIs
  <1>6. Len(q) - PrefixTail(q) = Len(a) + m
    <2>1. PrefixTail(b) \in Nat
      BY <1>3, TailIs
    <2> QED  BY <1>2, <1>3, <2>1
  <1> HIDE DEF scan, m, w
  <1>7. Take(q, Len(q) - PrefixTail(q)) = a \o w /\ Drop(q, Len(q) - PrefixTail(q)) = Drop(b, m)
    <2>1. Take(a \o b, Len(a) + m) = a \o Take(b, m) /\ Drop(a \o b, Len(a) + m) = Drop(b, m)
      <3>1. a \in Seq(OutputTokens) /\ b \in Seq(OutputTokens) /\ m \in 0..Len(b)
        BY <1>2, <1>3, <1>4 DEF Outputs
      <3> QED  BY <3>1, TakeJoined
    <2> QED  BY <1>3, <1>6, <2>1 DEF w
  <1>8. Strip[a \o w] = Strip[a] \o Strip[w]
    <2>1. NoStraddle(a, w)
      BY <1>2, <1>4, StraddleLess
    <2> QED  BY <1>2, <1>4, <2>1, StripJoined
  <1>9. SignalsIn(q) = SignalsIn(p) + SignalsIn(b)
    <2>1. SignalsIn(q) = SignalsIn(a) + SignalsIn(b)
      BY <1>2, <1>3, CountJoined
    <2>2. NoStraddle(a, d)
      BY <1>2, StraddleLess DEF b
    <2>3. SignalsIn(p) = SignalsIn(a) + SignalsIn(d)
      BY <1>2, <2>2, CountJoined
    <2>4. SignalsIn(d) = 0
      <3>1. Len(d) < 3
        BY <1>2, TailIs
      <3> QED  BY <1>2, <3>1, NothingToCut
    <2>5. SignalsIn(a) \in Nat
      BY <1>2, SignalsAre
    <2> QED  BY <2>1, <2>3, <2>4, <2>5
  <1>10. (Strip[a] \o scan.before) \o scan.after = Strip[a] \o Strip[w]
    <2> DEFINE x == Strip[a]
               y == scan.before
               z == scan.after
    <2>1. x \in Outputs /\ y \in Outputs /\ z \in Outputs
      BY <1>2, <1>5, StripIs DEF ScanSet
    <2> HIDE DEF x, y, z
    <2>2. (x \o y) \o z = x \o (y \o z)
      <3>1. Associates(x, y, z)
        BY <2>1, OutputsAssociate
      <3> QED  BY <3>1 DEF Associates
    <2> QED  BY <1>5, <2>2 DEF x, y, z
  <1>11. Push(OfOutput(p), chunk) = [pending |-> scan.pending, signals |-> SignalsIn(p) + scan.signals,
                                     out |-> (Strip[a] \o scan.before) \o scan.after]
    <2> DEFINE acc == OfOutput(p)
    <2>1. acc.pending = d /\ acc.signals = SignalsIn(p) /\ acc.out = Strip[a]
      BY <1>1
    <2> HIDE DEF acc
    <2>2. Push(acc, chunk) = [pending |-> scan.pending, signals |-> acc.signals + scan.signals,
                              out |-> (acc.out \o scan.before) \o scan.after]
      BY <2>1 DEF Push, scan, b
    <2> QED  BY <2>1, <2>2 DEF acc
  <1>12. OfOutput(q) = [pending |-> Drop(b, m), signals |-> SignalsIn(p) + SignalsIn(b),
                        out |-> Strip[a] \o Strip[w]]
    BY <1>7, <1>8, <1>9 DEF OfOutput
  <1> QED  BY <1>5, <1>10, <1>11, <1>12 DEF q

\* However the reads cut it, the output is forwarded whole.
LEMMA ScannedIs ==
    ASSUME NEW reads \in Seq(Outputs)
    PROVE  Scanned(reads) = OfOutput(FlattenSeq(reads)) /\ FlattenSeq(reads) \in Outputs
  <1> DEFINE n == Len(reads)
             s == FlattenSeq(reads)
             got(h) == [i \in 0..n |-> IF i = 0 THEN NoOutput ELSE Push(h[i - 1], reads[i])]
  <1>1. n \in Nat /\ \A i \in 1..n : reads[i] \in Outputs
    OBVIOUS
  <1>2. PICK f \in [0..n -> Outputs] : CutBy(f, reads)
    BY CutIs DEF Outputs
  <1>3. f[0] = <<>> /\ s = f[n] /\ \A i \in 1..n : f[i] = f[i - 1] \o reads[i]
    BY <1>2 DEF CutBy
  <1> HIDE DEF n, s
  <1> DEFINE r == [i \in 0..n |-> OfOutput(f[i])]
  <1>4. r[0] = NoOutput
    <2>1. <<>> \in Outputs /\ Len(<<>>) = 0
      BY DEF Outputs
    <2>2. PrefixTail(<<>>) = 0
      <3>1. PrefixTail(<<>>) \in 0..2 /\ PrefixTail(<<>>) <= Len(<<>>)
        BY <2>1, TailIs
      <3> QED  BY <2>1, <3>1
    <2>3. Take(<<>>, 0) = <<>> /\ Drop(<<>>, 0) = <<>>
      <3>1. 0 \in 0..Len(<<>>) /\ <<>> \in Seq(OutputTokens)
        BY <2>1
      <3>2. Take(<<>>, 0) \in Seq(OutputTokens) /\ Len(Take(<<>>, 0)) = 0
            /\ Drop(<<>>, 0) \in Seq(OutputTokens) /\ Len(Drop(<<>>, 0)) = Len(<<>>) - 0
        BY <3>1, TakeIs
      <3> QED  BY <2>1, <3>2, EmptySeq
    <2>4. Strip[<<>>] = <<>> /\ SignalsIn(<<>>) = 0
      BY <2>1, NothingToCut
    <2>5. Len(<<>>) - PrefixTail(<<>>) = 0
      BY <2>1, <2>2
    <2>6. OfOutput(<<>>) = [pending |-> <<>>, signals |-> 0, out |-> <<>>]
      BY <2>3, <2>4, <2>5 DEF OfOutput
    <2>7. 0 \in 0..n
      BY <1>1
    <2>8. r[0] = OfOutput(f[0])
      BY <2>7
    <2> QED  BY <1>3, <2>6, <2>8 DEF NoOutput
  <1>5. ASSUME NEW i \in 1..n PROVE r[i] = Push(r[i - 1], reads[i])
    <2>1. i - 1 \in 0..n /\ i \in 0..n /\ reads[i] \in Outputs
      BY <1>1
    <2>2. f[i - 1] \in Outputs
      BY <2>1
    <2>3. f[i] = f[i - 1] \o reads[i]
      BY <1>3
    <2>4. Push(OfOutput(f[i - 1]), reads[i]) = OfOutput(f[i - 1] \o reads[i])
      BY <2>1, <2>2, PushedOutput
    <2> QED  BY <2>1, <2>3, <2>4
  <1>6. r = got(r)
    <2>1. ASSUME NEW i \in 0..n
          PROVE  r[i] = IF i = 0 THEN NoOutput ELSE Push(r[i - 1], reads[i])
      <3>1. i # 0 => i \in 1..n
        BY <1>1
      <3> HIDE DEF r
      <3> QED  BY <1>4, <1>5, <3>1
    <2>2. r = [i \in 0..n |-> r[i]]
      OBVIOUS
    <2> HIDE DEF r
    <2> QED  BY <2>1, <2>2
  <1> DEFINE g == CHOOSE h : h = got(h)
  <1>7. g = got(g)
    BY <1>6
  <1>8. Scanned(reads) = g[n]
    BY DEF Scanned, n
  <1> HIDE DEF g
  <1>9. g[0] = NoOutput /\ \A i \in 1..n : g[i] = Push(g[i - 1], reads[i])
    <2>1. \A i \in 0..n : g[i] = IF i = 0 THEN NoOutput ELSE Push(g[i - 1], reads[i])
      BY <1>7
    <2>2. 0 \in 0..n /\ \A i \in 1..n : i \in 0..n /\ i # 0
      BY <1>1
    <2> QED  BY <2>1, <2>2
  <1> DEFINE T == {k \in 0..n : g[k] = r[k]}
  <1>10. n \in T
    <2> HIDE DEF r
    <2>1. 0 \in T
      BY <1>1, <1>4, <1>9
    <2>2. ASSUME NEW k \in 0..n - 1, k \in T PROVE k + 1 \in T
      <3>1. k + 1 \in 1..n /\ (k + 1) - 1 = k
        BY <1>1
      <3> QED  BY <1>5, <1>9, <2>2, <3>1
    <2>3. \A k \in 0..n : k \in T
      <3> HIDE DEF T
      <3> QED  BY <1>1, <2>1, <2>2, Induct
    <2> QED  BY <1>1, <2>3
  <1>11. r[n] = OfOutput(f[n]) /\ f[n] \in Outputs
    BY <1>1
  <1> HIDE DEF r
  <1> QED  BY <1>3, <1>8, <1>10, <1>11 DEF s

LEMMA ForwardedIs ==
    ASSUME NEW reads \in Seq(Outputs)
    PROVE  IsForwarded(reads, Scanned(reads))
  <1> DEFINE s == FlattenSeq(reads)
             h == PrefixTail(s)
             a == Take(s, Len(s) - h)
             d == Drop(s, Len(s) - h)
             got == Scanned(reads)
  <1>1. s \in Outputs /\ got = OfOutput(s)
    BY ScannedIs
  <1> HIDE DEF s, got
  <1>2. got.pending = d /\ got.signals = SignalsIn(s) /\ got.out = Strip[a]
    BY <1>1 DEF OfOutput
  <1>3. <<>> \in Outputs
    BY DEF Outputs
  <1>4. /\ a \in Outputs /\ d \in Outputs /\ s = a \o d /\ Len(d) = h /\ NoStraddle(a, d)
    <2> HIDE DEF a, d
    <2>1. a \in Outputs /\ d \in Outputs /\ s = a \o d /\ Len(d) = h /\ NoStraddle(a, d \o <<>>)
      BY <1>1, <1>3, BeforeHeld DEF a, d
    <2>2. d \o <<>> = d
      BY <2>1, ConcatEmptySeq DEF Outputs
    <2> QED  BY <2>1, <2>2
  <1>5. h \in 0..2 /\ (h # 0 => d = Take(Signal, h))
    BY <1>1, TailIs
  <1>6. Strip[d] = d
    <2>1. Len(d) < 3
      BY <1>4, <1>5
    <2> QED  BY <1>4, <2>1, NothingToCut
  <1>7. Strip[s] = Strip[a] \o d
    BY <1>4, <1>6, StripJoined
  <1>8. h = 0 => d = Take(Signal, 0)
    <2>1. Take(Signal, 0) = <<>>
      BY SubSeqEmpty DEF Take
    <2>2. Len(d) = 0 => d = <<>>
      BY <1>4, EmptySeq DEF Outputs
    <2> QED  BY <1>4, <2>1, <2>2
  <1>9. \E n \in 0..Len(Signal) - 1 : d = Take(Signal, n)
    <2>1. h \in 0..Len(Signal) - 1
      BY <1>5, SignalIs
    <2>2. d = Take(Signal, h)
      BY <1>5, <1>8
    <2> HIDE DEF h, d
    <2> QED  BY <2>1, <2>2
  <1> HIDE DEF a, d, h
  <1> QED  BY <1>2, <1>7, <1>9 DEF IsForwarded, s, got

----------------------------------------------------------------------------
(* What a pattern denotes *)

LEMMA RestOf ==
    ASSUME NEW s \in Chars, NEW n \in 0..Len(s)
    PROVE  /\ Rest(s, n) \in Chars /\ Len(Rest(s, n)) = Len(s) - n
           /\ \A i \in 1..Len(s) - n : Rest(s, n)[i] = s[n + i]
  <1>1. s \in Seq(ToSet(Bytes)) /\ Len(s) \in Nat
    BY DEF Chars
  <1>2. Rest(s, n) = Drop(s, n)
    BY DEF Rest, Drop
  <1> QED  BY <1>1, <1>2, TakeIs DEF Chars

LEMMA BehindFirst ==
    ASSUME NEW s \in Chars, s # <<>>
    PROVE  /\ Len(s) \in Nat \ {0} /\ s[1] \in ToSet(Bytes) /\ Tail(s) = Rest(s, 1)
           /\ Tail(s) \in Chars /\ Len(Tail(s)) = Len(s) - 1
           /\ \A i \in 1..Len(s) - 1 : Tail(s)[i] = s[1 + i]
  <1>1. Len(s) \in Nat \ {0} /\ s[1] \in ToSet(Bytes)
    BY EmptySeq DEF Chars
  <1>2. Tail(s) = Rest(s, 1)
    BY DEF Rest, Chars
  <1>3. 1 \in 0..Len(s)
    BY <1>1
  <1> QED  BY <1>1, <1>2, <1>3, RestOf

ElementSet == [set : SUBSET ToSet(Bytes), star : BOOLEAN]

\* An element takes so many characters of a text.
Takes(e, t, i) == (~e.star => i = 1) /\ \A j \in 1..i : t[j] \in e.set

\* The text is cut into pieces, one for each element.
IsCut(cut, elems, t) ==
    /\ cut \in [0..Len(elems) -> 0..Len(t)] /\ cut[0] = 0 /\ cut[Len(elems)] = Len(t)
    /\ \A k \in 1..Len(elems) :
          /\ elems[k].star => cut[k - 1] <= cut[k]
          /\ ~elems[k].star => cut[k] = cut[k - 1] + 1
          /\ \A i \in cut[k - 1] + 1..cut[k] : t[i] \in elems[k].set

LEMMA DenotesIs ==
    ASSUME NEW elems \in Seq(ElementSet), NEW t
    PROVE  Denotes(elems, t) <=> \E cut : IsCut(cut, elems, t)
  <1>1. DOMAIN elems = 1..Len(elems)
    OBVIOUS
  <1> QED  BY <1>1 DEF Denotes, IsCut

LEMMA DenotesNothing ==
    ASSUME NEW t \in Chars
    PROVE  Denotes(<<>>, t) <=> t = <<>>
  <1>1. <<>> \in Seq(ElementSet) /\ Len(<<>>) = 0
    OBVIOUS
  <1>2. Len(t) \in Nat /\ (Len(t) = 0 <=> t = <<>>)
    BY EmptySeq DEF Chars
  <1>3. ASSUME NEW cut, IsCut(cut, <<>>, t) PROVE t = <<>>
    BY <1>1, <1>2, <1>3 DEF IsCut
  <1>4. ASSUME t = <<>> PROVE \E cut : IsCut(cut, <<>>, t)
    <2> DEFINE cut == [k \in 0..0 |-> 0]
    <2>1. cut \in [0..0 -> 0..0] /\ cut[0] = 0
      OBVIOUS
    <2> HIDE DEF cut
    <2>2. IsCut(cut, <<>>, t)
      BY <1>1, <1>2, <1>4, <2>1 DEF IsCut
    <2> QED  BY <2>2
  <1>5. Denotes(<<>>, t) <=> \E cut : IsCut(cut, <<>>, t)
    BY <1>1, DenotesIs
  <1> QED  BY <1>3, <1>4, <1>5

LEMMA DenotesMore ==
    ASSUME NEW e \in ElementSet, NEW es \in Seq(ElementSet), NEW t \in Chars
    PROVE  Denotes(<<e>> \o es, t) <=> \E i \in 0..Len(t) : Takes(e, t, i) /\ Denotes(es, Rest(t, i))
  <1> DEFINE c == <<e>> \o es
             n == Len(es)
  <1>1. /\ c \in Seq(ElementSet) /\ n \in Nat /\ Len(c) = n + 1 /\ c[1] = e
        /\ \A k \in 1..n : c[k + 1] = es[k]
    <2>1. <<e>> \in Seq(ElementSet) /\ Len(<<e>>) = 1 /\ <<e>>[1] = e
      OBVIOUS
    <2> DEFINE a == <<e>>
    <2> HIDE DEF a
    <2>2. /\ a \o es \in Seq(ElementSet) /\ Len(a \o es) = Len(a) + Len(es) /\ Len(a) \in Nat /\ Len(es) \in Nat
          /\ \A i \in 1..Len(a) : (a \o es)[i] = a[i]
          /\ \A i \in 1..Len(es) : (a \o es)[Len(a) + i] = es[i]
      BY <2>1, JoinedAt DEF a
    <2>3. Len(a) = 1 /\ a[1] = e
      BY <2>1 DEF a
    <2>4. c = a \o es
      BY DEF a
    <2> HIDE DEF c
    <2> QED  BY <2>2, <2>3, <2>4
  <1>2. Len(t) \in Nat
    BY DEF Chars
  <1> HIDE DEF c, n
  <1>3. ASSUME NEW cut, IsCut(cut, c, t)
        PROVE  \E i \in 0..Len(t) : Takes(e, t, i) /\ Denotes(es, Rest(t, i))
    <2> DEFINE i == cut[1]
    <2>1. /\ cut \in [0..n + 1 -> 0..Len(t)] /\ cut[0] = 0 /\ cut[n + 1] = Len(t)
          /\ \A k \in 1..n + 1 : /\ c[k].star => cut[k - 1] <= cut[k]
                                 /\ ~c[k].star => cut[k] = cut[k - 1] + 1
                                 /\ \A j \in cut[k - 1] + 1..cut[k] : t[j] \in c[k].set
      BY <1>1, <1>3 DEF IsCut
    <2>2. i \in 0..Len(t) /\ Takes(e, t, i)
      <3>1. 1 \in 1..n + 1 /\ 1 - 1 = 0
        BY <1>1
      <3>2. i \in 0..Len(t)
        BY <2>1, <3>1
      <3>3. /\ e.star => cut[1 - 1] <= i
            /\ ~e.star => i = cut[1 - 1] + 1
            /\ \A j \in cut[1 - 1] + 1..i : t[j] \in e.set
        BY <1>1, <2>1, <3>1
      <3>4. cut[1 - 1] = 0
        BY <2>1, <3>1
      <3> HIDE DEF i
      <3>5. ~e.star => i = 0 + 1
        BY <3>3, <3>4
      <3>6. \A j \in 0 + 1..i : t[j] \in e.set
        BY <3>3, <3>4
      <3> QED  BY <3>2, <3>5, <3>6 DEF Takes
    <2>3. \A k \in 0..n : cut[k + 1] >= i
      <3> DEFINE T == {k \in 0..n : cut[k + 1] >= i}
      <3>1. 0 \in T
        BY <1>1, <1>2, <2>2
      <3>2. ASSUME NEW k \in 0..n - 1, k \in T PROVE k + 1 \in T
        <4>1. k + 2 \in 1..n + 1 /\ (k + 2) - 1 = k + 1 /\ k + 1 \in 0..n + 1 /\ k + 1 \in 0..n
          BY <1>1
        <4>2. cut[k + 1] <= cut[k + 2]
          <5>1. cut[k + 1] \in Nat /\ cut[k + 2] \in Nat
            BY <2>1, <4>1
          <5>2. c[k + 2].star => cut[k + 1] <= cut[k + 2]
            BY <2>1, <4>1
          <5>3. ~c[k + 2].star => cut[k + 2] = cut[k + 1] + 1
            BY <2>1, <4>1
          <5> QED  BY <5>1, <5>2, <5>3
        <4>3. cut[k + 1] \in Nat /\ cut[k + 2] \in Nat /\ i \in Nat
          BY <1>2, <2>1, <2>2, <4>1
        <4>4. (k + 1) + 1 = k + 2
          BY <1>1
        <4> HIDE DEF i
        <4> QED  BY <3>2, <4>1, <4>2, <4>3, <4>4
      <3>3. \A k \in 0..n : k \in T
        <4> HIDE DEF T
        <4> QED  BY <1>1, <3>1, <3>2, Induct
      <3> QED  BY <3>3
    <2> DEFINE d == [k \in 0..n |-> cut[k + 1] - i]
               r == Rest(t, i)
    <2>4. \A k \in 0..n : d[k] = cut[k + 1] - i
      OBVIOUS
    <2>5. r \in Chars /\ Len(r) = Len(t) - i /\ \A j \in 1..Len(t) - i : r[j] = t[i + j]
      BY <2>2, RestOf
    <2>6. d \in [0..n -> 0..Len(r)]
      <3>1. ASSUME NEW k \in 0..n PROVE cut[k + 1] - i \in 0..Len(r)
        <4>1. k + 1 \in 0..n + 1
          BY <1>1
        <4>2. cut[k + 1] \in 0..Len(t) /\ cut[k + 1] >= i
          BY <2>1, <2>3, <4>1
        <4> HIDE DEF i, r
        <4> QED  BY <1>2, <2>2, <2>5, <4>2
      <3> QED  BY <3>1
    <2> HIDE DEF d, r
    <2>7. d[0] = 0
      BY <1>1, <1>2, <2>2, <2>4
    <2>8. d[n] = Len(r)
      BY <1>1, <2>1, <2>4, <2>5
    <2>9. ASSUME NEW k \in 1..n
          PROVE  /\ es[k].star => d[k - 1] <= d[k]
                 /\ ~es[k].star => d[k] = d[k - 1] + 1
                 /\ \A j \in d[k - 1] + 1..d[k] : r[j] \in es[k].set
      <3>1. k + 1 \in 1..n + 1 /\ (k + 1) - 1 = k /\ k \in 0..n /\ k - 1 \in 0..n /\ (k - 1) + 1 = k /\ k \in 0..n + 1
            /\ k + 1 \in 0..n + 1
        BY <1>1
      <3> DEFINE x == cut[k]
                 y == cut[k + 1]
      <3>2. d[k] = y - i /\ d[k - 1] = x - i
        BY <2>4, <3>1
      <3>3. x \in 0..Len(t) /\ y \in 0..Len(t) /\ x >= i /\ y >= i
        <4>1. x >= i
          BY <2>3, <3>1
        <4>2. y >= i
          BY <2>3, <3>1
        <4> QED  BY <2>1, <3>1, <4>1, <4>2
      <3>4. /\ es[k].star => x <= y
            /\ ~es[k].star => y = x + 1
            /\ \A j \in x + 1..y : t[j] \in es[k].set
        BY <1>1, <2>1, <3>1
      <3> HIDE DEF x, y, i
      <3>5. ASSUME NEW j \in d[k - 1] + 1..d[k] PROVE r[j] \in es[k].set
        <4>1. i + j \in x + 1..y /\ j \in 1..Len(t) - i
          BY <1>2, <2>2, <3>2, <3>3
        <4> QED  BY <2>5, <3>4, <4>1
      <3>6. /\ es[k].star => d[k - 1] <= d[k]
            /\ ~es[k].star => d[k] = d[k - 1] + 1
        BY <1>2, <2>2, <3>2, <3>3, <3>4
      <3> QED  BY <3>5, <3>6
    <2>10. IsCut(d, es, r)
      BY <2>6, <2>7, <2>8, <2>9 DEF IsCut, n
    <2>11. Denotes(es, r)
      BY <2>10, DenotesIs
    <2> QED  BY <2>2, <2>11 DEF r
  <1>4. ASSUME NEW i \in 0..Len(t), Takes(e, t, i), NEW d, IsCut(d, es, Rest(t, i))
        PROVE  \E cut : IsCut(cut, c, t)
    <2> DEFINE r == Rest(t, i)
    <2>1. r \in Chars /\ Len(r) = Len(t) - i /\ \A j \in 1..Len(t) - i : r[j] = t[i + j]
      BY RestOf
    <2>2. /\ d \in [0..n -> 0..Len(r)] /\ d[0] = 0 /\ d[n] = Len(r)
          /\ \A k \in 1..n : /\ es[k].star => d[k - 1] <= d[k]
                             /\ ~es[k].star => d[k] = d[k - 1] + 1
                             /\ \A j \in d[k - 1] + 1..d[k] : r[j] \in es[k].set
      BY <1>4 DEF IsCut, n
    <2> HIDE DEF r
    <2> DEFINE cut == [k \in 0..n + 1 |-> IF k = 0 THEN 0 ELSE d[k - 1] + i]
    <2>3. cut[0] = 0 /\ \A k \in 0..n : cut[k + 1] = d[k] + i
      <3>1. 0 \in 0..n + 1 /\ \A k \in 0..n : k + 1 \in 0..n + 1 /\ k + 1 # 0 /\ (k + 1) - 1 = k
        BY <1>1
      <3> QED  BY <3>1
    <2>4. \A k \in 0..n : d[k] + i \in 0..Len(t)
      BY <1>2, <2>1, <2>2
    <2>5. cut \in [0..n + 1 -> 0..Len(t)]
      <3>1. ASSUME NEW k \in 0..n + 1 PROVE (IF k = 0 THEN 0 ELSE d[k - 1] + i) \in 0..Len(t)
        <4>1. k # 0 => k - 1 \in 0..n
          BY <1>1
        <4> QED  BY <1>2, <2>4, <4>1
      <3> QED  BY <3>1
    <2> HIDE DEF cut
    <2>6. cut[n + 1] = Len(t)
      BY <1>1, <1>2, <2>1, <2>2, <2>3
    <2>7. ASSUME NEW k \in 1..n + 1
          PROVE  /\ c[k].star => cut[k - 1] <= cut[k]
                 /\ ~c[k].star => cut[k] = cut[k - 1] + 1
                 /\ \A j \in cut[k - 1] + 1..cut[k] : t[j] \in c[k].set
      <3>1. CASE k = 1
        <4>1. k - 1 = 0 /\ 0 \in 0..n /\ 0 + 1 = 1
          BY <1>1, <3>1
        <4>2. cut[1] = i /\ cut[k - 1] = 0 /\ cut[k] = i /\ c[k] = e
          BY <1>1, <2>2, <2>3, <3>1, <4>1
        <4>3. /\ ~e.star => i = 1
              /\ \A j \in 1..i : t[j] \in e.set
          BY <1>4 DEF Takes
        <4> QED  BY <4>2, <4>3
      <3>2. CASE k # 1
        <4> DEFINE m == k - 1
        <4>1. m \in 1..n /\ m \in 0..n /\ m - 1 \in 0..n /\ (m - 1) + 1 = m /\ m + 1 = k
          BY <1>1, <3>2
        <4>2. cut[m] = d[m - 1] + i /\ cut[k] = d[m] + i /\ c[k] = es[m]
          BY <1>1, <2>3, <4>1
        <4>3. d[m] \in 0..Len(r) /\ d[m - 1] \in 0..Len(r)
          BY <2>2, <4>1
        <4>4. /\ es[m].star => d[m - 1] <= d[m]
              /\ ~es[m].star => d[m] = d[m - 1] + 1
              /\ \A j \in d[m - 1] + 1..d[m] : r[j] \in es[m].set
          BY <2>2, <4>1
        <4> DEFINE x == d[m - 1]
                   y == d[m]
        <4>5. cut[k - 1] = x + i /\ cut[k] = y + i
          BY <4>2
        <4> HIDE DEF x, y
        <4>6. x \in 0..Len(r) /\ y \in 0..Len(r)
          BY <4>3 DEF x, y
        <4>7. ASSUME NEW j \in x + i + 1..y + i PROVE t[j] \in es[m].set
          <5>1. j - i \in x + 1..y /\ j - i \in 1..Len(t) - i /\ i + (j - i) = j
            BY <1>2, <2>1, <4>6
          <5>2. r[j - i] \in es[m].set
            BY <4>4, <5>1 DEF x, y
          <5>3. r[j - i] = t[i + (j - i)]
            BY <2>1, <5>1
          <5> QED  BY <5>1, <5>2, <5>3
        <4>8. /\ es[m].star => x + i <= y + i
              /\ ~es[m].star => y + i = x + i + 1
          <5>1. /\ es[m].star => x <= y
                /\ ~es[m].star => y = x + 1
            BY <4>4 DEF x, y
          <5> QED  BY <1>2, <2>1, <4>6, <5>1
        <4> QED  BY <4>2, <4>5, <4>7, <4>8
      <3> QED  BY <3>1, <3>2
    <2>8. IsCut(cut, c, t)
      BY <1>1, <2>3, <2>5, <2>6, <2>7 DEF IsCut
    <2> QED  BY <2>8
  <1>5. Denotes(c, t) <=> \E cut : IsCut(cut, c, t)
    BY <1>1, DenotesIs
  <1>6. \A i \in 0..Len(t) : Denotes(es, Rest(t, i)) <=> \E d : IsCut(d, es, Rest(t, i))
    BY DenotesIs
  <1> QED  BY <1>3, <1>4, <1>5, <1>6 DEF c

LEMMA PieceOf ==
    ASSUME NEW s \in Chars, NEW i \in Nat \ {0}, NEW j \in Nat, i <= j + 1, j <= Len(s)
    PROVE  /\ SubSeq(s, i, j) \in Chars /\ Len(SubSeq(s, i, j)) = j - i + 1
           /\ \A k \in 1..j - i + 1 : SubSeq(s, i, j)[k] = s[i + k - 1]
  <1>1. \A k \in i..j : s[k] \in ToSet(Bytes)
    BY DEF Chars
  <1>2. SubSeq(s, i, j) \in Chars
    BY <1>1 DEF Chars
  <1> QED  BY <1>2, SubSeqProperties DEF Chars

LEMMA SameChars ==
    ASSUME NEW u \in Chars, NEW v \in Chars, Len(u) = Len(v), \A k \in 1..Len(u) : u[k] = v[k]
    PROVE  u = v
  BY SeqEqual DEF Chars

----------------------------------------------------------------------------
(* The members of a class *)

LEMMA BetweenIs ==
    ASSUME NEW lo \in ToSet(Bytes), NEW hi \in ToSet(Bytes)
    PROVE  Between(lo, hi) \subseteq ToSet(Bytes)
  <1>1. \A c \in ToSet(Bytes) : Ord(c) \in 1..Len(Bytes)
    BY GlobAssumption DEF ToSet, Ord
  <1>2. Len(Bytes) \in Nat /\ DOMAIN Bytes = 1..Len(Bytes)
    BY GlobAssumption
  <1>3. Ord(lo) \in 1..Len(Bytes) /\ Ord(hi) \in 1..Len(Bytes)
    BY <1>1
  <1>4. \A i \in Ord(lo)..Ord(hi) : i \in DOMAIN Bytes
    BY <1>2, <1>3
  <1> QED  BY <1>4 DEF Between, ToSet

CharSets == SUBSET ToSet(Bytes)

MembersOf(f, s) ==
    IF s = <<>> THEN {}
    ELSE IF Len(s) >= 3 /\ s[2] = "-" THEN Between(s[1], s[3]) \cup f[Rest(s, 3)]
    ELSE {s[1]} \cup f[Tail(s)]

LEMMA MembersTyped ==
    ASSUME NEW s \in Chars, NEW f, \A t \in Chars : Len(t) < Len(s) => f[t] \in CharSets
    PROVE  MembersOf(f, s) \in CharSets
  <1>1. CASE s = <<>>
    BY <1>1 DEF MembersOf, CharSets
  <1>2. CASE s # <<>>
    <2>1. Tail(s) \in Chars /\ Len(Tail(s)) < Len(s) /\ s[1] \in ToSet(Bytes) /\ Len(s) \in Nat
      BY <1>2, BehindFirst
    <2>2. ASSUME Len(s) >= 3 PROVE /\ Rest(s, 3) \in Chars /\ Len(Rest(s, 3)) < Len(s)
                                   /\ Between(s[1], s[3]) \subseteq ToSet(Bytes)
      <3>1. s[3] \in ToSet(Bytes) /\ 3 \in 0..Len(s)
        BY <2>1, <2>2 DEF Chars
      <3>2. Rest(s, 3) \in Chars /\ Len(Rest(s, 3)) = Len(s) - 3
        BY <3>1, RestOf
      <3> QED  BY <2>1, <3>1, <3>2, BetweenIs
    <2> QED  BY <1>2, <2>1, <2>2 DEF MembersOf, CharSets
  <1> QED  BY <1>1, <1>2

LEMMA MembersSame ==
    ASSUME NEW s \in Chars, NEW f, NEW g, \A t \in Chars : Len(t) < Len(s) => f[t] = g[t]
    PROVE  MembersOf(f, s) = MembersOf(g, s)
  <1>1. CASE s = <<>>
    BY <1>1 DEF MembersOf, CharSets
  <1>2. CASE s # <<>>
    <2>1. Tail(s) \in Chars /\ Len(Tail(s)) < Len(s) /\ Len(s) \in Nat
      BY <1>2, BehindFirst
    <2>2. ASSUME Len(s) >= 3 PROVE Rest(s, 3) \in Chars /\ Len(Rest(s, 3)) < Len(s)
      <3>1. 3 \in 0..Len(s)
        BY <2>1, <2>2
      <3>2. Rest(s, 3) \in Chars /\ Len(Rest(s, 3)) = Len(s) - 3
        BY <3>1, RestOf
      <3> QED  BY <2>1, <3>2
    <2> QED  BY <1>2, <2>1, <2>2 DEF MembersOf, CharSets
  <1> QED  BY <1>1, <1>2

LEMMA MembersIs ==
    \A s \in Chars : Members[s] \in CharSets /\ Members[s] = MembersOf(Members, s)
  <1> DEFINE F == [Chars -> CharSets]
             step == [s \in Chars |-> [f \in F |-> MembersOf(f, s)]]
  <1>1. \A s \in Chars : \A f \in F : MembersOf(f, s) \in CharSets
    <2> SUFFICES ASSUME NEW s \in Chars, NEW f \in F PROVE MembersOf(f, s) \in CharSets
      OBVIOUS
    <2>1. \A t \in Chars : f[t] \in CharSets
      OBVIOUS
    <2> QED  BY <2>1, MembersTyped
  <1>2. step \in [Chars -> [F -> CharSets]] /\ \A s \in Chars : \A f \in F : step[s][f] = MembersOf(f, s)
    BY <1>1
  <1> HIDE DEF step
  <1>3. Looks(step, ToSet(Bytes), CharSets)
    <2> SUFFICES ASSUME NEW s \in Chars, NEW f \in F, NEW g \in F,
                        \A t \in Chars : Len(t) < Len(s) => f[t] = g[t]
                 PROVE  step[s][f] = step[s][g]
      BY DEF Looks, Chars
    <2>1. MembersOf(f, s) = MembersOf(g, s)
      BY MembersSame
    <2> QED  BY <1>2, <2>1
  <1>4. CharSets # {}
    BY DEF CharSets
  <1>5. PICK h \in F : \A s \in Chars : h[s] = MembersOf(h, s)
    <2>1. \E h \in [Seq(ToSet(Bytes)) -> CharSets] : RecursOn(h, ToSet(Bytes), step)
      BY <1>2, <1>3, <1>4, RecursionByLength DEF Chars
    <2>2. PICK h \in F : RecursOn(h, ToSet(Bytes), step)
      BY <2>1 DEF Chars
    <2> QED  BY <1>2, <2>2 DEF RecursOn, Chars
  <1>6. h = [s \in Chars |-> MembersOf(h, s)]
    BY <1>5
  <1>7. Members = CHOOSE f : f = [s \in Chars |-> MembersOf(f, s)]
    BY DEF Members, MembersOf
  <1>8. Members = [s \in Chars |-> MembersOf(Members, s)]
    BY <1>6, <1>7
  <1>9. \A s \in Chars : Members[s] = MembersOf(Members, s)
    BY <1>8
  <1>10. \A s \in Chars : Members[s] \in CharSets
    <2> DEFINE T == {s \in Chars : Members[s] \in CharSets}
    <2>1. ASSUME NEW s \in Chars, \A t \in Chars : Len(t) < Len(s) => t \in T PROVE s \in T
      <3>1. \A t \in Chars : Len(t) < Len(s) => Members[t] \in CharSets
        BY <2>1
      <3>2. MembersOf(Members, s) \in CharSets
        BY <3>1, MembersTyped
      <3> QED  BY <1>9, <3>2
    <2>2. \A s \in Chars : s \in T
      <3> HIDE DEF T
      <3> QED  BY <2>1, ByLength DEF Chars
    <2> QED  BY <2>2
  <1> QED  BY <1>9, <1>10

ClassOf(f, p) ==
    IF p = <<>> THEN [set |-> {}, end |-> 0]
    ELSE IF p[1] = "]" THEN [set |-> {}, end |-> 1]
    ELSE LET range == Len(p) >= 3 /\ p[2] = "-" /\ p[3] # "]"
             n     == IF range THEN 3 ELSE 1
             rest  == f[Rest(p, n)]
         IN  [set |-> rest.set \cup (IF range THEN Between(p[1], p[3]) ELSE {p[1]}),
              end |-> IF rest.end = 0 THEN 0 ELSE n + rest.end]

Classes == [set : CharSets, end : Nat]

\* How many characters a member is written in, and what it adds.
IsRange(p) == Len(p) >= 3 /\ p[2] = "-" /\ p[3] # "]"
MemberLen(p) == IF IsRange(p) THEN 3 ELSE 1
Added(p) == IF IsRange(p) THEN Between(p[1], p[3]) ELSE {p[1]}

LEMMA MemberIs ==
    ASSUME NEW p \in Chars, p # <<>>
    PROVE  /\ MemberLen(p) \in 1..Len(p) /\ MemberLen(p) \in Nat /\ Len(p) \in Nat \ {0}
           /\ Rest(p, MemberLen(p)) \in Chars /\ Len(Rest(p, MemberLen(p))) = Len(p) - MemberLen(p)
           /\ Len(Rest(p, MemberLen(p))) < Len(p) /\ Added(p) \in CharSets
  <1>1. Len(p) \in Nat \ {0} /\ p[1] \in ToSet(Bytes)
    BY BehindFirst
  <1>2. MemberLen(p) \in 1..Len(p)
    BY <1>1 DEF MemberLen, IsRange
  <1>3. Rest(p, MemberLen(p)) \in Chars /\ Len(Rest(p, MemberLen(p))) = Len(p) - MemberLen(p)
    <2>1. MemberLen(p) \in 0..Len(p)
      BY <1>1, <1>2
    <2> QED  BY <2>1, RestOf
  <1>4. Added(p) \in CharSets
    <2>1. IsRange(p) => p[3] \in ToSet(Bytes)
      BY <1>1 DEF IsRange, Chars
    <2> QED  BY <1>1, <2>1, BetweenIs DEF Added, CharSets
  <1> QED  BY <1>1, <1>2, <1>3, <1>4

LEMMA ClassMore ==
    ASSUME NEW p \in Chars, p # <<>>, p[1] # "]", NEW f
    PROVE  ClassOf(f, p) = [set |-> f[Rest(p, MemberLen(p))].set \cup Added(p),
                            end |-> IF f[Rest(p, MemberLen(p))].end = 0 THEN 0
                                    ELSE MemberLen(p) + f[Rest(p, MemberLen(p))].end]
  BY DEF ClassOf, MemberLen, Added, IsRange

LEMMA ClassFromTyped ==
    ASSUME NEW s \in Chars, NEW f, \A t \in Chars : Len(t) < Len(s) => f[t] \in Classes
    PROVE  ClassOf(f, s) \in Classes
  <1>1. CASE s = <<>> \/ s[1] = "]"
    BY <1>1 DEF ClassOf, Classes, CharSets
  <1>2. CASE s # <<>> /\ s[1] # "]"
    <2> DEFINE r == f[Rest(s, MemberLen(s))]
               n == MemberLen(s)
               a == Added(s)
    <2>1. r \in Classes /\ n \in Nat /\ a \in CharSets
      BY <1>2, MemberIs
    <2>2. ClassOf(f, s) = [set |-> r.set \cup a, end |-> IF r.end = 0 THEN 0 ELSE n + r.end]
      BY <1>2, ClassMore
    <2> HIDE DEF r, n, a
    <2>3. r.set \in CharSets /\ r.end \in Nat
      BY <2>1 DEF Classes
    <2>4. r.set \cup a \in CharSets /\ (IF r.end = 0 THEN 0 ELSE n + r.end) \in Nat
      BY <2>1, <2>3 DEF CharSets
    <2> QED  BY <2>2, <2>4 DEF Classes
  <1> QED  BY <1>1, <1>2

LEMMA ClassFromSame ==
    ASSUME NEW s \in Chars, NEW f, NEW g, \A t \in Chars : Len(t) < Len(s) => f[t] = g[t]
    PROVE  ClassOf(f, s) = ClassOf(g, s)
  <1>1. CASE s = <<>> \/ s[1] = "]"
    BY <1>1 DEF ClassOf
  <1>2. CASE s # <<>> /\ s[1] # "]"
    <2> DEFINE r == f[Rest(s, MemberLen(s))]
               q == g[Rest(s, MemberLen(s))]
               n == MemberLen(s)
               a == Added(s)
    <2>1. r = q
      BY <1>2, MemberIs
    <2>2. ClassOf(f, s) = [set |-> r.set \cup a, end |-> IF r.end = 0 THEN 0 ELSE n + r.end]
      BY <1>2, ClassMore
    <2>3. ClassOf(g, s) = [set |-> q.set \cup a, end |-> IF q.end = 0 THEN 0 ELSE n + q.end]
      BY <1>2, ClassMore
    <2> HIDE DEF r, q, n, a
    <2> QED  BY <2>1, <2>2, <2>3
  <1> QED  BY <1>1, <1>2

LEMMA ClassFromIs ==
    \A s \in Chars : ClassFrom[s] \in Classes /\ ClassFrom[s] = ClassOf(ClassFrom, s)
  <1> DEFINE F == [Chars -> Classes]
             step == [s \in Chars |-> [f \in F |-> ClassOf(f, s)]]
  <1>1. \A s \in Chars : \A f \in F : ClassOf(f, s) \in Classes
    <2> SUFFICES ASSUME NEW s \in Chars, NEW f \in F PROVE ClassOf(f, s) \in Classes
      OBVIOUS
    <2>1. \A t \in Chars : f[t] \in Classes
      OBVIOUS
    <2> QED  BY <2>1, ClassFromTyped
  <1>2. step \in [Chars -> [F -> Classes]] /\ \A s \in Chars : \A f \in F : step[s][f] = ClassOf(f, s)
    BY <1>1
  <1> HIDE DEF step
  <1>3. Looks(step, ToSet(Bytes), Classes)
    <2> SUFFICES ASSUME NEW s \in Chars, NEW f \in F, NEW g \in F,
                        \A t \in Chars : Len(t) < Len(s) => f[t] = g[t]
                 PROVE  step[s][f] = step[s][g]
      BY DEF Looks, Chars
    <2>1. ClassOf(f, s) = ClassOf(g, s)
      BY ClassFromSame
    <2> QED  BY <1>2, <2>1
  <1>4. Classes # {}
    <2>1. [set |-> {}, end |-> 0] \in Classes
      BY DEF Classes, CharSets
    <2> QED  BY <2>1
  <1>5. PICK h \in F : \A s \in Chars : h[s] = ClassOf(h, s)
    <2>1. \E h \in [Seq(ToSet(Bytes)) -> Classes] : RecursOn(h, ToSet(Bytes), step)
      BY <1>2, <1>3, <1>4, RecursionByLength DEF Chars
    <2>2. PICK h \in F : RecursOn(h, ToSet(Bytes), step)
      BY <2>1 DEF Chars
    <2> QED  BY <1>2, <2>2 DEF RecursOn, Chars
  <1>6. h = [s \in Chars |-> ClassOf(h, s)]
    BY <1>5
  <1>7. ClassFrom = CHOOSE f : f = [s \in Chars |-> ClassOf(f, s)]
    BY DEF ClassFrom, ClassOf
  <1>8. ClassFrom = [s \in Chars |-> ClassOf(ClassFrom, s)]
    BY <1>6, <1>7
  <1>9. \A s \in Chars : ClassFrom[s] = ClassOf(ClassFrom, s)
    BY <1>8
  <1>10. \A s \in Chars : ClassFrom[s] \in Classes
    <2> DEFINE T == {s \in Chars : ClassFrom[s] \in Classes}
    <2>1. ASSUME NEW s \in Chars, \A t \in Chars : Len(t) < Len(s) => t \in T PROVE s \in T
      <3>1. \A t \in Chars : Len(t) < Len(s) => ClassFrom[t] \in Classes
        BY <2>1
      <3>2. ClassOf(ClassFrom, s) \in Classes
        BY <3>1, ClassFromTyped
      <3> QED  BY <1>9, <3>2
    <2>2. \A s \in Chars : s \in T
      <3> HIDE DEF T
      <3> QED  BY <2>1, ByLength DEF Chars
    <2> QED  BY <2>2
  <1> QED  BY <1>9, <1>10

LEMMA PieceOfRest ==
    ASSUME NEW p \in Chars, NEW n \in 0..Len(p), NEW j \in n..Len(p)
    PROVE  /\ SubSeq(Rest(p, n), 1, j - n) = SubSeq(p, n + 1, j)
           /\ Rest(SubSeq(p, 1, j), n) = SubSeq(p, n + 1, j)
           /\ SubSeq(p, n + 1, j) \in Chars
  <1>1. Len(p) \in Nat /\ j \in Nat /\ n + 1 \in Nat \ {0} /\ n \in Nat /\ j - n \in Nat
    BY DEF Chars
  <1> DEFINE r == Rest(p, n)
             q == SubSeq(p, 1, j)
             x == SubSeq(p, n + 1, j)
             y == SubSeq(r, 1, j - n)
             z == Rest(q, n)
  <1>2. r \in Chars /\ Len(r) = Len(p) - n /\ \A i \in 1..Len(p) - n : r[i] = p[n + i]
    BY RestOf
  <1>3. q \in Chars /\ Len(q) = j /\ \A k \in 1..j : q[k] = p[k]
    <2>1. q \in Chars /\ Len(q) = j - 1 + 1 /\ \A k \in 1..j - 1 + 1 : q[k] = p[1 + k - 1]
      BY <1>1, PieceOf
    <2> HIDE DEF q
    <2>2. j - 1 + 1 = j /\ \A k \in 1..j : 1 + k - 1 = k
      BY <1>1
    <2> QED  BY <2>1, <2>2
  <1>4. x \in Chars /\ Len(x) = j - n /\ \A k \in 1..j - n : x[k] = p[n + k]
    <2>1. x \in Chars /\ Len(x) = j - (n + 1) + 1 /\ \A k \in 1..j - (n + 1) + 1 : x[k] = p[(n + 1) + k - 1]
      BY <1>1, PieceOf
    <2> HIDE DEF x
    <2>2. j - (n + 1) + 1 = j - n /\ \A k \in 1..j - n : (n + 1) + k - 1 = n + k
      BY <1>1
    <2> QED  BY <2>1, <2>2
  <1> HIDE DEF r, q
  <1>5. y \in Chars /\ Len(y) = j - n /\ \A k \in 1..j - n : y[k] = p[n + k]
    <2>1. j - n <= Len(r) /\ 1 <= (j - n) + 1
      BY <1>1, <1>2
    <2>2. y \in Chars /\ Len(y) = (j - n) - 1 + 1 /\ \A k \in 1..(j - n) - 1 + 1 : y[k] = r[1 + k - 1]
      BY <1>1, <1>2, <2>1, PieceOf
    <2> HIDE DEF y
    <2>3. (j - n) - 1 + 1 = j - n /\ \A k \in 1..j - n : 1 + k - 1 = k /\ k \in 1..Len(p) - n
      BY <1>1
    <2> QED  BY <1>2, <2>2, <2>3
  <1>6. z \in Chars /\ Len(z) = j - n /\ \A k \in 1..j - n : z[k] = p[n + k]
    <2>1. n \in 0..Len(q)
      BY <1>1, <1>3
    <2>2. z \in Chars /\ Len(z) = Len(q) - n /\ \A k \in 1..Len(q) - n : z[k] = q[n + k]
      BY <1>3, <2>1, RestOf
    <2> HIDE DEF z
    <2>3. \A k \in 1..j - n : n + k \in 1..j
      BY <1>1
    <2> QED  BY <1>3, <2>2, <2>3
  <1> HIDE DEF x, y, z
  <1>7. y = x /\ z = x
    BY <1>4, <1>5, <1>6, SameChars
  <1> QED  BY <1>4, <1>7 DEF x, y, z, r, q

\* A class as parse_class reads it is that of the first bracket.
IsClass(p, c) ==
    /\ c.end = 0 => \A k \in 1..Len(p) : p[k] # "]"
    /\ c.end # 0 => /\ c.end \in 1..Len(p) /\ p[c.end] = "]" /\ \A k \in 1..c.end - 1 : p[k] # "]"
                    /\ c.set = Members[SubSeq(p, 1, c.end - 1)]

LEMMA ClassFromClosed ==
    ASSUME NEW p \in Chars, p # <<>>, p[1] # "]", IsClass(Rest(p, MemberLen(p)), ClassFrom[Rest(p, MemberLen(p))])
    PROVE  IsClass(p, ClassFrom[p])
  <1> DEFINE n == MemberLen(p)
             r == Rest(p, n)
             c == ClassFrom[r]
             a == Added(p)
  <1>1. /\ n \in 1..Len(p) /\ n \in Nat /\ n \in 0..Len(p) /\ Len(p) \in Nat \ {0}
        /\ a \in CharSets
    BY MemberIs
  <1>2. r \in Chars /\ Len(r) = Len(p) - n /\ \A i \in 1..Len(p) - n : r[i] = p[n + i]
    BY <1>1, RestOf
  <1>3. c \in Classes
    BY <1>2, ClassFromIs
  <1>4. ClassFrom[p] = [set |-> c.set \cup a, end |-> IF c.end = 0 THEN 0 ELSE n + c.end]
    <2>1. ClassFrom[p] = ClassOf(ClassFrom, p)
      BY ClassFromIs
    <2> QED  BY <2>1, ClassMore
  <1>5. \A k \in 1..n : p[k] # "]"
    <2>1. CASE IsRange(p)
      <3>1. n = 3 /\ p[2] = "-" /\ p[3] # "]"
        BY <2>1 DEF MemberLen, IsRange
      <3>2. \A k \in 1..3 : k = 1 \/ k = 2 \/ k = 3
        OBVIOUS
      <3> HIDE DEF n
      <3> QED  BY <3>1, <3>2
    <2>2. CASE ~IsRange(p)
      <3>1. n = 1
        BY <2>2 DEF MemberLen
      <3> HIDE DEF n
      <3> QED  BY <3>1
    <2> QED  BY <2>1, <2>2
  <1>6. IsClass(r, c)
    OBVIOUS
  <1> HIDE DEF c
  <1>7. CASE c.end = 0
    <2>1. ASSUME NEW k \in 1..Len(p) PROVE p[k] # "]"
      <3>1. CASE k \in 1..n
        BY <1>5, <3>1
      <3>2. CASE k > n
        <4>1. k - n \in 1..Len(p) - n /\ n + (k - n) = k
          BY <1>1, <3>2
        <4>2. r[k - n] = p[k] /\ k - n \in 1..Len(r)
          BY <1>2, <4>1
        <4>3. \A i \in 1..Len(r) : r[i] # "]"
          BY <1>6, <1>7 DEF IsClass
        <4> QED  BY <4>2, <4>3
      <3> QED  BY <1>1, <3>1, <3>2
    <2>2. ClassFrom[p].end = 0
      BY <1>4, <1>7
    <2> QED  BY <2>1, <2>2 DEF IsClass
  <1>8. CASE c.end # 0
    <2> DEFINE e == n + c.end
    <2>1. /\ c.end \in 1..Len(r) /\ r[c.end] = "]" /\ (\A k \in 1..c.end - 1 : r[k] # "]")
          /\ c.set = Members[SubSeq(r, 1, c.end - 1)]
      BY <1>6, <1>8 DEF IsClass
    <2>2. e \in 1..Len(p) /\ e > n /\ e \in Nat /\ e - n = c.end
      BY <1>1, <1>2, <2>1
    <2>3. p[e] = "]"
      BY <1>1, <1>2, <2>1
    <2>4. ClassFrom[p].end = e /\ ClassFrom[p].set = c.set \cup a
      BY <1>4, <1>8
    <2> HIDE DEF e
    <2>5. ASSUME NEW k \in 1..e - 1 PROVE p[k] # "]"
      <3>1. CASE k \in 1..n
        BY <1>5, <3>1
      <3>2. CASE k > n
        <4>1. k - n \in 1..Len(p) - n /\ n + (k - n) = k /\ k - n \in 1..c.end - 1
          BY <1>1, <2>2, <3>2
        <4>2. r[k - n] = p[k]
          BY <1>2, <4>1
        <4> QED  BY <2>1, <4>1, <4>2
      <3> QED  BY <1>1, <3>1, <3>2
    <2>6. Members[SubSeq(p, 1, e - 1)] = c.set \cup a
      <3> DEFINE q == SubSeq(p, 1, e - 1)
      <3>1. q \in Chars /\ Len(q) = e - 1 /\ \A k \in 1..e - 1 : q[k] = p[k]
        <4>1. e - 1 \in Nat /\ 1 <= (e - 1) + 1 /\ e - 1 <= Len(p) /\ (e - 1) - 1 + 1 = e - 1
              /\ \A k \in 1..e - 1 : 1 + k - 1 = k
          BY <1>1, <2>2
        <4>2. /\ q \in Chars /\ Len(q) = (e - 1) - 1 + 1
              /\ \A k \in 1..(e - 1) - 1 + 1 : q[k] = p[1 + k - 1]
          BY <4>1, PieceOf
        <4> HIDE DEF q
        <4> QED  BY <4>1, <4>2
      <3>2. Rest(q, n) = SubSeq(r, 1, c.end - 1)
        <4>1. e - 1 \in n..Len(p) /\ (e - 1) - n = c.end - 1
          BY <1>1, <2>2, <2>1, <1>2
        <4> QED  BY <1>1, <4>1, PieceOfRest
      <3> HIDE DEF q
      <3>3. q # <<>>
        <4>1. Len(q) > 0
          BY <1>1, <2>2, <3>1
        <4> QED  BY <4>1
      <3>4. q[1] = p[1]
        BY <1>1, <2>2, <3>1
      <3>5. CASE IsRange(p)
        <4>1. n = 3 /\ p[2] = "-"
          BY <3>5 DEF MemberLen, IsRange
        <4>2. Len(q) >= 3 /\ q[2] = "-" /\ q[3] = p[3]
          <5> HIDE DEF n
          <5>1. e - 1 >= 3 /\ 2 \in 1..e - 1 /\ 3 \in 1..e - 1
            BY <2>2, <4>1
          <5> QED  BY <3>1, <4>1, <5>1
        <4>3. Members[q] = Between(q[1], q[3]) \cup Members[Rest(q, 3)]
          BY <3>1, <3>3, <4>2, MembersIs DEF MembersOf
        <4>4. a = Between(p[1], p[3])
          BY <3>5 DEF Added
        <4>5. Members[Rest(q, 3)] = c.set
          <5> HIDE DEF n, r
          <5> QED  BY <2>1, <3>2, <4>1
        <4>6. Between(q[1], q[3]) = a
          BY <3>4, <4>2, <4>4
        <4> HIDE DEF a
        <4>7. Members[q] = c.set \cup a
          BY <4>3, <4>5, <4>6
        <4> QED  BY <4>7 DEF q
      <3>6. CASE ~IsRange(p)
        <4>1. n = 1 /\ a = {p[1]}
          BY <3>6 DEF MemberLen, Added
        <4>2. ~(Len(q) >= 3 /\ q[2] = "-")
          <5>1. ASSUME Len(q) >= 3, q[2] = "-" PROVE FALSE
            <6>1. 2 \in 1..e - 1 /\ 3 \in 1..e - 1 /\ Len(p) >= 3
              BY <1>1, <2>2, <3>1, <5>1
            <6>2. p[2] = "-" /\ p[3] # "]"
              BY <2>5, <3>1, <5>1, <6>1
            <6> QED  BY <3>6, <6>1, <6>2 DEF IsRange
          <5> QED  BY <5>1
        <4>3. Members[q] = {q[1]} \cup Members[Tail(q)]
          BY <3>1, <3>3, <4>2, MembersIs DEF MembersOf
        <4>4. Tail(q) = Rest(q, 1)
          BY <3>1, <3>3, BehindFirst
        <4>5. Members[Tail(q)] = c.set
          <5> HIDE DEF n, r
          <5> QED  BY <2>1, <3>2, <4>1, <4>4
        <4>6. {q[1]} = a
          BY <3>4, <4>1
        <4> HIDE DEF a
        <4>7. Members[q] = c.set \cup a
          BY <4>3, <4>5, <4>6
        <4> QED  BY <4>7 DEF q
      <3> QED  BY <3>5, <3>6 DEF q
    <2> QED  BY <2>2, <2>3, <2>4, <2>5, <2>6 DEF IsClass
  <1> QED  BY <1>7, <1>8

LEMMA ClassFromClosing == \A p \in Chars : IsClass(p, ClassFrom[p])
  <1> DEFINE T == {p \in Chars : IsClass(p, ClassFrom[p])}
  <1>1. ASSUME NEW p \in Chars, \A t \in Chars : Len(t) < Len(p) => t \in T PROVE p \in T
    <2>1. CASE p = <<>>
      <3>1. ClassFrom[p].end = 0
        <4>1. ClassFrom[p] = ClassOf(ClassFrom, p)
          BY ClassFromIs
        <4>2. ClassOf(ClassFrom, p) = [set |-> {}, end |-> 0]
          BY <2>1 DEF ClassOf
        <4> QED  BY <4>1, <4>2
      <3>2. Len(p) = 0
        BY <2>1
      <3> QED  BY <3>1, <3>2 DEF IsClass
    <2>2. CASE p # <<>> /\ p[1] = "]"
      <3>1. ClassFrom[p] = [set |-> {}, end |-> 1]
        <4>1. ClassFrom[p] = ClassOf(ClassFrom, p)
          BY ClassFromIs
        <4>2. ClassOf(ClassFrom, p) = [set |-> {}, end |-> 1]
          BY <2>2 DEF ClassOf
        <4> QED  BY <4>1, <4>2
      <3>2. SubSeq(p, 1, 0) = <<>>
        BY SubSeqEmpty
      <3>3. <<>> \in Chars
        BY DEF Chars
      <3>4. Members[<<>>] = {}
        BY <3>3, MembersIs DEF MembersOf
      <3>5. 1 \in 1..Len(p) /\ 1 - 1 = 0
        BY <2>2, BehindFirst
      <3>6. ClassFrom[p].set = Members[SubSeq(p, 1, 1 - 1)] /\ ClassFrom[p].end = 1
        <4>1. Members[SubSeq(p, 1, 1 - 1)] = {}
          BY <3>2, <3>4, <3>5
        <4> QED  BY <3>1, <4>1
      <3>7. \A k \in 1..1 - 1 : p[k] # "]"
        OBVIOUS
      <3> QED  BY <2>2, <3>5, <3>6, <3>7 DEF IsClass
    <2>3. CASE p # <<>> /\ p[1] # "]"
      <3>1. Rest(p, MemberLen(p)) \in T
        BY <1>1, <2>3, MemberIs
      <3> QED  BY <2>3, <3>1, ClassFromClosed
    <2> QED  BY <2>1, <2>2, <2>3
  <1>2. \A p \in Chars : p \in T
    <2> HIDE DEF T
    <2> QED  BY <1>1, ByLength DEF Chars
  <1> QED  BY <1>2

LEMMA RestOfRest ==
    ASSUME NEW p \in Chars, NEW m \in 0..Len(p), NEW n \in 0..Len(p) - m
    PROVE  Rest(Rest(p, m), n) = Rest(p, m + n)
  <1> DEFINE r == Rest(p, m)
             x == Rest(r, n)
             y == Rest(p, m + n)
  <1>1. Len(p) \in Nat /\ m + n \in 0..Len(p)
    BY DEF Chars
  <1>2. r \in Chars /\ Len(r) = Len(p) - m /\ \A i \in 1..Len(p) - m : r[i] = p[m + i]
    BY RestOf
  <1>3. y \in Chars /\ Len(y) = Len(p) - (m + n) /\ \A i \in 1..Len(p) - (m + n) : y[i] = p[(m + n) + i]
    BY <1>1, RestOf
  <1> HIDE DEF r
  <1>4. x \in Chars /\ Len(x) = Len(r) - n /\ \A i \in 1..Len(r) - n : x[i] = r[n + i]
    BY <1>2, RestOf
  <1> HIDE DEF x, y
  <1>5. \A i \in 1..Len(p) - (m + n) : /\ i \in 1..Len(r) - n /\ n + i \in 1..Len(p) - m
                                       /\ m + (n + i) = (m + n) + i
    BY <1>1, <1>2
  <1>6. Len(x) = Len(y) /\ \A i \in 1..Len(y) : x[i] = y[i]
    BY <1>1, <1>2, <1>3, <1>4, <1>5
  <1>7. x = y
    BY <1>3, <1>4, <1>6, SameChars
  <1> QED  BY <1>7 DEF x, y, r

FirstIn(p, fn) == IF fn /\ Len(p) > 1 /\ Negates(p[2]) THEN 3 ELSE 2
EndsOf(p, fn) == {j \in FirstIn(p, fn)..Len(p) : p[j] = "]" /\ (fn => j > FirstIn(p, fn))}

LEMMA ClosedAtIs ==
    ASSUME NEW p \in Chars, NEW fn \in BOOLEAN
    PROVE  /\ EndsOf(p, fn) = {} => ClosedAt(p, fn) = 0
           /\ EndsOf(p, fn) # {} => /\ ClosedAt(p, fn) \in EndsOf(p, fn) /\ ClosedAt(p, fn) \in 2..Len(p)
                                    /\ \A k \in EndsOf(p, fn) : ClosedAt(p, fn) <= k
  <1> DEFINE W == EndsOf(p, fn)
  <1>1. W \subseteq 2..Len(p) /\ W \subseteq Nat
    BY DEF EndsOf, FirstIn, Chars
  <1>2. ClosedAt(p, fn) = IF W = {} THEN 0 ELSE CHOOSE j \in W : \A k \in W : j <= k
    BY DEF ClosedAt, EndsOf, FirstIn
  <1> HIDE DEF W
  <1>3. W # {} => \E j \in W : \A k \in W : j <= k
    BY <1>1, Least
  <1>4. W # {} => LET m == CHOOSE j \in W : \A k \in W : j <= k IN m \in W /\ \A k \in W : m <= k
    BY <1>3
  <1> QED  BY <1>1, <1>2, <1>4 DEF W

LEMMA ClosedAtIsLeast ==
    ASSUME NEW p \in Chars, NEW fn \in BOOLEAN, NEW e \in EndsOf(p, fn), \A k \in EndsOf(p, fn) : e <= k
    PROVE  ClosedAt(p, fn) = e
  <1>1. ClosedAt(p, fn) \in EndsOf(p, fn) /\ \A k \in EndsOf(p, fn) : ClosedAt(p, fn) <= k
    BY ClosedAtIs
  <1>2. e <= ClosedAt(p, fn) /\ ClosedAt(p, fn) <= e
    BY <1>1
  <1>3. EndsOf(p, fn) \subseteq Nat
    BY DEF EndsOf, FirstIn, Chars
  <1> QED  BY <1>1, <1>2, <1>3

\* What parse_class returns is the class that First sees.
ClassSeen(p) ==
    LET class == ParseClass(Tail(p))
        close == ClosedAt(p, TRUE)
        set   == Members[SubSeq(p, IF Negates(p[2]) THEN 3 ELSE 2, close - 1)]
    IN  /\ class.end = 0 => close = 0
        /\ class.end # 0 => /\ class.end \in Nat /\ close = 1 + class.end /\ close \in 2..Len(p)
                            /\ Unmarred(p) => /\ class.set = IF Negates(p[2]) THEN ToSet(Bytes) \ set ELSE set
                                              /\ set \in CharSets

LEMMA ClassIsSeen ==
    ASSUME NEW p \in Chars, p # <<>>
    PROVE  ClassSeen(p)
  <1> DEFINE q == Tail(p)
             neg == q # <<>> /\ Negates(q[1])
             st == IF neg THEN 1 ELSE 0
             l == IF Leads(Rest(q, st)) THEN 1 ELSE 0
             b == 1 + st + l
             R == Rest(p, b)
             c == ClassFrom[R]
             class == ParseClass(q)
             close == ClosedAt(p, TRUE)
             whole == c.set \cup (IF l = 1 THEN {"]"} ELSE {})
  <1>1. /\ Len(p) \in Nat \ {0} /\ q = Rest(p, 1) /\ q \in Chars /\ Len(q) = Len(p) - 1
        /\ \A i \in 1..Len(p) - 1 : q[i] = p[1 + i]
    BY BehindFirst
  <1>2. /\ (q # <<>> <=> Len(p) > 1) /\ (q # <<>> => q[1] = p[2])
    <2> HIDE DEF q
    <2>1. q # <<>> <=> Len(q) # 0
      BY <1>1, EmptySeq DEF Chars
    <2>2. Len(p) > 1 => 1 \in 1..Len(p) - 1 /\ 1 + 1 = 2
      BY <1>1
    <2> QED  BY <1>1, <2>1, <2>2
  <1> HIDE DEF q
  <1>3. neg <=> Len(p) > 1 /\ Negates(p[2])
    BY <1>2
  <1>4. st \in 0..1 /\ st <= Len(q) /\ FirstIn(p, TRUE) = 2 + st
    BY <1>1, <1>3 DEF FirstIn
  <1> HIDE DEF neg
  <1>5. l \in 0..1 /\ (l = 1 <=> 2 + st <= Len(p) /\ p[2 + st] = "]")
    <2> DEFINE r == Rest(q, st)
    <2>1. st \in 0..Len(q)
      BY <1>1, <1>4
    <2>2. r \in Chars /\ Len(r) = Len(q) - st /\ \A i \in 1..Len(q) - st : r[i] = q[st + i]
      BY <1>1, <2>1, RestOf
    <2> HIDE DEF r, st
    <2>3. r # <<>> <=> Len(r) # 0
      BY <2>2, EmptySeq DEF Chars
    <2>4. r # <<>> <=> 2 + st <= Len(p)
      BY <1>1, <1>4, <2>2, <2>3
    <2>5. r # <<>> => r[1] = p[2 + st]
      <3>1. ASSUME 2 + st <= Len(p) PROVE r[1] = p[2 + st]
        <4>1. 1 \in 1..Len(q) - st /\ st + 1 \in 1..Len(p) - 1 /\ 1 + (st + 1) = 2 + st
          BY <1>1, <1>4, <3>1
        <4>2. r[1] = q[st + 1]
          BY <2>2, <4>1
        <4>3. q[st + 1] = p[1 + (st + 1)]
          BY <1>1, <4>1
        <4> QED  BY <4>1, <4>2, <4>3
      <3> QED  BY <2>4, <3>1
    <2> QED  BY <2>4, <2>5 DEF Leads, r
  <1>6. Rest(q, st + l) = R
    <2> HIDE DEF st, l
    <2>1. st + l \in 0..Len(p) - 1
      BY <1>1, <1>4, <1>5
    <2>2. 1 \in 0..Len(p)
      BY <1>1
    <2>3. 1 + (st + l) = b
      BY <1>4, <1>5
    <2> QED  BY <1>1, <2>1, <2>2, <2>3, RestOfRest
  <1>7. class = [set |-> IF neg THEN ToSet(Bytes) \ whole ELSE whole,
                 end |-> IF c.end = 0 THEN 0 ELSE st + l + c.end]
    <2>1. class = LET k == ClassFrom[Rest(q, st + l)]
                      s == k.set \cup (IF l = 1 THEN {"]"} ELSE {})
                  IN  [set |-> IF neg THEN ToSet(Bytes) \ s ELSE s,
                       end |-> IF k.end = 0 THEN 0 ELSE st + l + k.end]
      BY DEF ParseClass, neg
    <2> HIDE DEF st, l, class, R
    <2> QED  BY <1>6, <2>1
  <1> HIDE DEF class, st, l
  <1>8. b \in 1..Len(p) /\ b \in Nat /\ b = 1 + st + l
    BY <1>1, <1>4, <1>5
  <1> HIDE DEF b
  <1>9. R \in Chars /\ Len(R) = Len(p) - b /\ \A i \in 1..Len(p) - b : R[i] = p[b + i]
    <2>1. b \in 0..Len(p)
      BY <1>1, <1>8
    <2> QED  BY <2>1, RestOf
  <1>10. IsClass(R, c) /\ c \in Classes
    BY <1>9, ClassFromClosing, ClassFromIs
  <1> HIDE DEF R
  <1> HIDE DEF c
  <1>11. EndsOf(p, TRUE) = {j \in 3 + st..Len(p) : p[j] = "]"}
    <2>1. EndsOf(p, TRUE) = {j \in 2 + st..Len(p) : p[j] = "]" /\ j > 2 + st}
      BY <1>4 DEF EndsOf
    <2>2. \A j : j \in 3 + st..Len(p) <=> j \in 2 + st..Len(p) /\ j > 2 + st
      BY <1>1, <1>4
    <2> QED  BY <2>1, <2>2
  <1>12. c.end \in Nat /\ c.set \in CharSets
    BY <1>10 DEF Classes
  <1>13. CASE c.end = 0
    <2>1. \A k \in 1..Len(R) : R[k] # "]"
      BY <1>10, <1>13 DEF IsClass
    <2>2. ASSUME NEW j \in EndsOf(p, TRUE) PROVE FALSE
      <3>1. j \in 3 + st..Len(p) /\ p[j] = "]"
        BY <1>11, <2>2
      <3>2. j - b \in 1..Len(p) - b /\ b + (j - b) = j
        BY <1>1, <1>4, <1>5, <1>8, <3>1
      <3> QED  BY <1>9, <2>1, <3>1, <3>2
    <2>3. close = 0
      BY <2>2, ClosedAtIs
    <2>4. class.end = 0
      BY <1>7, <1>13
    <2> QED  BY <2>3, <2>4 DEF ClassSeen, class, q
  <1>14. CASE c.end # 0
    <2> DEFINE e == b + c.end
    <2>1. /\ c.end \in 1..Len(R) /\ R[c.end] = "]" /\ (\A k \in 1..c.end - 1 : R[k] # "]")
          /\ c.set = Members[SubSeq(R, 1, c.end - 1)]
      BY <1>10, <1>14 DEF IsClass
    <2>2. e \in 1..Len(p) /\ e - b = c.end /\ e > b /\ e = b + c.end
      BY <1>1, <1>8, <1>9, <2>1
    <2>3. p[e] = "]"
      BY <1>9, <2>1
    <2> HIDE DEF e
    <2>4. e \in EndsOf(p, TRUE)
      <3>1. e >= 3 + st
        <4>1. CASE l = 1
          BY <1>4, <1>8, <2>2, <4>1
        <4>2. CASE l = 0
          <5>1. e # 2 + st
            BY <1>5, <2>2, <2>3, <4>2
          <5> QED  BY <1>4, <1>8, <2>2, <4>2, <5>1
        <4> QED  BY <1>5, <4>1, <4>2
      <3>2. e \in 3 + st..Len(p)
        BY <1>1, <1>4, <2>2, <3>1
      <3> QED  BY <1>11, <2>3, <3>2
    <2>5. ASSUME NEW j \in EndsOf(p, TRUE) PROVE e <= j
      <3>1. j \in 3 + st..Len(p) /\ p[j] = "]"
        BY <1>11, <2>5
      <3>2. ASSUME j < e PROVE FALSE
        <4>1. j - b \in 1..Len(p) - b /\ b + (j - b) = j /\ j - b \in 1..c.end - 1
          BY <1>1, <1>4, <1>5, <1>8, <2>2, <3>1, <3>2
        <4> QED  BY <1>9, <2>1, <3>1, <4>1
      <3> QED  BY <1>1, <1>4, <2>2, <3>1, <3>2
    <2>6. close = e
      BY <2>4, <2>5, ClosedAtIsLeast
    <2>7. Len(p) > 1 /\ e \in 2..Len(p) /\ e >= 3 + st
      <3>1. e \in 3 + st..Len(p)
        BY <1>11, <2>4
      <3> QED  BY <1>1, <1>4, <3>1
    <2>8. (neg <=> Negates(p[2])) /\ st = IF Negates(p[2]) THEN 1 ELSE 0
      BY <1>3, <2>7 DEF st
    <2>9. class.end = e - 1 /\ class.set = IF neg THEN ToSet(Bytes) \ whole ELSE whole
      <3>1. st + l + c.end = e - 1
        BY <1>4, <1>5, <1>8, <1>12, <2>2
      <3> QED  BY <1>7, <1>14, <3>1
    <2>10. ASSUME Unmarred(p) PROVE Members[SubSeq(p, 2 + st, e - 1)] = whole /\ whole \in CharSets
      <3>1. SubSeq(R, 1, c.end - 1) = SubSeq(p, b + 1, e - 1) /\ SubSeq(p, b + 1, e - 1) \in Chars
        <4> DEFINE n == Len(p)
                   m == c.end
        <4>1. n \in Nat /\ b \in 1..n /\ e \in 1..n /\ e > b /\ e - b = m
          BY <1>1, <1>8, <2>2
        <4>2. b \in 0..n /\ e - 1 \in b..n /\ (e - 1) - b = m - 1
          <5> HIDE DEF n, m
          <5> QED  BY <4>1
        <4> QED  BY <4>2, PieceOfRest DEF R
      <3>2. CASE l = 0
        <4>1. b + 1 = 2 + st /\ whole = c.set
          BY <1>4, <1>8, <3>2
        <4>2. Members[SubSeq(p, 2 + st, e - 1)] = c.set
          BY <2>1, <3>1, <4>1
        <4> QED  BY <1>12, <4>1, <4>2
      <3>3. CASE l = 1
        <4> DEFINE u == SubSeq(p, b, e - 1)
        <4>1. b = 2 + st /\ whole = c.set \cup {"]"} /\ p[b] = "]" /\ "]" \in ToSet(Bytes)
          <5>1. b = 2 + st /\ p[b] = "]"
            BY <1>4, <1>5, <1>8, <3>3
          <5>2. p[b] \in ToSet(Bytes)
            BY <1>8 DEF Chars
          <5> QED  BY <3>3, <5>1, <5>2
        <4>2. u \in Chars /\ Len(u) = e - b /\ \A k \in 1..e - b : u[k] = p[b + k - 1]
          <5>1. b \in Nat \ {0} /\ e - 1 \in Nat /\ b <= (e - 1) + 1 /\ e - 1 <= Len(p) /\ (e - 1) - b + 1 = e - b
            BY <1>1, <1>8, <2>2
          <5>2. u \in Chars /\ Len(u) = (e - 1) - b + 1 /\ \A k \in 1..(e - 1) - b + 1 : u[k] = p[b + k - 1]
            BY <5>1, PieceOf
          <5> HIDE DEF u
          <5> QED  BY <5>1, <5>2
        <4>3. Rest(u, 1) = SubSeq(p, b + 1, e - 1)
          <5> DEFINE n == Len(p)
          <5>0. n \in Nat /\ b \in 1..n /\ e \in 1..n /\ e > b /\ c.end = e - b
            BY <1>1, <1>8, <2>2
          <5>1. /\ b - 1 \in 0..Len(p) /\ e - 1 \in b - 1..Len(p) /\ (b - 1) + 1 = b
            <6> HIDE DEF n
            <6>1. b - 1 \in 0..n /\ e - 1 \in b - 1..n /\ (b - 1) + 1 = b
              BY <5>0
            <6> QED  BY <6>1 DEF n
          <5> DEFINE P == Rest(p, b - 1)
                     J == (e - 1) - (b - 1)
          <5>2. SubSeq(P, 1, J) = u
            BY <5>1, PieceOfRest
          <5>3. P \in Chars /\ Len(P) = Len(p) - (b - 1)
            BY <5>1, RestOf
          <5>4. Rest(P, 1) = R
            <6>1. 1 \in 0..Len(p) - (b - 1)
              BY <1>1, <1>8
            <6> QED  BY <5>1, <6>1, RestOfRest DEF R
          <5> HIDE DEF P, u
          <5>5. J \in 1..Len(P) /\ 1 \in 0..Len(P) /\ J - 1 = c.end - 1
            <6>1. Len(P) = n - (b - 1)
              BY <5>3
            <6> HIDE DEF n
            <6>2. J = e - b /\ J - 1 = c.end - 1 /\ J >= 1
              BY <5>0
            <6>3. J <= Len(P) /\ 1 <= Len(P) /\ Len(P) \in Nat
              BY <5>0, <6>1
            <6> QED  BY <5>0, <6>2, <6>3
          <5> HIDE DEF J
          <5>6. Rest(SubSeq(P, 1, J), 1) = SubSeq(Rest(P, 1), 1, J - 1)
            BY <5>3, <5>5, PieceOfRest
          <5> QED  BY <3>1, <5>2, <5>4, <5>5, <5>6
        <4> HIDE DEF u
        <4>4. u # <<>> /\ u[1] = "]"
          <5>1. 1 \in 1..e - b /\ b + 1 - 1 = b
            BY <1>8, <2>2
          <5>2. u[1] = p[b + 1 - 1] /\ Len(u) # 0
            BY <4>2, <5>1
          <5>3. u # <<>>
            BY <5>2
          <5> QED  BY <4>1, <5>1, <5>2, <5>3
        <4>5. ~(Len(u) >= 3 /\ u[2] = "-")
          <5>1. ASSUME Len(u) >= 3 PROVE u[2] # "-"
            <6>0. Len(u) = e - b
              BY <4>2
            <6>1. 2 \in 1..e - b /\ b + 2 - 1 = b + 1 /\ b \in 1..Len(p) - 1
              <7>1. 2 \in 1..e - b /\ b + 2 - 1 = b + 1
                BY <1>8, <2>2, <5>1, <6>0
              <7>2. b \in 1..Len(p) - 1
                BY <1>8, <2>2, <5>1, <6>0
              <7> QED  BY <7>1, <7>2
            <6>2. u[2] = p[b + 1]
              BY <4>2, <6>1
            <6>3. p[b] # "]" \/ p[b + 1] # "-"
              BY <2>10, <6>1 DEF Unmarred
            <6> QED  BY <4>1, <6>2, <6>3
          <5> QED  BY <5>1
        <4>6. Members[u] = {u[1]} \cup Members[Tail(u)]
          <5>1. Members[u] = MembersOf(Members, u)
            BY <4>2, MembersIs
          <5>2. MembersOf(Members, u) = {u[1]} \cup Members[Tail(u)]
            BY <4>4, <4>5 DEF MembersOf
          <5> QED  BY <5>1, <5>2
        <4>7. Tail(u) = Rest(u, 1)
          BY <4>2, <4>4, BehindFirst
        <4>8. Members[Tail(u)] = c.set
          BY <2>1, <3>1, <4>3, <4>7
        <4>9. Members[u] = whole
          BY <4>1, <4>4, <4>6, <4>8
        <4>10. whole \in CharSets
          BY <1>12, <4>1 DEF CharSets
        <4> QED  BY <4>1, <4>9, <4>10 DEF u
      <3> QED  BY <1>5, <3>2, <3>3
    <2> HIDE DEF whole
    <2>11. (IF Negates(p[2]) THEN 3 ELSE 2) = 2 + st
      BY <2>8
    <2>12. ASSUME Unmarred(p)
           PROVE  Members[SubSeq(p, IF Negates(p[2]) THEN 3 ELSE 2, close - 1)] = whole /\ whole \in CharSets
      BY <2>6, <2>10, <2>11, <2>12
    <2>13. class.end \in Nat /\ class.end # 0 /\ close = 1 + class.end /\ close \in 2..Len(p)
      <3> HIDE DEF close, class
      <3>1. class.end = e - 1 /\ close = e /\ e \in 2..Len(p)
        BY <2>6, <2>7, <2>9
      <3> QED  BY <1>1, <3>1
    <2> HIDE DEF close
    <2>14. class = ParseClass(Tail(p)) /\ close = ClosedAt(p, TRUE)
      BY DEF class, close, q
    <2> QED  BY <2>8, <2>9, <2>12, <2>13, <2>14 DEF ClassSeen
  <1> QED  BY <1>12, <1>13, <1>14

----------------------------------------------------------------------------
(* The elements of a pattern *)

LEMMA FirstElement ==
    ASSUME NEW p \in Chars, p # <<>>, NEW fn \in BOOLEAN
    PROVE  /\ First(p, fn).is \in ElementSet /\ First(p, fn).length \in 1..Len(p)
           /\ Rest(p, First(p, fn).length) \in Chars /\ Len(Rest(p, First(p, fn).length)) < Len(p)
  <1> DEFINE every == IF fn THEN ToSet(Bytes) ELSE InName
             close == ClosedAt(p, fn)
             not == fn /\ Negates(p[2])
             set == Members[SubSeq(p, IF not THEN 3 ELSE 2, close - 1)]
             among == every \cap (IF not THEN ToSet(Bytes) \ set ELSE set)
             n == First(p, fn).length
  <1>1. Len(p) \in Nat \ {0} /\ p[1] \in ToSet(Bytes)
    BY BehindFirst
  <1>2. close > 0 => close \in 1..Len(p)
    BY ClosedAtIs
  <1>3. every \in SUBSET ToSet(Bytes) /\ among \in SUBSET ToSet(Bytes) /\ {p[1]} \in SUBSET ToSet(Bytes)
    BY <1>1 DEF InName
  <1>4. First(p, fn) =
           CASE p[1] = "*" -> IF ~fn /\ Len(p) > 1 /\ p[2] = "*" THEN [is |-> Star(ToSet(Bytes)), length |-> 2]
                              ELSE [is |-> Star(every), length |-> 1]
             [] p[1] = "?" -> [is |-> One(every), length |-> 1]
             [] p[1] = "[" /\ close > 0 -> [is |-> One(among), length |-> close]
             [] OTHER -> [is |-> One({p[1]}), length |-> 1]
    BY DEF First
  <1> HIDE DEF every, close, among
  <1>5. \A S \in SUBSET ToSet(Bytes) : One(S) \in ElementSet /\ Star(S) \in ElementSet
    BY DEF One, Star, ElementSet
  <1>6. First(p, fn).is \in ElementSet /\ n \in 1..Len(p)
    <2>1. CASE p[1] = "*"
      BY <1>1, <1>3, <1>4, <1>5, <2>1
    <2>2. CASE p[1] = "?"
      BY <1>1, <1>3, <1>4, <1>5, <2>2
    <2>3. CASE p[1] = "[" /\ close > 0
      BY <1>2, <1>3, <1>4, <1>5, <2>3
    <2>4. CASE p[1] # "*" /\ p[1] # "?" /\ ~(p[1] = "[" /\ close > 0)
      BY <1>1, <1>3, <1>4, <1>5, <2>4
    <2> QED  BY <2>1, <2>2, <2>3, <2>4
  <1> HIDE DEF n
  <1>7. Rest(p, n) \in Chars /\ Len(Rest(p, n)) < Len(p)
    <2>1. n \in 0..Len(p)
      BY <1>1, <1>6
    <2>2. Rest(p, n) \in Chars /\ Len(Rest(p, n)) = Len(p) - n
      BY <2>1, RestOf
    <2> QED  BY <1>1, <1>6, <2>2
  <1> QED  BY <1>6, <1>7 DEF n

Elems == Seq(ElementSet)
ElementsOf(f, p, fn) == IF p = <<>> THEN <<>> ELSE <<First(p, fn).is>> \o f[Rest(p, First(p, fn).length)]

LEMMA ElementsTyped ==
    ASSUME NEW s \in Chars, NEW fn \in BOOLEAN, NEW f, \A t \in Chars : Len(t) < Len(s) => f[t] \in Elems
    PROVE  ElementsOf(f, s, fn) \in Elems
  <1>1. CASE s = <<>>
    BY <1>1 DEF ElementsOf, Elems
  <1>2. CASE s # <<>>
    <2> DEFINE e == First(s, fn).is
               r == f[Rest(s, First(s, fn).length)]
    <2>1. e \in ElementSet /\ r \in Elems
      BY <1>2, FirstElement
    <2>2. ElementsOf(f, s, fn) = <<e>> \o r
      BY <1>2 DEF ElementsOf
    <2> HIDE DEF e, r
    <2>3. <<e>> \in Seq(ElementSet) /\ r \in Seq(ElementSet)
      BY <2>1 DEF Elems
    <2>4. <<e>> \o r \in Seq(ElementSet)
      BY <2>3, ConcatProperties
    <2> QED  BY <2>2, <2>4 DEF Elems
  <1> QED  BY <1>1, <1>2

LEMMA ElementsSame ==
    ASSUME NEW s \in Chars, NEW fn \in BOOLEAN, NEW f, NEW g,
           \A t \in Chars : Len(t) < Len(s) => f[t] = g[t]
    PROVE  ElementsOf(f, s, fn) = ElementsOf(g, s, fn)
  <1>1. CASE s = <<>>
    BY <1>1 DEF ElementsOf
  <1>2. CASE s # <<>>
    <2>1. f[Rest(s, First(s, fn).length)] = g[Rest(s, First(s, fn).length)]
      BY <1>2, FirstElement
    <2> QED  BY <1>2, <2>1 DEF ElementsOf
  <1> QED  BY <1>1, <1>2

LEMMA FnElementsIs ==
    \A s \in Chars : FnElements[s] \in Elems /\ FnElements[s] = ElementsOf(FnElements, s, TRUE)
  <1> DEFINE F == [Chars -> Elems]
             step == [s \in Chars |-> [f \in F |-> ElementsOf(f, s, TRUE)]]
  <1>1. \A s \in Chars : \A f \in F : ElementsOf(f, s, TRUE) \in Elems
    <2> SUFFICES ASSUME NEW s \in Chars, NEW f \in F PROVE ElementsOf(f, s, TRUE) \in Elems
      OBVIOUS
    <2>1. \A t \in Chars : f[t] \in Elems
      OBVIOUS
    <2> QED  BY <2>1, ElementsTyped
  <1>2. step \in [Chars -> [F -> Elems]] /\ \A s \in Chars : \A f \in F : step[s][f] = ElementsOf(f, s, TRUE)
    BY <1>1
  <1> HIDE DEF step
  <1>3. Looks(step, ToSet(Bytes), Elems)
    <2> SUFFICES ASSUME NEW s \in Chars, NEW f \in F, NEW g \in F,
                        \A t \in Chars : Len(t) < Len(s) => f[t] = g[t]
                 PROVE  step[s][f] = step[s][g]
      BY DEF Looks, Chars
    <2>1. ElementsOf(f, s, TRUE) = ElementsOf(g, s, TRUE)
      BY ElementsSame
    <2> QED  BY <1>2, <2>1
  <1>4. Elems # {}
    BY EmptySeq DEF Elems
  <1>5. PICK h \in F : \A s \in Chars : h[s] = ElementsOf(h, s, TRUE)
    <2>1. \E h \in [Seq(ToSet(Bytes)) -> Elems] : RecursOn(h, ToSet(Bytes), step)
      BY <1>2, <1>3, <1>4, RecursionByLength DEF Chars
    <2>2. PICK h \in F : RecursOn(h, ToSet(Bytes), step)
      BY <2>1 DEF Chars
    <2> QED  BY <1>2, <2>2 DEF RecursOn, Chars
  <1>6. h = [s \in Chars |-> ElementsOf(h, s, TRUE)]
    BY <1>5
  <1>7. FnElements = CHOOSE f : f = [s \in Chars |-> ElementsOf(f, s, TRUE)]
    BY DEF FnElements, ElementsOf
  <1>8. FnElements = [s \in Chars |-> ElementsOf(FnElements, s, TRUE)]
    BY <1>6, <1>7
  <1>9. \A s \in Chars : FnElements[s] = ElementsOf(FnElements, s, TRUE)
    BY <1>8
  <1>10. \A s \in Chars : FnElements[s] \in Elems
    <2> DEFINE T == {s \in Chars : FnElements[s] \in Elems}
    <2>1. ASSUME NEW s \in Chars, \A t \in Chars : Len(t) < Len(s) => t \in T PROVE s \in T
      <3>1. \A t \in Chars : Len(t) < Len(s) => FnElements[t] \in Elems
        BY <2>1
      <3>2. ElementsOf(FnElements, s, TRUE) \in Elems
        BY <3>1, ElementsTyped
      <3> QED  BY <1>9, <3>2
    <2>2. \A s \in Chars : s \in T
      <3> HIDE DEF T
      <3> QED  BY <2>1, ByLength DEF Chars
    <2> QED  BY <2>2
  <1> QED  BY <1>9, <1>10

LEMMA GlobElementsIs ==
    \A s \in Chars : GlobElements[s] \in Elems /\ GlobElements[s] = ElementsOf(GlobElements, s, FALSE)
  <1> DEFINE F == [Chars -> Elems]
             step == [s \in Chars |-> [f \in F |-> ElementsOf(f, s, FALSE)]]
  <1>1. \A s \in Chars : \A f \in F : ElementsOf(f, s, FALSE) \in Elems
    <2> SUFFICES ASSUME NEW s \in Chars, NEW f \in F PROVE ElementsOf(f, s, FALSE) \in Elems
      OBVIOUS
    <2>1. \A t \in Chars : f[t] \in Elems
      OBVIOUS
    <2> QED  BY <2>1, ElementsTyped
  <1>2. step \in [Chars -> [F -> Elems]] /\ \A s \in Chars : \A f \in F : step[s][f] = ElementsOf(f, s, FALSE)
    BY <1>1
  <1> HIDE DEF step
  <1>3. Looks(step, ToSet(Bytes), Elems)
    <2> SUFFICES ASSUME NEW s \in Chars, NEW f \in F, NEW g \in F,
                        \A t \in Chars : Len(t) < Len(s) => f[t] = g[t]
                 PROVE  step[s][f] = step[s][g]
      BY DEF Looks, Chars
    <2>1. ElementsOf(f, s, FALSE) = ElementsOf(g, s, FALSE)
      BY ElementsSame
    <2> QED  BY <1>2, <2>1
  <1>4. Elems # {}
    BY EmptySeq DEF Elems
  <1>5. PICK h \in F : \A s \in Chars : h[s] = ElementsOf(h, s, FALSE)
    <2>1. \E h \in [Seq(ToSet(Bytes)) -> Elems] : RecursOn(h, ToSet(Bytes), step)
      BY <1>2, <1>3, <1>4, RecursionByLength DEF Chars
    <2>2. PICK h \in F : RecursOn(h, ToSet(Bytes), step)
      BY <2>1 DEF Chars
    <2> QED  BY <1>2, <2>2 DEF RecursOn, Chars
  <1>6. h = [s \in Chars |-> ElementsOf(h, s, FALSE)]
    BY <1>5
  <1>7. GlobElements = CHOOSE f : f = [s \in Chars |-> ElementsOf(f, s, FALSE)]
    BY DEF GlobElements, ElementsOf
  <1>8. GlobElements = [s \in Chars |-> ElementsOf(GlobElements, s, FALSE)]
    BY <1>6, <1>7
  <1>9. \A s \in Chars : GlobElements[s] = ElementsOf(GlobElements, s, FALSE)
    BY <1>8
  <1>10. \A s \in Chars : GlobElements[s] \in Elems
    <2> DEFINE T == {s \in Chars : GlobElements[s] \in Elems}
    <2>1. ASSUME NEW s \in Chars, \A t \in Chars : Len(t) < Len(s) => t \in T PROVE s \in T
      <3>1. \A t \in Chars : Len(t) < Len(s) => GlobElements[t] \in Elems
        BY <2>1
      <3>2. ElementsOf(GlobElements, s, FALSE) \in Elems
        BY <3>1, ElementsTyped
      <3> QED  BY <1>9, <3>2
    <2>2. \A s \in Chars : s \in T
      <3> HIDE DEF T
      <3> QED  BY <2>1, ByLength DEF Chars
    <2> QED  BY <2>2
  <1> QED  BY <1>9, <1>10

----------------------------------------------------------------------------
(* The matchers *)

TextSets == SUBSET Chars

\* The texts of which the element takes the first piece and leaves one of `rest`.
Taken(e, rest) == {t \in Chars : \E i \in 0..Len(t) : Takes(e, t, i) /\ Rest(t, i) \in rest}

LEMMA BeginIsTaken ==
    ASSUME NEW set, NEW rest
    PROVE  Begin(set, rest) = Taken(One(set), rest)
  <1>1. ASSUME NEW t \in Chars
        PROVE  (t # <<>> /\ t[1] \in set /\ Tail(t) \in rest)
                 <=> \E i \in 0..Len(t) : Takes(One(set), t, i) /\ Rest(t, i) \in rest
    <2>1. Len(t) \in Nat /\ (t = <<>> <=> Len(t) = 0)
      BY EmptySeq DEF Chars
    <2>2. \A i \in 0..Len(t) : Takes(One(set), t, i) <=> i = 1 /\ t[1] \in set
      BY <2>1 DEF Takes, One
    <2>3. t # <<>> => 1 \in 0..Len(t) /\ Tail(t) = Rest(t, 1)
      BY <2>1, BehindFirst
    <2>4. 1 \in 0..Len(t) => t # <<>>
      BY <2>1
    <2> QED  BY <2>2, <2>3, <2>4
  <1> QED  BY <1>1 DEF Begin, Taken

LEMMA StarIsTaken ==
    ASSUME NEW rest
    PROVE  /\ {t \in Chars : \E i \in 0..Len(t) : Rest(t, i) \in rest} = Taken(Star(ToSet(Bytes)), rest)
           /\ {t \in Chars : \E i \in StarEnds(t) : Rest(t, i) \in rest} = Taken(Star(InName), rest)
  <1>1. ASSUME NEW t \in Chars, NEW i \in 0..Len(t)
        PROVE  /\ Takes(Star(ToSet(Bytes)), t, i)
               /\ Takes(Star(InName), t, i) <=> i \in StarEnds(t)
    <2>1. \A j \in 1..i : t[j] \in ToSet(Bytes)
      <3>1. \A j \in 1..i : j \in 1..Len(t)
        BY DEF Chars
      <3> QED  BY <3>1 DEF Chars
    <2>2. Star(ToSet(Bytes)).star /\ Star(InName).star
          /\ Star(ToSet(Bytes)).set = ToSet(Bytes) /\ Star(InName).set = InName
      BY DEF Star
    <2> QED  BY <2>1, <2>2 DEF Takes, StarEnds, InName
  <1>2. \A t \in Chars : StarEnds(t) \subseteq 0..Len(t)
    BY DEF StarEnds
  <1> QED  BY <1>1, <1>2 DEF Taken

\* A pattern's texts, given those of what is behind its first element.
MatchOf(f, p) ==
    IF p = <<>> THEN {<<>>}
    ELSE CASE p[1] = "*" -> {t \in Chars : \E i \in 0..Len(t) : Rest(t, i) \in f[Tail(p)]}
           [] p[1] = "?" -> Begin(ToSet(Bytes), f[Tail(p)])
           [] p[1] = "[" -> LET class == ParseClass(Tail(p)) IN
                            IF class.end > 0 THEN Begin(class.set, f[Rest(p, 1 + class.end)])
                            ELSE Begin({"["}, f[Tail(p)])
           [] OTHER      -> Begin({p[1]}, f[Tail(p)])

GlobOf(f, p) ==
    IF p = <<>> THEN {<<>>}
    ELSE LET close == {i \in 2..Len(p) : p[i] = "]"}
             end   == CHOOSE i \in close : \A j \in close : i <= j
         IN  CASE p[1] = "*" ->
                    IF Len(p) > 1 /\ p[2] = "*"
                       THEN {t \in Chars : \E i \in 0..Len(t) : Rest(t, i) \in f[Rest(p, 2)]}
                       ELSE {t \in Chars : \E i \in StarEnds(t) : Rest(t, i) \in f[Tail(p)]}
               [] p[1] = "?" -> Begin(InName, f[Tail(p)])
               [] p[1] = "[" -> IF close = {} THEN Begin({"["}, f[Tail(p)])
                                ELSE Begin(Members[SubSeq(p, 2, end - 1)] \ {"/"}, f[Rest(p, end)])
               [] OTHER      -> Begin({p[1]}, f[Tail(p)])

\* The first element as fnmatch reads it.
ReadFirst(p) == IF p[1] = "[" /\ ClosedAt(p, TRUE) > 0 THEN One(ParseClass(Tail(p)).set) ELSE First(p, TRUE).is

LEMMA MatchOfIs ==
    ASSUME NEW f, NEW p \in Chars, p # <<>>
    PROVE  MatchOf(f, p) = Taken(ReadFirst(p), f[Rest(p, First(p, TRUE).length)])
  <1>1. Tail(p) = Rest(p, 1)
    BY BehindFirst
  <1> DEFINE close == ClosedAt(p, TRUE)
             class == ParseClass(Tail(p))
             e == First(p, TRUE)
  <1>2. p[1] = "*" => e = [is |-> Star(ToSet(Bytes)), length |-> 1]
    BY DEF First
  <1>3. p[1] = "?" => e = [is |-> One(ToSet(Bytes)), length |-> 1]
    BY DEF First
  <1>4. p[1] = "[" /\ close > 0 => e.length = close
    BY DEF First
  <1>5. p[1] # "*" /\ p[1] # "?" /\ ~(p[1] = "[" /\ close > 0) => e = [is |-> One({p[1]}), length |-> 1]
    BY DEF First
  <1>6. /\ class.end = 0 => close = 0
        /\ class.end # 0 => class.end \in Nat /\ close = 1 + class.end
    BY ClassIsSeen DEF ClassSeen
  <1>7. (close > 0 <=> class.end > 0) /\ (class.end > 0 => close = 1 + class.end)
    <2> DEFINE k == class.end
    <2>1. (k = 0 => close = 0) /\ (k # 0 => k \in Nat /\ close = 1 + k)
      BY <1>6
    <2> HIDE DEF k, close
    <2>2. (close > 0 <=> k > 0) /\ (k > 0 => close = 1 + k)
      BY <2>1
    <2> QED  BY <2>2 DEF k
  <1> HIDE DEF close, e, class
  <1>8. CASE p[1] = "*"
    <2>1. MatchOf(f, p) = {t \in Chars : \E i \in 0..Len(t) : Rest(t, i) \in f[Tail(p)]}
      BY <1>8 DEF MatchOf
    <2>2. ReadFirst(p) = Star(ToSet(Bytes)) /\ e.length = 1
      <3>1. e.is = Star(ToSet(Bytes)) /\ e.length = 1
        BY <1>2, <1>8
      <3>2. ReadFirst(p) = e.is
        BY <1>8 DEF ReadFirst, e
      <3> QED  BY <3>1, <3>2
    <2> QED  BY <1>1, <2>1, <2>2, StarIsTaken DEF e
  <1>9. CASE p[1] = "?"
    <2>1. MatchOf(f, p) = Begin(ToSet(Bytes), f[Tail(p)])
      BY <1>9 DEF MatchOf
    <2>2. ReadFirst(p) = One(ToSet(Bytes)) /\ e.length = 1
      <3>1. e.is = One(ToSet(Bytes)) /\ e.length = 1
        BY <1>3, <1>9
      <3>2. ReadFirst(p) = e.is
        BY <1>9 DEF ReadFirst, e
      <3> QED  BY <3>1, <3>2
    <2> QED  BY <1>1, <2>1, <2>2, BeginIsTaken DEF e
  <1>10. CASE p[1] = "[" /\ close > 0
    <2>1. MatchOf(f, p) = Begin(class.set, f[Rest(p, 1 + class.end)])
      BY <1>7, <1>10 DEF MatchOf, class
    <2>2. ReadFirst(p) = One(class.set) /\ e.length = 1 + class.end
      BY <1>4, <1>7, <1>10 DEF ReadFirst, class, close
    <2> QED  BY <2>1, <2>2, BeginIsTaken DEF e
  <1>11. CASE p[1] # "*" /\ p[1] # "?" /\ ~(p[1] = "[" /\ close > 0)
    <2>1. MatchOf(f, p) = Begin({p[1]}, f[Tail(p)])
      BY <1>7, <1>11 DEF MatchOf, class
    <2>2. ReadFirst(p) = One({p[1]}) /\ e.length = 1
      <3>1. e.is = One({p[1]}) /\ e.length = 1
        BY <1>5, <1>11
      <3>2. ReadFirst(p) = e.is
        BY <1>11 DEF ReadFirst, e, close
      <3> QED  BY <3>1, <3>2
    <2> QED  BY <1>1, <2>1, <2>2, BeginIsTaken DEF e
  <1> QED  BY <1>8, <1>9, <1>10, <1>11

LEMMA GlobOfIs ==
    ASSUME NEW f, NEW p \in Chars, p # <<>>
    PROVE  GlobOf(f, p) = Taken(First(p, FALSE).is, f[Rest(p, First(p, FALSE).length)])
  <1>1. Tail(p) = Rest(p, 1)
    BY BehindFirst
  <1> DEFINE close == ClosedAt(p, FALSE)
             ends == {i \in 2..Len(p) : p[i] = "]"}
             end == CHOOSE i \in ends : \A j \in ends : i <= j
             set == Members[SubSeq(p, 2, close - 1)]
             e == First(p, FALSE)
  <1>2. p[1] = "*" => e = IF Len(p) > 1 /\ p[2] = "*" THEN [is |-> Star(ToSet(Bytes)), length |-> 2]
                          ELSE [is |-> Star(InName), length |-> 1]
    BY DEF First
  <1>3. p[1] = "?" => e = [is |-> One(InName), length |-> 1]
    BY DEF First
  <1>4. p[1] = "[" /\ close > 0 => e = [is |-> One(InName \cap set), length |-> close]
    BY DEF First
  <1>5. p[1] # "*" /\ p[1] # "?" /\ ~(p[1] = "[" /\ close > 0) => e = [is |-> One({p[1]}), length |-> 1]
    BY DEF First
  <1>6. ends = EndsOf(p, FALSE) /\ close = IF ends = {} THEN 0 ELSE end
    BY DEF EndsOf, FirstIn, ClosedAt
  <1>7. (ends # {} <=> close > 0) /\ (ends # {} => close = end)
    <2>1. ends # {} => close \in 2..Len(p)
      BY <1>6, ClosedAtIs
    <2>2. Len(p) \in Nat
      BY DEF Chars
    <2>3. close = IF ends = {} THEN 0 ELSE end
      BY <1>6
    <2> HIDE DEF ends, close, end
    <2>4. ends # {} => close > 0 /\ close = end
      BY <2>1, <2>2, <2>3
    <2>5. ends = {} => ~(close > 0)
      BY <2>3
    <2> QED  BY <2>4, <2>5
  <1>8. ends # {} => InName \cap set = set \ {"/"}
    <2>1. ASSUME ends # {} PROVE set \in CharSets
      <3>1. close \in 2..Len(p)
        BY <1>6, <2>1, ClosedAtIs
      <3> HIDE DEF close
      <3>2. 2 \in Nat \ {0} /\ close - 1 \in Nat /\ 2 <= (close - 1) + 1 /\ close - 1 <= Len(p)
        BY <3>1 DEF Chars
      <3>3. SubSeq(p, 2, close - 1) \in Chars
        BY <3>2, PieceOf
      <3> QED  BY <3>3, MembersIs
    <2> QED  BY <2>1 DEF CharSets, InName
  <1>9. GlobOf(f, p) =
           CASE p[1] = "*" ->
                    IF Len(p) > 1 /\ p[2] = "*"
                       THEN {t \in Chars : \E i \in 0..Len(t) : Rest(t, i) \in f[Rest(p, 2)]}
                       ELSE {t \in Chars : \E i \in StarEnds(t) : Rest(t, i) \in f[Tail(p)]}
               [] p[1] = "?" -> Begin(InName, f[Tail(p)])
               [] p[1] = "[" -> IF ends = {} THEN Begin({"["}, f[Tail(p)])
                                ELSE Begin(Members[SubSeq(p, 2, end - 1)] \ {"/"}, f[Rest(p, end)])
               [] OTHER      -> Begin({p[1]}, f[Tail(p)])
    BY DEF GlobOf
  <1> HIDE DEF e, ends, end
  <1>10. CASE p[1] = "*" /\ Len(p) > 1 /\ p[2] = "*"
    <2>1. GlobOf(f, p) = {t \in Chars : \E i \in 0..Len(t) : Rest(t, i) \in f[Rest(p, 2)]}
      BY <1>9, <1>10
    <2>2. e.is = Star(ToSet(Bytes)) /\ e.length = 2
      BY <1>2, <1>10
    <2> QED  BY <2>1, <2>2, StarIsTaken DEF e
  <1>11. CASE p[1] = "*" /\ ~(Len(p) > 1 /\ p[2] = "*")
    <2>1. GlobOf(f, p) = {t \in Chars : \E i \in StarEnds(t) : Rest(t, i) \in f[Tail(p)]}
      BY <1>9, <1>11
    <2>2. e.is = Star(InName) /\ e.length = 1
      BY <1>2, <1>11
    <2> QED  BY <1>1, <2>1, <2>2, StarIsTaken DEF e
  <1>12. CASE p[1] = "?"
    <2>1. GlobOf(f, p) = Begin(InName, f[Tail(p)])
      BY <1>9, <1>12
    <2>2. e.is = One(InName) /\ e.length = 1
      BY <1>3, <1>12
    <2> QED  BY <1>1, <2>1, <2>2, BeginIsTaken DEF e
  <1>13. CASE p[1] = "[" /\ close > 0
    <2>1. GlobOf(f, p) = Begin(set \ {"/"}, f[Rest(p, close)])
      BY <1>7, <1>9, <1>13
    <2> HIDE DEF set, close
    <2>2. e.is = One(set \ {"/"}) /\ e.length = close
      <3>1. InName \cap set = set \ {"/"}
        BY <1>7, <1>8, <1>13
      <3>2. e.is = One(InName \cap set) /\ e.length = close
        BY <1>4, <1>13
      <3> QED  BY <3>1, <3>2
    <2> QED  BY <2>1, <2>2, BeginIsTaken DEF e
  <1>14. CASE p[1] # "*" /\ p[1] # "?" /\ ~(p[1] = "[" /\ close > 0)
    <2>1. GlobOf(f, p) = Begin({p[1]}, f[Tail(p)])
      BY <1>7, <1>9, <1>14
    <2> HIDE DEF close, set
    <2>2. e.is = One({p[1]}) /\ e.length = 1
      BY <1>5, <1>14
    <2> QED  BY <1>1, <2>1, <2>2, BeginIsTaken DEF e
  <1> QED  BY <1>10, <1>11, <1>12, <1>13, <1>14

LEMMA FnMatchTyped ==
    ASSUME NEW s \in Chars, NEW f, \A t \in Chars : Len(t) < Len(s) => f[t] \in TextSets
    PROVE  MatchOf(f, s) \in TextSets
  <1>1. CASE s = <<>>
    BY <1>1 DEF MatchOf, TextSets, Chars
  <1>2. CASE s # <<>>
    BY <1>2, MatchOfIs DEF Taken, TextSets
  <1> QED  BY <1>1, <1>2

LEMMA FnMatchSame ==
    ASSUME NEW s \in Chars, NEW f, NEW g, \A t \in Chars : Len(t) < Len(s) => f[t] = g[t]
    PROVE  MatchOf(f, s) = MatchOf(g, s)
  <1>1. CASE s = <<>>
    BY <1>1 DEF MatchOf
  <1>2. CASE s # <<>>
    <2>1. f[Rest(s, First(s, TRUE).length)] = g[Rest(s, First(s, TRUE).length)]
      BY <1>2, FirstElement
    <2> QED  BY <1>2, <2>1, MatchOfIs
  <1> QED  BY <1>1, <1>2

LEMMA GlobMatchTyped ==
    ASSUME NEW s \in Chars, NEW f, \A t \in Chars : Len(t) < Len(s) => f[t] \in TextSets
    PROVE  GlobOf(f, s) \in TextSets
  <1>1. CASE s = <<>>
    BY <1>1 DEF GlobOf, TextSets, Chars
  <1>2. CASE s # <<>>
    BY <1>2, GlobOfIs DEF Taken, TextSets
  <1> QED  BY <1>1, <1>2

LEMMA GlobMatchSame ==
    ASSUME NEW s \in Chars, NEW f, NEW g, \A t \in Chars : Len(t) < Len(s) => f[t] = g[t]
    PROVE  GlobOf(f, s) = GlobOf(g, s)
  <1>1. CASE s = <<>>
    BY <1>1 DEF GlobOf
  <1>2. CASE s # <<>>
    <2>1. f[Rest(s, First(s, FALSE).length)] = g[Rest(s, First(s, FALSE).length)]
      BY <1>2, FirstElement
    <2> QED  BY <1>2, <2>1, GlobOfIs
  <1> QED  BY <1>1, <1>2

LEMMA FnMatchIs ==
    \A s \in Chars : FnMatch[s] \in TextSets /\ FnMatch[s] = MatchOf(FnMatch, s)
  <1> DEFINE F == [Chars -> TextSets]
             step == [s \in Chars |-> [f \in F |-> MatchOf(f, s)]]
  <1>1. \A s \in Chars : \A f \in F : MatchOf(f, s) \in TextSets
    <2> SUFFICES ASSUME NEW s \in Chars, NEW f \in F PROVE MatchOf(f, s) \in TextSets
      OBVIOUS
    <2>1. \A t \in Chars : f[t] \in TextSets
      OBVIOUS
    <2> QED  BY <2>1, FnMatchTyped
  <1>2. step \in [Chars -> [F -> TextSets]] /\ \A s \in Chars : \A f \in F : step[s][f] = MatchOf(f, s)
    BY <1>1
  <1> HIDE DEF step
  <1>3. Looks(step, ToSet(Bytes), TextSets)
    <2> SUFFICES ASSUME NEW s \in Chars, NEW f \in F, NEW g \in F,
                        \A t \in Chars : Len(t) < Len(s) => f[t] = g[t]
                 PROVE  step[s][f] = step[s][g]
      BY DEF Looks, Chars
    <2>1. MatchOf(f, s) = MatchOf(g, s)
      BY FnMatchSame
    <2> QED  BY <1>2, <2>1
  <1>4. TextSets # {}
    BY DEF TextSets
  <1>5. PICK h \in F : \A s \in Chars : h[s] = MatchOf(h, s)
    <2>1. \E h \in [Seq(ToSet(Bytes)) -> TextSets] : RecursOn(h, ToSet(Bytes), step)
      BY <1>2, <1>3, <1>4, RecursionByLength DEF Chars
    <2>2. PICK h \in F : RecursOn(h, ToSet(Bytes), step)
      BY <2>1 DEF Chars
    <2> QED  BY <1>2, <2>2 DEF RecursOn, Chars
  <1>6. h = [s \in Chars |-> MatchOf(h, s)]
    BY <1>5
  <1>7. FnMatch = CHOOSE f : f = [s \in Chars |-> MatchOf(f, s)]
    BY DEF FnMatch, MatchOf
  <1>8. FnMatch = [s \in Chars |-> MatchOf(FnMatch, s)]
    BY <1>6, <1>7
  <1>9. \A s \in Chars : FnMatch[s] = MatchOf(FnMatch, s)
    BY <1>8
  <1>10. \A s \in Chars : FnMatch[s] \in TextSets
    <2> DEFINE T == {s \in Chars : FnMatch[s] \in TextSets}
    <2>1. ASSUME NEW s \in Chars, \A t \in Chars : Len(t) < Len(s) => t \in T PROVE s \in T
      <3>1. \A t \in Chars : Len(t) < Len(s) => FnMatch[t] \in TextSets
        BY <2>1
      <3>2. MatchOf(FnMatch, s) \in TextSets
        BY <3>1, FnMatchTyped
      <3> QED  BY <1>9, <3>2
    <2>2. \A s \in Chars : s \in T
      <3> HIDE DEF T
      <3> QED  BY <2>1, ByLength DEF Chars
    <2> QED  BY <2>2
  <1> QED  BY <1>9, <1>10

LEMMA GlobMatchIs ==
    \A s \in Chars : GlobMatch[s] \in TextSets /\ GlobMatch[s] = GlobOf(GlobMatch, s)
  <1> DEFINE F == [Chars -> TextSets]
             step == [s \in Chars |-> [f \in F |-> GlobOf(f, s)]]
  <1>1. \A s \in Chars : \A f \in F : GlobOf(f, s) \in TextSets
    <2> SUFFICES ASSUME NEW s \in Chars, NEW f \in F PROVE GlobOf(f, s) \in TextSets
      OBVIOUS
    <2>1. \A t \in Chars : f[t] \in TextSets
      OBVIOUS
    <2> QED  BY <2>1, GlobMatchTyped
  <1>2. step \in [Chars -> [F -> TextSets]] /\ \A s \in Chars : \A f \in F : step[s][f] = GlobOf(f, s)
    BY <1>1
  <1> HIDE DEF step
  <1>3. Looks(step, ToSet(Bytes), TextSets)
    <2> SUFFICES ASSUME NEW s \in Chars, NEW f \in F, NEW g \in F,
                        \A t \in Chars : Len(t) < Len(s) => f[t] = g[t]
                 PROVE  step[s][f] = step[s][g]
      BY DEF Looks, Chars
    <2>1. GlobOf(f, s) = GlobOf(g, s)
      BY GlobMatchSame
    <2> QED  BY <1>2, <2>1
  <1>4. TextSets # {}
    BY DEF TextSets
  <1>5. PICK h \in F : \A s \in Chars : h[s] = GlobOf(h, s)
    <2>1. \E h \in [Seq(ToSet(Bytes)) -> TextSets] : RecursOn(h, ToSet(Bytes), step)
      BY <1>2, <1>3, <1>4, RecursionByLength DEF Chars
    <2>2. PICK h \in F : RecursOn(h, ToSet(Bytes), step)
      BY <2>1 DEF Chars
    <2> QED  BY <1>2, <2>2 DEF RecursOn, Chars
  <1>6. h = [s \in Chars |-> GlobOf(h, s)]
    BY <1>5
  <1>7. GlobMatch = CHOOSE f : f = [s \in Chars |-> GlobOf(f, s)]
    BY DEF GlobMatch, GlobOf
  <1>8. GlobMatch = [s \in Chars |-> GlobOf(GlobMatch, s)]
    BY <1>6, <1>7
  <1>9. \A s \in Chars : GlobMatch[s] = GlobOf(GlobMatch, s)
    BY <1>8
  <1>10. \A s \in Chars : GlobMatch[s] \in TextSets
    <2> DEFINE T == {s \in Chars : GlobMatch[s] \in TextSets}
    <2>1. ASSUME NEW s \in Chars, \A t \in Chars : Len(t) < Len(s) => t \in T PROVE s \in T
      <3>1. \A t \in Chars : Len(t) < Len(s) => GlobMatch[t] \in TextSets
        BY <2>1
      <3>2. GlobOf(GlobMatch, s) \in TextSets
        BY <3>1, GlobMatchTyped
      <3> QED  BY <1>9, <3>2
    <2>2. \A s \in Chars : s \in T
      <3> HIDE DEF T
      <3> QED  BY <2>1, ByLength DEF Chars
    <2> QED  BY <2>2
  <1> QED  BY <1>9, <1>10

\* What is left when the first element is taken is unmarred as well.
LEMMA RestIsUnmarred ==
    ASSUME NEW p \in Chars, Unmarred(p), NEW n \in 0..Len(p)
    PROVE  Unmarred(Rest(p, n))
  <1> DEFINE r == Rest(p, n)
             m == Len(p)
  <1>1. m \in Nat /\ Len(r) = m - n /\ \A i \in 1..m - n : r[i] = p[n + i]
    <2>1. Len(r) = m - n /\ \A i \in 1..m - n : r[i] = p[n + i]
      BY RestOf
    <2>2. m \in Nat
      BY DEF Chars
    <2> QED  BY <2>1, <2>2
  <1>2. /\ \A i \in 1..m - 1 : p[i] # "]" \/ p[i + 1] # "-"
        /\ \A i \in 1..m : p[i] # "\\"
    BY DEF Unmarred
  <1> HIDE DEF r, m
  <1>3. n \in 0..m
    BY DEF m
  <1>4. ASSUME NEW i \in 1..Len(r) - 1 PROVE r[i] # "]" \/ r[i + 1] # "-"
    <2>1. i \in 1..m - n /\ i + 1 \in 1..m - n /\ n + i \in 1..m - 1 /\ n + (i + 1) = (n + i) + 1
      BY <1>1, <1>3
    <2>2. r[i] = p[n + i]
      BY <1>1, <2>1
    <2>3. r[i + 1] = p[(n + i) + 1]
      BY <1>1, <2>1
    <2> QED  BY <1>2, <2>1, <2>2, <2>3
  <1>5. ASSUME NEW i \in 1..Len(r) PROVE r[i] # "\\"
    <2>1. i \in 1..m - n /\ n + i \in 1..m
      BY <1>1, <1>3
    <2> QED  BY <1>1, <1>2, <2>1
  <1>6. Unmarred(r)
    BY <1>4, <1>5 DEF Unmarred
  <1> QED  BY <1>6 DEF r

LEMMA ReadFirstIs ==
    ASSUME NEW p \in Chars, p # <<>>, Unmarred(p)
    PROVE  ReadFirst(p) = First(p, TRUE).is
  <1>1. CASE ~(p[1] = "[" /\ ClosedAt(p, TRUE) > 0)
    BY <1>1 DEF ReadFirst
  <1>2. CASE p[1] = "[" /\ ClosedAt(p, TRUE) > 0
    <2> DEFINE class == ParseClass(Tail(p))
               close == ClosedAt(p, TRUE)
               set == Members[SubSeq(p, IF Negates(p[2]) THEN 3 ELSE 2, close - 1)]
    <2>1. class.set = (IF Negates(p[2]) THEN ToSet(Bytes) \ set ELSE set) /\ set \in CharSets
      <3>1. ClassSeen(p)
        BY ClassIsSeen
      <3>2. /\ class.end = 0 => close = 0
            /\ class.end # 0 /\ Unmarred(p) => /\ class.set = IF Negates(p[2]) THEN ToSet(Bytes) \ set ELSE set
                                               /\ set \in CharSets
        BY <3>1 DEF ClassSeen
      <3> HIDE DEF class, set, close
      <3>3. class.end # 0
        <4>1. close > 0
          BY <1>2 DEF close
        <4>2. close # 0
          BY <4>1
        <4> QED  BY <3>2, <4>2
      <3> QED  BY <3>2, <3>3
    <2>2. First(p, TRUE).is = One(ToSet(Bytes) \cap (IF Negates(p[2]) THEN ToSet(Bytes) \ set ELSE set))
      BY <1>2 DEF First
    <2>3. ReadFirst(p) = One(class.set)
      BY <1>2 DEF ReadFirst
    <2> HIDE DEF class, set
    <2>4. ToSet(Bytes) \cap (IF Negates(p[2]) THEN ToSet(Bytes) \ set ELSE set) = class.set
      BY <2>1 DEF CharSets
    <2> QED  BY <2>2, <2>3, <2>4
  <1> QED  BY <1>1, <1>2

\* The texts of a pattern are those its elements denote, if that is so of what is behind
\* its first element.
Denoted(elems) == {t \in Chars : Denotes(elems, t)}

LEMMA DenotedNothing == Denoted(<<>>) = {<<>>}
  BY DenotesNothing, EmptySeq DEF Denoted, Chars

LEMMA DenotedMore ==
    ASSUME NEW e \in ElementSet, NEW es \in Elems
    PROVE  Denoted(<<e>> \o es) = Taken(e, Denoted(es))
  <1>1. \A t \in Chars : Denotes(<<e>> \o es, t) <=> \E i \in 0..Len(t) : Takes(e, t, i) /\ Denotes(es, Rest(t, i))
    BY DenotesMore DEF Elems
  <1>2. \A t \in Chars : \A i \in 0..Len(t) : Rest(t, i) \in Chars
    BY RestOf
  <1> QED  BY <1>1, <1>2 DEF Denoted, Taken

LEMMA FnMatchDenotes == \A p \in Chars : Unmarred(p) => FnMatch[p] = Denoted(FnElements[p])
  <1> DEFINE T == {p \in Chars : Unmarred(p) => FnMatch[p] = Denoted(FnElements[p])}
  <1>1. ASSUME NEW p \in Chars, \A t \in Chars : Len(t) < Len(p) => t \in T PROVE p \in T
    <2>1. FnMatch[p] = MatchOf(FnMatch, p) /\ FnElements[p] = ElementsOf(FnElements, p, TRUE)
      BY FnMatchIs, FnElementsIs
    <2>2. CASE p = <<>>
      <3>1. MatchOf(FnMatch, p) = {<<>>} /\ ElementsOf(FnElements, p, TRUE) = <<>>
        BY <2>2 DEF MatchOf, ElementsOf
      <3> QED  BY <2>1, <3>1, DenotedNothing
    <2>3. ASSUME p # <<>>, Unmarred(p) PROVE FnMatch[p] = Denoted(FnElements[p])
      <3> DEFINE n == First(p, TRUE).length
                 e == First(p, TRUE).is
                 r == Rest(p, n)
      <3>1. e \in ElementSet /\ n \in 1..Len(p) /\ r \in Chars /\ Len(r) < Len(p)
        BY <2>3, FirstElement
      <3>2. Unmarred(r)
        <4> HIDE DEF n
        <4>1. n \in 0..Len(p)
          BY <3>1 DEF Chars
        <4> QED  BY <2>3, <4>1, RestIsUnmarred
      <3>3. FnMatch[r] = Denoted(FnElements[r])
        BY <1>1, <3>1, <3>2
      <3>4. MatchOf(FnMatch, p) = Taken(e, FnMatch[r])
        <4>1. MatchOf(FnMatch, p) = Taken(ReadFirst(p), FnMatch[r])
          BY <2>3, MatchOfIs
        <4> QED  BY <2>3, <4>1, ReadFirstIs
      <3>5. ElementsOf(FnElements, p, TRUE) = <<e>> \o FnElements[r]
        BY <2>3 DEF ElementsOf
      <3>6. FnElements[r] \in Elems
        BY <3>1, FnElementsIs
      <3> HIDE DEF e, r
      <3>7. Denoted(<<e>> \o FnElements[r]) = Taken(e, Denoted(FnElements[r]))
        BY <3>1, <3>6, DenotedMore
      <3> QED  BY <2>1, <3>3, <3>4, <3>5, <3>7
    <2> QED  BY <2>2, <2>3
  <1>2. \A p \in Chars : p \in T
    <2> HIDE DEF T
    <2> QED  BY <1>1, ByLength DEF Chars
  <1> QED  BY <1>2

LEMMA GlobMatchDenotes == \A p \in Chars : GlobMatch[p] = Denoted(GlobElements[p])
  <1> DEFINE T == {p \in Chars : GlobMatch[p] = Denoted(GlobElements[p])}
  <1>1. ASSUME NEW p \in Chars, \A t \in Chars : Len(t) < Len(p) => t \in T PROVE p \in T
    <2>1. GlobMatch[p] = GlobOf(GlobMatch, p) /\ GlobElements[p] = ElementsOf(GlobElements, p, FALSE)
      BY GlobMatchIs, GlobElementsIs
    <2>2. CASE p = <<>>
      <3>1. GlobOf(GlobMatch, p) = {<<>>} /\ ElementsOf(GlobElements, p, FALSE) = <<>>
        BY <2>2 DEF GlobOf, ElementsOf
      <3> QED  BY <2>1, <3>1, DenotedNothing
    <2>3. CASE p # <<>>
      <3> DEFINE n == First(p, FALSE).length
                 e == First(p, FALSE).is
                 r == Rest(p, n)
      <3>1. e \in ElementSet /\ r \in Chars /\ Len(r) < Len(p)
        BY <2>3, FirstElement
      <3>3. GlobMatch[r] = Denoted(GlobElements[r])
        BY <1>1, <3>1
      <3>4. GlobOf(GlobMatch, p) = Taken(e, GlobMatch[r])
        BY <2>3, GlobOfIs
      <3>5. ElementsOf(GlobElements, p, FALSE) = <<e>> \o GlobElements[r]
        BY <2>3 DEF ElementsOf
      <3>6. GlobElements[r] \in Elems
        BY <3>1, GlobElementsIs
      <3> HIDE DEF e, r
      <3>7. Denoted(<<e>> \o GlobElements[r]) = Taken(e, Denoted(GlobElements[r]))
        BY <3>1, <3>6, DenotedMore
      <3> QED  BY <2>1, <3>3, <3>4, <3>5, <3>7
    <2> QED  BY <2>2, <2>3
  <1>2. \A p \in Chars : p \in T
    <2> HIDE DEF T
    <2> QED  BY <1>1, ByLength DEF Chars
  <1> QED  BY <1>2

----------------------------------------------------------------------------
(* The command line: options and their values. *)

\* What a field may hold, and what parsing may end with.
FieldValues == {TRUE} \cup {Defaults[f] : f \in OptionFields}
               \cup {ReadValue(p[1], p[2]).value : p \in OptionTable \X STRING}
Exits == {Exit(0), Exit(10), Exit(11)}
Settings == [OptionFields -> FieldValues]

\* The value of an option, none or that of one text; what is set then.
OptionValues == {<<>>} \cup {<<t>> : t \in STRING}
IsGoodValue(o, v) ==
    IF o.kind = "flag" THEN v = <<>> ELSE v # <<>> /\ ~IsExit(ReadValue(o, v[1]))
ValueOf(o, v) == IF o.kind = "flag" THEN TRUE ELSE ReadValue(o, v[1]).value

\* No name is that of two options.
LEMMA NamesAreUnique ==
    \A o, p \in OptionTable : o.short = p.short \/ o.long = p.long \/ o.field = p.field => o = p
  BY DEF OptionTable, Option

LEMMA FieldsAre == "exit" \notin OptionFields /\ DOMAIN Defaults = OptionFields
  <1>1. "exit" \notin OptionFields
    BY DEF OptionFields, OptionTable, Option
  <1> QED  BY <1>1 DEF Defaults, OptionFields

LEMMA OneNamed ==
    ASSUME NEW arg \in Arguments, Named(arg) # {}
    PROVE  /\ NamedOne(arg) \in OptionTable /\ Named(arg) = {NamedOne(arg)}
           /\ TakesNext(arg) <=> arg.form = "short" /\ NamedOne(arg).kind # "flag" /\ arg.value = <<>>
  <1> DEFINE o == NamedOne(arg)
  <1>1. o \in Named(arg)
    BY DEF NamedOne
  <1> HIDE DEF o
  <1>2. \A p \in Named(arg) : p \in OptionTable /\ p = o
    BY <1>1, NamesAreUnique DEF Named
  <1>3. Named(arg) = {o} /\ o \in OptionTable
    BY <1>1, <1>2
  <1>4. TakesNext(arg) <=> arg.form = "short" /\ o.kind # "flag" /\ arg.value = <<>>
    BY <1>3 DEF TakesNext
  <1> QED  BY <1>3, <1>4 DEF o

LEMMA ArgumentsAre ==
    ASSUME NEW arg \in Arguments
    PROVE  arg.value \in OptionValues /\ <<arg.text>> \in OptionValues
           /\ (arg.form \in {"help", "version"} => Named(arg) = {})
  <1>1. arg.value \in Seq(STRING) /\ Len(arg.value) <= 1 /\ arg.text \in STRING
    BY DEF Arguments
  <1>2. arg.value \in OptionValues
    <2>1. CASE Len(arg.value) = 0
      BY <1>1, <2>1 DEF OptionValues
    <2>2. CASE Len(arg.value) = 1
      <3> DEFINE v == arg.value
      <3> HIDE DEF v
      <3>1. v \in Seq(STRING) /\ Len(v) = 1
        BY <1>1, <2>2 DEF v
      <3>2. v[1] \in STRING
        BY <3>1
      <3>3. v = <<v[1]>>
        BY <3>1
      <3> QED  BY <3>2, <3>3 DEF OptionValues, v
    <2>3. Len(arg.value) = 0 \/ Len(arg.value) = 1
      <3> DEFINE n == Len(arg.value)
      <3>1. n \in Nat /\ n <= 1
        BY <1>1
      <3> HIDE DEF n
      <3>2. n = 0 \/ n = 1
        BY <3>1
      <3> QED  BY <3>2 DEF n
    <2> QED  BY <2>1, <2>2, <2>3
  <1>3. <<arg.text>> \in OptionValues
    BY <1>1 DEF OptionValues
  <1> QED  BY <1>2, <1>3 DEF Named

LEMMA ReadValueIs ==
    ASSUME NEW o \in OptionTable, NEW t \in STRING
    PROVE  /\ IsExit(ReadValue(o, t)) => ReadValue(o, t) \in Exits
           /\ ReadValue(o, t).value \in FieldValues
           /\ ~IsExit(ReadValue(o, t)) => ReadValue(o, t) = [value |-> ReadValue(o, t).value]
  <1>1. ReadValue(o, t).value \in FieldValues
    <2>1. <<o, t>> \in OptionTable \X STRING /\ <<o, t>>[1] = o /\ <<o, t>>[2] = t
      OBVIOUS
    <2>2. ReadValue(o, t).value \in {ReadValue(p[1], p[2]).value : p \in OptionTable \X STRING}
      BY <2>1, Zenon
    <2> QED  BY <2>2, Zenon DEF FieldValues
  <1>2. ReadValue(o, t) \in Exits \/ \E x : ReadValue(o, t) = [value |-> x]
    BY DEF ReadValue, Exits, BadArgs
  <1>3. \A x : ~IsExit([value |-> x])
    BY DEF IsExit
  <1>4. \A e \in Exits : IsExit(e)
    BY DEF Exits, Exit, IsExit
  <1>5. \A x : [value |-> x].value = x
    OBVIOUS
  <1> HIDE DEF IsExit
  <1> QED  BY <1>1, <1>2, <1>3, <1>4, <1>5

LEMMA SetIs ==
    ASSUME NEW s \in Settings, NEW o \in OptionTable, NEW v \in OptionValues
    PROVE  /\ IsGoodValue(o, v) => /\ Set(s, o, v) = [s EXCEPT ![o.field] = ValueOf(o, v)]
                                   /\ ValueOf(o, v) \in FieldValues
           /\ ~IsGoodValue(o, v) => Set(s, o, v) \in Exits
  <1>1. v = <<>> \/ (v # <<>> /\ v[1] \in STRING)
    <2>1. v = <<>> \/ \E t \in STRING : v = <<t>>
      BY Zenon DEF OptionValues
    <2>2. \A t \in STRING : <<t>> # <<>> /\ <<t>>[1] = t
      OBVIOUS
    <2> QED  BY <2>1, <2>2
  <1>2. BadArgs \in Exits
    BY DEF BadArgs, Exits
  <1>3. v # <<>> => /\ IsExit(ReadValue(o, v[1])) => ReadValue(o, v[1]) \in Exits
                    /\ ReadValue(o, v[1]).value \in FieldValues
    BY <1>1, ReadValueIs
  <1>4. TRUE \in FieldValues
    BY DEF FieldValues
  <1>5. CASE o.kind = "flag"
    <2>1. IsGoodValue(o, v) <=> v = <<>>
      BY <1>5 DEF IsGoodValue
    <2>2. v = <<>> => Set(s, o, v) = [s EXCEPT ![o.field] = TRUE]
      BY <1>5 DEF Set
    <2>3. v # <<>> => Set(s, o, v) = BadArgs
      BY <1>5 DEF Set
    <2>4. ValueOf(o, v) = TRUE
      BY <1>5 DEF ValueOf
    <2> QED  BY <1>2, <1>4, <2>1, <2>2, <2>3, <2>4
  <1>6. CASE o.kind # "flag"
    <2>1. IsGoodValue(o, v) <=> v # <<>> /\ ~IsExit(ReadValue(o, v[1]))
      BY <1>6 DEF IsGoodValue
    <2>2. v = <<>> => Set(s, o, v) = BadArgs
      BY <1>6 DEF Set
    <2>3. v # <<>> => Set(s, o, v) = IF IsExit(ReadValue(o, v[1])) THEN ReadValue(o, v[1])
                                     ELSE [s EXCEPT ![o.field] = ReadValue(o, v[1]).value]
      BY <1>6 DEF Set
    <2>4. ValueOf(o, v) = ReadValue(o, v[1]).value
      BY <1>6 DEF ValueOf
    <2> QED  BY <1>2, <1>3, <2>1, <2>2, <2>3, <2>4
  <1> QED  BY <1>5, <1>6

LEMMA NoExitInSettings ==
    /\ \A s \in Settings : ~IsExit(s)
    /\ \A e \in Exits : IsExit(e)
  BY FieldsAre DEF Settings, IsExit, Exits, Exit

----------------------------------------------------------------------------
(* The command line: one argument after the other. *)

Parsing == [for : {<<>>} \cup {<<o>> : o \in OptionTable}, result : Exits \cup Settings]
Parsed(for, result) == [for |-> for, result |-> result]

LEMMA ParsingIs ==
    /\ \A acc \in Parsing : /\ acc = Parsed(acc.for, acc.result)
                            /\ IsExit(acc.result) <=> acc.result \notin Settings
                            /\ acc.for # <<>> => acc.for[1] \in OptionTable
    /\ \A r \in Exits \cup Settings : /\ Parsed(<<>>, r) \in Parsing
                                      /\ \A o \in OptionTable : Parsed(<<o>>, r) \in Parsing
    /\ \A x, r : Parsed(x, r).for = x /\ Parsed(x, r).result = r
  <1>1. \A r \in Exits \cup Settings : IsExit(r) <=> r \notin Settings
    BY NoExitInSettings
  <1> HIDE DEF IsExit
  <1>2. \A acc \in Parsing : /\ acc = Parsed(acc.for, acc.result) /\ acc.result \in Exits \cup Settings
                             /\ acc.for \in {<<>>} \cup {<<o>> : o \in OptionTable}
    BY DEF Parsing, Parsed
  <1>3. \A x \in {<<>>} \cup {<<o>> : o \in OptionTable} : x # <<>> => x[1] \in OptionTable
    OBVIOUS
  <1>4. \A r \in Exits \cup Settings : /\ Parsed(<<>>, r) \in Parsing
                                       /\ \A o \in OptionTable : Parsed(<<o>>, r) \in Parsing
    BY DEF Parsing, Parsed
  <1>5. \A x, r : Parsed(x, r).for = x /\ Parsed(x, r).result = r
    BY DEF Parsed
  <1> QED  BY <1>1, <1>2, <1>3, <1>4, <1>5

LEMMA StepIs ==
    ASSUME NEW acc \in Parsing, NEW arg \in Arguments
    PROVE  LET to == ParseArg(acc, arg)
               o  == NamedOne(arg) IN
           /\ to \in Parsing
           /\ IsExit(acc.result) => IsExit(to.result)
           /\ ~IsExit(acc.result) =>
                 /\ acc.for # <<>> => to = Parsed(<<>>, Set(acc.result, acc.for[1], <<arg.text>>))
                 /\ acc.for = <<>> /\ Named(arg) = {} => IsExit(to.result)
                 /\ acc.for = <<>> /\ Named(arg) # {} =>
                       to = IF TakesNext(arg) THEN Parsed(<<o>>, acc.result)
                            ELSE Parsed(<<>>, Set(acc.result, o, arg.value))
  <1> DEFINE to == ParseArg(acc, arg)
             o  == NamedOne(arg)
  <1> HIDE DEF IsExit
  <1>1. /\ acc = Parsed(acc.for, acc.result) /\ acc.result \in Exits \cup Settings
        /\ IsExit(acc.result) <=> acc.result \notin Settings
        /\ acc.for # <<>> => acc.for[1] \in OptionTable
    BY ParsingIs DEF Parsing
  <1>2. CASE IsExit(acc.result)
    <2>1. to = acc
      BY <1>2 DEF ParseArg
    <2> QED  BY <1>2, <2>1
  <1>3. CASE ~IsExit(acc.result) /\ acc.for # <<>>
    <2>1. to = Parsed(<<>>, Set(acc.result, acc.for[1], <<arg.text>>))
      BY <1>3 DEF ParseArg, Parsed
    <2>2. <<arg.text>> \in OptionValues
      BY ArgumentsAre
    <2>3. Set(acc.result, acc.for[1], <<arg.text>>) \in Exits \cup Settings
      <3> DEFINE p == acc.for[1]
                 s == acc.result
                 v == <<arg.text>>
      <3>1. p \in OptionTable /\ s \in Settings /\ v \in OptionValues
        BY <1>1, <1>3, <2>2
      <3> HIDE DEF p, s, v
      <3>2. Set(s, p, v) \in Exits \cup Settings
        BY <3>1, SetIs DEF Settings
      <3> QED  BY <3>2 DEF p, s, v
    <2>4. to \in Parsing
      BY <2>1, <2>3, ParsingIs
    <2> QED  BY <1>3, <2>1, <2>4
  <1>4. CASE ~IsExit(acc.result) /\ acc.for = <<>> /\ Named(arg) = {}
    <2>1. to = Parsed(<<>>, Exit(0)) \/ to = Parsed(<<>>, BadArgs)
      BY <1>4 DEF ParseArg, Parsed
    <2>2. Exit(0) \in Exits /\ BadArgs \in Exits
      BY DEF Exits, BadArgs
    <2>3. to \in Parsing /\ to.result \in Exits
      BY <2>1, <2>2, ParsingIs
    <2>4. IsExit(to.result)
      BY <2>3, NoExitInSettings
    <2> QED  BY <1>4, <2>3, <2>4
  <1>5. CASE ~IsExit(acc.result) /\ acc.for = <<>> /\ Named(arg) # {}
    <2>1. arg.form \notin {"help", "version"} /\ arg.value \in OptionValues
      BY <1>5, ArgumentsAre
    <2>2. o \in OptionTable
      BY <1>5, OneNamed
    <2>3. to = IF TakesNext(arg) THEN Parsed(<<o>>, acc.result) ELSE Parsed(<<>>, Set(acc.result, o, arg.value))
      <3>1. to = IF TakesNext(arg) THEN [acc EXCEPT !.for = <<o>>] ELSE Parsed(<<>>, Set(acc.result, o, arg.value))
        BY <1>5, <2>1 DEF ParseArg, Parsed
      <3>2. [Parsed(acc.for, acc.result) EXCEPT !.for = <<o>>] = Parsed(<<o>>, acc.result)
        BY DEF Parsed
      <3> QED  BY <1>1, <3>1, <3>2
    <2>4. Set(acc.result, o, arg.value) \in Exits \cup Settings
      <3> DEFINE s == acc.result
                 v == arg.value
      <3>1. s \in Settings /\ v \in OptionValues
        BY <1>1, <1>5, <2>1
      <3> HIDE DEF s, v, o
      <3>2. Set(s, o, v) \in Exits \cup Settings
        BY <2>2, <3>1, SetIs DEF Settings
      <3> QED  BY <3>2 DEF s, v
    <2>5. to \in Parsing
      BY <1>1, <2>2, <2>3, <2>4, ParsingIs
    <2> QED  BY <1>5, <2>3, <2>5
  <1> QED  BY <1>2, <1>3, <1>4, <1>5 DEF to, o

\* What is known behind each argument.
ParsedBy(f, args) ==
    /\ f[0] = Parsed(<<>>, Defaults)
    /\ \A i \in 1..Len(args) : f[i] = ParseArg(f[i - 1], args[i])
    /\ ParseArgs(args) = IF f[Len(args)].for # <<>> THEN BadArgs ELSE f[Len(args)].result

LEMMA PrefixesAre ==
    ASSUME NEW args \in Seq(Arguments)
    PROVE  \E f \in [0..Len(args) -> Parsing] : ParsedBy(f, args)
  <1> DEFINE n == Len(args)
             base == Parsed(<<>>, Defaults)
             step == [i \in 1..n |-> [acc \in Parsing |-> ParseArg(acc, args[i])]]
             got(h) == [i \in 0..n |-> IF i = 0 THEN base ELSE ParseArg(h[i - 1], args[i])]
  <1>1. n \in Nat /\ \A i \in 1..n : args[i] \in Arguments
    OBVIOUS
  <1>2. base \in Parsing
    <2>1. Defaults \in Settings
      <3>1. Defaults = [f \in OptionFields |-> Defaults[f]] 
        BY DEF Defaults
      <3>2. \A f \in OptionFields : Defaults[f] \in FieldValues
        BY DEF FieldValues
      <3> HIDE DEF OptionFields, FieldValues
      <3> DEFINE d == Defaults
      <3> HIDE DEF d
      <3>3. d = [f \in OptionFields |-> d[f]] /\ \A f \in OptionFields : d[f] \in FieldValues
        BY <3>1, <3>2 DEF d
      <3>4. d \in [OptionFields -> FieldValues]
        BY <3>3
      <3> QED  BY <3>4 DEF Settings, d
    <2> QED  BY <2>1, ParsingIs
  <1>3. step \in [1..n -> [Parsing -> Parsing]]
    <2>1. \A i \in 1..n : \A acc \in Parsing : ParseArg(acc, args[i]) \in Parsing
      BY <1>1, StepIs
    <2> QED  BY <2>1
  <1> HIDE DEF base, n
  <1>4. \E f \in [0..n -> Parsing] : Recurs(f, n, base, step)
    <2> HIDE DEF step
    <2> QED  BY <1>1, <1>2, <1>3, Recursion
  <1>5. PICK f \in [0..n -> Parsing] : f[0] = base /\ \A i \in 1..n : f[i] = step[i][f[i - 1]]
    BY <1>4 DEF Recurs
  <1>6. ASSUME NEW i \in 1..n PROVE f[i] = ParseArg(f[i - 1], args[i])
    <2>1. f[i - 1] \in Parsing
      BY <1>1
    <2>2. step[i][f[i - 1]] = ParseArg(f[i - 1], args[i])
      BY <2>1
    <2> HIDE DEF step
    <2> QED  BY <1>5, <2>2
  <1> HIDE DEF step
  <1>7. f = got(f)
    <2>1. \A i \in 0..n : f[i] = IF i = 0 THEN base ELSE ParseArg(f[i - 1], args[i])
      <3>1. \A i \in 0..n : i # 0 => i \in 1..n
        BY <1>1
      <3> QED  BY <1>5, <1>6, <3>1
    <2>2. f = [i \in 0..n |-> f[i]]
      OBVIOUS
    <2> QED  BY <2>1, <2>2
  <1> DEFINE h == CHOOSE g : g = got(g)
  <1>8. h = got(h)
    BY <1>7
  <1>9. ParseArgs(args) = IF h[n].for # <<>> THEN BadArgs ELSE h[n].result
    BY DEF ParseArgs, n, base, Parsed
  <1> HIDE DEF h
  <1> DEFINE T == {k \in 0..n : h[k] = f[k]}
  <1>10. 0 \in T
    BY <1>1, <1>5, <1>8
  <1>11. ASSUME NEW k \in 0..n - 1, k \in T PROVE k + 1 \in T
    <2>1. k + 1 \in 0..n /\ k + 1 # 0 /\ (k + 1) - 1 = k /\ k + 1 \in 1..n
      BY <1>1
    <2>2. h[k + 1] = ParseArg(h[(k + 1) - 1], args[k + 1])
      BY <1>8, <2>1
    <2>3. f[k + 1] = ParseArg(f[(k + 1) - 1], args[k + 1])
      BY <1>6, <2>1
    <2>4. h[k] = f[k]
      BY <1>11
    <2> QED  BY <2>1, <2>2, <2>3, <2>4
  <1>12. n \in T
    <2>1. \A k \in 0..n : k \in T
      <3> HIDE DEF T
      <3> QED  BY <1>1, <1>10, <1>11, Induct
    <2> QED  BY <1>1, <2>1
  <1>13. ParsedBy(f, args)
    BY <1>5, <1>6, <1>9, <1>12 DEF ParsedBy, n, base
  <1> QED  BY <1>13 DEF n

----------------------------------------------------------------------------
(* The command line: its settings. *)

\* Where the setting that begins at i ends, what it says, and that it is one.
GroupEnd(args, b, i) == IF i + 1 \in b \cup {Len(args) + 1} THEN i ELSE i + 1
ValueAt(args, i, e) == IF e = i THEN args[i].value ELSE <<args[i + 1].text>>
IsGoodAt(args, i, e) ==
    /\ Named(args[i]) # {} /\ (TakesNext(args[i]) <=> e # i)
    /\ IsGoodValue(NamedOne(args[i]), ValueAt(args, i, e))
SettingAt(args, i, e) == Setting(SubSeq(args, i, e))

LEMMA SettingIs ==
    ASSUME NEW args \in Seq(Arguments), NEW i \in 1..Len(args), NEW e \in {i, i + 1}, e <= Len(args)
    PROVE  /\ IsGoodAt(args, i, e) <=>
                 IsSetting(SubSeq(args, i, e)) /\ ~IsExit(SettingAt(args, i, e).result)
           /\ IsGoodAt(args, i, e) =>
                 /\ SettingAt(args, i, e).field = NamedOne(args[i]).field
                 /\ SettingAt(args, i, e).result.value = ValueOf(NamedOne(args[i]), ValueAt(args, i, e))
  <1> DEFINE arg == args[i]
             s == SubSeq(args, i, e)
             o == NamedOne(arg)
             v == ValueAt(args, i, e)
             r == SettingAt(args, i, e)
  <1>1. arg \in Arguments
    OBVIOUS
  <1>2. /\ s[1] = arg /\ Len(s) = (IF e = i THEN 1 ELSE 2)
        /\ e # i => s[2] = args[i + 1]
    <2>1. e = i => Len(s) = 1 /\ s[1] = arg
      OBVIOUS
    <2>2. e # i => e = i + 1 /\ Len(s) = 2 /\ s[1] = arg /\ s[2] = args[i + 1]
      OBVIOUS
    <2> QED  BY <2>1, <2>2
  <1> HIDE DEF s, arg
  <1>3. v = (IF e = i THEN arg.value ELSE <<args[i + 1].text>>) /\ (e # i => v # <<>>)
    BY DEF ValueAt, arg
  <1>4. /\ r.field = o.field
        /\ r.result = IF o.kind = "flag" THEN [value |-> TRUE] ELSE ReadValue(o, v[1])
    <2> DEFINE w == IF Len(s) = 2 THEN <<s[2].text>> ELSE s[1].value
    <2>1. w = v
      BY <1>2, <1>3
    <2>2. r = [field |-> NamedOne(s[1]).field,
               result |-> IF NamedOne(s[1]).kind = "flag" THEN [value |-> TRUE] ELSE ReadValue(NamedOne(s[1]), w[1])]
      BY DEF SettingAt, Setting, s
    <2> HIDE DEF w, v, r
    <2> QED  BY <1>2, <2>1, <2>2
  <1>5. IsExit(r.result) <=> o.kind # "flag" /\ IsExit(ReadValue(o, v[1]))
    <2>1. ~IsExit([value |-> TRUE])
      BY DEF IsExit
    <2> HIDE DEF r, o, v, IsExit
    <2> QED  BY <1>4, <2>1
  <1>6. CASE Named(arg) = {}
    <2>1. ~IsSetting(s) /\ ~IsGoodAt(args, i, e)
      BY <1>2, <1>6 DEF IsSetting, IsGoodAt, arg
    <2> QED  BY <2>1 DEF s
  <1>7. CASE Named(arg) # {}
    <2>1. /\ o \in OptionTable /\ Named(arg) = {o}
          /\ TakesNext(arg) <=> arg.form = "short" /\ o.kind # "flag" /\ arg.value = <<>>
      BY <1>1, <1>7, OneNamed
    <2>2. IsSetting(s) <=> (IF o.kind = "flag" THEN e = i /\ arg.value = <<>>
                            ELSE IF e # i THEN arg.form = "short" /\ arg.value = <<>> ELSE arg.value # <<>>)
      <3> HIDE DEF o
      <3>1. IsSetting(s) <=> (IF o.kind = "flag" THEN Len(s) = 1 /\ s[1].value = <<>>
                              ELSE IF Len(s) = 2 THEN s[1].form = "short" /\ s[1].value = <<>> ELSE s[1].value # <<>>)
        BY <1>2, <2>1 DEF IsSetting
      <3> QED  BY <1>2, <3>1
    <2>3. IsGoodAt(args, i, e) <=> (TakesNext(arg) <=> e # i) /\ IsGoodValue(o, v)
      BY <1>7 DEF IsGoodAt, arg
    <2>4. IsGoodValue(o, v) <=> IF o.kind = "flag" THEN v = <<>> ELSE v # <<>> /\ ~IsExit(ReadValue(o, v[1]))
      BY DEF IsGoodValue
    <2>5. ValueOf(o, v) = IF o.kind = "flag" THEN TRUE ELSE ReadValue(o, v[1]).value
      BY DEF ValueOf
    <2> HIDE DEF o, v, r, IsExit
    <2>6. IsGoodAt(args, i, e) <=> IsSetting(s) /\ ~IsExit(r.result)
      BY <1>3, <1>5, <2>1, <2>2, <2>3, <2>4
    <2>7. r.result.value = ValueOf(o, v)
      BY <1>4, <2>5
    <2> QED  BY <1>4, <2>6, <2>7 DEF o, v, r, arg, s
  <1> QED  BY <1>6, <1>7

IsEndOfGroup(n, b, i, e) == /\ e \in i..n /\ e + 1 \in b \cup {n + 1}
                            /\ \A k \in i + 1..e : k \notin b

LEMMA EndOfGroup ==
    ASSUME NEW n \in Nat, NEW b \in SUBSET (1..n), NEW i \in b
    PROVE  LET end == CHOOSE e \in i..n : e + 1 \in b \cup {n + 1} /\ \A k \in i + 1..e : k \notin b
               e == IF i + 1 \in b \cup {n + 1} THEN i ELSE i + 1
           IN  /\ end <= i + 1 <=> e + 1 \in b \cup {n + 1}
               /\ end <= i + 1 => end = e
               /\ e + 1 \in b \cup {n + 1} => e <= n
  <1> DEFINE end == CHOOSE e \in i..n : e + 1 \in b \cup {n + 1} /\ \A k \in i + 1..e : k \notin b
             e == IF i + 1 \in b \cup {n + 1} THEN i ELSE i + 1
             W == {j \in i..n : j + 1 \in b \cup {n + 1}}
  <1>1. i \in 1..n
    OBVIOUS
  <1>2. IsEndOfGroup(n, b, i, Min(W))
    <2>1. W \subseteq Nat /\ n \in W
      BY <1>1
    <2>2. Min(W) \in W /\ \A j \in W : Min(W) <= j
      BY <2>1, Least
    <2> DEFINE m == Min(W)
    <2> HIDE DEF m
    <2>3. m \in i..n /\ m + 1 \in b \cup {n + 1} /\ \A j \in i..n : j + 1 \in b \cup {n + 1} => m <= j
      BY <2>2 DEF m
    <2>4. ASSUME NEW k \in i + 1..m, k \in b PROVE FALSE
      <3>1. k - 1 \in i..n /\ (k - 1) + 1 = k /\ k - 1 < m
        BY <1>1, <2>3
      <3>2. m <= k - 1
        BY <2>3, <2>4, <3>1
      <3> QED  BY <1>1, <2>3, <3>1, <3>2
    <2> QED  BY <2>3, <2>4 DEF IsEndOfGroup, m
  <1>3. IsEndOfGroup(n, b, i, end)
    BY <1>2 DEF IsEndOfGroup
  <1> HIDE DEF end, W
  <1>4. ASSUME NEW x, NEW y, IsEndOfGroup(n, b, i, x), IsEndOfGroup(n, b, i, y), x < y PROVE FALSE
    <2>1. x \in Nat /\ y \in Nat /\ x + 1 \in i + 1..y /\ x + 1 # n + 1
      BY <1>1, <1>4 DEF IsEndOfGroup
    <2> QED  BY <1>4, <2>1 DEF IsEndOfGroup
  <1>5. end \in i..n
    BY <1>3 DEF IsEndOfGroup
  <1>6. ASSUME end <= i + 1 PROVE end = e /\ e + 1 \in b \cup {n + 1}
    <2>1. end = i \/ end = i + 1
      BY <1>1, <1>5, <1>6
    <2>2. CASE end = i
      BY <1>3, <2>2 DEF IsEndOfGroup
    <2>3. CASE end = i + 1
      <3>1. i + 1 \notin b /\ i + 1 # n + 1 /\ (i + 1) + 1 \in b \cup {n + 1}
        BY <1>1, <1>3, <2>3 DEF IsEndOfGroup
      <3>2. e = i + 1
        BY <3>1
      <3> QED  BY <2>3, <3>1, <3>2
    <2> QED  BY <2>1, <2>2, <2>3
  <1>7. ASSUME e + 1 \in b \cup {n + 1} PROVE end = e /\ e <= n /\ end <= i + 1
    <2>1. IsEndOfGroup(n, b, i, e)
      <3>1. CASE i + 1 \in b \cup {n + 1}
        BY <1>1, <1>7, <3>1 DEF IsEndOfGroup
      <3>2. CASE i + 1 \notin b \cup {n + 1}
        <4>1. e = i + 1 /\ i + 1 \in i..n /\ \A k \in i + 1..i + 1 : k = i + 1
          BY <1>1, <3>2
        <4> HIDE DEF e
        <4> QED  BY <1>7, <3>2, <4>1 DEF IsEndOfGroup
      <3> QED  BY <3>1, <3>2
    <2>2. e \in Nat /\ e <= n /\ e <= i + 1
      BY <1>1, <2>1 DEF IsEndOfGroup
    <2>3. end = e
      <3>1. ~(end < e) /\ ~(e < end)
        BY <1>3, <1>4, <2>1
      <3> HIDE DEF e
      <3> QED  BY <1>1, <1>5, <2>2, <3>1
    <2> QED  BY <2>2, <2>3
  <1> QED  BY <1>6, <1>7 DEF end

\* The settings of a command line, all of them good.
IsGoodGrouping(args, b) ==
    /\ b \subseteq 1..Len(args) /\ (Len(args) > 0 => 1 \in b)
    /\ \A i \in b : LET e == GroupEnd(args, b, i) IN
                    e + 1 \in b \cup {Len(args) + 1} /\ IsGoodAt(args, i, e)

LEMMA GroupingIs ==
    ASSUME NEW args \in Seq(Arguments), NEW b
    PROVE  IsGoodGrouping(args, b) <=>
              /\ b \in Groupings(args)
              /\ \A i \in b : ~IsExit(SettingAt(args, i, GroupEnd(args, b, i)).result)
  <1> DEFINE n == Len(args)
             end(i) == CHOOSE e \in i..n : e + 1 \in b \cup {n + 1} /\ \A k \in i + 1..e : k \notin b
  <1>1. n \in Nat
    OBVIOUS
  <1>2. b \in Groupings(args) <=>
           /\ b \subseteq 1..n /\ (n > 0 => 1 \in b)
           /\ \A i \in b : end(i) <= i + 1 /\ IsSetting(SubSeq(args, i, end(i)))
    BY DEF Groupings
  <1>3. ASSUME b \in SUBSET (1..n), NEW i \in b
        PROVE  LET e == GroupEnd(args, b, i) IN
               (e + 1 \in b \cup {n + 1} /\ IsGoodAt(args, i, e)) <=>
                  /\ end(i) <= i + 1 /\ IsSetting(SubSeq(args, i, end(i)))
                  /\ ~IsExit(SettingAt(args, i, e).result)
    <2> DEFINE e == GroupEnd(args, b, i)
    <2>1. e = IF i + 1 \in b \cup {n + 1} THEN i ELSE i + 1
      BY DEF GroupEnd
    <2>2. /\ end(i) <= i + 1 <=> e + 1 \in b \cup {n + 1}
          /\ end(i) <= i + 1 => end(i) = e
          /\ e + 1 \in b \cup {n + 1} => e <= n
      <3>1. b \in SUBSET (1..n) /\ i \in b
        BY <1>3
      <3> HIDE DEF n
      <3>2. LET x == IF i + 1 \in b \cup {n + 1} THEN i ELSE i + 1
            IN  /\ end(i) <= i + 1 <=> x + 1 \in b \cup {n + 1}
                /\ end(i) <= i + 1 => end(i) = x
                /\ x + 1 \in b \cup {n + 1} => x <= n
        BY <1>1, <3>1, EndOfGroup
      <3> HIDE DEF end, e
      <3> QED  BY <2>1, <3>2
    <2>3. i \in 1..n /\ e \in {i, i + 1}
      BY <1>3, <2>1
    <2> HIDE DEF e, end
    <2>4. e <= n => (IsGoodAt(args, i, e) <=>
                        IsSetting(SubSeq(args, i, e)) /\ ~IsExit(SettingAt(args, i, e).result))
      BY <2>3, SettingIs DEF n
    <2>5. (e + 1 \in b \cup {n + 1} /\ IsGoodAt(args, i, e)) <=>
             /\ end(i) <= i + 1 /\ IsSetting(SubSeq(args, i, end(i)))
             /\ ~IsExit(SettingAt(args, i, e).result)
      <3> HIDE DEF n
      <3> QED  BY <2>2, <2>4
    <2> QED  BY <2>5 DEF e
  <1> HIDE DEF end
  <1> QED  BY <1>2, <1>3 DEF IsGoodGrouping

\* What the settings that end at k or before leave in the fields.
FieldAt(args, i) == NamedOne(args[i]).field
GivenAt(args, b, i) == ValueOf(NamedOne(args[i]), ValueAt(args, i, GroupEnd(args, b, i)))
Done(args, b, k) == {i \in b : GroupEnd(args, b, i) <= k}
IsLastFor(args, done, f, i) ==
    i \in done /\ FieldAt(args, i) = f /\ \A j \in done : FieldAt(args, j) = f => j <= i
Holds(args, b, done, s) ==
    \A f \in OptionFields :
       \/ s[f] = Defaults[f] /\ \A i \in done : FieldAt(args, i) # f
       \/ \E i \in done : IsLastFor(args, done, f, i) /\ s[f] = GivenAt(args, b, i)

LEMMA HoldsMore ==
    ASSUME NEW args, NEW b, NEW done, NEW i \in Nat, done \subseteq Nat, \A j \in done : j < i,
           FieldAt(args, i) \in OptionFields,
           NEW s \in Settings, Holds(args, b, done, s)
    PROVE  Holds(args, b, done \cup {i}, [s EXCEPT ![FieldAt(args, i)] = GivenAt(args, b, i)])
  <1> DEFINE t == [s EXCEPT ![FieldAt(args, i)] = GivenAt(args, b, i)]
             more == done \cup {i}
  <1>1. t[FieldAt(args, i)] = GivenAt(args, b, i) /\ \A f \in OptionFields : f # FieldAt(args, i) => t[f] = s[f]
    BY DEF Settings
  <1> HIDE DEF t
  <1>2. ASSUME NEW f \in OptionFields, f = FieldAt(args, i)
        PROVE  IsLastFor(args, more, f, i) /\ t[f] = GivenAt(args, b, i) /\ i \in more
    <2>1. \A j \in more : j <= i
      OBVIOUS
    <2> QED  BY <1>1, <1>2, <2>1 DEF IsLastFor
  <1>3. ASSUME NEW f \in OptionFields, f # FieldAt(args, i), NEW j \in done, IsLastFor(args, done, f, j)
        PROVE  IsLastFor(args, more, f, j)
    BY <1>3 DEF IsLastFor
  <1>4. ASSUME NEW f \in OptionFields, f # FieldAt(args, i)
        PROVE  \/ t[f] = Defaults[f] /\ \A j \in more : FieldAt(args, j) # f
               \/ \E j \in more : IsLastFor(args, more, f, j) /\ t[f] = GivenAt(args, b, j)
    <2>1. CASE s[f] = Defaults[f] /\ \A j \in done : FieldAt(args, j) # f
      BY <1>1, <1>4, <2>1
    <2>2. CASE \E j \in done : IsLastFor(args, done, f, j) /\ s[f] = GivenAt(args, b, j)
      <3>1. PICK j \in done : IsLastFor(args, done, f, j) /\ s[f] = GivenAt(args, b, j)
        BY <2>2
      <3> QED  BY <1>1, <1>3, <1>4, <3>1
    <2> QED  BY <2>1, <2>2 DEF Holds
  <1> QED  BY <1>2, <1>4 DEF Holds, t

\* Good settings are parsed, the last of a field last.
AtGroup(args, b, acc, k) ==
    /\ acc.result \in Settings /\ Holds(args, b, Done(args, b, k), acc.result)
    /\ IF k + 1 \in b \cup {Len(args) + 1} THEN acc.for = <<>>
       ELSE k \in b /\ acc.for = <<NamedOne(args[k])>>

LEMMA GoodIsParsed ==
    ASSUME NEW args \in Seq(Arguments), NEW f \in [0..Len(args) -> Parsing], ParsedBy(f, args),
           NEW b, IsGoodGrouping(args, b)
    PROVE  AtGroup(args, b, f[Len(args)], Len(args))
  <1> DEFINE n == Len(args)
             e(i) == GroupEnd(args, b, i)
             done(k) == Done(args, b, k)
             T == {k \in 0..n : AtGroup(args, b, f[k], k)}
  <1>1. n \in Nat /\ \A i \in 1..n : args[i] \in Arguments
    OBVIOUS
  <1>2. /\ b \subseteq 1..n /\ (n > 0 => 1 \in b)
        /\ \A i \in b : e(i) + 1 \in b \cup {n + 1} /\ IsGoodAt(args, i, e(i))
    BY DEF IsGoodGrouping
  <1>3. \A i \in b : e(i) = IF i + 1 \in b \cup {n + 1} THEN i ELSE i + 1
    BY DEF GroupEnd
  <1>4. f[0] = Parsed(<<>>, Defaults) /\ \A i \in 1..n : f[i] = ParseArg(f[i - 1], args[i])
    BY DEF ParsedBy
  <1>5. \A k : done(k) = {i \in b : e(i) <= k}
    BY DEF Done
  <1>6. \A k : f[k].result \in Settings => ~IsExit(f[k].result)
    BY NoExitInSettings
  <1> HIDE DEF e, done, IsExit
  <1>7. \A acc, k : AtGroup(args, b, acc, k) <=>
           /\ acc.result \in Settings /\ Holds(args, b, done(k), acc.result)
           /\ IF k + 1 \in b \cup {n + 1} THEN acc.for = <<>> ELSE k \in b /\ acc.for = <<NamedOne(args[k])>>
    BY DEF AtGroup, done
  <1> HIDE DEF n
  <1>8. 0 \in T
    <2>1. done(0) = {}
      BY <1>1, <1>2, <1>3, <1>5
    <2>2. f[0].result = Defaults /\ f[0].for = <<>>
      BY <1>4, ParsingIs
    <2>3. Defaults \in Settings
      <3>1. f[0] \in Parsing
        BY <1>1 DEF n
      <3>2. ~IsExit(Defaults)
        BY FieldsAre DEF IsExit
      <3> QED  BY <2>2, <3>1, <3>2, ParsingIs
    <2>4. Holds(args, b, {}, Defaults)
      BY DEF Holds
    <2>5. 0 + 1 \in b \cup {n + 1}
      BY <1>1, <1>2
    <2>6. AtGroup(args, b, f[0], 0)
      BY <1>7, <2>1, <2>2, <2>3, <2>4, <2>5
    <2> QED  BY <1>1, <2>6
  \* One setting more.
  <1>9. ASSUME NEW i \in b, NEW k \in 0..n - 1, e(i) = k + 1, f[k].result \in Settings,
               Holds(args, b, done(k), f[k].result),
               f[k + 1] = Parsed(<<>>, Set(f[k].result, NamedOne(args[i]), ValueAt(args, i, e(i))))
        PROVE  AtGroup(args, b, f[k + 1], k + 1)
    <2> DEFINE o == NamedOne(args[i])
               v == ValueAt(args, i, e(i))
               s == f[k].result
    <2>1. i \in 1..n /\ e(i) <= n
      BY <1>1, <1>2, <1>9
    <2>2. o \in OptionTable /\ IsGoodValue(o, v)
      <3>1. Named(args[i]) # {} /\ IsGoodValue(o, v)
        BY <1>2 DEF IsGoodAt
      <3> QED  BY <1>1, <2>1, <3>1, OneNamed
    <2>3. v \in OptionValues
      <3>1. e(i) # i => i + 1 \in 1..n
        BY <1>1, <1>3, <2>1
      <3> QED  BY <1>1, <2>1, <3>1, ArgumentsAre DEF ValueAt
    <2>4. Set(s, o, v) = [s EXCEPT ![o.field] = ValueOf(o, v)] /\ ValueOf(o, v) \in FieldValues
      BY <1>9, <2>2, <2>3, SetIs
    <2>5. o.field \in OptionFields
      BY <2>2 DEF OptionFields
    <2>6. FieldAt(args, i) = o.field /\ GivenAt(args, b, i) = ValueOf(o, v)
      BY DEF FieldAt, GivenAt, e
    <2> HIDE DEF o, v, s
    <2>7. done(k + 1) = done(k) \cup {i} /\ done(k) \subseteq Nat /\ \A j \in done(k) : j < i
      <3>1. ASSUME NEW j \in b PROVE e(j) <= k + 1 <=> e(j) <= k \/ j = i
        <4>1. j \in 1..n /\ k \in Nat /\ e(j) \in {j, j + 1} /\ e(i) \in {i, i + 1}
          BY <1>1, <1>2, <1>3
        <4>2. e(j) = k + 1 => j = i
          BY <1>2, <1>3, <1>9, <2>1, <4>1
        <4> QED  BY <1>9, <4>1, <4>2
      <3>2. ASSUME NEW j \in b, e(j) <= k PROVE j < i
        <4>1. j \in 1..n /\ k \in Nat /\ e(j) \in {j, j + 1} /\ e(i) \in {i, i + 1}
          BY <1>1, <1>2, <1>3
        <4>2. j <= k /\ k <= i /\ j # i
          BY <1>9, <2>1, <3>2, <4>1
        <4> QED  BY <2>1, <4>1, <4>2
      <3>3. done(k + 1) = {j \in b : e(j) <= k + 1} /\ done(k) = {j \in b : e(j) <= k}
        BY <1>5
      <3>4. done(k + 1) = done(k) \cup {i}
        BY <3>1, <3>3
      <3>5. done(k) \subseteq Nat /\ \A j \in done(k) : j < i
        <4>1. \A j \in b : j \in Nat
          BY <1>1, <1>2
        <4> QED  BY <3>2, <3>3, <4>1
      <3> QED  BY <3>4, <3>5
    <2>8. Holds(args, b, done(k + 1), Set(s, o, v))
      <3>1. i \in Nat
        BY <2>1
      <3>2. Holds(args, b, done(k), s) /\ s \in Settings
        BY <1>9 DEF s
      <3>3. Holds(args, b, done(k) \cup {i}, [s EXCEPT ![FieldAt(args, i)] = GivenAt(args, b, i)])
        BY <2>5, <2>6, <2>7, <3>1, <3>2, HoldsMore
      <3> QED  BY <2>4, <2>6, <2>7, <3>3
    <2>9. Set(s, o, v) \in Settings
      <3>1. s \in Settings
        BY <1>9 DEF s
      <3> QED  BY <2>4, <2>5, <3>1 DEF Settings
    <2>10. (k + 1) + 1 \in b \cup {n + 1}
      BY <1>2, <1>9
    <2>11. f[k + 1].for = <<>> /\ f[k + 1].result = Set(s, o, v)
      BY <1>9, ParsingIs DEF s, o, v
    <2> QED  BY <1>7, <2>8, <2>9, <2>10, <2>11
  <1>10. ASSUME NEW k \in 0..n - 1, k \in T PROVE k + 1 \in T
    <2>1. k \in 0..n /\ k + 1 \in 1..n /\ (k + 1) - 1 = k /\ k + 1 \in 0..n
      BY <1>1
    <2>2. AtGroup(args, b, f[k], k)
      BY <1>10
    <2>3. f[k] \in Parsing /\ args[k + 1] \in Arguments
      BY <1>1, <2>1 DEF n
    <2>4. f[k].result \in Settings /\ ~IsExit(f[k].result) /\ Holds(args, b, done(k), f[k].result)
      BY <1>6, <1>7, <2>2
    <2>5. f[k + 1] = ParseArg(f[k], args[k + 1])
      BY <1>4, <2>1
    <2>6. CASE k + 1 \in b
      <3> DEFINE i == k + 1
                 o == NamedOne(args[i])
      <3>1. f[k].for = <<>> /\ Named(args[i]) # {} /\ (TakesNext(args[i]) <=> e(i) # i)
        BY <1>2, <1>7, <2>2, <2>6 DEF IsGoodAt
      <3>2. f[i] = IF TakesNext(args[i]) THEN Parsed(<<o>>, f[k].result)
                   ELSE Parsed(<<>>, Set(f[k].result, o, args[i].value))
        BY <2>3, <2>4, <2>5, <3>1, StepIs
      <3>3. CASE e(i) # i
        <4>1. f[i].for = <<o>> /\ f[i].result = f[k].result
          BY <3>1, <3>2, <3>3, ParsingIs
        <4>2. i + 1 \notin b \cup {n + 1}
          BY <1>3, <2>6, <3>3
        <4>3. done(i) = done(k)
          <5>1. ASSUME NEW j \in b PROVE e(j) <= i <=> e(j) <= k
            <6>1. j \in 1..n /\ k \in Nat /\ e(j) \in {j, j + 1}
              BY <1>2, <1>3
            <6>2. e(j) # k + 1
              BY <1>1, <1>3, <2>1, <2>6, <3>3, <6>1
            <6> QED  BY <6>1, <6>2
          <5> QED  BY <1>5, <5>1
        <4>4. AtGroup(args, b, f[i], i)
          <5> HIDE DEF o
          <5> QED  BY <1>7, <2>4, <2>6, <4>1, <4>2, <4>3 DEF o
        <4> QED  BY <2>1, <4>4
      <3>4. CASE e(i) = i
        <4>1. ValueAt(args, i, e(i)) = args[i].value
          BY <3>4 DEF ValueAt
        <4>2. AtGroup(args, b, f[k + 1], k + 1)
          BY <1>9, <2>4, <2>6, <3>1, <3>2, <3>4, <4>1
        <4> QED  BY <2>1, <4>2
      <3> QED  BY <3>3, <3>4
    <2>7. CASE k + 1 \notin b
      <3>1. k + 1 \notin b \cup {n + 1}
        BY <1>1, <2>7
      <3>2. k \in b /\ f[k].for = <<NamedOne(args[k])>>
        BY <1>7, <2>2, <3>1
      <3>3. e(k) = k + 1 /\ e(k) # k
        BY <1>3, <3>1, <3>2
      <3>4. ValueAt(args, k, e(k)) = <<args[k + 1].text>>
        BY <3>3 DEF ValueAt
      <3>5. f[k].for # <<>> /\ f[k].for[1] = NamedOne(args[k])
        BY <3>2
      <3>6. f[k + 1] = Parsed(<<>>, Set(f[k].result, f[k].for[1], <<args[k + 1].text>>))
        BY <2>3, <2>4, <2>5, <3>5, StepIs
      <3>7. AtGroup(args, b, f[k + 1], k + 1)
        BY <1>9, <2>4, <3>2, <3>3, <3>4, <3>5, <3>6
      <3> QED  BY <2>1, <3>7
    <2> QED  BY <2>6, <2>7
  <1>11. n \in T
    <2>1. \A k \in 0..n : k \in T
      <3> HIDE DEF T
      <3> QED  BY <1>1, <1>8, <1>10, Induct
    <2> QED  BY <1>1, <2>1
  <1> QED  BY <1>11 DEF n

\* And what was parsed is settings, all good.
LEMMA ParsedIsGood ==
    ASSUME NEW args \in Seq(Arguments), NEW f \in [0..Len(args) -> Parsing], ParsedBy(f, args),
           f[Len(args)].for = <<>>, ~IsExit(f[Len(args)].result)
    PROVE  IsGoodGrouping(args, {i \in 1..Len(args) : f[i - 1].for = <<>>})
  <1> DEFINE n == Len(args)
             b == {i \in 1..n : f[i - 1].for = <<>>}
             e(i) == GroupEnd(args, b, i)
             T == {j \in 0..n : ~IsExit(f[n - j].result)}
  <1> HIDE DEF IsExit
  <1>1. n \in Nat /\ \A i \in 1..n : args[i] \in Arguments
    OBVIOUS
  <1>2. f[0] = Parsed(<<>>, Defaults) /\ \A i \in 1..n : f[i] = ParseArg(f[i - 1], args[i])
    BY DEF ParsedBy
  <1>3. f \in [0..n -> Parsing] /\ f[n].for = <<>> /\ ~IsExit(f[n].result)
    OBVIOUS
  <1> HIDE DEF n
  <1>4. \A k \in 0..n : ~IsExit(f[k].result)
    <2>1. 0 \in T
      BY <1>1, <1>3
    <2>2. ASSUME NEW j \in 0..n - 1, j \in T PROVE j + 1 \in T
      <3>1. n - j \in 1..n /\ (n - j) - 1 = n - (j + 1) /\ n - (j + 1) \in 0..n /\ j + 1 \in 0..n
        BY <1>1
      <3>2. ~IsExit(f[n - j].result) /\ f[n - j] = ParseArg(f[n - (j + 1)], args[n - j])
        BY <1>2, <2>2, <3>1
      <3>3. f[n - (j + 1)] \in Parsing /\ args[n - j] \in Arguments
        BY <1>1, <1>3, <3>1
      <3>4. ~IsExit(f[n - (j + 1)].result)
        BY <3>2, <3>3, StepIs
      <3> QED  BY <3>1, <3>4
    <2>3. \A j \in 0..n : j \in T
      <3> HIDE DEF T
      <3> QED  BY <1>1, <2>1, <2>2, Induct
    <2>4. ASSUME NEW k \in 0..n PROVE ~IsExit(f[k].result)
      <3>1. n - k \in 0..n /\ n - (n - k) = k
        BY <1>1
      <3>2. n - k \in T
        BY <2>3, <3>1
      <3> QED  BY <3>1, <3>2
    <2> QED  BY <2>4
  <1>5. \A i \in 0..n : i + 1 \in b \cup {n + 1} <=> f[i].for = <<>>
    <2>1. ASSUME NEW i \in 0..n PROVE i + 1 \in b \cup {n + 1} <=> f[i].for = <<>>
      <3>1. (i + 1) - 1 = i /\ (i = n \/ i + 1 \in 1..n) /\ (i # n => i + 1 # n + 1)
        BY <1>1
      <3> QED  BY <1>3, <3>1
    <2> QED  BY <2>1
  <1>6. \A i \in b : i \in 1..n /\ f[i - 1].for = <<>>
    OBVIOUS
  <1>7. n > 0 => 1 \in b
    <2>1. f[0].for = <<>>
      BY <1>2, ParsingIs
    <2> QED  BY <1>1, <2>1
  <1>8. \A i \in b : e(i) = IF i + 1 \in b \cup {n + 1} THEN i ELSE i + 1
    BY DEF GroupEnd, n
  <1> HIDE DEF b, e
  \* What is set is good.
  <1>9. ASSUME NEW s \in Settings, NEW o \in OptionTable, NEW v \in OptionValues, ~IsExit(Set(s, o, v))
        PROVE  IsGoodValue(o, v)
    BY <1>9, SetIs, NoExitInSettings
  <1>10. ASSUME NEW i \in b PROVE e(i) + 1 \in b \cup {n + 1} /\ IsGoodAt(args, i, e(i))
    <2> DEFINE o == NamedOne(args[i])
    <2>1. i \in 1..n /\ i - 1 \in 0..n /\ i \in 0..n /\ args[i] \in Arguments
      BY <1>1, <1>6
    <2>2. /\ f[i - 1] \in Parsing /\ f[i] \in Parsing /\ f[i] = ParseArg(f[i - 1], args[i])
          /\ ~IsExit(f[i - 1].result) /\ ~IsExit(f[i].result) /\ f[i - 1].for = <<>>
      BY <1>2, <1>3, <1>4, <1>6, <2>1
    <2>3. f[i - 1].result \in Settings /\ f[i].result \in Settings
      BY <2>2, ParsingIs
    <2>4. Named(args[i]) # {}
      BY <2>1, <2>2, StepIs
    <2>5. o \in OptionTable
      BY <2>1, <2>4, OneNamed
    <2>6. f[i] = IF TakesNext(args[i]) THEN Parsed(<<o>>, f[i - 1].result)
                 ELSE Parsed(<<>>, Set(f[i - 1].result, o, args[i].value))
      BY <2>1, <2>2, <2>4, StepIs
    <2> HIDE DEF o
    <2>7. CASE TakesNext(args[i])
      <3>1. f[i].for = <<o>>
        BY <2>6, <2>7, ParsingIs
      <3>2. i + 1 \notin b \cup {n + 1} /\ e(i) = i + 1 /\ e(i) # i
        <4>1. f[i].for # <<>>
          BY <3>1
        <4>2. i + 1 \notin b \cup {n + 1}
          BY <1>5, <2>1, <4>1
        <4>3. e(i) = i + 1
          BY <1>8, <4>2
        <4> QED  BY <2>1, <4>2, <4>3
      <3>3. i + 1 \in 1..n /\ i + 1 \in 0..n /\ (i + 1) - 1 = i /\ args[i + 1] \in Arguments
        BY <1>1, <2>1, <3>2
      <3>4. /\ f[i + 1] = ParseArg(f[i], args[i + 1]) /\ f[i].for # <<>> /\ f[i].for[1] = o
            /\ ~IsExit(f[i + 1].result)
        BY <1>2, <1>4, <3>1, <3>3
      <3>5. f[i + 1] = Parsed(<<>>, Set(f[i].result, o, <<args[i + 1].text>>))
        BY <2>2, <3>3, <3>4, StepIs
      <3>6. f[i + 1].for = <<>> /\ ~IsExit(Set(f[i].result, o, <<args[i + 1].text>>))
        BY <3>4, <3>5, ParsingIs
      <3>7. e(i) + 1 \in b \cup {n + 1}
        BY <1>5, <3>2, <3>3, <3>6
      <3>8. <<args[i + 1].text>> \in OptionValues
        BY <3>3, ArgumentsAre
      <3>9. IsGoodValue(o, <<args[i + 1].text>>)
        BY <1>9, <2>3, <2>5, <3>6, <3>8
      <3>10. ValueAt(args, i, e(i)) = <<args[i + 1].text>>
        BY <3>2 DEF ValueAt
      <3> QED  BY <2>4, <2>7, <3>2, <3>7, <3>9, <3>10 DEF IsGoodAt, o
    <2>8. CASE ~TakesNext(args[i])
      <3>1. f[i].for = <<>> /\ ~IsExit(Set(f[i - 1].result, o, args[i].value))
        BY <2>2, <2>6, <2>8, ParsingIs
      <3>2. i + 1 \in b \cup {n + 1} /\ e(i) = i
        BY <1>5, <1>8, <2>1, <3>1
      <3>3. args[i].value \in OptionValues
        BY <2>1, ArgumentsAre
      <3>4. IsGoodValue(o, args[i].value)
        BY <1>9, <2>3, <2>5, <3>1, <3>3
      <3>5. ValueAt(args, i, e(i)) = args[i].value
        BY <3>2 DEF ValueAt
      <3> QED  BY <2>4, <2>8, <3>2, <3>4, <3>5 DEF IsGoodAt, o
    <2> QED  BY <2>7, <2>8
  <1>11. IsGoodGrouping(args, b)
    BY <1>6, <1>7, <1>10 DEF IsGoodGrouping, e, n
  <1> QED  BY <1>11 DEF b, n

\* No limit is below the one that means none.
LEMMA LimitsAre ==
    ASSUME NEW o \in OptionTable, o.kind = "limit"
    PROVE  /\ Defaults[o.field] >= NoLimit
           /\ \A v : IsGoodValue(o, v) => ValueOf(o, v) >= NoLimit
  <1>1. Defaults[o.field] = DefaultOf(o.field)
    BY DEF Defaults, OptionFields
  <1>2. DefaultOf(o.field) >= NoLimit
    <2>1. \A p \in OptionTable : p.field = o.field => p.kind # "flag"
      BY NamesAreUnique
    <2>2. o.field \notin {"log_level", "version_glob"}
      BY DEF OptionTable, Option
    <2>3. DefaultOf(o.field) \in {-1, 3600, 256, 1}
      <3> DEFINE x == o.field
      <3>1. x # "log_level" /\ x # "version_glob" /\ ~(\E p \in OptionTable : p.field = x /\ p.kind = "flag")
        BY <2>1, <2>2
      <3> HIDE DEF x
      <3>2. DefaultOf(x) \in {-1, 3600, 256, 1}
        BY <3>1 DEF DefaultOf
      <3> QED  BY <3>2 DEF x
    <2> QED  BY <2>3 DEF NoLimit
  <1>3. ASSUME NEW v, IsGoodValue(o, v) PROVE ValueOf(o, v) >= NoLimit
    <2>1. ~IsExit(ReadValue(o, v[1])) /\ ValueOf(o, v) = ReadValue(o, v[1]).value
      BY <1>3 DEF IsGoodValue, ValueOf
    <2>2. IsExit(BadArgs)
      BY DEF BadArgs, Exit, IsExit
    <2> HIDE DEF IsExit
    <2>4. v[1] \in DOMAIN Number /\ ReadValue(o, v[1]) = [value |-> IF Number[v[1]] < 0 THEN NoLimit ELSE Number[v[1]]]
      BY <2>1, <2>2 DEF ReadValue
    <2>5. Number[v[1]] \in Int
      BY <2>4, OptionsAssumption
    <2> QED  BY <2>1, <2>4, <2>5 DEF NoLimit
  <1> QED  BY <1>1, <1>2, <1>3

LEMMA OptionsIs ==
    ASSUME NEW args \in Seq(Arguments)
    PROVE  IsAsSet(args, ParseArgs(args))
  <1> DEFINE n == Len(args)
             r == ParseArgs(args)
             e(b, i) == IF i + 1 \in b \cup {n + 1} THEN i ELSE i + 1
             settings(b) == {<<i, Setting(SubSeq(args, i, e(b, i)))>> : i \in b}
             good(b) == \A s \in settings(b) : ~IsExit(s[2].result)
             value(b, f) == LET of == {s \in settings(b) : s[2].field = f} IN
                            IF of = {} THEN Defaults[f]
                            ELSE (CHOOSE s \in of : \A t \in of : t[1] <= s[1])[2].result.value
  <1> HIDE DEF IsExit
  <1>1. n \in Nat
    OBVIOUS
  <1>2. PICK f \in [0..n -> Parsing] : ParsedBy(f, args)
    BY PrefixesAre
  <1>3. f[n] \in Parsing /\ r = IF f[n].for # <<>> THEN BadArgs ELSE f[n].result
    BY <1>1, <1>2 DEF ParsedBy
  <1>4. IsExit(BadArgs)
    BY NoExitInSettings DEF BadArgs, Exits
  <1>5. ~IsExit(r) <=> f[n].for = <<>> /\ f[n].result \in Settings
    BY <1>3, <1>4, ParsingIs
  <1>6. \A b, i : e(b, i) = GroupEnd(args, b, i) /\ Setting(SubSeq(args, i, e(b, i))) = SettingAt(args, i, e(b, i))
    BY DEF GroupEnd, SettingAt
  <1> HIDE DEF n, r, e
  <1>7. ASSUME NEW b PROVE good(b) <=> \A i \in b : ~IsExit(SettingAt(args, i, GroupEnd(args, b, i)).result)
    <2>1. good(b) <=> \A i \in b : ~IsExit(Setting(SubSeq(args, i, e(b, i))).result)
      <3> DEFINE g(i) == Setting(SubSeq(args, i, e(b, i)))
      <3>1. settings(b) = {<<i, g(i)>> : i \in b} /\ \A i : <<i, g(i)>>[2] = g(i)
        OBVIOUS
      <3> HIDE DEF g, settings
      <3>2. good(b) <=> \A i \in b : ~IsExit(g(i).result)
        BY <3>1
      <3> QED  BY <3>2 DEF g
    <2> HIDE DEF good
    <2> QED  BY <1>6, <2>1
  <1>8. ASSUME NEW b PROVE IsGoodGrouping(args, b) <=> b \in Groupings(args) /\ good(b)
    <2> HIDE DEF good
    <2> QED  BY <1>7, GroupingIs
  <1>9. ~IsExit(r) => \E b \in Groupings(args) : good(b)
    <2> SUFFICES ASSUME ~IsExit(r) PROVE \E b \in Groupings(args) : good(b)
      OBVIOUS
    <2> DEFINE b == {i \in 1..Len(args) : f[i - 1].for = <<>>}
    <2>1. f[Len(args)].for = <<>> /\ ~IsExit(f[Len(args)].result)
      BY <1>5, NoExitInSettings DEF n
    <2>2. IsGoodGrouping(args, b)
      BY <1>2, <2>1, ParsedIsGood DEF n
    <2> HIDE DEF b, good
    <2> QED  BY <1>8, <2>2
  <1>10. ASSUME NEW b, IsGoodGrouping(args, b)
         PROVE  ~IsExit(r) /\ r \in Settings /\ Holds(args, b, b, r)
    <2>1. AtGroup(args, b, f[n], n)
      BY <1>2, <1>10, GoodIsParsed DEF n
    <2>2. f[n].for = <<>> /\ f[n].result \in Settings /\ Holds(args, b, Done(args, b, n), f[n].result)
      BY <2>1 DEF AtGroup, n
    <2>3. Done(args, b, n) = b
      <3>1. \A i \in b : GroupEnd(args, b, i) <= n
        <4>1. ASSUME NEW i \in b PROVE GroupEnd(args, b, i) <= n
          <5>1. b \subseteq 1..n /\ GroupEnd(args, b, i) + 1 \in b \cup {n + 1}
            BY <1>10 DEF IsGoodGrouping, n
          <5>2. i \in 1..n /\ GroupEnd(args, b, i) \in {i, i + 1}
            BY <5>1 DEF GroupEnd
          <5> QED  BY <1>1, <5>1, <5>2
        <4> QED  BY <4>1
      <3> QED  BY <3>1 DEF Done
    <2> QED  BY <1>3, <1>5, <2>2, <2>3
  <1>11. ASSUME NEW b, IsGoodGrouping(args, b), NEW x \in OptionFields PROVE r[x] = value(b, x)
    <2> DEFINE of == {s \in settings(b) : s[2].field = x}
               at(i) == <<i, SettingAt(args, i, GroupEnd(args, b, i))>>
    <2>1. Holds(args, b, b, r)
      BY <1>10, <1>11
    <2>2. settings(b) = {at(i) : i \in b}
      BY <1>6
    <2>3. \A i \in b : at(i)[1] = i /\ at(i)[2] = SettingAt(args, i, GroupEnd(args, b, i))
      OBVIOUS
    <2>4. ASSUME NEW i \in b
          PROVE  /\ i \in Nat /\ at(i)[2].field = FieldAt(args, i)
                 /\ at(i)[2].result.value = GivenAt(args, b, i)
      <3> DEFINE d == GroupEnd(args, b, i)
      <3>1. b \subseteq 1..n /\ d + 1 \in b \cup {n + 1} /\ IsGoodAt(args, i, d)
        BY <1>11 DEF IsGoodGrouping, n
      <3>2. i \in 1..n /\ d \in {i, i + 1}
        BY <3>1 DEF GroupEnd
      <3>3. d <= n
        BY <1>1, <3>1, <3>2
      <3> HIDE DEF d, at
      <3>4. /\ SettingAt(args, i, d).field = NamedOne(args[i]).field
            /\ SettingAt(args, i, d).result.value = ValueOf(NamedOne(args[i]), ValueAt(args, i, d))
        BY <3>1, <3>2, <3>3, SettingIs DEF n
      <3> QED  BY <2>3, <3>2, <3>4 DEF FieldAt, GivenAt, d
    <2> HIDE DEF at, settings
    <2>5. value(b, x) = IF of = {} THEN Defaults[x] ELSE (CHOOSE s \in of : \A t \in of : t[1] <= s[1])[2].result.value
      OBVIOUS
    <2>6. of = {at(i) : i \in {j \in b : FieldAt(args, j) = x}}
      BY <2>2, <2>4
    <2> HIDE DEF of
    <2>7. CASE r[x] = Defaults[x] /\ \A i \in b : FieldAt(args, i) # x
      <3>1. of = {}
        BY <2>6, <2>7
      <3> QED  BY <2>5, <2>7, <3>1
    <2>8. CASE \E i \in b : IsLastFor(args, b, x, i) /\ r[x] = GivenAt(args, b, i)
      <3>1. PICK i \in b : IsLastFor(args, b, x, i) /\ r[x] = GivenAt(args, b, i)
        BY <2>8
      <3>2. FieldAt(args, i) = x /\ \A j \in b : FieldAt(args, j) = x => j <= i
        BY <3>1 DEF IsLastFor
      <3>3. at(i) \in of /\ \A t \in of : t[1] <= at(i)[1]
        BY <2>3, <2>6, <3>2
      <3> DEFINE c == CHOOSE s \in of : \A t \in of : t[1] <= s[1]
      <3>4. c \in of /\ \A t \in of : t[1] <= c[1]
        BY <3>3
      <3> HIDE DEF c
      <3>5. PICK j \in b : FieldAt(args, j) = x /\ c = at(j)
        BY <2>6, <3>4
      <3>6. j = i
        <4>1. i \in Nat /\ j \in Nat /\ j <= i
          BY <2>4, <3>2, <3>5
        <4>2. i <= j
          BY <2>3, <3>3, <3>4, <3>5
        <4> QED  BY <4>1, <4>2
      <3>7. c[2].result.value = GivenAt(args, b, i)
        BY <2>4, <3>5, <3>6
      <3>8. value(b, x) = c[2].result.value
        BY <2>5, <3>3 DEF c
      <3> HIDE DEF value
      <3> QED  BY <3>1, <3>7, <3>8
    <2> QED  BY <2>1, <2>7, <2>8 DEF Holds
  <1>12. ASSUME NEW b, IsGoodGrouping(args, b), NEW o \in OptionTable, o.kind = "limit" PROVE r[o.field] >= NoLimit
    <2>1. Holds(args, b, b, r) /\ o.field \in OptionFields
      BY <1>10, <1>12 DEF OptionFields
    <2>2. CASE r[o.field] = Defaults[o.field]
      BY <1>12, <2>2, LimitsAre
    <2>3. CASE \E i \in b : IsLastFor(args, b, o.field, i) /\ r[o.field] = GivenAt(args, b, i)
      <3>1. PICK i \in b : IsLastFor(args, b, o.field, i) /\ r[o.field] = GivenAt(args, b, i)
        BY <2>3
      <3> DEFINE p == NamedOne(args[i])
                 v == ValueAt(args, i, GroupEnd(args, b, i))
      <3>2. p.field = o.field /\ r[o.field] = ValueOf(p, v)
        BY <3>1 DEF IsLastFor, FieldAt, GivenAt
      <3>3. Named(args[i]) # {} /\ IsGoodValue(p, v) /\ i \in 1..n
        BY <1>12 DEF IsGoodGrouping, IsGoodAt, n
      <3>4. p = o
        <4>1. args[i] \in Arguments
          BY <3>3 DEF n
        <4>2. p \in OptionTable
          BY <3>3, <4>1, OneNamed
        <4> HIDE DEF p
        <4> QED  BY <3>2, <4>2, NamesAreUnique
      <3> HIDE DEF p, v
      <3> QED  BY <1>12, <3>2, <3>3, <3>4, LimitsAre
    <2> QED  BY <2>1, <2>2, <2>3 DEF Holds
  <1>13. DOMAIN Defaults = OptionFields
    BY FieldsAre
  <1>14. /\ ~IsExit(r) <=> \E b \in Groupings(args) : good(b)
         /\ ~IsExit(r) => \E b \in Groupings(args) : good(b) /\ \A x \in DOMAIN Defaults : r[x] = value(b, x)
         /\ ~IsExit(r) => \A o \in OptionTable : o.kind = "limit" => r[o.field] >= NoLimit
    <2> HIDE DEF good, value
    <2>1. \A b \in Groupings(args) : good(b) => ~IsExit(r)
      BY <1>8, <1>10
    <2>2. \A b \in Groupings(args) : good(b) => \A x \in OptionFields : r[x] = value(b, x)
      BY <1>8, <1>11
    <2>3. \A b \in Groupings(args) : good(b) => \A o \in OptionTable : o.kind = "limit" => r[o.field] >= NoLimit
      BY <1>8, <1>12
    <2> QED  BY <1>9, <1>13, <2>1, <2>2, <2>3
  <1> QED  BY <1>14 DEF IsAsSet, r, n, e

----------------------------------------------------------------------------
(* The shortened path: names and what stands for them. *)

Texts   == Seq(Letters \cup {Ellipsis})
PartSet == [text : Texts, class : {"anchor", "normal", "shortened"}]
Delimiters == Seq({Ellipsis})

LEMMA NameIs ==
    ASSUME NEW parts \in Levelled, NEW i \in DOMAIN parts
    PROVE  /\ parts[i] \in Seq(Letters) /\ parts[i] \in Texts /\ Len(parts[i]) \in Nat /\ Len(parts[i]) >= 1
  <1>1. parts[i] \in Seq(Letters) \ {<<>>}
    BY DEF Levelled
  <1>2. Len(parts[i]) >= 1
    BY <1>1
  <1>3. parts[i] \in Texts
    <2>1. \A k \in 1..Len(parts[i]) : parts[i][k] \in Letters \cup {Ellipsis}
      BY <1>1
    <2> QED  BY <1>1, <2>1 DEF Texts
  <1> QED  BY <1>1, <1>2, <1>3

\* What begins with a letter is no delimiter.
LEMMA NoDelimiter ==
    ASSUME NEW t \in Texts, Len(t) >= 1, t[1] \in Letters, NEW d \in Delimiters
    PROVE  t # d
  <1> SUFFICES ASSUME t = d PROVE FALSE
    OBVIOUS
  <1>1. 1 \in 1..Len(d)
    BY DEF Texts
  <1>2. d[1] = Ellipsis
    BY <1>1 DEF Delimiters
  <1> QED  BY <1>2, DirShortenAssumption

LEMMA WholeStands ==
    ASSUME NEW parts \in Levelled, NEW i \in DOMAIN parts, NEW d \in Delimiters
    PROVE  StandsFor(parts[i], parts[i], d) /\ parts[i] # d
  <1> DEFINE name == parts[i]
             n == Len(name)
  <1>1. name \in Seq(Letters) /\ name \in Texts /\ n \in Nat /\ n >= 1
    BY NameIs
  <1>2. name # d
    <2>1. name[1] \in Letters
      BY <1>1
    <2> QED  BY <1>1, <2>1, NoDelimiter
  <1>3. name = SubSeq(name, 1, n) \o <<>> \o SubSeq(name, n + 1, n)
    BY <1>1
  <1>4. n \in 0..n /\ n + 1 \in 1..n + 1 /\ n < n + 1 /\ n # 0 /\ n <= n
    BY <1>1
  <1> HIDE DEF name, n
  <1>5. StandsFor(name, name, d)
    BY <1>3, <1>4 DEF StandsFor, n
  <1> QED  BY <1>2, <1>5 DEF name

LEMMA HeadStands ==
    ASSUME NEW parts \in Levelled, NEW i \in DOMAIN parts, NEW d \in Delimiters, NEW j \in 1..Len(parts[i])
    PROVE  LET t == SubSeq(parts[i], 1, j) IN StandsFor(t, parts[i], d) /\ t # d /\ t \in Texts /\ Len(t) = j
  <1> DEFINE name == parts[i]
             n == Len(name)
             t == SubSeq(name, 1, j)
  <1>1. name \in Seq(Letters) /\ name \in Texts /\ n \in Nat /\ n >= 1
    BY NameIs
  <1>2. t \in Seq(Letters) /\ Len(t) = j /\ t[1] = name[1]
    BY <1>1
  <1>3. t \in Texts
    BY <1>1 DEF Texts
  <1>4. t # d
    <2>1. t[1] \in Letters /\ Len(t) >= 1
      BY <1>1, <1>2
    <2> QED  BY <1>3, <2>1, NoDelimiter
  <1>5. t = SubSeq(name, 1, j) \o <<>> \o SubSeq(name, n + 1, n)
    BY <1>1, <1>2
  <1>6. j \in 0..n /\ n + 1 \in 1..n + 1 /\ j < n + 1 /\ j # 0 /\ j <= n
    BY <1>1
  <1>7. StandsFor(t, name, d)
    <2> HIDE DEF name, n, t
    <2>1. t = SubSeq(name, 1, j) \o <<>> \o SubSeq(name, n + 1, Len(name)) /\ n + 1 \in 1..Len(name) + 1 /\ j \in 0..Len(name)
      BY <1>5, <1>6 DEF n, t, name
    <2>2. Len(t) <= Len(name)
      BY <1>2, <1>6 DEF n
    <2> QED  BY <1>6, <2>1, <2>2 DEF StandsFor
  <1> QED  BY <1>2, <1>3, <1>4, <1>7

\* A head, the delimiter and maybe a tail.
LEMMA CutStands ==
    ASSUME NEW parts \in Levelled, NEW i \in DOMAIN parts, NEW d \in Delimiters,
           NEW h \in Nat, h >= 1, NEW s \in Nat, Len(parts[i]) > h + s + Len(d)
    PROVE  LET t == SubSeq(parts[i], 1, h) \o d \o SubSeq(parts[i], Len(parts[i]) - s + 1, Len(parts[i])) IN
           StandsFor(t, parts[i], d) /\ t # d /\ t \in Texts
  <1> DEFINE name == parts[i]
             n == Len(name)
             head == SubSeq(name, 1, h)
             tail == SubSeq(name, n - s + 1, n)
             t == head \o d \o tail
  <1>1. name \in Seq(Letters) /\ name \in Texts /\ n \in Nat /\ n >= 1
    BY NameIs
  <1>2. d \in Texts /\ Len(d) \in Nat
    <2>1. d \in Seq({Ellipsis}) /\ \A k \in 1..Len(d) : d[k] \in Letters \cup {Ellipsis}
      BY DEF Delimiters
    <2> QED  BY <2>1 DEF Texts
  <1>3. h \in 1..n /\ n - s + 1 \in 1..n + 1 /\ h < n - s + 1 /\ h + s + Len(d) < n
    BY <1>1, <1>2
  <1>4. head \in Texts /\ Len(head) = h /\ head[1] = name[1]
    BY <1>1, <1>3 DEF Texts
  <1>5. tail \in Texts /\ Len(tail) = s
    BY <1>1, <1>3 DEF Texts
  <1> HIDE DEF head, tail, n
  <1>6. t \in Texts /\ Len(t) = h + Len(d) + s /\ t[1] = head[1]
    <2> DEFINE u == head \o d
    <2>1. u \in Texts /\ Len(u) = h + Len(d) /\ u[1] = head[1]
      BY <1>2, <1>4 DEF Texts
    <2>2. t = u \o tail /\ 1 \in 1..Len(u)
      BY <1>2, <2>1
    <2> HIDE DEF u, t
    <2>3. u \o tail \in Texts /\ Len(u \o tail) = Len(u) + Len(tail)
      BY <1>5, <2>1 DEF Texts
    <2>4. (u \o tail)[1] = u[1]
      BY <1>5, <2>1, <2>2 DEF Texts
    <2> QED  BY <1>5, <2>1, <2>2, <2>3, <2>4
  <1>7. t # d
    <2>1. t[1] \in Letters /\ Len(t) >= 1
      BY <1>1, <1>2, <1>4, <1>6 DEF n
    <2> HIDE DEF t
    <2> QED  BY <1>6, <2>1, NoDelimiter
  <1>8. StandsFor(t, name, d)
    <2>1. Len(t) <= Len(name)
      BY <1>3, <1>6, <1>1, <1>2 DEF n
    <2>2. t = SubSeq(name, 1, h) \o d \o SubSeq(name, n - s + 1, Len(name))
      BY DEF head, tail, n
    <2>3. h \in 0..Len(name) /\ n - s + 1 \in 1..Len(name) + 1 /\ h < n - s + 1 /\ h # 0
      BY <1>1, <1>3 DEF n
    <2> HIDE DEF t, name
    <2> QED  BY <2>1, <2>2, <2>3 DEF StandsFor
  <1> QED  BY <1>6, <1>7, <1>8 DEF head, tail, n

\* A sequence of parts reads as the path when `at` says which level each stands for.
IsAt(parts, out, d, at, n) ==
    /\ at \in [1..Len(out) -> Nat]
    /\ \A k \in 1..Len(out) : out[k].text = d \/ (at[k] \in 1..n /\ StandsFor(out[k].text, parts[at[k]], d))
    /\ \A j, k \in 1..Len(out) : j < k /\ out[j].text # d /\ out[k].text # d => at[j] < at[k]

LEMMA ReadsIs ==
    ASSUME NEW parts \in Levelled, NEW o, NEW out \in Seq(PartSet), NEW at,
           IsAt(parts, out, o.delimiter, at, Len(parts)),
           out # <<>>, out[Len(out)].text = parts[Len(parts)]
    PROVE  ReadsAsPath(parts, out, o)
  <1> DEFINE shown == {k \in DOMAIN out : out[k].text # o.delimiter}
             f == [k \in shown |-> at[k]]
  <1>1. DOMAIN out = 1..Len(out) /\ DOMAIN parts = 1..Len(parts)
    BY DEF Levelled
  <1>2. \A k \in shown : at[k] \in DOMAIN parts /\ StandsFor(out[k].text, parts[at[k]], o.delimiter)
    BY <1>1 DEF IsAt
  <1>3. f \in [shown -> DOMAIN parts]
    BY <1>2
  <1>4. \A j, k \in shown : j < k => f[j] < f[k]
    BY <1>1 DEF IsAt
  <1>5. \A k \in shown : StandsFor(out[k].text, parts[f[k]], o.delimiter)
    BY <1>2
  <1>6. Last(out).text = Last(parts)
    BY DEF Last
  <1> HIDE DEF f, shown
  <1> QED  BY <1>3, <1>4, <1>5, <1>6 DEF ReadsAsPath, shown

\* plain, and the strategies that keep or cut single levels.
LEMMA WholeIs ==
    ASSUME NEW parts \in Levelled, NEW i \in DOMAIN parts
    PROVE  Whole(parts, i) \in PartSet /\ Whole(parts, i).text = parts[i]
  BY NameIs DEF Whole, Part, PartSet, ClassFor

LEMMA FromLevelIs ==
    ASSUME NEW parts \in Levelled, NEW first \in 1..Len(parts) + 1
    PROVE  LET out == FromLevel(parts, first) IN
           /\ out \in Seq(PartSet) /\ Len(out) = Len(parts) - first + 1
           /\ \A k \in 1..Len(out) : first + k - 1 \in DOMAIN parts /\ out[k].text = parts[first + k - 1]
  <1> DEFINE n == Len(parts)
             m == n - first + 1
             out == FromLevel(parts, first)
  <1>1. n \in Nat /\ m \in Nat /\ DOMAIN parts = 1..n
    BY DEF Levelled
  <1>2. \A k \in 1..m : first + k - 1 \in DOMAIN parts
    BY <1>1
  <1> DEFINE w(k) == Whole(parts, first + k - 1)
  <1>3. \A k \in 1..m : w(k) \in PartSet /\ w(k).text = parts[first + k - 1]
    BY <1>2, WholeIs
  <1>4. out = [k \in 1..m |-> w(k)]
    BY DEF FromLevel
  <1> HIDE DEF m, out, w
  <1>5. out \in Seq(PartSet) /\ Len(out) = m
    BY <1>1, <1>3, <1>4
  <1>6. \A k \in 1..m : out[k] = w(k)
    BY <1>4
  <1> QED  BY <1>2, <1>3, <1>5, <1>6 DEF m, out

\* A delimiter or nothing, and the last levels.
LEMMA TailReads ==
    ASSUME NEW parts \in Levelled, NEW first \in 1..Len(parts), NEW o, o.delimiter \in Delimiters,
           NEW lead, lead = <<>> \/ lead = Folded(o.delimiter)
    PROVE  ReadsAsPath(parts, lead \o FromLevel(parts, first), o)
  <1> DEFINE n == Len(parts)
             from == FromLevel(parts, first)
             out == lead \o from
             l == Len(lead)
             at == [k \in 1..Len(out) |-> IF k > l THEN first + k - l - 1 ELSE 0]
             d == o.delimiter
  <1>1. n \in Nat /\ n >= 1 /\ first \in 1..n + 1
    BY DEF Levelled
  <1>2. /\ from \in Seq(PartSet) /\ Len(from) = n - first + 1
        /\ \A k \in 1..Len(from) : first + k - 1 \in DOMAIN parts /\ from[k].text = parts[first + k - 1]
    BY <1>1, FromLevelIs
  <1>3. lead \in Seq(PartSet) /\ l \in {0, 1} /\ \A k \in 1..l : lead[k].text = d
    <2>1. d \in Texts
      <3>1. d \in Seq({Ellipsis}) /\ \A k \in 1..Len(d) : d[k] \in Letters \cup {Ellipsis}
        BY DEF Delimiters
      <3> QED  BY <3>1 DEF Texts
    <2>2. Part(d, "shortened") \in PartSet /\ Part(d, "shortened").text = d
      BY <2>1 DEF Part, PartSet
    <2>3. CASE lead = <<>>
      BY <2>3
    <2>4. CASE lead = Folded(d)
      <3>1. lead = <<Part(d, "shortened")>>
        BY <2>4 DEF Folded
      <3> QED  BY <2>2, <3>1
    <2> QED  BY <2>3, <2>4
  <1> HIDE DEF from, d
  <1>4. out \in Seq(PartSet) /\ Len(out) = l + n - first + 1
    <2>1. lead \in Seq(PartSet) /\ from \in Seq(PartSet)
      BY <1>2, <1>3
    <2>2. out \in Seq(PartSet) /\ Len(out) = Len(lead) + Len(from)
      BY <2>1
    <2> QED  BY <2>2, <1>1, <1>2, <1>3, <2>1
  <1>5. \A k \in 1..Len(out) : out[k] = IF k <= l THEN lead[k] ELSE from[k - l]
    BY <1>1, <1>2, <1>3
  <1> HIDE DEF out, l
  <1>6. ASSUME NEW k \in 1..Len(out)
        PROVE  out[k].text = d \/ (at[k] \in 1..n /\ StandsFor(out[k].text, parts[at[k]], d))
    <2>1. CASE k <= l
      BY <1>3, <1>5, <2>1
    <2>2. CASE k > l
      <3>1. k - l \in 1..Len(from) /\ at[k] = first + (k - l) - 1
        BY <1>1, <1>2, <1>3, <1>4, <2>2
      <3>2. out[k].text = parts[first + (k - l) - 1] /\ first + (k - l) - 1 \in DOMAIN parts
        <4>1. out[k] = from[k - l]
          BY <1>3, <1>5, <2>2
        <4> QED  BY <1>2, <3>1, <4>1
      <3>3. DOMAIN parts = 1..n
        BY DEF Levelled
      <3>4. at[k] \in DOMAIN parts /\ out[k].text = parts[at[k]] /\ at[k] \in 1..n
        BY <3>1, <3>2, <3>3
      <3> QED  BY <3>4, WholeStands DEF d
    <2> QED  BY <1>3, <2>1, <2>2
  <1>7. ASSUME NEW j \in 1..Len(out), NEW k \in 1..Len(out), j < k, out[j].text # d, out[k].text # d
        PROVE  at[j] < at[k]
    <2>1. j > l /\ k > l
      BY <1>3, <1>5, <1>7
    <2> QED  BY <1>1, <1>3, <1>4, <1>7, <2>1
  <1>8. at \in [1..Len(out) -> Nat]
    BY <1>1, <1>3, <1>4
  <1> HIDE DEF at
  <1>9. IsAt(parts, out, d, at, n)
    BY <1>6, <1>7, <1>8 DEF IsAt
  <1>10. out # <<>> /\ out[Len(out)].text = parts[n]
    <2>1. Len(out) \in Nat /\ Len(out) > l /\ Len(out) - l = Len(from) /\ Len(from) \in 1..Len(from)
      BY <1>1, <1>2, <1>3, <1>4
    <2>2. out[Len(out)] = from[Len(from)]
      BY <1>3, <1>5, <2>1
    <2>3. from[Len(from)].text = parts[n]
      <3>1. first + Len(from) - 1 = n
        BY <1>1, <1>2
      <3> QED  BY <1>2, <2>1, <3>1
    <2> QED  BY <1>4, <2>1, <2>2, <2>3, <1>3
  <1>11. ReadsAsPath(parts, out, o)
    BY <1>4, <1>9, <1>10, ReadsIs DEF d, n
  <1> QED  BY <1>11 DEF out, from

LEMMA PlainReads ==
    ASSUME NEW parts \in Levelled, parts # <<>>, NEW o, o.delimiter \in Delimiters
    PROVE  ReadsAsPath(parts, Plain(parts), o)
  <1>1. 1 \in 1..Len(parts)
    BY DEF Levelled
  <1>2. ReadsAsPath(parts, <<>> \o FromLevel(parts, 1), o)
    BY <1>1, TailReads
  <1>3. FromLevel(parts, 1) \in Seq(PartSet)
    BY <1>1, FromLevelIs DEF Levelled
  <1>4. <<>> \o FromLevel(parts, 1) = FromLevel(parts, 1)
    BY <1>3
  <1> QED  BY <1>2, <1>4 DEF Plain

\* One part for each level.
LEMMA LevelsRead ==
    ASSUME NEW parts \in Levelled, parts # <<>>, NEW o, NEW out \in Seq(PartSet), Len(out) = Len(parts),
           \A i \in 1..Len(parts) : StandsFor(out[i].text, parts[i], o.delimiter),
           out[Len(parts)].text = parts[Len(parts)]
    PROVE  ReadsAsPath(parts, out, o)
  <1> DEFINE at == [k \in 1..Len(out) |-> k]
  <1>1. Len(out) \in Nat /\ Len(parts) \in Nat /\ out # <<>>
    BY DEF Levelled
  <1>2. \A k \in 1..Len(out) : at[k] = k /\ at[k] \in 1..Len(parts)
    BY <1>1
  <1>3. at \in [1..Len(out) -> Nat]
    BY <1>1
  <1> HIDE DEF at
  <1>4. \A j, k \in 1..Len(out) : j < k => at[j] < at[k]
    BY <1>2
  <1>5. IsAt(parts, out, o.delimiter, at, Len(parts))
    BY <1>2, <1>3, <1>4 DEF IsAt
  <1> QED  BY <1>1, <1>5, ReadsIs

LEMMA TruncateReads ==
    ASSUME NEW parts \in Levelled, parts # <<>>, NEW o, IsOpts(o, parts), NEW middle \in BOOLEAN
    PROVE  ReadsAsPath(parts, FoldTruncate(parts, o, middle), o)
  <1> DEFINE n == Len(parts)
             d == o.delimiter
             suffix == IF middle THEN o.length ELSE 0
             cut(i) == SubSeq(parts[i], 1, o.length) \o d \o SubSeq(parts[i], Len(parts[i]) - suffix + 1, Len(parts[i]))
             level(i) == IF i \notin {1, n} /\ Len(parts[i]) > o.length + suffix + Len(d)
                            THEN Part(cut(i), "shortened") ELSE Whole(parts, i)
             out == FoldTruncate(parts, o, middle)
  <1>1. n \in Nat /\ n >= 1 /\ DOMAIN parts = 1..n
    BY DEF Levelled
  <1>2. d \in Delimiters /\ o.length \in Nat /\ o.length >= 1 /\ suffix \in Nat
    BY DEF IsOpts, Delimiters
  <1>3. out = [i \in 1..n |-> level(i)]
    BY <1>1 DEF FoldTruncate
  <1> HIDE DEF d, n, suffix
  <1>4. ASSUME NEW i \in 1..n
        PROVE  level(i) \in PartSet /\ StandsFor(level(i).text, parts[i], d) /\ (i = n => level(i).text = parts[i])
    <2>1. i \in DOMAIN parts
      BY <1>1
    <2>2. Whole(parts, i) \in PartSet /\ Whole(parts, i).text = parts[i] /\ StandsFor(parts[i], parts[i], d)
      BY <1>2, <2>1, WholeIs, WholeStands
    <2>3. CASE i \notin {1, n} /\ Len(parts[i]) > o.length + suffix + Len(d)
      <3>1. StandsFor(cut(i), parts[i], d) /\ cut(i) \in Texts
        BY <1>2, <2>1, <2>3, CutStands
      <3> HIDE DEF cut
      <3>2. level(i) = Part(cut(i), "shortened") /\ i # n
        BY <2>3
      <3> HIDE DEF level
      <3> QED  BY <3>1, <3>2 DEF Part, PartSet
    <2>4. CASE ~(i \notin {1, n} /\ Len(parts[i]) > o.length + suffix + Len(d))
      <3>1. level(i) = Whole(parts, i)
        BY <2>4
      <3> HIDE DEF level
      <3> QED  BY <2>2, <3>1
    <2> HIDE DEF cut, level
    <2> QED  BY <2>3, <2>4
  <1> HIDE DEF level, out
  <1>5. out \in Seq(PartSet) /\ Len(out) = n /\ \A i \in 1..n : out[i] = level(i)
    BY <1>1, <1>3, <1>4
  <1>6. n \in 1..n
    BY <1>1
  <1>7. ReadsAsPath(parts, out, o)
    BY <1>4, <1>5, <1>6, LevelsRead DEF n, d
  <1> QED  BY <1>7 DEF out

LEMMA FirstLastReads ==
    ASSUME NEW parts \in Levelled, parts # <<>>, NEW o, IsOpts(o, parts)
    PROVE  ReadsAsPath(parts, FoldFirstLast(parts, o), o)
  <1> DEFINE n == Len(parts)
             h == o.length
             d == o.delimiter
             anchors(a, b) == [k \in 1..b - a + 1 |-> Part(parts[a + k - 1], "anchor")]
             head == anchors(1, h)
             tail == anchors(n - h + 1, n)
             out == (head \o Folded(d)) \o tail
             at == [k \in 1..Len(out) |-> IF k <= h THEN k ELSE IF k = h + 1 THEN 0 ELSE n - h + (k - h - 1)]
  <1>1. n \in Nat /\ n >= 1 /\ DOMAIN parts = 1..n
    BY DEF Levelled
  <1>2. d \in Delimiters /\ h \in Nat /\ h >= 1
    BY DEF IsOpts, Delimiters
  <1>3. CASE n <= h * 2
    BY <1>1, <1>2, <1>3, PlainReads DEF FoldFirstLast
  <1>4. CASE ~(n <= h * 2)
    <2>1. FoldFirstLast(parts, o) = out
      BY <1>4 DEF FoldFirstLast
    <2> HIDE DEF d, h, n
    <2>2. n > h + h
      BY <1>1, <1>2, <1>4
    <2>3. ASSUME NEW a \in 1..n, NEW b \in a..n
          PROVE  /\ anchors(a, b) \in Seq(PartSet) /\ Len(anchors(a, b)) = b - a + 1
                 /\ \A k \in 1..b - a + 1 : anchors(a, b)[k].text = parts[a + k - 1] /\ a + k - 1 \in 1..n
      <3> DEFINE part(k) == Part(parts[a + k - 1], "anchor")
                 m == b - a + 1
      <3>1. m \in Nat /\ \A k \in 1..m : a + k - 1 \in 1..n
        BY <1>1
      <3>2. ASSUME NEW k \in 1..m PROVE part(k) \in PartSet /\ part(k).text = parts[a + k - 1]
        <4>1. parts[a + k - 1] \in Texts
          BY <1>1, <3>1, NameIs
        <4> QED  BY <4>1 DEF Part, PartSet
      <3>3. anchors(a, b) = [k \in 1..m |-> part(k)]
        OBVIOUS
      <3> HIDE DEF part, m, anchors
      <3>4. anchors(a, b) \in Seq(PartSet) /\ Len(anchors(a, b)) = m
        BY <3>1, <3>2, <3>3
      <3>5. \A k \in 1..m : anchors(a, b)[k] = part(k)
        BY <3>3
      <3> QED  BY <3>1, <3>2, <3>4, <3>5 DEF m
    <2>4. /\ head \in Seq(PartSet) /\ Len(head) = h
          /\ \A k \in 1..h : head[k].text = parts[k] /\ k \in 1..n
      <3>1. 1 \in 1..n /\ h \in 1..n /\ h - 1 + 1 = h /\ \A k \in 1..h : 1 + k - 1 = k
        BY <1>1, <1>2, <2>2
      <3>2. /\ anchors(1, h) \in Seq(PartSet) /\ Len(anchors(1, h)) = h - 1 + 1
            /\ \A k \in 1..h - 1 + 1 : anchors(1, h)[k].text = parts[1 + k - 1] /\ 1 + k - 1 \in 1..n
        <4> HIDE DEF anchors
        <4> QED  BY <2>3, <3>1
      <3>3. head = anchors(1, h)
        OBVIOUS
      <3> HIDE DEF anchors, head
      <3> QED  BY <3>1, <3>2, <3>3
    <2>5. /\ tail \in Seq(PartSet) /\ Len(tail) = h
          /\ \A k \in 1..h : tail[k].text = parts[n - h + k] /\ n - h + k \in 1..n
      <3>1. /\ n - h + 1 \in 1..n /\ n \in n - h + 1..n /\ n - (n - h + 1) + 1 = h
            /\ \A k \in 1..h : n - h + 1 + k - 1 = n - h + k
        BY <1>1, <1>2, <2>2
      <3> DEFINE a == n - h + 1
      <3>2. /\ anchors(a, n) \in Seq(PartSet) /\ Len(anchors(a, n)) = n - a + 1
            /\ \A k \in 1..n - a + 1 : anchors(a, n)[k].text = parts[a + k - 1] /\ a + k - 1 \in 1..n
        <4> HIDE DEF anchors, a
        <4> QED  BY <2>3, <3>1 DEF a
      <3>3. tail = anchors(a, n)
        OBVIOUS
      <3> HIDE DEF anchors, tail
      <3> QED  BY <3>1, <3>2, <3>3
    <2>6. Folded(d) \in Seq(PartSet) /\ Len(Folded(d)) = 1 /\ Folded(d)[1].text = d
      <3>1. d \in Texts
        <4>1. d \in Seq({Ellipsis}) /\ \A k \in 1..Len(d) : d[k] \in Letters \cup {Ellipsis}
          BY <1>2 DEF Delimiters
        <4> QED  BY <4>1 DEF Texts
      <3>2. Part(d, "shortened") \in PartSet /\ Part(d, "shortened").text = d
        BY <3>1 DEF Part, PartSet
      <3> QED  BY <3>2 DEF Folded
    <2> HIDE DEF head, tail, anchors
    <2>7. /\ out \in Seq(PartSet) /\ Len(out) = h + 1 + h
          /\ \A k \in 1..h + 1 + h : out[k] = IF k <= h THEN head[k] ELSE IF k = h + 1 THEN Folded(d)[1] ELSE tail[k - h - 1]
      <3> DEFINE f == Folded(d)
                 u == head \o f
      <3>0. head \in Seq(PartSet) /\ Len(head) = h /\ f \in Seq(PartSet) /\ Len(f) = 1
        BY <2>4, <2>6
      <3> HIDE DEF f
      <3>1. u \in Seq(PartSet) /\ Len(u) = h + 1
        <4>1. u \in Seq(PartSet) /\ Len(u) = Len(head) + Len(f)
          BY <3>0, ConcatProperties
        <4> HIDE DEF u
        <4> QED  BY <3>0, <4>1
      <3>2. \A k \in 1..h + 1 : u[k] = IF k <= h THEN head[k] ELSE f[1]
        <4>1. \A k \in 1..h + 1 : u[k] = IF k <= h THEN head[k] ELSE f[k - h]
          BY <3>0, ConcatProperties
        <4>2. \A k \in 1..h + 1 : k <= h \/ k - h = 1
          BY <1>2
        <4> QED  BY <4>1, <4>2
      <3> HIDE DEF u
      <3> DEFINE l == h + 1
                 v == u \o tail
      <3>3. /\ v \in Seq(PartSet) /\ Len(v) = Len(u) + Len(tail)
            /\ \A k \in 1..Len(u) + Len(tail) : v[k] = IF k <= Len(u) THEN u[k] ELSE tail[k - Len(u)]
        BY <2>5, <3>1, ConcatProperties
      <3> HIDE DEF l, v
      <3>4. /\ v \in Seq(PartSet) /\ Len(v) = l + h
            /\ \A k \in 1..l + h : v[k] = IF k <= l THEN u[k] ELSE tail[k - l]
        <4>1. Len(u) = l /\ Len(tail) = h
          BY <2>5, <3>1 DEF l
        <4> QED  BY <3>3, <4>1
      <3>5. out = v
        BY DEF u, f, v
      <3>6. ASSUME NEW k \in 1..h + 1 + h
            PROVE  v[k] = IF k <= h THEN head[k] ELSE IF k = h + 1 THEN f[1] ELSE tail[k - h - 1]
        <4>1. v[k] = IF k <= l THEN u[k] ELSE tail[k - l]
          BY <3>4 DEF l
        <4>2. k <= l => u[k] = IF k <= h THEN head[k] ELSE f[1]
          BY <1>2, <3>2 DEF l
        <4>3. k - l = k - h - 1 /\ (k <= l <=> k <= h \/ k = h + 1) /\ (k <= h => k <= l)
          BY <1>2 DEF l
        <4> QED  BY <4>1, <4>2, <4>3
      <3>7. out \in Seq(PartSet) /\ Len(out) = h + 1 + h
        BY <3>4, <3>5 DEF l
      <3> HIDE DEF out
      <3> QED  BY <3>5, <3>6, <3>7 DEF f
    <2> HIDE DEF out
    <2>8. /\ \A k \in 1..h : at[k] = k
          /\ at[h + 1] = 0
          /\ \A k \in h + 2..h + 1 + h : at[k] = n - h + (k - h - 1)
      BY <1>2, <2>7
    <2>9. at \in [1..Len(out) -> Nat]
      BY <1>1, <1>2, <2>2, <2>7
    <2> HIDE DEF at
    <2>10. ASSUME NEW k \in 1..Len(out)
           PROVE  out[k].text = d \/ (at[k] \in 1..n /\ out[k].text = parts[at[k]])
      <3>1. CASE k \in 1..h
        BY <2>4, <2>7, <2>8, <3>1
      <3>2. CASE k = h + 1
        BY <2>6, <2>7, <3>2, <1>2
      <3>3. CASE k \in h + 2..h + 1 + h
        <4>1. k - h - 1 \in 1..h /\ out[k] = tail[k - h - 1]
          BY <1>2, <2>7, <3>3
        <4> QED  BY <2>5, <2>8, <3>3, <4>1
      <3> QED  BY <1>2, <2>7, <3>1, <3>2, <3>3
    <2>11. ASSUME NEW j \in 1..Len(out), NEW k \in 1..Len(out), j < k, out[j].text # d, out[k].text # d
           PROVE  at[j] < at[k]
      <3>1. j # h + 1 /\ k # h + 1
        BY <1>2, <2>6, <2>7, <2>11
      <3> QED  BY <1>1, <1>2, <2>2, <2>7, <2>8, <2>11, <3>1
    <2>12. IsAt(parts, out, d, at, n)
      BY <1>1, <1>2, <2>9, <2>10, <2>11, WholeStands DEF IsAt
    <2>13. out # <<>> /\ out[Len(out)].text = parts[n]
      <3>1. Len(out) = h + 1 + h /\ out[h + 1 + h] = tail[h] /\ h \in 1..h
        BY <1>2, <2>7
      <3>2. tail[h].text = parts[n]
        <4>1. n - h + h = n
          BY <1>1, <1>2
        <4> QED  BY <2>5, <3>1, <4>1
      <3> QED  BY <2>7, <3>1, <3>2, <1>2
    <2>14. ReadsAsPath(parts, out, o)
      BY <2>7, <2>12, <2>13, ReadsIs DEF d, n
    <2> QED  BY <2>1, <2>14
  <1> QED  BY <1>3, <1>4

\* The levels between marks: what is hidden, and what follows from that.
LEMMA HiddenIs ==
    ASSUME NEW parts \in Levelled, parts # <<>>, NEW o
    PROVE  Len(parts) \notin Hidden(parts, o)
  <1>1. Len(parts) \in Nat /\ DOMAIN parts = 1..Len(parts)
    BY DEF Levelled
  <1>2. ASSUME NEW i \in Hidden(parts, o) PROVE \E hi \in DOMAIN parts : i < hi
    BY <1>2 DEF Hidden
  <1> QED  BY <1>1, <1>2

ShownOf(parts, o, i) ==
    LET hidden == Hidden(parts, o) IN
    IF i \notin hidden THEN <<Whole(parts, i)>>
    ELSE IF (\A j \in hidden : i <= j) /\ o.delimiter # <<>> THEN Folded(o.delimiter) ELSE <<>>

MarkedBy(g, parts, o) ==
    /\ g[0] = <<>> /\ FoldMarker(parts, o) = g[Len(parts)]
    /\ \A i \in 1..Len(parts) : g[i] = g[i - 1] \o ShownOf(parts, o, i)

LEMMA ShownIs ==
    ASSUME NEW parts \in Levelled, NEW o, o.delimiter \in Delimiters, NEW i \in 1..Len(parts)
    PROVE  /\ ShownOf(parts, o, i) \in Seq(PartSet) /\ Len(ShownOf(parts, o, i)) \in {0, 1}
           /\ \A k \in 1..Len(ShownOf(parts, o, i)) :
                 ShownOf(parts, o, i)[k].text = o.delimiter \/ ShownOf(parts, o, i)[k].text = parts[i]
  <1> DEFINE d == o.delimiter
             w == <<Whole(parts, i)>>
             f == Folded(d)
             s == ShownOf(parts, o, i)
  <1>1. w \in Seq(PartSet) /\ Len(w) = 1 /\ w[1].text = parts[i]
    <2>1. i \in DOMAIN parts
      BY DEF Levelled
    <2>2. Whole(parts, i) \in PartSet /\ Whole(parts, i).text = parts[i]
      BY <2>1, WholeIs
    <2> QED  BY <2>2
  <1>2. f \in Seq(PartSet) /\ Len(f) = 1 /\ f[1].text = d
    <2>1. d \in Texts
      <3>1. d \in Seq({Ellipsis}) /\ \A k \in 1..Len(d) : d[k] \in Letters \cup {Ellipsis}
        BY DEF Delimiters
      <3> QED  BY <3>1 DEF Texts
    <2>2. Part(d, "shortened") \in PartSet /\ Part(d, "shortened").text = d
      BY <2>1 DEF Part, PartSet
    <2> QED  BY <2>2 DEF Folded
  <1>3. s = w \/ s = f \/ s = <<>>
    BY DEF ShownOf
  <1> HIDE DEF w, f, d, s
  <1>4. \A k \in 1..1 : k = 1
    OBVIOUS
  <1>5. CASE s = w
    BY <1>1, <1>4, <1>5 DEF s
  <1>6. CASE s = f
    BY <1>2, <1>4, <1>6 DEF s, d
  <1>7. CASE s = <<>>
    BY <1>7 DEF s
  <1> QED  BY <1>3, <1>5, <1>6, <1>7

LEMMA MarkedRecurs ==
    ASSUME NEW parts \in Levelled, NEW o, o.delimiter \in Delimiters
    PROVE  \E g \in [0..Len(parts) -> Seq(PartSet)] : MarkedBy(g, parts, o)
  <1> DEFINE n == Len(parts)
             hidden == Hidden(parts, o)
             first(i) == i \in hidden /\ \A j \in hidden : i <= j
             level(i) == IF i \notin hidden THEN <<Whole(parts, i)>>
                         ELSE IF first(i) /\ o.delimiter # <<>> THEN Folded(o.delimiter) ELSE <<>>
             S == Seq(PartSet)
             next(x, i) == x \o level(i)
             step == [i \in 1..n |-> [x \in S |-> next(x, i)]]
             marked(h) == [i \in 0..n |-> IF i = 0 THEN <<>> ELSE next(h[i - 1], i)]
  <1>1. n \in Nat
    BY DEF Levelled
  <1>2. \A i \in 1..n : level(i) = ShownOf(parts, o, i)
    BY DEF ShownOf
  <1>3. FoldMarker(parts, o) = (CHOOSE h : h = marked(h))[n]
    BY DEF FoldMarker
  <1> HIDE DEF level
  <1>4. \A i \in 1..n : level(i) \in S
    BY <1>2, ShownIs
  <1> HIDE DEF n
  <1>5. step \in [1..n -> [S -> S]] /\ <<>> \in S
    BY <1>4
  <1>6. \A i \in 1..n : \A x \in S : step[i][x] = next(x, i)
    OBVIOUS
  <1> HIDE DEF S, step, next
  <1>7. PICK g \in [0..n -> S] : Recurs(g, n, <<>>, step)
    BY <1>1, <1>5, Recursion
  <1>8. g[0] = <<>> /\ \A i \in 1..n : g[i] = next(g[i - 1], i)
    <2>1. \A i \in 1..n : i - 1 \in 0..n
      BY <1>1
    <2> QED  BY <1>6, <1>7, <2>1 DEF Recurs
  <1>9. g = marked(g)
    <2>1. g = [i \in 0..n |-> g[i]]
      BY <1>7
    <2>2. \A i \in 0..n : g[i] = IF i = 0 THEN <<>> ELSE next(g[i - 1], i)
      BY <1>1, <1>8
    <2> QED  BY <2>1, <2>2
  <1> DEFINE h == CHOOSE e : e = marked(e)
  <1>10. h = marked(h)
    BY <1>9
  <1>11. FoldMarker(parts, o) = h[n]
    BY <1>3
  <1> HIDE DEF h
  <1>12. h[0] = <<>> /\ \A i \in 1..n : h[i] = next(h[i - 1], i)
    <2>1. \A i \in 0..n : h[i] = IF i = 0 THEN <<>> ELSE next(h[i - 1], i)
      BY <1>10
    <2>2. 0 \in 0..n /\ \A i \in 1..n : i \in 0..n /\ i # 0
      BY <1>1
    <2> QED  BY <2>1, <2>2
  <1> DEFINE T == {k \in 0..n : h[k] = g[k]}
  <1>13. 0 \in T
    BY <1>1, <1>8, <1>12
  <1>14. ASSUME NEW k \in 0..n - 1, k \in T PROVE k + 1 \in T
    <2>1. k + 1 \in 1..n /\ k + 1 - 1 = k
      BY <1>1
    <2>2. h[k + 1] = next(h[k], k + 1) /\ g[k + 1] = next(g[k], k + 1)
      BY <1>8, <1>12, <2>1
    <2>3. h[k] = g[k]
      BY <1>14
    <2> QED  BY <2>1, <2>2, <2>3
  <1>15. n \in T
    <2> HIDE DEF T
    <2>1. \A k \in 0..n : k \in T
      BY <1>1, <1>13, <1>14, Induct
    <2> QED  BY <1>1, <2>1
  <1>16. MarkedBy(g, parts, o)
    BY <1>2, <1>8, <1>11, <1>15 DEF MarkedBy, n, next
  <1> QED  BY <1>7, <1>16 DEF n, S

\* What is shown of the first levels reads as the path as far as they go.
ReadsUpto(parts, d, out, n) ==
    \E at : IsAt(parts, out, d, at, n)

LEMMA ReadsMore ==
    ASSUME NEW parts \in Levelled, NEW d, NEW n \in Nat, NEW a \in Seq(PartSet), NEW b \in Seq(PartSet),
           ReadsUpto(parts, d, a, n), n + 1 \in DOMAIN parts, Len(b) \in {0, 1},
           d \in Delimiters, \A k \in 1..Len(b) : b[k].text = d \/ b[k].text = parts[n + 1]
    PROVE  ReadsUpto(parts, d, a \o b, n + 1)
  <1>1. PICK at : IsAt(parts, a, d, at, n)
    BY DEF ReadsUpto
  <1> DEFINE out == a \o b
             f == [k \in 1..Len(out) |-> IF k <= Len(a) THEN at[k] ELSE n + 1]
  <1>2. /\ out \in Seq(PartSet) /\ Len(out) = Len(a) + Len(b) /\ Len(a) \in Nat
        /\ \A k \in 1..Len(out) : out[k] = IF k <= Len(a) THEN a[k] ELSE b[k - Len(a)]
    <2>1. out \in Seq(PartSet) /\ Len(out) = Len(a) + Len(b)
      BY ConcatProperties
    <2>2. \A k \in 1..Len(a) + Len(b) : out[k] = IF k <= Len(a) THEN a[k] ELSE b[k - Len(a)]
      BY ConcatProperties
    <2> QED  BY <2>1, <2>2
  <1> HIDE DEF out
  <1>3. /\ at \in [1..Len(a) -> Nat]
        /\ \A k \in 1..Len(a) : a[k].text = d \/ (at[k] \in 1..n /\ StandsFor(a[k].text, parts[at[k]], d))
        /\ \A j, k \in 1..Len(a) : j < k /\ a[j].text # d /\ a[k].text # d => at[j] < at[k]
    BY <1>1 DEF IsAt
  <1>4. f \in [1..Len(out) -> Nat]
    <2>1. \A k \in 1..Len(out) : k <= Len(a) => at[k] \in Nat
      BY <1>2, <1>3
    <2> QED  BY <2>1
  <1>5. \A k \in 1..Len(out) : f[k] = IF k <= Len(a) THEN at[k] ELSE n + 1
    OBVIOUS
  <1> HIDE DEF f
  <1>6. ASSUME NEW k \in 1..Len(out)
        PROVE  out[k].text = d \/ (f[k] \in 1..n + 1 /\ StandsFor(out[k].text, parts[f[k]], d))
    <2>1. CASE k <= Len(a)
      <3>0. k \in 1..Len(a)
        BY <1>2, <2>1
      <3>1. k \in 1..Len(a) /\ out[k] = a[k] /\ f[k] = at[k]
        <4>1. out[k] = a[k]
          BY <1>2, <2>1
        <4>2. f[k] = at[k]
          BY <1>5, <2>1
        <4> QED  BY <3>0, <4>1, <4>2
      <3> QED  BY <1>3, <3>1
    <2>2. CASE k > Len(a)
      <3>1. k - Len(a) \in 1..Len(b) /\ out[k] = b[k - Len(a)] /\ f[k] = n + 1
        <4>1. k - Len(a) \in 1..Len(b)
          BY <1>2, <2>2
        <4>2. out[k] = b[k - Len(a)]
          BY <1>2, <2>2
        <4>3. f[k] = n + 1
          BY <1>2, <1>5, <2>2
        <4> QED  BY <4>1, <4>2, <4>3
      <3>2. out[k].text = d \/ out[k].text = parts[n + 1]
        BY <3>1
      <3>3. StandsFor(parts[n + 1], parts[n + 1], d)
        BY WholeStands
      <3>4. f[k] \in 1..n + 1
        BY <3>1
      <3>5. StandsFor(parts[f[k]], parts[f[k]], d)
        BY <3>1, <3>3
      <3>6. out[k].text = d \/ out[k].text = parts[f[k]]
        BY <3>1, <3>2
      <3> QED  BY <3>4, <3>5, <3>6
    <2> QED  BY <1>2, <2>1, <2>2
  <1>7. ASSUME NEW j \in 1..Len(out), NEW k \in 1..Len(out), j < k, out[j].text # d, out[k].text # d
        PROVE  f[j] < f[k]
    <2>1. j \in 1..Len(a) /\ out[j] = a[j] /\ f[j] = at[j]
      <3>1. j \in 1..Len(a)
        <4>1. Len(out) = Len(a) + Len(b) /\ Len(a) \in Nat
          BY <1>2
        <4>2. Len(b) \in {0, 1}
          OBVIOUS
        <4> QED  BY <1>7, <4>1, <4>2
      <3>2. out[j] = a[j]
        BY <1>2, <3>1
      <3>3. f[j] = at[j]
        BY <1>5, <3>1
      <3> QED  BY <3>1, <3>2, <3>3
    <2>2. CASE k <= Len(a)
      <3>0. k \in 1..Len(a)
        BY <1>2, <2>2
      <3>1. k \in 1..Len(a) /\ out[k] = a[k] /\ f[k] = at[k]
        <4>1. out[k] = a[k]
          BY <1>2, <2>2
        <4>2. f[k] = at[k]
          BY <1>5, <2>2
        <4> QED  BY <3>0, <4>1, <4>2
      <3> QED  BY <1>3, <1>7, <2>1, <3>1
    <2>3. CASE k > Len(a)
      <3>1. f[k] = n + 1
        BY <1>5, <2>3, <1>2
      <3>2. at[j] \in 1..n
        BY <1>3, <1>7, <2>1
      <3> QED  BY <2>1, <3>1, <3>2
    <2> QED  BY <1>2, <2>2, <2>3
  <1>8. IsAt(parts, out, d, f, n + 1)
    BY <1>4, <1>6, <1>7 DEF IsAt
  <1> QED  BY <1>8 DEF ReadsUpto, out

LEMMA MarkerReads ==
    ASSUME NEW parts \in Levelled, parts # <<>>, NEW o, o.delimiter \in Delimiters
    PROVE  ReadsAsPath(parts, FoldMarker(parts, o), o)
  <1> DEFINE n == Len(parts)
             d == o.delimiter
             s(i) == ShownOf(parts, o, i)
  <1>1. PICK g \in [0..n -> Seq(PartSet)] : MarkedBy(g, parts, o)
    BY MarkedRecurs
  <1>2. n \in Nat /\ n >= 1 /\ DOMAIN parts = 1..n
    BY DEF Levelled
  <1>3. /\ g[0] = <<>> /\ FoldMarker(parts, o) = g[n]
        /\ \A i \in 1..n : g[i] = g[i - 1] \o s(i)
    BY <1>1 DEF MarkedBy
  <1>4. ASSUME NEW i \in 1..n
        PROVE  /\ s(i) \in Seq(PartSet) /\ Len(s(i)) \in {0, 1}
               /\ \A k \in 1..Len(s(i)) : s(i)[k].text = d \/ s(i)[k].text = parts[i]
    BY ShownIs
  <1>5. s(n) = <<Whole(parts, n)>> /\ Whole(parts, n).text = parts[n] /\ Whole(parts, n) \in PartSet
    BY <1>2, HiddenIs, WholeIs DEF ShownOf
  <1> HIDE DEF s, d, n
  <1> DEFINE T == {k \in 0..n : ReadsUpto(parts, d, g[k], k)}
  <1>6. 0 \in T
    <2>1. IsAt(parts, <<>>, d, [k \in 1..Len(<<>>) |-> 0], 0)
      BY DEF IsAt
    <2> QED  BY <1>2, <1>3, <2>1 DEF ReadsUpto
  <1>7. ASSUME NEW k \in 0..n - 1, k \in T PROVE k + 1 \in T
    <2>1. k + 1 \in 1..n /\ k + 1 \in 0..n /\ (k + 1) - 1 = k /\ k \in Nat /\ k \in 0..n
      BY <1>2
    <2>2. g[k] \in Seq(PartSet) /\ ReadsUpto(parts, d, g[k], k)
      BY <1>1, <1>7
    <2>3. g[k + 1] = g[k] \o s(k + 1)
      <3>1. g[k + 1] = g[(k + 1) - 1] \o s(k + 1)
        BY <1>3, <2>1
      <3> QED  BY <2>1, <3>1
    <2>4. /\ s(k + 1) \in Seq(PartSet) /\ Len(s(k + 1)) \in {0, 1}
          /\ \A j \in 1..Len(s(k + 1)) : s(k + 1)[j].text = d \/ s(k + 1)[j].text = parts[k + 1]
      BY <1>4, <2>1
    <2>5. ReadsUpto(parts, d, g[k] \o s(k + 1), k + 1)
      BY <1>2, <2>1, <2>2, <2>4, ReadsMore DEF d
    <2> QED  BY <2>1, <2>3, <2>5
  <1>8. ReadsUpto(parts, d, g[n], n)
    <2>1. \A k \in 0..n : k \in T
      <3> HIDE DEF T
      <3> QED  BY <1>2, <1>6, <1>7, Induct
    <2>2. n \in 0..n
      BY <1>2
    <2> QED  BY <2>1, <2>2
  <1>9. g[n] \in Seq(PartSet) /\ g[n] # <<>> /\ g[n][Len(g[n])].text = parts[n]
    <2>1. n \in 1..n /\ n - 1 \in 0..n /\ n \in 0..n
      BY <1>2
    <2>2. g[n] = g[n - 1] \o <<Whole(parts, n)>> /\ g[n - 1] \in Seq(PartSet) /\ g[n] \in Seq(PartSet)
      BY <1>1, <1>3, <1>5, <2>1
    <2> DEFINE a == g[n - 1]
               w == Whole(parts, n)
    <2>3. a \o <<w>> # <<>> /\ (a \o <<w>>)[Len(a \o <<w>>)] = w
      <3>1. a \in Seq(PartSet) /\ w \in PartSet
        BY <1>5, <2>2
      <3> HIDE DEF a, w
      <3> QED  BY <3>1
    <2> QED  BY <1>5, <2>2, <2>3
  <1>10. PICK at : IsAt(parts, g[n], d, at, n)
    BY <1>8 DEF ReadsUpto
  <1> QED  BY <1>3, <1>9, <1>10, ReadsIs DEF n, d

\* truncate_to_unique, level by level: what is saved so far, and the part of each level.
Accs == [saved : Nat, out : Seq(PartSet)]

Gain(parts, o, i) ==
    LET cost == Len(ShortenComponent(parts[i], o.siblings[i])) + Len(o.delimiter)
    IN  IF Len(parts[i]) > cost THEN Len(parts[i]) - cost ELSE 0
FoldsAt(parts, o, saved, i) ==
    ~IsAnchor(parts, i, o) /\ o.budget # NoBudget /\ Gain(parts, o, i) > 0 /\ saved < o.budget
PartAt(parts, o, saved, i) ==
    IF IsAnchor(parts, i, o) THEN Part(parts[i], "anchor")
    ELSE IF FoldsAt(parts, o, saved, i) THEN Part(ShortenComponent(parts[i], o.siblings[i]), "shortened")
    ELSE Part(parts[i], "normal")
SavedAt(parts, o, saved, i) == IF FoldsAt(parts, o, saved, i) THEN saved + Gain(parts, o, i) ELSE saved

LEMMA FoldLevelIs ==
    ASSUME NEW parts, NEW o, NEW acc \in Accs, NEW i
    PROVE  FoldLevel(parts, o, acc, i) =
              [saved |-> SavedAt(parts, o, acc.saved, i), out |-> Append(acc.out, PartAt(parts, o, acc.saved, i))]
  <1> DEFINE r(s, p) == [saved |-> s, out |-> Append(acc.out, p)]
             anchor == Part(parts[i], "anchor")
             short  == Part(ShortenComponent(parts[i], o.siblings[i]), "shortened")
             normal == Part(parts[i], "normal")
             fold == o.budget # NoBudget /\ Gain(parts, o, i) > 0 /\ acc.saved < o.budget
  <1>1. acc = [saved |-> acc.saved, out |-> acc.out]
    BY DEF Accs
  <1>2. FoldLevel(parts, o, acc, i) =
           IF IsAnchor(parts, i, o) THEN [acc EXCEPT !.out = Append(@, anchor)]
           ELSE IF fold THEN r(acc.saved + Gain(parts, o, i), short)
           ELSE [acc EXCEPT !.out = Append(@, normal)]
    BY DEF FoldLevel, Gain
  <1>3. FoldsAt(parts, o, acc.saved, i) <=> ~IsAnchor(parts, i, o) /\ fold
    BY DEF FoldsAt
  <1>4. PartAt(parts, o, acc.saved, i) = IF IsAnchor(parts, i, o) THEN anchor
                                         ELSE IF FoldsAt(parts, o, acc.saved, i) THEN short ELSE normal
    BY DEF PartAt
  <1>5. \A p : [acc EXCEPT !.out = Append(@, p)] = r(acc.saved, p)
    <2>1. ASSUME NEW p PROVE [acc EXCEPT !.out = Append(@, p)] = r(acc.saved, p)
      <3> DEFINE q == Append(acc.out, p)
      <3>1. [acc EXCEPT !.out = q] = [saved |-> acc.saved, out |-> q]
        <4> HIDE DEF q
        <4> QED  BY <1>1
      <3> QED  BY <3>1
    <2> QED  BY <2>1
  <1> HIDE DEF anchor, short, normal, fold, r
  <1>6. FoldLevel(parts, o, acc, i) = r(SavedAt(parts, o, acc.saved, i), PartAt(parts, o, acc.saved, i))
    BY <1>2, <1>3, <1>4, <1>5 DEF SavedAt
  <1> QED  BY <1>6 DEF r

\* A prefix that is unique, and the least that is.
LEMMA ShortenedIs ==
    ASSUME NEW parts \in Levelled, NEW o, IsOpts(o, parts), NEW i \in DOMAIN parts
    PROVE  LET short == ShortenComponent(parts[i], o.siblings[i]) IN
           \E j \in 1..Len(parts[i]) :
              /\ short = SubSeq(parts[i], 1, j)
              /\ j < Len(parts[i]) => {s \in o.siblings[i] : StartsWith(s, short)} = {parts[i]}
  <1> DEFINE name == parts[i]
             names == o.siblings[i]
             unique == {j \in 1..Len(name) : IsUnique(SubSeq(name, 1, j), names)}
             short == ShortenComponent(name, names)
  <1>1. name \in Seq(Letters) /\ Len(name) \in Nat /\ Len(name) >= 1
    BY NameIs
  <1>2. CASE unique = {}
    <2>1. short = name
      BY <1>2 DEF ShortenComponent
    <2>2. name = SubSeq(name, 1, Len(name)) /\ Len(name) \in 1..Len(name) /\ ~(Len(name) < Len(name))
      BY <1>1
    <2> HIDE DEF name, short, names
    <2> QED  BY <2>1, <2>2 DEF name, short, names
  <1>3. CASE unique # {}
    <2> DEFINE j == CHOOSE j \in unique : \A k \in unique : j <= k
    <2>1. \E m \in unique : \A k \in unique : m <= k
      <3>1. unique \subseteq Nat
        OBVIOUS
      <3> HIDE DEF unique
      <3>2. PICK m \in unique : \A k \in unique : <<k, m>> \notin OpToRel(<, Nat)
        BY <1>3, <3>1, NatLessThanWellFounded, WFMin
      <3>3. \A k \in unique : ~(k < m)
        BY <3>1, <3>2 DEF OpToRel
      <3>4. \A k \in unique : m <= k
        BY <3>1, <3>3
      <3> QED  BY <3>4
    <2>2. j \in unique
      BY <2>1
    <2>3. short = SubSeq(name, 1, j)
      BY <1>3 DEF ShortenComponent
    <2> HIDE DEF j, unique
    <2>4. j \in 1..Len(name) /\ IsUnique(SubSeq(name, 1, j), names)
      BY <2>2 DEF unique
    <2> DEFINE same == {s \in names : StartsWith(s, short)}
    <2>5. name \in names /\ IsFiniteSet(names)
      BY DEF IsOpts
    <2>6. name \in same
      <3>1. Len(short) = j /\ j <= Len(name)
        BY <1>1, <2>3, <2>4
      <3>2. StartsWith(name, short)
        <4> HIDE DEF name, names, short
        <4> QED  BY <2>3, <3>1 DEF StartsWith
      <3> QED  BY <2>5, <3>2
    <2>7. IsFiniteSet(same) /\ Cardinality(same) <= 1
      <3>1. IsFiniteSet(same)
        BY <2>5, FS_Subset
      <3>2. Cardinality(same) <= 1
        BY <2>3, <2>4 DEF IsUnique
      <3> QED  BY <3>1, <3>2
    <2> HIDE DEF same, short, name, names
    <2>8. same = {name}
      <3>1. IsFiniteSet({name}) /\ Cardinality({name}) = 1
        BY FS_Singleton
      <3>2. {name} \subseteq same
        BY <2>6
      <3>3. Cardinality({name}) = Cardinality(same)
        <4>1. Cardinality({name}) <= Cardinality(same)
          BY <2>7, <3>2, FS_Subset
        <4>2. Cardinality(same) \in Nat
          BY <2>7, FS_CardinalityType
        <4> QED  BY <2>7, <3>1, <4>1, <4>2
      <3> QED  BY <2>7, <3>2, <3>3, FS_Subset
    <2> QED  BY <2>3, <2>4, <2>8 DEF same, name, names, short
  <1> QED  BY <1>2, <1>3

\* The names beside a level that begin with a text.
AlikeAt(o, i, text) == {s \in o.siblings[i] : StartsWith(s, text)}

\* A part that is not whole is a unique prefix and no anchor, and saves what it is shorter.
IsPartFor(p, parts, o, saved, i) ==
    /\ p \in PartSet /\ StandsFor(p.text, parts[i], o.delimiter) /\ Len(p.text) \in Nat
    /\ Gain(parts, o, i) \in Nat
    /\ i > Len(parts) - o.length => p.text = parts[i]
    /\ p.class = "shortened" <=> FoldsAt(parts, o, saved, i)
    /\ p.class = "shortened" => AlikeAt(o, i, p.text) = {parts[i]}
    /\ FoldsAt(parts, o, saved, i) => Len(p.text) + Len(o.delimiter) + Gain(parts, o, i) = Len(parts[i])
    /\ ~FoldsAt(parts, o, saved, i) => p.text = parts[i]

LEMMA PartAtIs ==
    ASSUME NEW parts \in Levelled, NEW o, IsOpts(o, parts), NEW saved \in Nat, NEW i \in DOMAIN parts
    PROVE  IsPartFor(PartAt(parts, o, saved, i), parts, o, saved, i)
  <1> DEFINE short == ShortenComponent(parts[i], o.siblings[i])
             d == o.delimiter
             p == PartAt(parts, o, saved, i)
             folds == FoldsAt(parts, o, saved, i)
             gain == Gain(parts, o, i)
  <1>1. PICK j \in 1..Len(parts[i]) :
              /\ short = SubSeq(parts[i], 1, j)
              /\ j < Len(parts[i]) => {s \in o.siblings[i] : StartsWith(s, short)} = {parts[i]}
    BY ShortenedIs
  <1>2. d \in Delimiters /\ Len(d) \in Nat
    BY DEF IsOpts, Delimiters
  <1>3. parts[i] \in Texts /\ Len(parts[i]) \in Nat /\ StandsFor(parts[i], parts[i], d)
    BY <1>2, NameIs, WholeStands
  <1>4. StandsFor(short, parts[i], d) /\ short \in Texts /\ Len(short) = j
    BY <1>1, <1>2, HeadStands
  <1>5. gain = IF Len(parts[i]) > Len(short) + Len(d) THEN Len(parts[i]) - (Len(short) + Len(d)) ELSE 0
    BY DEF Gain
  <1>6. gain \in Nat
    BY <1>2, <1>3, <1>4, <1>5
  <1>7. p = IF IsAnchor(parts, i, o) THEN Part(parts[i], "anchor")
            ELSE IF folds THEN Part(short, "shortened") ELSE Part(parts[i], "normal")
    BY DEF PartAt
  <1>8. folds => gain > 0 /\ ~IsAnchor(parts, i, o)
    BY DEF FoldsAt
  <1>9. i > Len(parts) - o.length => IsAnchor(parts, i, o)
    BY DEF IsAnchor
  <1> HIDE DEF short, d, p, folds, gain
  <1>10. CASE folds
    <2>1. p.text = short /\ p.class = "shortened" /\ p \in PartSet
      BY <1>4, <1>7, <1>8, <1>10 DEF Part, PartSet
    <2>2. j < Len(parts[i]) /\ Len(short) + Len(d) + gain = Len(parts[i])
      <3>1. gain > 0
        BY <1>8, <1>10
      <3>2. Len(parts[i]) > Len(short) + Len(d) /\ gain = Len(parts[i]) - (Len(short) + Len(d))
        BY <1>5, <3>1
      <3>3. Len(short) = j /\ j \in Nat /\ Len(d) \in Nat /\ Len(parts[i]) \in Nat
        BY <1>2, <1>3, <1>4
      <3> QED  BY <3>2, <3>3
    <2>3. AlikeAt(o, i, short) = {parts[i]}
      BY <1>1, <2>2 DEF AlikeAt
    <2>4. AlikeAt(o, i, p.text) = {parts[i]}
      BY <2>1, <2>3
    <2>5. ~(i > Len(parts) - o.length)
      BY <1>8, <1>9, <1>10
    <2>6. Len(short) \in Nat
      BY <1>4
    <2> QED  BY <1>4, <1>6, <1>10, <2>1, <2>2, <2>4, <2>5, <2>6 DEF p, d, folds, gain, IsPartFor
  <1>11. CASE ~folds
    <2>1. p.text = parts[i] /\ p.class # "shortened" /\ p \in PartSet
      BY <1>3, <1>7, <1>11 DEF Part, PartSet
    <2> QED  BY <1>3, <1>6, <1>11, <2>1 DEF p, d, folds, gain, IsPartFor
  <1> QED  BY <1>10, <1>11 DEF p

FoldedBy(g, parts, o) ==
    /\ g[0] = [saved |-> 0, out |-> <<>>] /\ FoldUnique(parts, o) = g[Len(parts)].out
    /\ \A i \in 1..Len(parts) : g[i] = [saved |-> SavedAt(parts, o, g[i - 1].saved, i),
                                        out |-> Append(g[i - 1].out, PartAt(parts, o, g[i - 1].saved, i))]

LEMMA FoldedRecurs ==
    ASSUME NEW parts \in Levelled, NEW o, IsOpts(o, parts)
    PROVE  \E g \in [0..Len(parts) -> Accs] : FoldedBy(g, parts, o)
  <1> DEFINE n == Len(parts)
             base == [saved |-> 0, out |-> <<>>]
             next(x, i) == FoldLevel(parts, o, x, i)
             step == [i \in 1..n |-> [x \in Accs |-> next(x, i)]]
             folded(h) == [i \in 0..n |-> IF i = 0 THEN base ELSE next(h[i - 1], i)]
  <1>1. n \in Nat
    BY DEF Levelled
  <1>2. ASSUME NEW i \in 1..n, NEW x \in Accs
        PROVE  /\ next(x, i) \in Accs
               /\ next(x, i) = [saved |-> SavedAt(parts, o, x.saved, i), out |-> Append(x.out, PartAt(parts, o, x.saved, i))]
    <2> DEFINE p == PartAt(parts, o, x.saved, i)
               s == SavedAt(parts, o, x.saved, i)
    <2>1. next(x, i) = [saved |-> s, out |-> Append(x.out, p)]
      BY FoldLevelIs
    <2>2. x.saved \in Nat /\ x.out \in Seq(PartSet) /\ i \in DOMAIN parts
      BY DEF Accs, Levelled
    <2>3. p \in PartSet /\ Gain(parts, o, i) \in Nat
      BY <2>2, PartAtIs DEF IsPartFor
    <2>4. s \in Nat
      BY <2>2, <2>3 DEF SavedAt
    <2> HIDE DEF p, s
    <2>5. Append(x.out, p) \in Seq(PartSet)
      BY <2>2, <2>3
    <2> HIDE DEF next
    <2> QED  BY <2>1, <2>4, <2>5 DEF Accs, p, s
  <1>3. FoldUnique(parts, o) = (CHOOSE h : h = folded(h))[n].out
    BY DEF FoldUnique
  <1> HIDE DEF n, next
  <1>4. step \in [1..n -> [Accs -> Accs]] /\ base \in Accs
    BY <1>2 DEF Accs
  <1>5. \A i \in 1..n : \A x \in Accs : step[i][x] = next(x, i)
    OBVIOUS
  <1> HIDE DEF step
  <1>6. PICK g \in [0..n -> Accs] : Recurs(g, n, base, step)
    BY <1>1, <1>4, Recursion
  <1> HIDE DEF base
  <1>7. g[0] = base /\ \A i \in 1..n : g[i] = next(g[i - 1], i) /\ g[i - 1] \in Accs
    <2>1. \A i \in 1..n : i - 1 \in 0..n
      BY <1>1
    <2> QED  BY <1>5, <1>6, <2>1 DEF Recurs
  <1>8. g = folded(g)
    <2>1. g = [i \in 0..n |-> g[i]]
      BY <1>6
    <2>2. \A i \in 0..n : g[i] = IF i = 0 THEN base ELSE next(g[i - 1], i)
      BY <1>1, <1>7
    <2> QED  BY <2>1, <2>2
  <1> DEFINE h == CHOOSE e : e = folded(e)
  <1>9. h = folded(h)
    BY <1>8
  <1>10. FoldUnique(parts, o) = h[n].out
    BY <1>3
  <1> HIDE DEF h
  <1>11. h[0] = base /\ \A i \in 1..n : h[i] = next(h[i - 1], i)
    <2>1. \A i \in 0..n : h[i] = IF i = 0 THEN base ELSE next(h[i - 1], i)
      BY <1>9
    <2>2. 0 \in 0..n /\ \A i \in 1..n : i \in 0..n /\ i # 0
      BY <1>1
    <2> QED  BY <2>1, <2>2
  <1> DEFINE T == {k \in 0..n : h[k] = g[k]}
  <1>12. 0 \in T
    BY <1>1, <1>7, <1>11
  <1>13. ASSUME NEW k \in 0..n - 1, k \in T PROVE k + 1 \in T
    <2>1. k + 1 \in 1..n /\ k + 1 - 1 = k
      BY <1>1
    <2>2. h[k + 1] = next(h[k], k + 1) /\ g[k + 1] = next(g[k], k + 1)
      BY <1>7, <1>11, <2>1
    <2>3. h[k] = g[k]
      BY <1>13
    <2> QED  BY <2>1, <2>2, <2>3
  <1>14. n \in T
    <2>1. \A k \in 0..n : k \in T
      <3> HIDE DEF T
      <3> QED  BY <1>1, <1>12, <1>13, Induct
    <2> QED  BY <1>1, <2>1
  <1>15. \A i \in 1..n : g[i] = [saved |-> SavedAt(parts, o, g[i - 1].saved, i),
                                 out |-> Append(g[i - 1].out, PartAt(parts, o, g[i - 1].saved, i))]
    BY <1>2, <1>7
  <1>16. FoldedBy(g, parts, o)
    BY <1>7, <1>10, <1>14, <1>15 DEF FoldedBy, n, base
  <1> QED  BY <1>6, <1>16 DEF n

\* Behind each level: the parts so far are those of the levels.
LEMMA FoldedIs ==
    ASSUME NEW parts \in Levelled, NEW o, IsOpts(o, parts),
           NEW g \in [0..Len(parts) -> Accs], FoldedBy(g, parts, o)
    PROVE  \A k \in 0..Len(parts) :
              /\ Len(g[k].out) = k /\ g[k].out \in Seq(PartSet) /\ g[k].saved \in Nat
              /\ \A i \in 1..k : g[k].out[i] = PartAt(parts, o, g[i - 1].saved, i)
  <1> DEFINE n == Len(parts)
             p(i) == PartAt(parts, o, g[i - 1].saved, i)
             P(k) == /\ Len(g[k].out) = k /\ g[k].out \in Seq(PartSet) /\ g[k].saved \in Nat
                     /\ \A i \in 1..k : g[k].out[i] = p(i)
             T == {k \in 0..n : P(k)}
  <1>1. n \in Nat /\ DOMAIN parts = 1..n
    BY DEF Levelled
  <1>2. /\ g[0].saved = 0 /\ g[0].out = <<>>
        /\ \A i \in 1..n : g[i].out = Append(g[i - 1].out, p(i)) /\ g[i].saved = SavedAt(parts, o, g[i - 1].saved, i)
    <2>1. g[0] = [saved |-> 0, out |-> <<>>]
      BY DEF FoldedBy
    <2>2. ASSUME NEW i \in 1..n
          PROVE  g[i].out = Append(g[i - 1].out, p(i)) /\ g[i].saved = SavedAt(parts, o, g[i - 1].saved, i)
      <3> DEFINE x == Append(g[i - 1].out, p(i))
                 y == SavedAt(parts, o, g[i - 1].saved, i)
      <3>1. g[i] = [saved |-> y, out |-> x]
        BY DEF FoldedBy
      <3> HIDE DEF x, y
      <3>2. g[i].out = x /\ g[i].saved = y
        BY <3>1
      <3> QED  BY <3>2 DEF x, y
    <2> QED  BY <2>1, <2>2
  <1>3. \A k \in 0..n : g[k].saved \in Nat /\ g[k].out \in Seq(PartSet)
    BY DEF Accs
  <1>4. \A i \in 1..n : p(i) \in PartSet
    <2>1. ASSUME NEW i \in 1..n PROVE p(i) \in PartSet
      <3>1. i - 1 \in 0..n
        BY <1>1
      <3>2. g[i - 1].saved \in Nat
        BY <1>3, <3>1
      <3> QED  BY <1>1, <3>2, PartAtIs DEF IsPartFor
    <2> QED  BY <2>1
  <1> HIDE DEF n, p
  <1>5. 0 \in T
    BY <1>1, <1>2, <1>3
  <1>6. ASSUME NEW k \in 0..n - 1, k \in T PROVE k + 1 \in T
    <2>1. k + 1 \in 1..n /\ (k + 1) - 1 = k /\ k + 1 \in 0..n /\ k \in 0..n /\ k \in Nat
      BY <1>1
    <2>2. g[k + 1].out = Append(g[k].out, p(k + 1))
      <3>1. g[k + 1].out = Append(g[(k + 1) - 1].out, p(k + 1))
        BY <1>2, <2>1
      <3> QED  BY <2>1, <3>1
    <2>3. P(k)
      BY <1>6
    <2> DEFINE a == g[k].out
               q == p(k + 1)
    <2>4. a \in Seq(PartSet) /\ Len(a) = k /\ q \in PartSet /\ \A i \in 1..k : a[i] = p(i)
      BY <1>4, <2>1, <2>3
    <2>5. Len(Append(a, q)) = k + 1 /\ \A i \in 1..k + 1 : Append(a, q)[i] = p(i)
      <3>1. Len(Append(a, q)) = k + 1 /\ \A i \in 1..k + 1 : Append(a, q)[i] = IF i <= k THEN a[i] ELSE q
        <4> HIDE DEF a, q
        <4> QED  BY <2>1, <2>4
      <3>2. \A i \in 1..k + 1 : i \in 1..k \/ i = k + 1
        BY <2>1
      <3> HIDE DEF a
      <3> QED  BY <2>1, <2>4, <3>1, <3>2
    <2>6. P(k + 1)
      BY <1>3, <2>1, <2>2, <2>5
    <2> HIDE DEF P
    <2> QED  BY <2>1, <2>6
  <1>7. \A k \in 0..n : k \in T
    <2> HIDE DEF T
    <2> QED  BY <1>1, <1>5, <1>6, Induct
  <1>8. \A k \in 0..n : P(k)
    <2> HIDE DEF P
    <2> QED  BY <1>7
  <1> QED  BY <1>8 DEF n, p

\* The columns of two sequences of parts that differ in one.
WidthBy(w, out) == w[0] = 0 /\ Width(out) = w[Len(out)] /\ \A i \in 1..Len(out) : w[i] = w[i - 1] + Len(out[i].text) + 1

LEMMA WidthRecurs ==
    ASSUME NEW out \in Seq(PartSet)
    PROVE  \E w \in [0..Len(out) -> Nat] : WidthBy(w, out)
  <1> DEFINE n == Len(out)
             len(i) == Len(out[i].text) + 1
             step == [i \in 1..n |-> [x \in Nat |-> x + len(i)]]
             summed(h) == [i \in 0..n |-> IF i = 0 THEN 0 ELSE h[i - 1] + Len(out[i].text) + 1]
  <1>1. n \in Nat
    OBVIOUS
  <1>2. \A i \in 1..n : len(i) \in Nat /\ Len(out[i].text) \in Nat
    <2>1. ASSUME NEW i \in 1..n PROVE Len(out[i].text) \in Nat
      <3>1. out[i] \in PartSet
        OBVIOUS
      <3>2. out[i].text \in Seq(Letters \cup {Ellipsis})
        BY <3>1 DEF PartSet, Texts
      <3> QED  BY <3>2
    <2> QED  BY <2>1
  <1>3. Width(out) = (CHOOSE h : h = summed(h))[n]
    BY DEF Width
  <1>4. step \in [1..n -> [Nat -> Nat]]
    <2> HIDE DEF len, n
    <2> QED  BY <1>2
  <1>5. \A i \in 1..n : \A x \in Nat : step[i][x] = x + len(i)
    OBVIOUS
  <1> HIDE DEF step, n
  <1>6. PICK g \in [0..n -> Nat] : Recurs(g, n, 0, step)
    BY <1>1, <1>4, Recursion
  <1>7. g[0] = 0 /\ \A i \in 1..n : g[i] = g[i - 1] + Len(out[i].text) + 1
    <2>1. \A i \in 1..n : i - 1 \in 0..n
      BY <1>1
    <2>2. g[0] = 0 /\ \A i \in 1..n : g[i] = g[i - 1] + len(i) /\ g[i - 1] \in Nat
      <3> HIDE DEF len
      <3> QED  BY <1>5, <1>6, <2>1 DEF Recurs
    <2> QED  BY <1>2, <2>2
  <1>8. g = summed(g)
    <2>1. g = [i \in 0..n |-> g[i]]
      BY <1>6
    <2>2. \A i \in 0..n : g[i] = IF i = 0 THEN 0 ELSE g[i - 1] + Len(out[i].text) + 1
      BY <1>1, <1>7
    <2> QED  BY <2>1, <2>2
  <1> DEFINE h == CHOOSE e : e = summed(e)
  <1>9. h = summed(h)
    BY <1>8
  <1>10. Width(out) = h[n]
    BY <1>3
  <1> HIDE DEF h
  <1>11. h[0] = 0 /\ \A i \in 1..n : h[i] = h[i - 1] + Len(out[i].text) + 1
    <2>1. \A i \in 0..n : h[i] = IF i = 0 THEN 0 ELSE h[i - 1] + Len(out[i].text) + 1
      BY <1>9
    <2>2. 0 \in 0..n /\ \A i \in 1..n : i \in 0..n /\ i # 0
      BY <1>1
    <2> QED  BY <2>1, <2>2
  <1> DEFINE T == {k \in 0..n : h[k] = g[k]}
  <1>12. 0 \in T
    BY <1>1, <1>7, <1>11
  <1>13. ASSUME NEW k \in 0..n - 1, k \in T PROVE k + 1 \in T
    <2>1. k + 1 \in 1..n /\ k + 1 - 1 = k
      BY <1>1
    <2>2. h[k + 1] = h[k] + Len(out[k + 1].text) + 1 /\ g[k + 1] = g[k] + Len(out[k + 1].text) + 1
      BY <1>7, <1>11, <2>1
    <2>3. h[k] = g[k]
      BY <1>13
    <2> QED  BY <2>1, <2>2, <2>3
  <1>14. n \in T
    <2>1. \A k \in 0..n : k \in T
      <3> HIDE DEF T
      <3> QED  BY <1>1, <1>12, <1>13, Induct
    <2> QED  BY <1>1, <2>1
  <1>15. WidthBy(g, out)
    BY <1>7, <1>10, <1>14 DEF WidthBy, n
  <1> QED  BY <1>6, <1>15 DEF n

LEMMA WidthChanged ==
    ASSUME NEW a \in Seq(PartSet), NEW b \in Seq(PartSet), Len(a) = Len(b), NEW j \in 1..Len(a),
           NEW gain \in Nat, Len(a[j].text) = Len(b[j].text) + gain,
           \A i \in 1..Len(a) : i # j => a[i].text = b[i].text
    PROVE  Width(a) = Width(b) + gain /\ Width(b) \in Nat
  <1> DEFINE n == Len(a)
  <1>1. PICK v \in [0..n -> Nat] : WidthBy(v, a)
    BY WidthRecurs
  <1>2. PICK w \in [0..Len(b) -> Nat] : WidthBy(w, b)
    BY WidthRecurs
  <1>3. n \in Nat
    OBVIOUS
  <1>4. \A i \in 1..n : Len(a[i].text) \in Nat /\ Len(b[i].text) \in Nat
    <2>1. ASSUME NEW i \in 1..n PROVE Len(a[i].text) \in Nat /\ Len(b[i].text) \in Nat
      <3>1. a[i] \in PartSet /\ b[i] \in PartSet
        OBVIOUS
      <3>2. a[i].text \in Seq(Letters \cup {Ellipsis}) /\ b[i].text \in Seq(Letters \cup {Ellipsis})
        BY <3>1 DEF PartSet, Texts
      <3> QED  BY <3>2
    <2> QED  BY <2>1
  <1>5. \A i \in 0..n : v[i] \in Nat /\ w[i] \in Nat
    OBVIOUS
  <1>6. /\ v[0] = 0 /\ Width(a) = v[n] /\ \A i \in 1..n : v[i] = v[i - 1] + Len(a[i].text) + 1
        /\ w[0] = 0 /\ Width(b) = w[n] /\ \A i \in 1..n : w[i] = w[i - 1] + Len(b[i].text) + 1
    BY <1>1, <1>2 DEF WidthBy
  <1>7. j \in 1..n /\ Len(a[j].text) = Len(b[j].text) + gain /\ \A i \in 1..n : i # j => Len(a[i].text) = Len(b[i].text)
    OBVIOUS
  <1> HIDE DEF n
  <1> DEFINE T == {k \in 0..n : v[k] = w[k] + (IF k < j THEN 0 ELSE gain)}
  <1>8. 0 \in T
    BY <1>3, <1>6, <1>7
  <1>9. ASSUME NEW k \in 0..n - 1, k \in T PROVE k + 1 \in T
    <2>1. k + 1 \in 1..n /\ k + 1 - 1 = k /\ k \in 0..n
      BY <1>3
    <2>2. v[k + 1] = v[k] + Len(a[k + 1].text) + 1 /\ w[k + 1] = w[k] + Len(b[k + 1].text) + 1
      BY <1>6, <2>1
    <2>3. v[k] = w[k] + (IF k < j THEN 0 ELSE gain) /\ v[k] \in Nat /\ w[k] \in Nat
      BY <1>5, <1>9, <2>1
    <2>4. Len(a[k + 1].text) \in Nat /\ Len(b[k + 1].text) \in Nat
      BY <1>4, <2>1
    <2>5. CASE k + 1 = j
      <3>1. Len(a[k + 1].text) = Len(b[k + 1].text) + gain /\ k < j /\ ~(k + 1 < j)
        BY <1>7, <2>1, <2>5
      <3>2. v[k + 1] = w[k + 1] + gain
        BY <2>2, <2>3, <2>4, <3>1
      <3> QED  BY <2>1, <3>1, <3>2
    <2>6. CASE k + 1 # j
      <3>1. Len(a[k + 1].text) = Len(b[k + 1].text) /\ (k + 1 < j <=> k < j)
        BY <1>7, <2>1, <2>6
      <3> DEFINE e == IF k < j THEN 0 ELSE gain
      <3>2. e \in Nat /\ v[k] = w[k] + e
        BY <2>3
      <3> HIDE DEF e
      <3>3. v[k + 1] = w[k + 1] + e
        <4> DEFINE x == Len(a[k + 1].text)
                   y == Len(b[k + 1].text)
        <4>1. x \in Nat /\ x = y /\ v[k + 1] = v[k] + x + 1 /\ w[k + 1] = w[k] + y + 1
          BY <2>2, <2>4, <3>1
        <4> HIDE DEF x, y
        <4>2. v[k + 1] = (w[k] + e) + x + 1 /\ w[k + 1] = w[k] + x + 1
          BY <3>2, <4>1
        <4>3. w[k] \in Nat
          BY <2>3
        <4> QED  BY <3>2, <4>1, <4>2, <4>3
      <3>4. e = IF k + 1 < j THEN 0 ELSE gain
        BY <3>1 DEF e
      <3> QED  BY <2>1, <3>3, <3>4
    <2> QED  BY <2>5, <2>6
  <1>10. n \in T
    <2>1. \A k \in 0..n : k \in T
      <3> HIDE DEF T
      <3> QED  BY <1>3, <1>8, <1>9, Induct
    <2> QED  BY <1>3, <2>1
  <1>11. n \in 0..n /\ ~(n < j)
    BY <1>3, <1>7
  <1> QED  BY <1>5, <1>6, <1>10, <1>11

\* The path as it is counted.
LEMMA CountedIs ==
    ASSUME NEW a \in Seq(PartSet), NEW o, o.delimiter \in Delimiters
    PROVE  /\ Counted(a, o) \in Seq(PartSet) /\ Len(Counted(a, o)) = Len(a)
           /\ \A i \in 1..Len(a) : Counted(a, o)[i] = WithDelimiter(a[i], o)
           /\ \A i \in 1..Len(a) :
                 Len(WithDelimiter(a[i], o).text)
                    = Len(a[i].text) + (IF a[i].class = "shortened" THEN Len(o.delimiter) ELSE 0)
  <1> DEFINE d == o.delimiter
             w(i) == WithDelimiter(a[i], o)
  <1>1. ASSUME NEW i \in 1..Len(a)
        PROVE  /\ w(i) \in PartSet
               /\ Len(w(i).text) = Len(a[i].text) + (IF a[i].class = "shortened" THEN Len(d) ELSE 0)
    <2> DEFINE t == a[i].text
    <2>1. a[i] \in PartSet
      OBVIOUS
    <2>2. t \in Texts /\ d \in Texts
      BY <2>1 DEF PartSet, Texts, Delimiters
    <2> HIDE DEF t, d
    <2>3. t \o d \in Texts /\ Len(t \o d) = Len(t) + Len(d) /\ Len(t) \in Nat
      BY <2>2, ConcatProperties DEF Texts
    <2>4. w(i) = IF a[i].class = "shortened" THEN [text |-> t \o d, class |-> "shortened"] ELSE a[i]
      BY DEF WithDelimiter, Part, t, d
    <2>5. a[i].class \in {"anchor", "normal", "shortened"} /\ a[i].text = t
      BY <2>1 DEF PartSet, t
    <2> HIDE DEF w
    <2> QED  BY <2>1, <2>3, <2>4, <2>5 DEF PartSet
  <1>2. DOMAIN a = 1..Len(a)
    OBVIOUS
  <1>3. Counted(a, o) = [i \in 1..Len(a) |-> w(i)] /\ Len(a) \in Nat
    BY <1>2 DEF Counted
  <1>0. \A i \in 1..Len(a) : w(i) \in PartSet
    BY <1>1
  <1> HIDE DEF w
  <1>4. Counted(a, o) \in Seq(PartSet) /\ Len(Counted(a, o)) = Len(a)
    <2> DEFINE n == Len(a)
    <2>1. n \in Nat /\ (\A i \in 1..n : w(i) \in PartSet) /\ Counted(a, o) = [i \in 1..n |-> w(i)]
      BY <1>0, <1>3
    <2> HIDE DEF n
    <2>2. Counted(a, o) \in [1..n -> PartSet]
      BY <2>1
    <2>3. Counted(a, o) \in Seq(PartSet)
      BY <2>1, <2>2
    <2> QED  BY <2>1, <2>2, <2>3 DEF n
  <1>5. \A i \in 1..Len(a) : Counted(a, o)[i] = w(i)
    BY <1>3
  <1> QED  BY <1>1, <1>4, <1>5 DEF w, d

\* The levels folded so far, and the others whole: what is saved is what is narrower.
LEMMA MixedIs ==
    ASSUME NEW parts \in Levelled, NEW o, IsOpts(o, parts),
           NEW g \in [0..Len(parts) -> Accs], FoldedBy(g, parts, o), NEW k \in 0..Len(parts)
    PROVE  LET mixed == Counted(g[k].out, o) \o FromLevel(parts, k + 1) IN
           /\ mixed \in Seq(PartSet) /\ Len(mixed) = Len(parts)
           /\ \A i \in 1..Len(parts) :
                 mixed[i].text = IF i <= k THEN WithDelimiter(PartAt(parts, o, g[i - 1].saved, i), o).text ELSE parts[i]
  <1> DEFINE n == Len(parts)
             a == Counted(g[k].out, o)
             b == FromLevel(parts, k + 1)
             p(i) == WithDelimiter(PartAt(parts, o, g[i - 1].saved, i), o)
  <1>1. n \in Nat /\ k + 1 \in 1..n + 1 /\ k \in Nat /\ k <= n
    BY DEF Levelled
  <1>2. a \in Seq(PartSet) /\ Len(a) = k /\ \A i \in 1..k : a[i] = p(i)
    <2>1. /\ g[k].out \in Seq(PartSet) /\ Len(g[k].out) = k
          /\ \A i \in 1..k : g[k].out[i] = PartAt(parts, o, g[i - 1].saved, i)
      BY FoldedIs
    <2>2. o.delimiter \in Delimiters
      BY DEF IsOpts, Delimiters
    <2> QED  BY <2>1, <2>2, CountedIs
  <1>3. /\ b \in Seq(PartSet) /\ Len(b) = n - (k + 1) + 1
        /\ \A i \in 1..Len(b) : b[i].text = parts[(k + 1) + i - 1]
    BY <1>1, FromLevelIs
  <1> HIDE DEF a, b, p, n
  <1>4. Len(b) = n - k
    BY <1>1, <1>3
  <1>5. a \o b \in Seq(PartSet) /\ Len(a \o b) = Len(a) + Len(b)
        /\ \A i \in 1..Len(a) + Len(b) : (a \o b)[i] = IF i <= Len(a) THEN a[i] ELSE b[i - Len(a)]
    <2>1. a \in Seq(PartSet) /\ b \in Seq(PartSet)
      BY <1>2, <1>3
    <2> QED  BY <2>1, ConcatProperties
  <1> DEFINE m == a \o b
  <1>6. m \in Seq(PartSet) /\ Len(m) = n /\ \A i \in 1..n : m[i] = IF i <= k THEN a[i] ELSE b[i - k]
    <2>1. Len(a) + Len(b) = n /\ Len(a) = k
      BY <1>1, <1>2, <1>4
    <2> HIDE DEF m
    <2> QED  BY <1>5, <2>1 DEF m
  <1> HIDE DEF m
  <1>7. ASSUME NEW i \in 1..n PROVE m[i].text = IF i <= k THEN p(i).text ELSE parts[i]
    <2>1. CASE i <= k
      <3>1. i \in 1..k /\ m[i] = a[i]
        BY <1>1, <1>6, <2>1
      <3> QED  BY <1>2, <2>1, <3>1
    <2>2. CASE ~(i <= k)
      <3>1. i - k \in 1..Len(b) /\ (k + 1) + (i - k) - 1 = i /\ m[i] = b[i - k]
        BY <1>1, <1>4, <1>6, <2>2
      <3>2. b[i - k].text = parts[(k + 1) + (i - k) - 1]
        BY <1>3, <3>1
      <3> QED  BY <2>2, <3>1, <3>2
    <2> QED  BY <2>1, <2>2
  <1> QED  BY <1>6, <1>7 DEF m, a, b, p, n

LEMMA SavedIs ==
    ASSUME NEW parts \in Levelled, parts # <<>>, NEW o, IsOpts(o, parts),
           NEW g \in [0..Len(parts) -> Accs], FoldedBy(g, parts, o)
    PROVE  \A k \in 0..Len(parts) :
              /\ Width(Counted(g[k].out, o) \o FromLevel(parts, k + 1)) + g[k].saved = Width(Plain(parts))
              /\ Width(Counted(g[k].out, o) \o FromLevel(parts, k + 1)) \in Nat /\ g[k].saved \in Nat
  <1> DEFINE n == Len(parts)
             m(k) == Counted(g[k].out, o) \o FromLevel(parts, k + 1)
             w(k) == Width(m(k))
             p(i) == WithDelimiter(PartAt(parts, o, g[i - 1].saved, i), o)
             T == {k \in 0..n : w(k) + g[k].saved = Width(Plain(parts))}
  <1>1. n \in Nat /\ n >= 1 /\ DOMAIN parts = 1..n
    BY DEF Levelled
  <1>2. ASSUME NEW k \in 0..n
        PROVE  /\ m(k) \in Seq(PartSet) /\ Len(m(k)) = n
               /\ \A i \in 1..n : m(k)[i].text = IF i <= k THEN p(i).text ELSE parts[i]
    BY MixedIs
  <1>3. \A k \in 0..n : g[k].saved \in Nat
    BY FoldedIs
  <1>4. \A k \in 1..n : g[k].saved = SavedAt(parts, o, g[k - 1].saved, k)
    <2>1. ASSUME NEW k \in 1..n PROVE g[k].saved = SavedAt(parts, o, g[k - 1].saved, k)
      <3> DEFINE q == PartAt(parts, o, g[k - 1].saved, k)
      <3>1. g[k] = [saved |-> SavedAt(parts, o, g[k - 1].saved, k), out |-> Append(g[k - 1].out, q)]
        BY DEF FoldedBy
      <3> HIDE DEF q
      <3> QED  BY <3>1
    <2> QED  BY <2>1
  <1>5. ASSUME NEW k \in 0..n PROVE w(k) \in Nat
    <2>1. 1 \in 1..Len(m(k))
      <3> HIDE DEF m
      <3> QED  BY <1>1, <1>2
    <2> DEFINE a == m(k)
    <2>2. a \in Seq(PartSet) /\ Len(a[1].text) \in Nat
      <3>1. a \in Seq(PartSet) /\ 1 \in 1..Len(a)
        BY <1>2, <2>1
      <3> HIDE DEF a
      <3>2. a[1] \in PartSet
        BY <3>1
      <3>3. a[1].text \in Seq(Letters \cup {Ellipsis})
        BY <3>2 DEF PartSet, Texts
      <3> QED  BY <3>1, <3>3
    <2>3. 1 \in 1..Len(a)
      BY <2>1
    <2> HIDE DEF a
    <2>4. Len(a[1].text) = Len(a[1].text) + 0
      BY <2>2
    <2>5. Width(a) \in Nat
      BY <2>2, <2>3, <2>4, WidthChanged
    <2> QED  BY <2>5 DEF a
  <1>6. 0 \in T
    <2>1. g[0] = [saved |-> 0, out |-> <<>>]
      BY DEF FoldedBy
    <2>2. g[0].saved = 0 /\ g[0].out = <<>>
      BY <2>1
    <2>3. FromLevel(parts, 1) \in Seq(PartSet)
      BY <1>1, FromLevelIs
    <2>4. m(0) = Plain(parts)
      <3>1. m(0) = <<>> \o FromLevel(parts, 0 + 1) /\ 0 + 1 = 1
        BY <2>2 DEF Counted
      <3> QED  BY <2>3, <3>1 DEF Plain
    <2>5. w(0) \in Nat /\ 0 \in 0..n
      BY <1>1, <1>5
    <2>6. w(0) = Width(Plain(parts))
      BY <2>4
    <2> HIDE DEF w
    <2> QED  BY <2>2, <2>5, <2>6
  <1>7. ASSUME NEW k \in 0..n - 1, k \in T PROVE k + 1 \in T
    <2> DEFINE j == k + 1
    <2>1. j \in 1..n /\ j - 1 = k /\ k \in 0..n /\ j \in 0..n /\ k \in Nat
      BY <1>1
    <2> HIDE DEF j
    <2>2. w(k) + g[k].saved = Width(Plain(parts))
      BY <1>7
    <2>3. g[k].saved \in Nat /\ g[j].saved = SavedAt(parts, o, g[k].saved, j)
      BY <1>3, <1>4, <2>1
    <2>4. p(j) = WithDelimiter(PartAt(parts, o, g[k].saved, j), o)
      BY <2>1
    <2> DEFINE gain == Gain(parts, o, j)
               folds == FoldsAt(parts, o, g[k].saved, j)
    <2>5. /\ Len(p(j).text) \in Nat /\ gain \in Nat
          /\ folds => Len(p(j).text) + gain = Len(parts[j])
          /\ ~folds => p(j).text = parts[j]
      <3> DEFINE s == g[k].saved
      <3>1. s \in Nat /\ j \in DOMAIN parts /\ p(j) = WithDelimiter(PartAt(parts, o, s, j), o)
        BY <1>1, <2>1, <2>3, <2>4
      <3> HIDE DEF s, p
      <3>0. /\ PartAt(parts, o, s, j).text \in Texts /\ o.delimiter \in Texts
            /\ PartAt(parts, o, s, j).class = "shortened" <=> FoldsAt(parts, o, s, j)
        <4>1. IsPartFor(PartAt(parts, o, s, j), parts, o, s, j)
          BY <3>1, PartAtIs
        <4>2. o.delimiter \in Texts
          BY DEF IsOpts, Texts
        <4> QED  BY <4>1, <4>2 DEF IsPartFor, PartSet
      <3>2. /\ Len(PartAt(parts, o, s, j).text) \in Nat /\ Gain(parts, o, j) \in Nat
            /\ FoldsAt(parts, o, s, j) => Len(PartAt(parts, o, s, j).text) + Len(o.delimiter) + Gain(parts, o, j) = Len(parts[j])
            /\ ~FoldsAt(parts, o, s, j) => PartAt(parts, o, s, j).text = parts[j]
        <4>1. IsPartFor(PartAt(parts, o, s, j), parts, o, s, j)
          BY <3>1, PartAtIs
        <4> QED  BY <4>1 DEF IsPartFor
      <3> DEFINE t == PartAt(parts, o, s, j).text
                 d == o.delimiter
      <3> HIDE DEF t, d
      <3>3. Len(t \o d) = Len(t) + Len(d) /\ Len(d) \in Nat
        BY <3>0, ConcatProperties DEF Texts, t, d
      <3>4. p(j).text = IF FoldsAt(parts, o, s, j) THEN t \o d ELSE t
        BY <3>0, <3>1 DEF WithDelimiter, Part, t, d
      <3>5. Len(t) = Len(PartAt(parts, o, s, j).text) /\ Len(d) = Len(o.delimiter)
        BY DEF t, d
      <3>6. gain = Gain(parts, o, j) /\ folds = FoldsAt(parts, o, s, j)
        BY DEF s
      <3>7. ~folds => t = parts[j]
        BY <3>2, <3>6 DEF t
      <3> HIDE DEF gain, folds
      <3> DEFINE l == Len(t)
                 x == Len(d)
      <3>8. l \in Nat /\ x \in Nat /\ gain \in Nat /\ (folds => l + x + gain = Len(parts[j]))
            /\ (folds => Len(p(j).text) = l + x) /\ (~folds => Len(p(j).text) = l)
        BY <3>2, <3>3, <3>4, <3>5, <3>6
      <3> HIDE DEF l, x
      <3> QED  BY <3>4, <3>6, <3>7, <3>8
    <2>6. g[j].saved = IF folds THEN g[k].saved + gain ELSE g[k].saved
      BY <2>3 DEF SavedAt
    <2> DEFINE diff == IF folds THEN gain ELSE 0
               a == m(k)
               b == m(j)
    <2> HIDE DEF p, gain, folds
    <2>7. /\ a \in Seq(PartSet) /\ b \in Seq(PartSet) /\ Len(a) = n /\ Len(b) = n
          /\ \A i \in 1..n : a[i].text = (IF i <= k THEN p(i).text ELSE parts[i])
          /\ \A i \in 1..n : b[i].text = (IF i <= j THEN p(i).text ELSE parts[i])
      <3> HIDE DEF m
      <3> QED  BY <1>2, <2>1
    <2>8. diff \in Nat /\ g[j].saved = g[k].saved + diff
      BY <2>3, <2>5, <2>6
    <2>9. a[j].text = parts[j] /\ b[j].text = p(j).text
      <3>1. ~(j <= k) /\ j <= j
        BY <2>1
      <3> HIDE DEF a, b
      <3> QED  BY <2>1, <2>7, <3>1
    <2>10. Len(parts[j]) = Len(p(j).text) + diff
      <3>2. Len(parts[j]) \in Nat
        BY <1>1, <2>1, NameIs
      <3>3. CASE folds
        BY <2>5, <3>2, <3>3
      <3>4. CASE ~folds
        BY <2>5, <3>2, <3>4
      <3> QED  BY <3>3, <3>4
    <2>11. \A i \in 1..n : i # j => a[i].text = b[i].text
      <3>1. \A i \in 1..n : i # j => (i <= k <=> i <= j)
        BY <2>1
      <3> HIDE DEF a, b
      <3> QED  BY <2>7, <3>1
    <2> HIDE DEF a, b, diff
    <2>12. Width(a) = Width(b) + diff /\ Width(b) \in Nat
      <3>1. Len(a) = Len(b) /\ j \in 1..Len(a) /\ Len(a[j].text) = Len(b[j].text) + diff
        BY <2>1, <2>7, <2>9, <2>10
      <3>2. \A i \in 1..Len(a) : i # j => a[i].text = b[i].text
        BY <2>7, <2>11
      <3>3. a \in Seq(PartSet) /\ b \in Seq(PartSet)
        BY <2>7
      <3> QED  BY <2>8, <3>1, <3>2, <3>3, WidthChanged
    <2>13. w(k) = Width(a) /\ w(j) = Width(b)
      BY DEF a, b
    <2> HIDE DEF w
    <2>14. w(j) + g[j].saved = Width(Plain(parts))
      BY <2>2, <2>3, <2>8, <2>12, <2>13
    <2> QED  BY <2>1, <2>14 DEF j
  <1>8. \A k \in 0..n : k \in T
    <2> HIDE DEF T
    <2> QED  BY <1>1, <1>6, <1>7, Induct
  <1>9. \A k \in 0..n : w(k) + g[k].saved = Width(Plain(parts))
    <2> HIDE DEF w
    <2> QED  BY <1>8
  <1> QED  BY <1>3, <1>5, <1>9

LEMMA UniqueIs ==
    ASSUME NEW parts \in Levelled, parts # <<>>, NEW o, IsOpts(o, parts)
    PROVE  LET out == FoldUnique(parts, o) IN ReadsAsPath(parts, out, o) /\ FoldsUniquely(parts, o, out)
  <1> DEFINE n == Len(parts)
             out == FoldUnique(parts, o)
             d == o.delimiter
             counted == Counted(out, o)
             saved(k) == Width(Plain(parts)) - Width(SubSeq(counted, 1, k) \o FromLevel(parts, k + 1))
  <1>1. PICK g \in [0..n -> Accs] : FoldedBy(g, parts, o)
    BY FoldedRecurs
  <1> DEFINE p(i) == PartAt(parts, o, g[i - 1].saved, i)
  <1>2. n \in Nat /\ n >= 1 /\ DOMAIN parts = 1..n
    BY DEF Levelled
  <1>3. o.length \in Nat /\ o.length >= 1 /\ d \in Delimiters
    BY DEF IsOpts, Delimiters
  <1>4. \A k \in 0..n : /\ Len(g[k].out) = k /\ g[k].out \in Seq(PartSet) /\ g[k].saved \in Nat
                        /\ \A i \in 1..k : g[k].out[i] = p(i)
    BY <1>1, FoldedIs
  <1>5. out = g[n].out
    BY <1>1 DEF FoldedBy
  <1>6. ASSUME NEW i \in 1..n
        PROVE  /\ StandsFor(p(i).text, parts[i], d)
               /\ i > n - o.length => p(i).text = parts[i]
               /\ p(i).class = "shortened" =>
                     /\ FoldsAt(parts, o, g[i - 1].saved, i)
                     /\ AlikeAt(o, i, p(i).text) = {parts[i]}
    <2>1. i - 1 \in 0..n /\ i \in DOMAIN parts
      BY <1>2
    <2>2. g[i - 1].saved \in Nat
      BY <1>4, <2>1
    <2> DEFINE s == g[i - 1].saved
    <2>3. s \in Nat /\ p(i) = PartAt(parts, o, s, i)
      BY <2>2
    <2> HIDE DEF s, p
    <2> DEFINE q == PartAt(parts, o, s, i)
    <2>4. /\ StandsFor(q.text, parts[i], o.delimiter)
          /\ i > Len(parts) - o.length => q.text = parts[i]
          /\ q.class = "shortened" =>
                /\ FoldsAt(parts, o, s, i)
                /\ AlikeAt(o, i, q.text) = {parts[i]}
      <3>1. IsPartFor(q, parts, o, s, i)
        BY <2>1, <2>3, PartAtIs
      <3> HIDE DEF q
      <3> QED  BY <3>1 DEF IsPartFor
    <2> QED  BY <2>3, <2>4 DEF s
  <1> HIDE DEF n, out, d, p, counted
  <1>7. out \in Seq(PartSet) /\ Len(out) = n /\ \A i \in 1..n : out[i] = p(i)
    <2>1. n \in 0..n
      BY <1>2
    <2> QED  BY <1>4, <1>5, <2>1
  <1>8. ReadsAsPath(parts, out, o)
    <2>1. \A i \in 1..n : StandsFor(out[i].text, parts[i], d)
      BY <1>6, <1>7
    <2>2. out[n].text = parts[n]
      <3>1. n \in 1..n /\ n > n - o.length
        BY <1>2, <1>3
      <3> QED  BY <1>6, <1>7, <3>1
    <2> QED  BY <1>7, <2>1, <2>2, LevelsRead DEF n, d
  <1>9. ASSUME NEW k \in 0..n PROVE SubSeq(counted, 1, k) = Counted(g[k].out, o)
    <2>1. k \in Nat /\ k <= n
      BY <1>2
    <2> DEFINE b == Counted(g[k].out, o)
    <2>2. b \in Seq(PartSet) /\ Len(b) = k /\ \A i \in 1..k : b[i] = counted[i]
      <3>1. \A i \in 1..k : i \in 1..n
        BY <1>2, <2>1
      <3>2. /\ b \in Seq(PartSet) /\ Len(b) = k
            /\ \A i \in 1..k : b[i] = WithDelimiter(g[k].out[i], o)
        BY <1>3, <1>4, CountedIs DEF d
      <3>3. \A i \in 1..n : counted[i] = WithDelimiter(out[i], o)
        BY <1>3, <1>7, CountedIs DEF d, counted
      <3> QED  BY <1>4, <1>7, <3>1, <3>2, <3>3
    <2>4. counted \in Seq(PartSet) /\ Len(counted) = n
      BY <1>3, <1>7, CountedIs DEF d, counted
    <2> HIDE DEF b
    <2>3. SubSeq(counted, 1, k) = b
      BY <2>1, <2>2, <2>4
    <2> QED  BY <2>3 DEF b
  <1>10. ASSUME NEW i \in 1..n, out[i].class = "shortened"
         PROVE  /\ {s \in o.siblings[i] : StartsWith(s, out[i].text)} = {parts[i]}
                /\ i \notin o.marked /\ i <= n - o.length
                /\ saved(i - 1) < o.budget
    <2>1. out[i] = p(i)
      BY <1>7
    <2>2. FoldsAt(parts, o, g[i - 1].saved, i) /\ AlikeAt(o, i, p(i).text) = {parts[i]}
      BY <1>6, <1>10, <2>1
    <2>3. g[i - 1].saved < o.budget /\ ~IsAnchor(parts, i, o)
      BY <2>2 DEF FoldsAt
    <2>4. i \notin o.marked /\ i <= n - o.length
      BY <1>2, <1>3, <2>3 DEF IsAnchor, n
    <2>5. saved(i - 1) = g[i - 1].saved
      <3> DEFINE k == i - 1
                 m == Width(Counted(g[k].out, o) \o FromLevel(parts, k + 1))
      <3>1. k \in 0..n
        BY <1>2
      <3>2. m + g[k].saved = Width(Plain(parts)) /\ m \in Nat /\ g[k].saved \in Nat
        <4> HIDE DEF k
        <4> QED  BY <1>1, <3>1, SavedIs DEF n
      <3>3. saved(k) = Width(Plain(parts)) - m
        <4> HIDE DEF k
        <4> QED  BY <1>9, <3>1
      <3> HIDE DEF m, saved
      <3> QED  BY <3>2, <3>3
    <2>6. {s \in o.siblings[i] : StartsWith(s, out[i].text)} = {parts[i]}
      BY <2>1, <2>2 DEF AlikeAt
    <2> HIDE DEF saved
    <2> QED  BY <2>3, <2>4, <2>5, <2>6
  <1>11. DOMAIN out = 1..n
    BY <1>7
  <1> HIDE DEF saved
  <1> QED  BY <1>8, <1>10, <1>11 DEF FoldsUniquely, saved, counted, out, n, d

LEMMA ReadableIs ==
    ASSUME NEW parts \in Levelled, NEW o, IsOpts(o, parts)
    PROVE  IsReadable(parts, o, Shorten(parts, o))
  <1> DEFINE n == Len(parts)
             d == o.delimiter
             out == Shorten(parts, o)
  <1>0. CASE parts = <<>>
    <2>1. out = <<>>
      BY <1>0 DEF Shorten
    <2> DEFINE shown == {k \in DOMAIN out : out[k].text # d}
               at == [k \in shown |-> k]
    <2>2. shown = {} /\ DOMAIN out = {}
      BY <2>1
    <2>3. at \in [shown -> DOMAIN parts]
      BY <2>2
    <2> HIDE DEF at
    <2>4. ReadsAsPath(parts, out, o)
      BY <1>0, <2>2, <2>3 DEF ReadsAsPath
    <2> HIDE DEF out
    <2> QED  BY <2>2, <2>4 DEF IsReadable, FoldsUniquely, out
  <1> SUFFICES ASSUME parts # <<>> PROVE IsReadable(parts, o, out)
    BY <1>0
  <1>1. n \in Nat /\ n >= 1
    BY DEF Levelled
  <1>2. o.strategy \in Strategies /\ o.length \in Nat /\ o.length >= 1 /\ d \in Delimiters
    BY DEF IsOpts, Delimiters
  <1>3. CASE o.strategy = "unique"
    <2>1. out = FoldUnique(parts, o)
      BY <1>3 DEF Shorten
    <2>2. ReadsAsPath(parts, out, o) /\ FoldsUniquely(parts, o, out)
      BY <2>1, UniqueIs
    <2> HIDE DEF out
    <2> QED  BY <2>2 DEF IsReadable, out
  <1>4. CASE o.strategy \in {"middle", "from_right", "to_last", "first_and_last", "folder_marker", "fold_to_last"}
    <2>1. ReadsAsPath(parts, out, o)
      <3>1. CASE o.strategy = "middle"
        <4>1. out = FoldTruncate(parts, o, TRUE)
          BY <3>1 DEF Shorten
        <4> QED  BY <4>1, TruncateReads
      <3>2. CASE o.strategy = "from_right"
        <4>1. out = FoldTruncate(parts, o, FALSE)
          BY <3>2 DEF Shorten
        <4> QED  BY <4>1, TruncateReads
      <3>3. CASE o.strategy = "to_last"
        <4>1. out = FoldToLast(parts, o)
          BY <3>3 DEF Shorten
        <4>2. CASE n <= o.length
          BY <1>2, <4>1, <4>2, PlainReads DEF FoldToLast
        <4>3. CASE ~(n <= o.length)
          <5> DEFINE lead == IF d = <<>> THEN <<>> ELSE Folded(d)
                     first == n - o.length + 1
          <5>1. out = lead \o FromLevel(parts, first)
            BY <4>1, <4>3 DEF FoldToLast
          <5>2. first \in 1..n /\ (lead = <<>> \/ lead = Folded(d))
            BY <1>1, <1>2, <4>3
          <5> HIDE DEF lead, first
          <5> QED  BY <1>2, <5>1, <5>2, TailReads
        <4> QED  BY <4>2, <4>3
      <3>4. CASE o.strategy = "first_and_last"
        <4>1. out = FoldFirstLast(parts, o)
          BY <3>4 DEF Shorten
        <4> QED  BY <4>1, FirstLastReads
      <3>5. CASE o.strategy = "folder_marker"
        <4>1. out = FoldMarker(parts, o)
          BY <3>5 DEF Shorten
        <4> QED  BY <1>2, <4>1, MarkerReads
      <3>6. CASE o.strategy = "fold_to_last"
        <4>1. out = FoldKeepLast(parts, o)
          BY <3>6 DEF Shorten
        <4>2. CASE n <= o.length
          BY <1>2, <4>1, <4>2, PlainReads DEF FoldKeepLast
        <4>3. CASE ~(n <= o.length)
          <5> DEFINE first == n - o.length + 1
                     lead == Folded(d)
          <5>1. out = lead \o FromLevel(parts, first)
            BY <4>1, <4>3 DEF FoldKeepLast
          <5>2. first \in 1..n
            BY <1>1, <1>2, <4>3
          <5> HIDE DEF first, lead
          <5> QED  BY <1>2, <5>1, <5>2, TailReads DEF lead
        <4> QED  BY <4>2, <4>3
      <3> QED  BY <1>4, <3>1, <3>2, <3>3, <3>4, <3>5, <3>6
    <2>2. o.strategy # "unique"
      BY <1>4
    <2> HIDE DEF out
    <2> QED  BY <2>1, <2>2 DEF IsReadable, out
  <1>5. CASE o.strategy = "absolute"
    BY <1>5 DEF IsReadable
  <1> QED  BY <1>2, <1>3, <1>4, <1>5 DEF Strategies

----------------------------------------------------------------------------
(* The calls *)

\* A call is made with one of its inputs, and its answer is what the function returns.
Inputs ==
    /\ call[1] = "row" => call[2] \in RowsToLayOut
    /\ call[1] = "announce" => call[2] \in AnnounceReads
    /\ call[1] = "output" => call[2] \in OutputReads
    /\ call[1] = "options" => call[2] \in CommandLines
    /\ call[1] = "shorten" => call[2] \in LevelsOfPaths /\ call[3] \in ShortenOpts(call[2])
    /\ call[1] = "fnmatch" => call[2] \in FnPatterns
    /\ call[1] = "glob" => call[2] \in GlobPatterns
Answers ==
    /\ Answered("row") => answer = <<Row(call[2])>>
    /\ Answered("announce") => answer = <<Announcements(call[2])>>
    /\ Answered("output") => answer = <<Scanned(call[2])>>
    /\ Answered("options") => answer = <<ParseArgs(call[2])>>
    /\ Answered("shorten") => answer = <<Shorten(call[2], call[3])>>
    /\ Answered("fnmatch") => answer = <<{t \in FnTexts : t \in FnMatch[call[2]]}>>
    /\ Answered("glob") => answer = <<{t \in GlobTexts : t \in GlobMatch[call[2]]}>>
CallInv == Inputs /\ Answers

LEMMA CallInvariant == AlgSpec => []CallInv
  <1>1. AlgInit => CallInv
    BY DEF AlgInit, CallInv, Inputs, Answers, Answered
  <1>2. CallInv /\ [AlgNext]_vars => CallInv'
    <2> SUFFICES ASSUME CallInv, [AlgNext]_vars PROVE CallInv'
      OBVIOUS
    <2> USE DEF CallInv, Inputs, Answers, Answered
    <2>1. CASE CallRow
      BY <2>1 DEF CallRow, Called
    <2>2. CASE CallAnnounce
      BY <2>2 DEF CallAnnounce, Called
    <2>3. CASE CallOutput
      BY <2>3 DEF CallOutput, Called
    <2>4. CASE CallFnMatch
      BY <2>4 DEF CallFnMatch, Called
    <2>5. CASE CallGlob
      BY <2>5 DEF CallGlob, Called
    <2>6. CASE CallOptions
      BY <2>6 DEF CallOptions, Called
    <2>7. CASE UNCHANGED vars
      BY <2>7 DEF vars
    <2>11. CASE CallShorten
      BY <2>11 DEF CallShorten, Called
    <2>8. ASSUME NEW kind, kind \notin {"row", "announce", "output", "options", "shorten", "fnmatch", "glob"}, Called(kind)
          PROVE  CallInv'
      BY <2>8 DEF Called
    <2>9. CallTheme => Called("theme")
      BY PTL DEF CallTheme
    <2>10. /\ CallScan => Called("scan")
           /\ CallGroups => Called("groups")
      BY DEF CallScan, CallShorten, CallGroups
    <2> QED  BY <2>1, <2>2, <2>3, <2>4, <2>5, <2>6, <2>7, <2>8, <2>9, <2>10, <2>11 DEF AlgNext
  <1> QED  BY <1>1, <1>2, PTL DEF AlgSpec

LEMMA RowAnswer ==
    ASSUME CallInv, Answered("row")
    PROVE  IsRow(call[2]) /\ answer[1] = Row(call[2])
  BY RowsAssumption DEF CallInv, Inputs, Answers, Answered

\* A row with a right column ends at its edge to the column, and drops the column only if
\* it would not fit with dir at its shortest (render_header_lines, assemble_row): for all
\* segments, frames, separators, indents and widths of the terminal.
THEOREM RowsReachTheirEdge == AlgSpec => []RowsEndAtTheEdge
  <1>1. CallInv => RowsEndAtTheEdge
    BY RowAnswer, RowIs DEF RowsEndAtTheEdge
  <1> QED  BY <1>1, CallInvariant, PTL

\* Every arrow has the colours of the blocks it stands between, and every thin separator
\* stands inside of one background, whatever segments are hidden, joined or without a
\* background, and whatever separators are empty.
THEOREM NoSeamShows == AlgSpec => []ArrowsAreSeamless
  <1>1. CallInv => ArrowsAreSeamless
    BY RowAnswer, RowIs DEF ArrowsAreSeamless
  <1> QED  BY <1>1, CallInvariant, PTL

\* The announcements of a shell are those of its stream, in order, none of them lost,
\* doubled or cut, and what is kept for the next read is its last line: for any stream with
\* lines no longer than MAX_ANNOUNCE_LINE and any reads of it (push_announce).
THEOREM LinesAreReadWhole == AlgSpec => []AnnouncementsAreOfTheStream
  <1>1. CallInv => AnnouncementsAreOfTheStream
    <2> SUFFICES ASSUME CallInv, Answered("announce"), LinesAreShort(FlattenSeq(call[2]))
                 PROVE  answer[1] = OfStream(FlattenSeq(call[2]))
      BY DEF AnnouncementsAreOfTheStream, IsOfTheStream, OfStream
    <2>1. call[2] \in Seq(Seq(AnnounceTokens)) /\ answer[1] = Announcements(call[2])
      BY ReadsAssumption DEF CallInv, Inputs, Answers, Answered
    <2> QED  BY <2>1, AnnouncementsIs
  <1> QED  BY <1>1, CallInvariant, PTL

\* The output of the shell reaches the terminal byte for byte without the prompt signals,
\* each signal is seen once, and nothing is held back but what may be the start of one: for
\* any output and any reads of it (SignalScanner::push, signal_prefix_tail).
THEOREM OutputIsReadWhole == AlgSpec => []OutputIsForwarded
  <1>1. CallInv => OutputIsForwarded
    <2> SUFFICES ASSUME CallInv, Answered("output") PROVE IsForwarded(call[2], answer[1])
      BY DEF OutputIsForwarded
    <2>1. call[2] \in Seq(Outputs) /\ answer[1] = Scanned(call[2])
      BY ReadsAssumption DEF CallInv, Inputs, Answers, Answered, Outputs
    <2> QED  BY <2>1, ForwardedIs
  <1> QED  BY <1>1, CallInvariant, PTL

\* The daemon starts exactly with the command lines that are lists of good settings, however
\* these are spelled, and then every field has the last value given to it, or its default, and
\* no limit is below -1: for any arguments (parse_args, parse_short_opt, parse_long_opt).
THEOREM CommandLineIsExact == AlgSpec => []OptionsAreAsSet
  <1>1. CallInv => OptionsAreAsSet
    <2> SUFFICES ASSUME CallInv, Answered("options") PROVE IsAsSet(call[2], answer[1])
      BY DEF OptionsAreAsSet
    <2>1. call[2] \in Seq(Arguments) /\ answer[1] = ParseArgs(call[2])
      BY CommandLinesAssumption DEF CallInv, Inputs, Answers, Answered
    <2> QED  BY <2>1, OptionsIs
  <1> QED  BY <1>1, CallInvariant, PTL

\* Whatever the names, the marks and the options, no strategy but truncate_absolute leaves a
\* path that does not read as the path: levels in order, none twice, each by its own
\* characters but for one stretch, the last one whole; and truncate_to_unique folds to prefixes
\* that no name beside them has, and nothing more once enough is saved, the delimiters that it
\* does not show deducted (shorten, fold_unique and the rest).
THEOREM PathsStayReadable == AlgSpec => []PathIsReadable
  <1>1. CallInv => PathIsReadable
    <2> SUFFICES ASSUME CallInv, Answered("shorten") PROVE IsReadable(call[2], call[3], answer[1])
      BY DEF PathIsReadable
    <2>1. call[2] \in LevelsOfPaths /\ call[3] \in ShortenOpts(call[2]) /\ answer[1] = Shorten(call[2], call[3])
      BY DEF CallInv, Inputs, Answers, Answered
    <2>2. call[2] \in Levelled /\ IsOpts(call[3], call[2])
      BY <2>1, PathsAssumption
    <2> QED  BY <2>1, <2>2, ReadableIs
  <1> QED  BY <1>1, CallInvariant, PTL

\* The fnmatch that checks the version of the daemon against its option -G matches just the
\* texts that fall into pieces for the elements of the pattern, wherever its stars have to
\* cut (fnmatch, parse_class): for any pattern without escapes and without `]-`, any texts.
THEOREM FnMatchIsExact == AlgSpec => []FnMatchMatches
  <1>1. CallInv => FnMatchMatches
    <2> SUFFICES ASSUME CallInv, Answered("fnmatch"), Unmarred(call[2])
                 PROVE  answer[1] = {t \in FnTexts : Denotes(FnElements[call[2]], t)}
      BY DEF FnMatchMatches, IsFnMatch
    <2>1. call[2] \in Chars /\ answer[1] = {t \in FnTexts : t \in FnMatch[call[2]]}
      BY PatternsAssumption DEF CallInv, Inputs, Answers, Answered
    <2>2. \A t \in FnTexts : t \in Chars
      BY PatternsAssumption
    <2>3. FnMatch[call[2]] = Denoted(FnElements[call[2]])
      BY <2>1, FnMatchDenotes
    <2> QED  BY <2>1, <2>2, <2>3 DEF Denoted
  <1> QED  BY <1>1, CallInvariant, PTL

\* The glob of directory classes and disabled workdirs matches just the texts its pattern
\* means: no `*`, `?` or class crosses a slash, `**` does (glob_match): for any pattern and
\* any texts.
THEOREM GlobIsExact == AlgSpec => []GlobMatches
  <1>1. CallInv => GlobMatches
    <2> SUFFICES ASSUME CallInv, Answered("glob")
                 PROVE  answer[1] = {t \in GlobTexts : Denotes(GlobElements[call[2]], t)}
      BY DEF GlobMatches, IsGlobMatch
    <2>1. call[2] \in Chars /\ answer[1] = {t \in GlobTexts : t \in GlobMatch[call[2]]}
      BY PatternsAssumption DEF CallInv, Inputs, Answers, Answered
    <2>2. \A t \in GlobTexts : t \in Chars
      BY PatternsAssumption
    <2>3. GlobMatch[call[2]] = Denoted(GlobElements[call[2]])
      BY <2>1, GlobMatchDenotes
    <2> QED  BY <2>1, <2>2, <2>3 DEF Denoted
  <1> QED  BY <1>1, CallInvariant, PTL

=============================================================================
