--------------------------- MODULE PaintingProofs ---------------------------
(***************************************************************************)
(* Theorems about what a calm user sees: every paint goes over the rows    *)
(* the shell left for it, every prompt printed once gets a header, and     *)
(* when all is quiet that header is the one for the directory, status,     *)
(* keymap, width and theme of the moment, however often the window is      *)
(* resized.  They rest on the handshake (EngineProofs) and the git part    *)
(* (GitWorkerProofs).                                                      *)
(***************************************************************************)
EXTENDS EngineProofs, WellFoundedInduction

----------------------------------------------------------------------------
(* First and last of numbers, and parts of sequences. *)

LEMMA LeastOf ==
    ASSUME NEW T, T \subseteq Nat, T # {}
    PROVE  Min(T) \in T /\ \A j \in T : Min(T) <= j
  <1>1. PICK i \in T : \A j \in T : <<j, i>> \notin OpToRel(<, Nat)
    BY NatLessThanWellFounded, WFMin
  <1>2. \A j \in T : ~(j < i)
    BY <1>1 DEF OpToRel
  <1>3. \A j \in T : i <= j
    BY <1>2
  <1> QED  BY <1>3 DEF Min

LEMMA GreatestOf ==
    ASSUME NEW n \in Nat, NEW T, T \subseteq 1..n, T # {}
    PROVE  Max(T) \in T /\ \A j \in T : j <= Max(T)
  <1> DEFINE U == {n - i : i \in T}
  <1>1. U # {} /\ \A u \in U : u \in Nat
    <2>1. \A i \in T : n - i \in Nat
      OBVIOUS
    <2>2. PICK i \in T : TRUE
      OBVIOUS
    <2>3. n - i \in U
      OBVIOUS
    <2> QED  BY <2>1, <2>3
  <1>2. PICK u \in U : \A v \in U : <<v, u>> \notin OpToRel(<, Nat)
    <2>1. U \subseteq Nat
      BY <1>1
    <2> HIDE DEF U
    <2> QED  BY <2>1, <1>1, NatLessThanWellFounded, WFMin
  <1>3. \A v \in U : ~(v < u)
    BY <1>1, <1>2 DEF OpToRel
  <1>4. PICK i \in T : u = n - i
    OBVIOUS
  <1>5. \A j \in T : j <= i
    <2> TAKE j \in T
    <2>1. n - j \in U
      OBVIOUS
    <2> QED  BY <2>1, <1>3, <1>4
  <1> QED  BY <1>5 DEF Max

\* A part of a sequence.
LEMMA PartOf ==
    ASSUME NEW S, NEW s \in Seq(S), NEW m \in Nat \ {0}, NEW n \in Nat, n <= Len(s), m <= n + 1
    PROVE  /\ SubSeq(s, m, n) \in Seq(S)
           /\ Len(SubSeq(s, m, n)) = n + 1 - m
           /\ \A i \in 1..n + 1 - m : SubSeq(s, m, n)[i] = s[m - 1 + i]
  OBVIOUS

\* What is left of it.
LEMMA RestOf ==
    ASSUME NEW S, NEW s \in Seq(S), NEW n \in 1..Len(s)
    PROVE  /\ SubSeq(s, n + 1, Len(s)) \in Seq(S)
           /\ Len(SubSeq(s, n + 1, Len(s))) = Len(s) - n
           /\ \A i \in 1..Len(s) - n : SubSeq(s, n + 1, Len(s))[i] = s[i + n]
  OBVIOUS

----------------------------------------------------------------------------
(* The terminal. *)

TermFields == {"rows", "wrapped", "header", "glyph", "spoiled"}

\* What output without wrapped text does to a terminal (module Engine, Forward).
LEMMA Forwarded ==
    ASSUME NEW t, DOMAIN t = TermFields, t.wrapped = 0, NEW S, NEW s \in Seq(S),
           \A i \in 1..Len(s) : s[i].kind \in {"out", "sig", "lead"}
    PROVE  /\ DOMAIN Forward(t, s) = TermFields
           /\ Forward(t, s).spoiled = t.spoiled /\ Forward(t, s).wrapped = 0
           /\ Forward(t, s).header \in {t.header, None}
           /\ (\A i \in 1..Len(s) : s[i].kind = "sig") =>
                 Forward(t, s).rows = t.rows /\ Forward(t, s).header = t.header
           /\ \A r : /\ t.rows = r
                     /\ \A i \in 1..Len(s) : s[i].kind = "sig" \/ (s[i].kind = "lead" /\ s[i].rows = r)
                     => Forward(t, s).rows = r
           /\ \A i \in 1..Len(s) :
                 s[i].kind = "lead" /\ (\A j \in 1..Len(s) : j > i => s[j].kind = "sig") =>
                 Forward(t, s).rows = s[i].rows
  <1> DEFINE D == {i \in 1..Len(s) : s[i].kind \in {"out", "lead"}}
             L == {i \in 1..Len(s) : s[i].kind = "lead"}
             last == IF D # {} THEN Max(D) ELSE 0
             lead == IF L # {} THEN Max(L) ELSE 0
             f == Forward(t, s)
  <1>1. f = [t EXCEPT
                !.rows = IF last = 0 THEN @ ELSE IF last = lead THEN s[last].rows ELSE 0,
                !.wrapped = IF \E i \in last + 1..Len(s) : s[i].kind = "wrap" THEN 1
                            ELSE IF last = 0 THEN @ ELSE 0,
                !.header = IF last = 0 THEN @ ELSE None,
                !.glyph = IF lead = 0 THEN @ ELSE s[lead].glyph]
    BY DEF Forward, SelectLastInSeq
  <1>2. Len(s) \in Nat /\ D \subseteq 1..Len(s) /\ L \subseteq 1..Len(s)
    OBVIOUS
  <1>3. D # {} => last \in D /\ \A j \in D : j <= last
    BY <1>2, GreatestOf
  <1>4. L # {} => lead \in L /\ \A j \in L : j <= lead
    BY <1>2, GreatestOf
  <1>5. (D = {} => last = 0) /\ (L = {} => lead = 0)
    OBVIOUS
  <1>6. L \subseteq D
    OBVIOUS
  <1>7. last \in 0..Len(s) /\ (last # 0 => D # {})
    BY <1>2, <1>3
  <1>8. ~\E i \in last + 1..Len(s) : s[i].kind = "wrap"
    BY <1>2, <1>7
  <1> HIDE DEF last, lead, f
  <1>9. /\ DOMAIN f = TermFields /\ f.spoiled = t.spoiled /\ f.wrapped = 0
        /\ f.rows = IF last = 0 THEN t.rows ELSE IF last = lead THEN s[last].rows ELSE 0
        /\ f.header = IF last = 0 THEN t.header ELSE None
    BY <1>1, <1>8 DEF TermFields
  <1>10. (\A i \in 1..Len(s) : s[i].kind = "sig") => f.rows = t.rows /\ f.header = t.header
    BY <1>5, <1>9
  <1>11. last \in L => last = lead
    BY <1>2, <1>3, <1>4, <1>6
  <1>12. ASSUME NEW r, t.rows = r,
                \A i \in 1..Len(s) : s[i].kind = "sig" \/ (s[i].kind = "lead" /\ s[i].rows = r)
         PROVE  f.rows = r
    <2>1. CASE D = {}
      BY <2>1, <1>5, <1>9, <1>12
    <2>2. CASE D # {}
      <3>1. last \in L /\ s[last].rows = r
        BY <2>2, <1>3, <1>12
      <3> QED  BY <3>1, <1>9, <1>11, <1>12
    <2> QED  BY <2>1, <2>2
  <1>13. ASSUME NEW i \in 1..Len(s), s[i].kind = "lead",
                \A j \in 1..Len(s) : j > i => s[j].kind = "sig"
         PROVE  f.rows = s[i].rows
    <2>1. i \in D /\ last \in D /\ i <= last
      BY <1>3, <1>13
    <2>2. last = i
      BY <2>1, <1>2, <1>13
    <2>3. last \in L /\ last # 0
      BY <2>2, <1>13
    <2> QED  BY <2>2, <2>3, <1>9, <1>11
  <1> QED  BY <1>9, <1>10, <1>12, <1>13 DEF f

\* A paint in its place.
LEMMA PaintFits ==
    ASSUME NEW t, DOMAIN t = TermFields, t.wrapped = 0, NEW h, t.rows = h.theme.rows
    PROVE  /\ DOMAIN Paint(t, h) = TermFields /\ Paint(t, h).wrapped = 0
           /\ Paint(t, h).rows = t.rows /\ Paint(t, h).spoiled = t.spoiled
           /\ Paint(t, h).header = h
  BY DEF Paint, TermFields

\* A repaint of the input line is in its place and leaves the rows there.
LEMMA RepaintFits ==
    ASSUME Painting, AtPrompt, NEW h, h.theme.rows = theme.rows, Redraw(h) \/ RedrawAfresh(h)
    PROVE  /\ DOMAIN term' = TermFields /\ term'.wrapped = 0 /\ term'.rows = term.rows /\ ~term'.spoiled
           /\ last_header' = h
           /\ RedrawAfresh(h) \/ last_header = term.header => term'.header = h
  <1>1. DOMAIN term = TermFields /\ term.wrapped = 0 /\ term.rows = theme.rows /\ ~term.spoiled
    BY DEF Painting, PaintsOnItsRows, RowsAreLeft, OutputIsBehindEnter, InputLine, TermFields
  <1>2. /\ DOMAIN Paint(term, h) = TermFields /\ Paint(term, h).wrapped = 0
        /\ Paint(term, h).rows = term.rows /\ ~Paint(term, h).spoiled
        /\ Paint(term, h).header = h
    BY <1>1, PaintFits
  <1> QED  BY <1>1, <1>2 DEF Redraw, RedrawAfresh

----------------------------------------------------------------------------
(* Reading the pty. *)

\* The pieces of the shell.
LEMMA PieceKinds ==
    ASSUME NEW p \in Pieces
    PROVE  p.kind \in {"out", "sig", "lead"} /\ (p.kind = "lead" => p.rows = theme.rows)
  BY DEF Pieces

\* A read, of any length, leaves the rest of the pty; if a signal is in it the header goes
\* over its rows, and stays if that signal is the last piece (engine.rs, run).
LEMMA ReadPtyShows ==
    ASSUME Painting, NEW n \in 1..Len(pty), ReadPty(n)
    PROVE  /\ pty' \in Seq(Pieces) /\ Len(pty') = Len(pty) - n
           /\ \A i \in 1..Len(pty') : pty'[i] = pty[i + n]
           /\ DOMAIN term' = TermFields /\ term'.wrapped = 0 /\ ~term'.spoiled
           /\ pty[n].kind = "lead" => term'.rows = theme.rows
           /\ term.rows = theme.rows /\ (\A i \in 1..n : pty[i].kind # "out") =>
                 term'.rows = theme.rows
           /\ (\A i \in 1..n : ~SignalAt(i)) =>
                 UNCHANGED <<prompt, last_header>> /\ term'.header \in {term.header, None}
           /\ (\E i \in 1..n : SignalAt(i)) =>
                 /\ prompt' = "Prompt" /\ term'.rows = theme.rows
                 /\ term'.header \in {last_header', None}
                 /\ last_header' = Header(theme, VcsOfCwd, mode, last_size)
                 /\ (\A i \in 1..n : SignalAt(i) => i = n) => term'.header = last_header'
  <1> DEFINE chunk == SubSeq(pty, 1, n)
             I == {i \in 1..Len(chunk) : chunk[i].kind = "sig"}
             first == IF I # {} THEN Min(I) ELSE 0
             upto == IF first = 0 THEN n ELSE first
             before == SubSeq(chunk, 1, upto)
             behind == SubSeq(chunk, first, n)
             shown == Forward(term, before)
             h == Header(theme, VcsOfCwd, mode, last_size)
             painted == Paint(shown, h)
             R == theme.rows
  <1>1. /\ pty \in Seq(Pieces) /\ DOMAIN term = TermFields /\ term.wrapped = 0 /\ ~term.spoiled
        /\ n \in Nat \ {0} /\ n <= Len(pty) /\ Len(pty) \in Nat /\ DOMAIN pty = 1..Len(pty)
        /\ \A i \in 1..Len(pty) : pty[i] \in Pieces
    BY DEF Painting, PaintsOnItsRows, RowsAreLeft, TermFields
  <1>2. /\ pty' = SubSeq(pty, n + 1, Len(pty))
        /\ IF first = 0 THEN term' = shown /\ UNCHANGED <<prompt, last_header>>
           ELSE /\ term' = Forward(AfterSignals(shown, h), behind)
                /\ last_header' = h /\ prompt' = "Prompt"
    BY DEF ReadPty, SelectInSeq
  <1>3. /\ pty' \in Seq(Pieces) /\ Len(pty') = Len(pty) - n
        /\ \A i \in 1..Len(pty') : pty'[i] = pty[i + n]
    <2>1. pty' = SubSeq(pty, n + 1, Len(pty))
      BY <1>2
    <2>2. pty \in Seq(Pieces)
      BY <1>1
    <2> QED  BY <2>1, <2>2, RestOf
  <1>4. chunk \in Seq(Pieces) /\ Len(chunk) = n /\ \A i \in 1..n : chunk[i] = pty[i]
    BY <1>1, PartOf
  <1>5. /\ first \in 0..n
        /\ first = 0 => \A i \in 1..n : ~SignalAt(i)
        /\ first # 0 => SignalAt(first) /\ \A i \in 1..n : i < first => ~SignalAt(i)
    <2>1. I = {i \in 1..n : SignalAt(i)}
      BY <1>1, <1>4 DEF SignalAt
    <2> HIDE DEF I
    <2>2. I \subseteq Nat /\ I \subseteq 1..n
      BY <2>1
    <2>3. I # {} => Min(I) \in I /\ \A j \in I : Min(I) <= j
      BY <2>2, LeastOf
    <2>4. CASE I = {}
      BY <2>1, <2>4, <1>1
    <2>5. CASE I # {}
      <3>1. first \in I /\ \A j \in I : first <= j
        BY <2>3, <2>5
      <3> HIDE DEF first
      <3>2. first \in 1..n /\ SignalAt(first)
        BY <2>1, <3>1
      <3>3. \A i \in 1..n : i < first => ~SignalAt(i)
        BY <2>1, <3>1, <3>2
      <3> QED  BY <3>2, <3>3
    <2> QED  BY <2>4, <2>5
  <1> HIDE DEF chunk, first
  <1>6. /\ upto \in 1..n /\ before \in Seq(Pieces) /\ Len(before) = upto
        /\ \A i \in 1..upto : before[i] = pty[i] /\ pty[i] \in Pieces
    BY <1>1, <1>4, <1>5, PartOf
  <1>7. first # 0 => /\ behind \in Seq(Pieces) /\ Len(behind) = n + 1 - first
                     /\ \A i \in 1..n + 1 - first :
                           behind[i] = pty[first - 1 + i] /\ first - 1 + i \in 1..n
    BY <1>1, <1>4, <1>5, PartOf
  <1> HIDE DEF before, behind, upto
  <1>8. \A i \in 1..Len(before) : before[i].kind \in {"out", "sig", "lead"}
    BY <1>6, PieceKinds
  <1>9. /\ DOMAIN shown = TermFields /\ ~shown.spoiled /\ shown.wrapped = 0
        /\ shown.header \in {term.header, None}
        /\ (\A i \in 1..Len(before) : before[i].kind = "sig") => shown.rows = term.rows
        /\ term.rows = R /\ (\A i \in 1..Len(before) :
               before[i].kind = "sig" \/ (before[i].kind = "lead" /\ before[i].rows = R)) => shown.rows = R
        /\ \A i \in 1..Len(before) :
              before[i].kind = "lead" /\ (\A j \in 1..Len(before) : j > i => before[j].kind = "sig") =>
              shown.rows = before[i].rows
    <2>1. DOMAIN term = TermFields /\ term.wrapped = 0 /\ ~term.spoiled /\ before \in Seq(Pieces)
      BY <1>1, <1>6
    <2>2. \A r : /\ term.rows = r
                 /\ \A i \in 1..Len(before) :
                       before[i].kind = "sig" \/ (before[i].kind = "lead" /\ before[i].rows = r)
                 => shown.rows = r
      BY <2>1, <1>8, Forwarded
    <2>3. /\ DOMAIN shown = TermFields /\ ~shown.spoiled /\ shown.wrapped = 0
          /\ shown.header \in {term.header, None}
          /\ (\A i \in 1..Len(before) : before[i].kind = "sig") => shown.rows = term.rows
      BY <2>1, <1>8, Forwarded
    <2>4. \A i \in 1..Len(before) :
             before[i].kind = "lead" /\ (\A j \in 1..Len(before) : j > i => before[j].kind = "sig") =>
             shown.rows = before[i].rows
      BY <2>1, <1>8, Forwarded
    <2> QED  BY <2>2, <2>3, <2>4
  <1> HIDE DEF shown
  <1>10. CASE first = 0
    <2>1. upto = n /\ term' = shown /\ UNCHANGED <<prompt, last_header>>
      BY <1>2, <1>10 DEF upto
    <2>2. pty[n].kind = "lead" => term'.rows = R
      <3>1. pty[n].kind = "lead" => before[n].kind = "lead" /\ before[n].rows = R
        <4>1. n \in 1..upto /\ before[n] = pty[n] /\ pty[n] \in Pieces
          BY <2>1, <1>1, <1>6
        <4> QED  BY <4>1, PieceKinds
      <3>2. \A j \in 1..Len(before) : ~(j > n)
        BY <2>1, <1>1, <1>6
      <3>3. n \in 1..Len(before)
        BY <2>1, <1>1, <1>6
      <3> QED  BY <3>1, <3>2, <3>3, <2>1, <1>9
    <2>3. term.rows = R /\ (\A i \in 1..n : pty[i].kind # "out") => term'.rows = R
      <3>1. \A i \in 1..n : pty[i].kind # "out" =>
                before[i].kind = "sig" \/ (before[i].kind = "lead" /\ before[i].rows = R)
        <4> TAKE i \in 1..n
        <4>1. before[i] = pty[i] /\ pty[i] \in Pieces
          BY <2>1, <1>6
        <4>2. pty[i].kind \in {"out", "sig", "lead"} /\ (pty[i].kind = "lead" => pty[i].rows = R)
          BY <4>1, PieceKinds
        <4>3. CASE pty[i].kind = "sig"
          BY <4>1, <4>3
        <4>4. CASE pty[i].kind = "lead"
          BY <4>1, <4>2, <4>4
        <4> QED  BY <4>2, <4>3, <4>4
      <3> QED  BY <3>1, <2>1, <1>6, <1>9
    <2>4. \A i \in 1..n : ~SignalAt(i)
      BY <1>5, <1>10
    <2> QED  BY <1>3, <1>9, <2>1, <2>2, <2>3, <2>4
  <1>11. CASE first # 0
    <2>1. /\ upto = first /\ first \in 1..n /\ SignalAt(first) /\ pty[first].kind = "sig"
          /\ \A i \in 1..n : SignalAt(i) => first <= i
      BY <1>5, <1>11 DEF upto, SignalAt
    <2>2. shown.rows = R
      <3>1. CASE first = 1
        <4>1. term.rows = R
          BY <2>1, <3>1, <1>1 DEF Painting, RowsPrecedeSignals
        <4> QED  BY <4>1, <2>1, <3>1, <1>6, <1>9
      <3>2. CASE first # 1
        <4>1. first \in DOMAIN pty /\ first - 1 \in 1..n
          BY <1>1, <2>1, <3>2
        <4>2. pty[first - 1].kind = "lead"
          BY <2>1, <3>2, <4>1 DEF Painting, RowsPrecedeSignals
        <4>3. first - 1 \in 1..Len(before) /\ Len(before) = first
          BY <1>6, <2>1, <4>1
        <4>4. before[first - 1].kind = "lead" /\ before[first - 1].rows = R
          BY <1>6, <4>2, <4>3, PieceKinds
        <4>5. \A j \in 1..Len(before) : j > first - 1 => before[j].kind = "sig"
          BY <1>6, <2>1, <4>3
        <4> QED  BY <1>9, <4>3, <4>4, <4>5
      <3> QED  BY <3>1, <3>2
    <2>3. /\ DOMAIN painted = TermFields /\ painted.wrapped = 0 /\ painted.rows = R
          /\ ~painted.spoiled /\ painted.header = h
      BY <1>9, <2>2, PaintFits DEF Header
    <2>4. \A i \in 1..Len(behind) : behind[i].kind = "sig" \/ (behind[i].kind = "lead" /\ behind[i].rows = R)
      <3> TAKE i \in 1..Len(behind)
      <3> DEFINE j == first - 1 + i
      <3>1. behind[i] = pty[j] /\ j \in 1..n /\ first \in 1..j
        BY <1>7, <1>11, <2>1
      <3>2. pty[j] \in Pieces /\ j \in DOMAIN pty
        BY <1>1, <3>1
      <3>3. pty[j].kind # "out"
        BY <2>1, <3>1, <3>2 DEF Painting, OutputIsBehindEnter
      <3>4. pty[j].kind \in {"out", "sig", "lead"} /\ (pty[j].kind = "lead" => pty[j].rows = R)
        BY <3>2, PieceKinds
      <3> HIDE DEF j
      <3>5. CASE pty[j].kind = "sig"
        BY <3>1, <3>5
      <3>6. CASE pty[j].kind = "lead"
        BY <3>1, <3>4, <3>6
      <3> QED  BY <3>3, <3>4, <3>5, <3>6
    <2> HIDE DEF painted
    <2>5. /\ term' = Forward(painted, behind) /\ last_header' = h /\ prompt' = "Prompt"
      BY <1>2, <1>11 DEF AfterSignals, painted
    <2>6. /\ DOMAIN term' = TermFields /\ term'.wrapped = 0 /\ ~term'.spoiled /\ term'.rows = R
          /\ term'.header \in {last_header', None}
          /\ (\A i \in 1..Len(behind) : behind[i].kind = "sig") => term'.header = painted.header
      <3>1. \A i \in 1..Len(behind) : behind[i].kind \in {"out", "sig", "lead"}
        BY <2>4
      <3>2. behind \in Seq(Pieces)
        BY <1>7, <1>11
      <3>3. \A r : /\ painted.rows = r
                   /\ \A i \in 1..Len(behind) :
                         behind[i].kind = "sig" \/ (behind[i].kind = "lead" /\ behind[i].rows = r)
                   => Forward(painted, behind).rows = r
        BY <2>3, <3>1, <3>2, Forwarded
      <3>4. /\ DOMAIN Forward(painted, behind) = TermFields /\ Forward(painted, behind).wrapped = 0
            /\ ~Forward(painted, behind).spoiled
            /\ Forward(painted, behind).header \in {painted.header, None}
            /\ (\A i \in 1..Len(behind) : behind[i].kind = "sig") =>
                  Forward(painted, behind).header = painted.header
        BY <2>3, <3>1, <3>2, Forwarded
      <3> QED  BY <2>3, <2>4, <2>5, <3>3, <3>4
    <2>7. (\A i \in 1..n : SignalAt(i) => i = n) => term'.header = last_header'
      <3> SUFFICES ASSUME \A i \in 1..n : SignalAt(i) => i = n
                   PROVE  term'.header = last_header'
        OBVIOUS
      <3>1. first = n
        BY <2>1
      <3>2. \A i \in 1..Len(behind) : behind[i].kind = "sig"
        <4>1. Len(behind) = 1 /\ 1 \in 1..n + 1 - first
          BY <3>1, <1>1, <1>7, <1>11
        <4>2. behind[1] = pty[first - 1 + 1] /\ first - 1 + 1 = first
          BY <4>1, <1>7, <1>11, <2>1
        <4>3. \A i \in 1..Len(behind) : i = 1
          BY <4>1
        <4>4. behind[1].kind = "sig"
          BY <4>2, <2>1
        <4> QED  BY <4>3, <4>4
      <3> QED  BY <3>2, <2>3, <2>5, <2>6
    <2>8. \E i \in 1..n : SignalAt(i)
      BY <2>1
    <2> QED  BY <1>3, <2>5, <2>6, <2>7, <2>8
  <1> QED  BY <1>10, <1>11

----------------------------------------------------------------------------
(* The window.                                                             *)

\* A channel that gets another announcement of a kind has no new one of kind "r".
LEMMA NoResizeAdded ==
    ASSUME TypeOK, NEW m \in Announcements, m.kind # "r", announce' = Append(announce, m),
           \A i \in DOMAIN announce : announce[i].kind # "r"
    PROVE  \A i \in DOMAIN announce' : announce'[i].kind # "r"
  BY Appended DEF TypeOK

\* Where the window may not change, no step resizes anything (engine.rs, run; templates.rs,
\* TRAPWINCH).
LEMMA WindowKept == TypeOK /\ Handshake /\ WindowIsKept /\ [Next]_vars => WindowIsKept'
  <1> SUFFICES ASSUME TypeOK, Handshake, [Next]_vars, MaxResizes = 0, WindowIsKept
               PROVE  WindowIsKept'
    BY DEF WindowIsKept
  <1>1. /\ resizes = 0 /\ size = last_size /\ ~winch /\ shpc # "reprint" /\ deferred = "none"
        /\ \A i \in DOMAIN announce : announce[i].kind # "r"
        /\ \A i \in DOMAIN batch : batch[i].kind # "r"
    BY DEF WindowIsKept
  <1>2. ASSUME UNCHANGED <<resizes, size, last_size, announce, batch, winch, deferred>>,
               shpc' # "reprint"
        PROVE  WindowIsKept'
    BY <1>1, <1>2 DEF WindowIsKept
  <1>3. ASSUME UNCHANGED <<resizes, size, last_size, batch, winch, deferred>>, shpc' # "reprint",
               NEW m \in Announcements, m.kind # "r", announce' = Append(announce, m)
        PROVE  WindowIsKept'
    BY <1>1, <1>3, NoResizeAdded DEF WindowIsKept
  <1>4. CASE Reload \/ Probe \/ Poll \/ ReadStdin \/ Results
    BY <1>1, <1>2, <1>4 DEF Reload, Probe, Poll, ReadStdin, Results, loopVars, viewVars, chanVars,
                            shellVars, userVars
  <1>5. CASE \E n \in 1..Len(pty) : ReadPty(n)
    BY <1>1, <1>2, <1>5 DEF ReadPty, shellVars, userVars
  <1>6. CASE Resize
    BY <1>1, <1>6 DEF Resize, SyncSize, WindowIsKept, chanVars, userVars
  <1>7. CASE Drain
    BY <1>1, <1>7 DEF Drain, WindowIsKept, viewVars, shellVars, userVars
  <1>8. CASE Messages
    <2>1. /\ batch # <<>> /\ batch' = Tail(batch) /\ UNCHANGED <<announce, shpc, resizes, size>>
          /\ last_size' = size /\ winch' = (winch \/ size # last_size)
      BY <1>8 DEF Messages, HandleHeader, HandleResize, HandleVimMode, Message, SyncSize, userVars
    <2>2. /\ Head(batch).kind # "r"
          /\ \A i \in DOMAIN batch' : batch'[i].kind # "r"
      BY <1>1, <2>1, Shifted DEF TypeOK
    <2>3. deferred' = deferred
      BY <1>8, <2>2 DEF Messages, HandleHeader, HandleResize, HandleVimMode
    <2> QED  BY <1>1, <2>1, <2>2, <2>3 DEF WindowIsKept
  <1>9. CASE Deferred
    BY <1>1, <1>2, <1>9 DEF Deferred, chanVars, shellVars, userVars
  <1>10. CASE (\E w \in GW!Workers : WorkerTake(w) \/ WorkerFinish(w)) \/ Wake \/ ReloadCommand
    BY <1>1, <1>2, <1>10 DEF WorkerTake, WorkerFinish, Wake, ReloadCommand, loopVars, viewVars,
                             chanVars, shellVars, userVars
  <1>11. CASE Clock \/ \E c \in Sizes : ResizeWindow(c)
    BY <1>1, <1>11 DEF Clock, ResizeWindow
  <1>12. CASE Output \/ ReadAck \/ PrintPrompt
    BY <1>1, <1>2, <1>12 DEF Output, ReadAck, PrintPrompt, Shell, loopVars, viewVars, userVars
  <1>13. CASE Winch \/ Reprint \/ Interrupt
    BY <1>1, <1>13 DEF Winch, Reprint, Interrupt, Handshake
  <1>14. CASE \E d \in Cwds : Done(d)
    <2>1. PICK d \in Cwds : Done(d)
      BY <1>14
    <2>2. [kind |-> "h", cwd |-> d, id |-> histcmd + 1] \in Announcements
      BY DEF Announcements, TypeOK
    <2> QED  BY <1>3, <2>1, <2>2 DEF Done, Precmd, Shell, loopVars, viewVars, userVars
  <1>15. \A mo \in Modes : [kind |-> "v", mode |-> mo] \in Announcements
    BY DEF Announcements
  <1>16. CASE LineInit
    <2>1. Insert \in Modes
      BY DEF Insert, Modes
    <2> QED  BY <1>3, <1>15, <1>16, <2>1 DEF LineInit, Keymap, Shell, loopVars, viewVars, userVars
  <1>17. CASE ReadKey
    <2>1. /\ UNCHANGED <<resizes, size, last_size, batch, winch, deferred>> /\ shpc' # "reprint"
          /\ announce' = announce \/ announce' = Append(announce, [kind |-> "v", mode |-> "vicmd"])
      BY <1>1, <1>17 DEF ReadKey, Keymap, Shell, loopVars, viewVars, userVars
    <2>2. "vicmd" \in Modes
      BY DEF Modes
    <2> QED  BY <1>2, <1>3, <1>15, <2>1, <2>2
  <1>18. CASE (\E k \in Keys : PressKey(k)) \/ UNCHANGED vars
    BY <1>1, <1>2, <1>18 DEF PressKey, vars, loopVars, viewVars, chanVars, shellVars, userVars
  <1> QED
    BY <1>4, <1>5, <1>6, <1>7, <1>8, <1>9, <1>10, <1>11, <1>12, <1>13, <1>14, <1>16, <1>17, <1>18
    DEF Next, Loop, Hooks

----------------------------------------------------------------------------
(* The rows and Enter: what the steps of the loop do to them.              *)

\* What is on the screen and on its way there.
Lines == PaintsOnItsRows /\ RowsAreLeft /\ RowsPrecedeSignals /\ OutputIsBehindEnter

\* A step that prints nothing and leaves the rows where they are.
LEMMA LinesKept ==
    ASSUME Lines, pty' = pty, theme'.rows = theme.rows,
           DOMAIN term' = TermFields, term'.rows = term.rows, term'.wrapped = 0, ~term'.spoiled,
           InputLine' => InputLine,
           ack' # None => ack'.rows = theme.rows /\ ack'.glyph \in Modes,
           shape'.glyph \in Modes,
           shpc' \in {"print", "init", "edit", "reprint"} => shape'.rows = theme.rows,
           shpc' = "exec" => shpc = "exec"
    PROVE  Lines'
  <1>1. Pieces' = Pieces
    BY DEF Pieces
  <1>2. RowsAreLeft' /\ PaintsOnItsRows'
    BY <1>1 DEF Lines, RowsAreLeft, PaintsOnItsRows, TermFields
  <1>3. RowsPrecedeSignals'
    BY DEF Lines, RowsPrecedeSignals, SignalAt
  <1>4. OutputIsBehindEnter'
    BY DEF Lines, OutputIsBehindEnter, SignalAt
  <1> QED  BY <1>2, <1>3, <1>4 DEF Lines

\* The same without a new ack or another part of the shell's work.
LEMMA LinesKeptInPlace ==
    ASSUME Lines, UNCHANGED <<pty, ack, shape, shpc>>, theme'.rows = theme.rows,
           DOMAIN term' = TermFields, term'.rows = term.rows, term'.wrapped = 0, ~term'.spoiled,
           InputLine' => InputLine
    PROVE  Lines'
  <1>1. /\ ack' # None => ack'.rows = theme.rows /\ ack'.glyph \in Modes
        /\ shape'.glyph \in Modes
        /\ shpc' \in {"print", "init", "edit", "reprint"} => shape'.rows = theme.rows
    BY DEF Lines, RowsAreLeft
  <1> QED  BY <1>1, LinesKept

\* A terminal that does not change.
LEMMA SameTerminal ==
    ASSUME Lines, term' = term
    PROVE  /\ DOMAIN term' = TermFields /\ term'.rows = term.rows /\ term'.wrapped = 0
           /\ ~term'.spoiled
  BY DEF Lines, RowsAreLeft, PaintsOnItsRows, TermFields

\* Keys that stay where they are.
LEMMA EnterKept ==
    ASSUME EnterIsAwaited, UNCHANGED <<pty, stdin, ptyin, shpc>>,
           prompt = "Running" => prompt' = "Running"
    PROVE  EnterIsAwaited'
  BY DEF EnterIsAwaited

\* No Enter is pressed but on an empty input line.
LEMMA NoEnter ==
    ASSUME TypeOK, EnterIsAwaited, shpc # "edit" \/ pty # <<>> \/ "enter" \notin Keys
    PROVE  /\ \A i \in DOMAIN stdin : stdin[i] # "enter"
           /\ \A i \in DOMAIN ptyin : ptyin[i] # "enter"
  BY DEF TypeOK, EnterIsAwaited

\* Then any step of the shell that takes no key keeps it.
LEMMA EnterKeptWithout ==
    ASSUME TypeOK, EnterIsAwaited, shpc # "edit" \/ pty # <<>> \/ "enter" \notin Keys,
           UNCHANGED <<stdin, ptyin>>
    PROVE  EnterIsAwaited'
  BY NoEnter DEF EnterIsAwaited

\* A repaint of the input line (reload, resize, vi mode, git result).
LEMMA RepaintKeeps ==
    ASSUME Painting, NEW h, h.theme.rows = theme.rows, theme'.rows = theme.rows,
           (AtPrompt /\ (Redraw(h) \/ RedrawAfresh(h))) \/ UNCHANGED paintVars,
           UNCHANGED <<pty, ack, shape, shpc, stdin, ptyin, prompt>>,
           InputLine' => InputLine
    PROVE  Lines' /\ EnterIsAwaited'
  <1>1. Lines /\ EnterIsAwaited
    BY DEF Painting, Lines
  <1>2. DOMAIN term' = TermFields /\ term'.rows = term.rows /\ term'.wrapped = 0 /\ ~term'.spoiled
    <2>1. CASE AtPrompt /\ (Redraw(h) \/ RedrawAfresh(h))
      BY <2>1, RepaintFits
    <2>2. CASE UNCHANGED paintVars
      BY <2>2, <1>1, SameTerminal DEF paintVars
    <2> QED  BY <2>1, <2>2
  <1> QED  BY <1>1, <1>2, LinesKeptInPlace, EnterKept

\* Steps that see neither the terminal nor the pty: flags, threads, time, the loop's poll.
LEMMA UnseenPicture ==
    ASSUME Painting, UNCHANGED <<pty, ack, shape, shpc, stdin, ptyin, prompt, term, theme>>,
           deferred' # "none" => deferred # "none"
    PROVE  Lines' /\ EnterIsAwaited'
  <1>1. Lines /\ EnterIsAwaited
    BY DEF Painting, Lines
  <1>2. InputLine' => InputLine
    BY DEF InputLine, AtPrompt
  <1> QED  BY <1>1, <1>2, SameTerminal, LinesKeptInPlace, EnterKept

\* The loop takes a new theme, whose header is as high as the old one (load_theme).
LEMMA ReloadPaints ==
    ASSUME Calm, TypeOK, Painting, Reload
    PROVE  Lines' /\ EnterIsAwaited'
  <1>1. /\ UNCHANGED <<pty, ack, shape, shpc, stdin, ptyin, prompt, deferred>>
        /\ (\E t \in Themes : LoadTheme(t)) \/ UNCHANGED <<theme, paintVars>>
    BY DEF Reload, chanVars, shellVars
  <1>2. InputLine' => InputLine
    BY <1>1 DEF InputLine, AtPrompt
  <1>3. ASSUME NEW t \in Themes, LoadTheme(t)
        PROVE  Lines' /\ EnterIsAwaited'
    <2> DEFINE h == Header(t, Vcs, mode, last_size)
    <2>1. t.rows = theme.rows /\ theme' = t /\ h.theme = t
      BY <1>3 DEF Calm, TypeOK, LoadTheme, Header
    <2>2. (AtPrompt /\ (Redraw(h) \/ RedrawAfresh(h))) \/ UNCHANGED paintVars
      BY <1>3 DEF LoadTheme
    <2> HIDE DEF h
    <2> QED  BY <1>1, <1>2, <2>1, <2>2, RepaintKeeps
  <1>4. CASE UNCHANGED <<theme, paintVars>>
    BY <1>1, <1>4, UnseenPicture DEF paintVars
  <1> QED  BY <1>1, <1>3, <1>4

\* An announcement: a new prompt ends the old one; another width or mode is painted.
LEMMA MessagesPaint ==
    ASSUME TypeOK, Painting, Messages
    PROVE  Lines' /\ EnterIsAwaited'
  <1> DEFINE m == Head(batch)
  <1>1. UNCHANGED <<theme, pty, shape, shpc, stdin, ptyin>>
    BY DEF Messages, HandleHeader, HandleResize, HandleVimMode, Message
  <1>2. Lines /\ EnterIsAwaited
    BY DEF Painting, Lines
  <1>3. CASE HandleHeader(m)
    <2>1. /\ prompt' = "Running" /\ ack' = Ack(m) /\ UNCHANGED <<deferred, term>>
      BY <1>3 DEF HandleHeader, paintVars
    <2>2. InputLine' => InputLine
      BY <2>1 DEF InputLine, AtPrompt
    <2>3. ack'.rows = theme.rows /\ ack'.glyph \in Modes
      BY <2>1 DEF Ack, TypeOK
    <2>4. /\ shape'.glyph \in Modes
          /\ shpc' \in {"print", "init", "edit", "reprint"} => shape'.rows = theme.rows
      BY <1>1, <1>2 DEF Lines, RowsAreLeft
    <2> QED  BY <1>1, <1>2, <2>1, <2>2, <2>3, <2>4, SameTerminal, LinesKept, EnterKept
  <1>4. CASE HandleResize(m)
    <2> DEFINE h == Header(theme, Vcs, mode, size)
    <2>1. /\ UNCHANGED <<prompt, ack>> /\ h.theme = theme
          /\ (AtPrompt /\ RedrawAfresh(h)) \/ UNCHANGED <<paintVars, deferred>>
      BY <1>4 DEF HandleResize, Header
    <2>2. InputLine' => InputLine
      BY <2>1 DEF InputLine, AtPrompt
    <2> HIDE DEF h
    <2> QED  BY <1>1, <2>1, <2>2, RepaintKeeps
  <1>5. CASE HandleVimMode(m)
    <2> DEFINE h == Header(theme, Vcs, m.mode, size)
    <2>1. /\ UNCHANGED <<prompt, ack, deferred>> /\ h.theme = theme
          /\ (AtPrompt /\ Redraw(h)) \/ UNCHANGED paintVars
      BY <1>5 DEF HandleVimMode, Header
    <2>2. InputLine' => InputLine
      BY <2>1 DEF InputLine, AtPrompt
    <2> HIDE DEF h
    <2> QED  BY <1>1, <2>1, <2>2, RepaintKeeps
  <1> QED  BY <1>3, <1>4, <1>5 DEF Messages

\* A git result is painted on the input line it belongs to.
LEMMA ResultsPaint ==
    ASSUME Painting, Results
    PROVE  Lines' /\ EnterIsAwaited'
  <1> DEFINE h == Header(theme, Head(results).status, mode, last_size)
  <1>1. UNCHANGED <<theme, pty, ack, shape, shpc, stdin, ptyin, prompt, deferred>>
    BY DEF Results, viewVars, chanVars, shellVars
  <1>2. h.theme = theme /\ ((AtPrompt /\ Redraw(h)) \/ UNCHANGED paintVars)
    BY DEF Results, Header
  <1>3. InputLine' => InputLine
    BY <1>1 DEF InputLine, AtPrompt
  <1> HIDE DEF h
  <1> QED  BY <1>1, <1>2, <1>3, RepaintKeeps

\* The prefix is written once more: whoever put that off was on the input line, and output
\* has not come since (engine.rs, resize_prompt_at).
LEMMA DeferredPaints ==
    ASSUME TypeOK, Painting, Deferred
    PROVE  Lines' /\ EnterIsAwaited'
  <1>1. UNCHANGED <<theme, pty, ack, shape, shpc, stdin, ptyin, prompt>>
    BY DEF Deferred, chanVars, shellVars
  <1>2. Lines /\ EnterIsAwaited
    BY DEF Painting, Lines
  <1>3. CASE deferred = "due"
    <2>1. term.rows = theme.rows /\ theme.rows \in Nat \ {0}
      BY <1>2, <1>3, EngineAssumption DEF Lines, OutputIsBehindEnter, InputLine, TypeOK
    <2>2. DOMAIN term = TermFields /\ term.wrapped = 0 /\ ~term.spoiled
      BY <1>2, SameTerminal DEF Lines, RowsAreLeft, PaintsOnItsRows, TermFields
    <2>3. term.rows > 0
      BY <2>1
    <2>4. deferred' = "none" /\ term' = [term EXCEPT !.glyph = mode]
      BY <1>3, <2>2, <2>3 DEF Deferred
    <2>5. /\ DOMAIN term' = TermFields /\ term'.rows = term.rows /\ term'.wrapped = 0
          /\ ~term'.spoiled
      BY <2>2, <2>4 DEF TermFields
    <2>6. InputLine' => InputLine
      BY <1>1, <2>4 DEF InputLine, AtPrompt
    <2> QED  BY <1>1, <1>2, <2>5, <2>6, LinesKeptInPlace, EnterKept
  <1>4. CASE deferred # "due"
    BY <1>1, <1>4, UnseenPicture DEF Deferred
  <1> QED  BY <1>3, <1>4

\* Keys pass: Enter ends the prompt in the loop before it reaches the shell.
LEMMA ReadStdinPaints ==
    ASSUME Calm, TypeOK, Painting, ReadStdin
    PROVE  Lines' /\ EnterIsAwaited'
  <1>1. stdin \in Seq(Keys) /\ \A i \in DOMAIN stdin : stdin[i] # "interrupt"
    BY DEF Calm, TypeOK
  <1>2. ~Contains(stdin, "interrupt")
    BY <1>1 DEF Contains
  <1>3. /\ UNCHANGED <<theme, deferred, pty, ack, shape, shpc, term>>
        /\ stdin' = <<>> /\ ptyin' = ptyin \o stdin /\ prompt' = PromptAfter(stdin)
    BY <1>2 DEF ReadStdin, paintVars
  <1>4. Lines /\ EnterIsAwaited
    BY DEF Painting, Lines
  <1>5. InputLine' => InputLine
    BY <1>3 DEF InputLine, AtPrompt, PromptAfter
  <1>6. Lines'
    BY <1>3, <1>4, <1>5, SameTerminal, LinesKeptInPlace
  <1>7. ptyin \in Seq(Keys) /\ ptyin' \in Seq(Keys)
    BY <1>1, <1>3, <1>4 DEF EnterIsAwaited
  <1>8. ASSUME NEW i \in DOMAIN ptyin', ptyin'[i] = "enter"
        PROVE  shpc = "edit" /\ pty = <<>> /\ prompt' = "Running" /\ i = Len(ptyin')
    <2>1. \/ i \in DOMAIN ptyin /\ ptyin[i] = "enter"
          \/ i - Len(ptyin) \in DOMAIN stdin /\ stdin[i - Len(ptyin)] = "enter"
      BY <1>1, <1>3, <1>7, <1>8
    <2>2. CASE i \in DOMAIN ptyin /\ ptyin[i] = "enter"
      <3>1. shpc = "edit" /\ pty = <<>> /\ prompt = "Running" /\ stdin = <<>> /\ i = Len(ptyin)
        BY <2>2, <1>4 DEF EnterIsAwaited
      <3>2. ptyin' = ptyin
        BY <1>3, <1>7, <3>1
      <3> QED  BY <3>1, <3>2, <1>3 DEF PromptAfter, AtPrompt
    <2>3. CASE i - Len(ptyin) \in DOMAIN stdin /\ stdin[i - Len(ptyin)] = "enter"
      <3>1. shpc = "edit" /\ pty = <<>> /\ i - Len(ptyin) = Len(stdin)
        BY <2>3, <1>4 DEF EnterIsAwaited
      <3>2. Contains(stdin, "enter")
        BY <1>1, <2>3 DEF Contains
      <3>3. Len(ptyin') = Len(ptyin) + Len(stdin) /\ i = Len(ptyin) + Len(stdin)
        BY <1>1, <1>3, <1>7, <2>3, <3>1
      <3> QED  BY <3>1, <3>2, <3>3, <1>3 DEF PromptAfter
    <2> QED  BY <2>1, <2>2, <2>3
  <1> QED  BY <1>3, <1>6, <1>7, <1>8 DEF EnterIsAwaited

\* Output comes through, and with a signal the header is painted (engine.rs, run).
LEMMA ReadPtyPaints ==
    ASSUME TypeOK, Painting, NEW n \in 1..Len(pty), ReadPty(n)
    PROVE  Lines' /\ EnterIsAwaited'
  <1>1. UNCHANGED <<theme, ack, shape, shpc, stdin, ptyin, deferred>>
    BY DEF ReadPty, shellVars
  <1>2. Lines /\ EnterIsAwaited
    BY DEF Painting, Lines
  <1>3. /\ pty' \in Seq(Pieces) /\ \A i \in 1..Len(pty') : pty'[i] = pty[i + n]
        /\ DOMAIN term' = TermFields /\ term'.wrapped = 0 /\ ~term'.spoiled
        /\ pty[n].kind = "lead" => term'.rows = theme.rows
        /\ term.rows = theme.rows /\ (\A i \in 1..n : pty[i].kind # "out") => term'.rows = theme.rows
        /\ (\A i \in 1..n : ~SignalAt(i)) => UNCHANGED prompt
        /\ (\E i \in 1..n : SignalAt(i)) => term'.rows = theme.rows
    BY ReadPtyShows
  <1>4. /\ pty \in Seq(Pieces) /\ pty # <<>> /\ n \in Nat \ {0} /\ n <= Len(pty)
        /\ \A i \in 1..Len(pty') : i \in Nat \ {0} /\ i + n \in DOMAIN pty /\ i + n # 1
        /\ \A i \in 1..n : i \in DOMAIN pty
        /\ DOMAIN pty' = 1..Len(pty') /\ DOMAIN pty = 1..Len(pty)
    <2>1. pty \in Seq(Pieces) /\ n \in 1..Len(pty)
      BY <1>2 DEF Lines, RowsAreLeft
    <2>2. Len(pty') = Len(pty) - n
      BY ReadPtyShows
    <2>3. pty' \in Seq(Pieces)
      BY <1>3
    <2> QED  BY <2>1, <2>2, <2>3
  <1>5. EnterIsAwaited'
    BY <1>1, <1>2, <1>4, EnterKeptWithout
  <1>6. Pieces' = Pieces
    BY <1>1 DEF Pieces
  <1>7. PaintsOnItsRows' /\ RowsAreLeft'
    BY <1>1, <1>2, <1>3, <1>6 DEF Lines, RowsAreLeft, PaintsOnItsRows, TermFields
  <1>8. \A i \in DOMAIN pty' : SignalAt(i)' => SignalAt(i + n)
    BY <1>3, <1>4 DEF SignalAt
  <1>9. RowsPrecedeSignals'
    <2> SUFFICES ASSUME NEW i \in DOMAIN pty', SignalAt(i)'
                 PROVE  IF i = 1 THEN term'.rows = theme.rows ELSE pty'[i - 1].kind = "lead"
      BY <1>1 DEF RowsPrecedeSignals
    <2>1. i \in 1..Len(pty') /\ i + n \in DOMAIN pty /\ i + n # 1 /\ SignalAt(i + n)
      BY <1>4, <1>8
    <2>2. pty[i + n - 1].kind = "lead"
      BY <2>1, <1>2 DEF Lines, RowsPrecedeSignals
    <2>3. CASE i = 1
      <3>1. i + n - 1 = n
        BY <2>3, <1>4
      <3> QED  BY <2>2, <2>3, <3>1, <1>3
    <2>4. CASE i # 1
      <3>1. i - 1 \in 1..Len(pty') /\ (i - 1) + n = i + n - 1
        BY <2>1, <2>4, <1>4
      <3> QED  BY <2>2, <2>4, <3>1, <1>3
    <2> QED  BY <2>3, <2>4
  <1>10. CASE \A i \in 1..n : ~SignalAt(i)
    <2>1. InputLine' = InputLine
      BY <1>1, <1>3, <1>10 DEF InputLine, AtPrompt
    <2>2. InputLine' => term'.rows = theme'.rows
      BY <2>1, <1>1, <1>2, <1>3, <1>4 DEF Lines, OutputIsBehindEnter
    <2>3. ASSUME NEW j \in DOMAIN pty', InputLine' \/ \E i \in 1..j : SignalAt(i)'
          PROVE  pty'[j].kind # "out"
      <3>1. j \in 1..Len(pty') /\ j + n \in DOMAIN pty /\ pty'[j] = pty[j + n]
        BY <1>3, <1>4
      <3>2. InputLine \/ \E i \in 1..j + n : SignalAt(i)
        <4>1. CASE InputLine'
          BY <4>1, <2>1
        <4>2. CASE \E i \in 1..j : SignalAt(i)'
          <5>1. PICK i \in 1..j : SignalAt(i)'
            BY <4>2
          <5>2. i \in DOMAIN pty' /\ i + n \in 1..j + n
            BY <3>1, <5>1, <1>4
          <5> QED  BY <5>1, <5>2, <1>8
        <4> QED  BY <2>3, <4>1, <4>2
      <3> QED  BY <3>1, <3>2, <1>2 DEF Lines, OutputIsBehindEnter
    <2>4. shpc' = "exec" => ~InputLine' /\ \A i \in DOMAIN pty' : ~SignalAt(i)'
      BY <2>1, <1>1, <1>2, <1>4, <1>8 DEF Lines, OutputIsBehindEnter
    <2>5. OutputIsBehindEnter'
      BY <2>2, <2>3, <2>4 DEF OutputIsBehindEnter
    <2> QED  BY <1>5, <1>7, <1>9, <2>5 DEF Lines
  <1>11. CASE \E i \in 1..n : SignalAt(i)
    <2>1. PICK k \in 1..n : SignalAt(k)
      BY <1>11
    <2>2. shpc # "exec"
      BY <2>1, <1>2, <1>4 DEF Lines, OutputIsBehindEnter
    <2>3. ASSUME NEW j \in DOMAIN pty'
          PROVE  pty'[j].kind # "out"
      <3>1. pty'[j] = pty[j + n] /\ j + n \in DOMAIN pty /\ k \in 1..j + n
        BY <1>3, <1>4
      <3> QED  BY <2>1, <3>1, <1>2 DEF Lines, OutputIsBehindEnter
    <2>4. OutputIsBehindEnter'
      BY <2>2, <2>3, <1>1, <1>3, <1>11 DEF OutputIsBehindEnter
    <2> QED  BY <1>5, <1>7, <1>9, <2>4 DEF Lines
  <1> QED  BY <1>10, <1>11

----------------------------------------------------------------------------
(* The rows and Enter: what the shell and the user do to them.             *)

\* What the pty has more of.
LEMMA Followed ==
    ASSUME NEW S, NEW s \in Seq(S), NEW t \in Seq(S)
    PROVE  /\ s \o t \in Seq(S)
           /\ DOMAIN (s \o t) = 1..Len(s) + Len(t)
           /\ \A i \in DOMAIN s : (s \o t)[i] = s[i]
           /\ \A i \in DOMAIN (s \o t) : i \in DOMAIN s \/ i - Len(s) \in DOMAIN t
           /\ \A i \in DOMAIN t : (s \o t)[Len(s) + i] = t[i]
  OBVIOUS

\* The shell prints its prompt: blank rows, then the signal.
LEMMA PromptIsPrinted ==
    ASSUME Lines, shpc \in {"print", "edit", "reprint"}, pty' = pty \o PromptString,
           UNCHANGED <<theme, ack, shape, term, prompt, deferred>>,
           shpc' \in {"init", "edit"}
    PROVE  Lines'
  <1> DEFINE L == Len(pty)
  <1>1. PromptString = <<Lead(theme.rows, shape.glyph), Token("sig")>>
    BY DEF Lines, RowsAreLeft, PromptString
  <1>2. PromptString \in Seq(Pieces)
    BY <1>1 DEF Lines, RowsAreLeft, Pieces, Lead, Token
  <1>3. pty \in Seq(Pieces) /\ L \in Nat /\ DOMAIN pty = 1..L
    BY DEF Lines, RowsAreLeft
  <1>4. /\ pty' \in Seq(Pieces) /\ DOMAIN pty' = 1..L + 2
        /\ \A i \in 1..L : pty'[i] = pty[i]
        /\ pty'[L + 1].kind = "lead" /\ pty'[L + 2].kind = "sig"
    <2>1. Len(PromptString) = 2 /\ DOMAIN PromptString = 1..2
      BY <1>1
    <2>2. PromptString[1].kind = "lead" /\ PromptString[2].kind = "sig"
      BY <1>1 DEF Lead, Token
    <2>3. /\ pty \o PromptString \in Seq(Pieces)
          /\ DOMAIN (pty \o PromptString) = 1..Len(pty) + Len(PromptString)
          /\ \A i \in DOMAIN pty : (pty \o PromptString)[i] = pty[i]
          /\ \A i \in DOMAIN PromptString : (pty \o PromptString)[Len(pty) + i] = PromptString[i]
      <3>1. pty \in Seq(Pieces)
        BY <1>3
      <3> QED  BY <1>2, <3>1, Followed
    <2>4. 1 \in DOMAIN PromptString /\ 2 \in DOMAIN PromptString
      BY <2>1
    <2>5. pty' = pty \o PromptString /\ DOMAIN pty = 1..L
      BY <1>3
    <2> QED  BY <2>1, <2>2, <2>3, <2>4, <2>5
  <1>5. /\ \A i \in 1..L : SignalAt(i)' <=> SignalAt(i)
        /\ \A i \in DOMAIN pty' : i \in 1..L \/ i = L + 1 \/ i = L + 2
        /\ \A i \in DOMAIN pty' : SignalAt(i)' => i \in 1..L \/ i = L + 2
    BY <1>3, <1>4 DEF SignalAt
  <1>6. Pieces' = Pieces /\ InputLine' = InputLine
    BY DEF Pieces, InputLine, AtPrompt
  <1>7. PaintsOnItsRows' /\ RowsAreLeft'
    BY <1>4, <1>6 DEF Lines, PaintsOnItsRows, RowsAreLeft
  <1>8. RowsPrecedeSignals'
    <2> SUFFICES ASSUME NEW i \in DOMAIN pty', SignalAt(i)'
                 PROVE  IF i = 1 THEN term'.rows = theme.rows ELSE pty'[i - 1].kind = "lead"
      BY DEF RowsPrecedeSignals
    <2>1. CASE i \in 1..L
      <3>1. SignalAt(i)
        BY <1>5, <2>1
      <3>2. i # 1 => i - 1 \in 1..L
        BY <1>3, <2>1
      <3> QED  BY <3>1, <3>2, <1>3, <1>4, <2>1 DEF Lines, RowsPrecedeSignals
    <2>2. CASE i = L + 2
      <3>1. i # 1 /\ i - 1 = L + 1
        BY <1>3, <2>2
      <3> QED  BY <3>1, <1>4
    <2> QED  BY <1>5, <2>1, <2>2
  <1>9. OutputIsBehindEnter'
    <2>1. ASSUME NEW j \in DOMAIN pty', InputLine \/ \E i \in 1..j : SignalAt(i)'
          PROVE  pty'[j].kind # "out"
      <3>1. CASE j \in 1..L
        <4>1. (\E i \in 1..j : SignalAt(i)') => \E i \in 1..j : SignalAt(i)
          BY <1>3, <1>5, <3>1
        <4> QED  BY <4>1, <2>1, <3>1, <1>3, <1>4 DEF Lines, OutputIsBehindEnter
      <3> QED  BY <3>1, <1>4, <1>5
    <2>2. InputLine' => term'.rows = theme'.rows
      BY <1>6 DEF Lines, OutputIsBehindEnter
    <2>3. shpc' # "exec"
      OBVIOUS
    <2> QED  BY <2>1, <2>2, <2>3, <1>6 DEF OutputIsBehindEnter
  <1> QED  BY <1>7, <1>8, <1>9 DEF Lines

\* Output is printed where the prompt is over.
LEMMA OutputIsPrinted ==
    ASSUME Lines, ~InputLine, \A i \in DOMAIN pty : ~SignalAt(i), pty' = Append(pty, Token("out")),
           UNCHANGED <<theme, ack, shape, term, prompt, deferred>>, shpc' = "exec"
    PROVE  Lines'
  <1>1. pty \in Seq(Pieces) /\ Token("out") \in Pieces
    BY DEF Lines, RowsAreLeft, Pieces, Token
  <1>2. /\ pty' \in Seq(Pieces)
        /\ \A i \in DOMAIN pty' : \/ i \in DOMAIN pty /\ pty'[i] = pty[i]
                                  \/ pty'[i] = Token("out")
    BY <1>1, Appended
  <1>3. \A i \in DOMAIN pty' : ~SignalAt(i)'
    BY <1>2 DEF SignalAt, Token
  <1>4. Pieces' = Pieces /\ ~InputLine'
    BY DEF Pieces, InputLine, AtPrompt
  <1>5. PaintsOnItsRows' /\ RowsAreLeft' /\ RowsPrecedeSignals'
    BY <1>2, <1>3, <1>4 DEF Lines, PaintsOnItsRows, RowsAreLeft, RowsPrecedeSignals
  <1>6. \A j \in DOMAIN pty' : ~(InputLine' \/ \E i \in 1..j : SignalAt(i)')
    BY <1>3, <1>4 DEF SignalAt
  <1>7. OutputIsBehindEnter'
    BY <1>3, <1>4, <1>6 DEF OutputIsBehindEnter
  <1> QED  BY <1>5, <1>7 DEF Lines

\* The hooks that print nothing: the prompt is announced, its ack read, the keymap reported.
LEMMA HookPaints ==
    ASSUME Calm, TypeOK, Painting,
           (\E d \in Cwds : Done(d)) \/ ReadAck \/ LineInit \/ Winch
    PROVE  Lines' /\ EnterIsAwaited'
  <1>1. Lines /\ EnterIsAwaited /\ WindowIsKept
    BY DEF Painting, Lines
  <1>2. UNCHANGED <<pty, theme, term, stdin, ptyin, prompt, deferred>>
    BY DEF Done, ReadAck, LineInit, Winch, Shell, viewVars, paintVars
  <1>3. InputLine' => InputLine
    BY <1>2 DEF InputLine, AtPrompt
  <1>4. shpc' # "exec" \/ shpc' = shpc
    BY DEF Done, Precmd, ReadAck, LineInit, Winch
  <1>5. /\ shape.glyph \in Modes
        /\ ack # None => ack.rows = theme.rows /\ ack.glyph \in Modes
        /\ shpc \in {"print", "init", "edit", "reprint"} => shape.rows = theme.rows
    BY <1>1 DEF Lines, RowsAreLeft
  <1>6. /\ ack' # None => ack'.rows = theme.rows /\ ack'.glyph \in Modes
        /\ shape'.glyph \in Modes
        /\ shpc' \in {"print", "init", "edit", "reprint"} => shape'.rows = theme.rows
    BY <1>5 DEF Done, Precmd, ReadAck, LineInit, Winch
  <1>7. Lines'
    BY <1>1, <1>2, <1>3, <1>4, <1>6, SameTerminal, LinesKept
  <1>8. CASE shpc # "edit"
    BY <1>1, <1>2, <1>7, <1>8, EnterKeptWithout
  <1>9. CASE shpc = "edit"
    <2>1. Winch
      BY <1>9 DEF Done, ReadAck, LineInit
    <2>2. "enter" \notin Keys
      BY <1>1, <2>1 DEF Winch, WindowIsKept, Calm
    <2> QED  BY <1>1, <1>2, <1>7, <2>2, EnterKeptWithout
  <1> QED  BY <1>8, <1>9

\* The line editor takes a key: what follows Enter is output, and the loop knows of it.
LEMMA ReadKeyPaints ==
    ASSUME Calm, TypeOK, Painting, ReadKey
    PROVE  Lines' /\ EnterIsAwaited'
  <1> DEFINE key == Head(ptyin)
  <1>1. Lines /\ EnterIsAwaited /\ WindowIsKept
    BY DEF Painting, Lines
  <1>2. /\ shpc = "edit" /\ ptyin # <<>> /\ ptyin' = Tail(ptyin)
        /\ UNCHANGED <<theme, term, stdin, prompt, deferred, ack, shape>>
    BY DEF ReadKey, Shell, viewVars, paintVars
  <1>3. ptyin \in Seq(Keys)
    BY <1>1 DEF EnterIsAwaited
  <1>4. /\ key = ptyin[1] /\ 1 \in DOMAIN ptyin /\ key \in Keys
        /\ Tail(ptyin) \in Seq(Keys) /\ Len(Tail(ptyin)) = Len(ptyin) - 1
        /\ \A i \in DOMAIN Tail(ptyin) : /\ i \in Nat \ {0} /\ i + 1 \in DOMAIN ptyin
                                          /\ Tail(ptyin)[i] = ptyin[i + 1]
    BY <1>2, <1>3, Shifted, FirstOfBatch
  <1>5. CASE key = "enter"
    <2>1. pty = <<>> /\ prompt = "Running" /\ stdin = <<>> /\ Len(ptyin) = 1
      BY <1>1, <1>4, <1>5 DEF EnterIsAwaited
    <2>2. ~InputLine
      BY <1>1, <1>4, <1>5, <2>1 DEF Calm, WindowIsKept, InputLine, AtPrompt
    <2>3. pty' = Append(pty, Token("out")) /\ shpc' = "exec"
      BY <1>5 DEF ReadKey
    <2>4. \A i \in DOMAIN pty : ~SignalAt(i)
      BY <2>1
    <2>5. Lines'
      BY <1>1, <1>2, <2>2, <2>3, <2>4, OutputIsPrinted
    <2>6. ptyin' = <<>> /\ stdin' = <<>>
      BY <1>2, <1>3, <2>1
    <2>7. EnterIsAwaited'
      BY <2>6 DEF EnterIsAwaited
    <2> QED  BY <2>5, <2>7
  <1>6. CASE key \in {"long", "redraw"}
    <2>1. key = "redraw" /\ "enter" \notin Keys
      BY <1>4, <1>6 DEF Calm
    <2>2. pty' = pty \o PromptString /\ shpc' = "edit"
      BY <1>2, <2>1 DEF ReadKey
    <2>3. Lines'
      BY <1>1, <1>2, <2>2, PromptIsPrinted
    <2>4. /\ \A i \in DOMAIN stdin : stdin[i] # "enter"
          /\ \A i \in DOMAIN ptyin : ptyin[i] # "enter"
      BY <1>1, <2>1, NoEnter
    <2>5. EnterIsAwaited'
      BY <1>2, <1>4, <2>4 DEF EnterIsAwaited
    <2> QED  BY <2>3, <2>5
  <1>7. CASE key \notin {"enter", "long", "redraw"}
    <2>1. UNCHANGED <<pty, shpc>>
      BY <1>7 DEF ReadKey
    <2>2. InputLine' => InputLine
      BY <1>2 DEF InputLine, AtPrompt
    <2>3. Lines'
      BY <1>1, <1>2, <2>1, <2>2, SameTerminal, LinesKeptInPlace
    <2>4. ASSUME NEW i \in DOMAIN ptyin', ptyin'[i] = "enter"
          PROVE  shpc = "edit" /\ pty = <<>> /\ prompt = "Running" /\ stdin = <<>> /\ i = Len(ptyin')
      <3>1. i + 1 \in DOMAIN ptyin /\ ptyin[i + 1] = "enter" /\ i \in Nat
        BY <1>2, <1>4, <2>4
      <3>2. /\ shpc = "edit" /\ pty = <<>> /\ prompt = "Running" /\ stdin = <<>>
            /\ i + 1 = Len(ptyin)
        BY <1>1, <3>1 DEF EnterIsAwaited
      <3>3. Len(ptyin') = Len(ptyin) - 1 /\ Len(ptyin) \in Nat
        BY <1>2, <1>3, <1>4
      <3> QED  BY <3>1, <3>2, <3>3
    <2>5. EnterIsAwaited'
      <3>1. ptyin' \in Seq(Keys)
        BY <1>2, <1>4
      <3> QED  BY <3>1, <1>1, <1>2, <2>1, <2>4 DEF EnterIsAwaited
    <2> QED  BY <2>3, <2>5
  <1> QED  BY <1>5, <1>6, <1>7

\* The other steps of the shell that print: a command, a prompt, a prompt printed anew.
LEMMA PrintingPaints ==
    ASSUME TypeOK, Painting, Output \/ PrintPrompt \/ Reprint
    PROVE  Lines' /\ EnterIsAwaited'
  <1>1. Lines /\ EnterIsAwaited
    BY DEF Painting, Lines
  <1>2. UNCHANGED <<theme, term, stdin, ptyin, prompt, deferred, ack, shape>>
    BY DEF Output, PrintPrompt, Reprint, Shell, viewVars, paintVars
  <1>3. shpc # "edit"
    BY DEF Output, PrintPrompt, Reprint
  <1>4. CASE Output
    <2>1. shpc = "exec" /\ shpc' = "exec" /\ pty' = Append(pty, Token("out"))
      BY <1>4 DEF Output
    <2>2. ~InputLine /\ \A i \in DOMAIN pty : ~SignalAt(i)
      BY <1>1, <2>1 DEF Lines, OutputIsBehindEnter
    <2>3. Lines'
      BY <1>1, <1>2, <2>1, <2>2, OutputIsPrinted
    <2> QED  BY <2>3, <1>1, <1>2, <1>3, EnterKeptWithout
  <1>5. CASE PrintPrompt \/ Reprint
    <2>1. shpc \in {"print", "reprint"} /\ shpc' \in {"init", "edit"} /\ pty' = pty \o PromptString
      BY <1>5 DEF PrintPrompt, Reprint
    <2>2. Lines'
      BY <1>1, <1>2, <2>1, PromptIsPrinted
    <2> QED  BY <2>2, <1>1, <1>2, <1>3, EnterKeptWithout
  <1> QED  BY <1>4, <1>5

\* The user types; Enter only when all is painted, and nothing after it.
LEMMA PressKeyPaints ==
    ASSUME Calm, TypeOK, Painting, NEW k \in Keys, PressKey(k)
    PROVE  Lines' /\ EnterIsAwaited'
  <1>1. Lines /\ EnterIsAwaited
    BY DEF Painting, Lines
  <1>2. /\ UNCHANGED <<pty, ack, shape, shpc, ptyin, prompt, term, theme, deferred>>
        /\ stdin' = Append(stdin, k)
    BY DEF PressKey, viewVars, shellVars, paintVars
  <1>3. Lines'
    <2>1. InputLine' => InputLine
      BY <1>2 DEF InputLine, AtPrompt
    <2> QED  BY <1>1, <1>2, <2>1, SameTerminal, LinesKeptInPlace
  <1>4. stdin \in Seq(Keys) /\ ptyin \in Seq(Keys)
    BY <1>1 DEF TypeOK, EnterIsAwaited
  <1>5. /\ \A i \in DOMAIN stdin : stdin[i] # "enter"
        /\ \A i \in DOMAIN ptyin : ptyin[i] # "enter"
        /\ k = "enter" => shpc = "edit" /\ pty = <<>>
    <2>1. CASE "enter" \notin Keys
      BY <2>1, <1>1, NoEnter
    <2>2. CASE "enter" \in Keys
      <3>1. shpc = "edit" /\ pty = <<>> /\ ~Contains(stdin \o ptyin, "enter")
        BY <2>2 DEF Calm, PressKey
      <3>2. \A i \in 1..Len(stdin \o ptyin) : (stdin \o ptyin)[i] # "enter"
        BY <3>1 DEF Contains
      <3>3. /\ DOMAIN (stdin \o ptyin) = 1..Len(stdin) + Len(ptyin)
            /\ stdin \o ptyin \in Seq(Keys)
            /\ \A i \in DOMAIN stdin : (stdin \o ptyin)[i] = stdin[i]
            /\ \A i \in DOMAIN ptyin : (stdin \o ptyin)[Len(stdin) + i] = ptyin[i]
        BY <1>4, Followed
      <3>4. /\ \A i \in DOMAIN stdin : i \in 1..Len(stdin \o ptyin)
            /\ \A i \in DOMAIN ptyin : Len(stdin) + i \in 1..Len(stdin \o ptyin)
        BY <1>4
      <3> QED  BY <3>1, <3>2, <3>3, <3>4
    <2> QED  BY <2>1, <2>2
  <1>6. \A i \in DOMAIN stdin' : \/ i \in DOMAIN stdin /\ stdin'[i] = stdin[i]
                                 \/ i = Len(stdin') /\ stdin'[i] = k
    BY <1>2, <1>4
  <1>7. EnterIsAwaited'
    BY <1>2, <1>4, <1>5, <1>6 DEF EnterIsAwaited
  <1> QED  BY <1>3, <1>7

----------------------------------------------------------------------------

\* The terminal is empty at the start, and nothing is on its way.
LEMMA PaintingInit == Init => Painting
  <1> SUFFICES ASSUME Init
               PROVE  Painting
    OBVIOUS
  <1>1. PaintsOnItsRows /\ RowsAreLeft /\ RowsPrecedeSignals
    BY DEF Init, PaintsOnItsRows, RowsAreLeft, RowsPrecedeSignals, SignalAt, Modes
  <1>2. OutputIsBehindEnter /\ EnterIsAwaited /\ WindowIsKept
    BY DEF Init, OutputIsBehindEnter, InputLine, AtPrompt, SignalAt, EnterIsAwaited, WindowIsKept
  <1> QED  BY <1>1, <1>2 DEF Painting

\* No step of a calm session moves the loop's rows away from under it.
LEMMA PaintingNext ==
    ASSUME Calm, TypeOK, Handshake, Painting, [Next]_vars
    PROVE  Painting'
  <1>1. Lines' /\ EnterIsAwaited'
    <2>1. CASE Reload \/ Messages \/ ReadStdin \/ Results \/ Deferred
      BY <2>1, ReloadPaints, MessagesPaint, ReadStdinPaints, ResultsPaint, DeferredPaints
    <2>2. CASE \E n \in 1..Len(pty) : ReadPty(n)
      BY <2>2, ReadPtyPaints
    <2>3. CASE Resize \/ Probe \/ Drain \/ Poll
      BY <2>3, UnseenPicture DEF Resize, Probe, Drain, Poll, viewVars, chanVars, shellVars, paintVars
    <2>4. CASE (\E w \in GW!Workers : WorkerTake(w) \/ WorkerFinish(w)) \/ Wake
      BY <2>4, UnseenPicture DEF WorkerTake, WorkerFinish, Wake, viewVars, chanVars, shellVars, paintVars
    <2>5. CASE ReloadCommand \/ \E c \in Sizes : ResizeWindow(c)
      BY <2>5, UnseenPicture DEF ReloadCommand, ResizeWindow, viewVars, chanVars, shellVars, paintVars
    <2>6. CASE Clock
      BY <2>6, UnseenPicture DEF Clock, chanVars, shellVars, paintVars
    <2>7. CASE Output \/ (\E d \in Cwds : Done(d)) \/ Hooks
      BY <2>7, HookPaints, ReadKeyPaints, PrintingPaints DEF Hooks, Interrupt, Handshake
    <2>8. CASE \E k \in Keys : PressKey(k)
      BY <2>8, PressKeyPaints
    <2>9. CASE UNCHANGED vars
      BY <2>9, UnseenPicture DEF vars, viewVars, chanVars, shellVars, paintVars
    <2> QED
      BY <2>1, <2>2, <2>3, <2>4, <2>5, <2>6, <2>7, <2>8, <2>9 DEF Next, Loop
  <1>2. WindowIsKept'
    BY WindowKept DEF Painting
  <1> QED  BY <1>1, <1>2 DEF Painting, Lines

\* A header goes over the rows the shell left for it, whatever the order in which output,
\* signals, keys, git results, reloads, resizes and modes reach the loop, for a calm user
\* (engine.rs, redraw_header_cfg and the prompt-ready branch).  The run engine_long_line
\* shows a user for whom it is not so.
THEOREM PaintsStayOnTheirRows ==
    ASSUME Calm
    PROVE  Spec => []Painting
  <1>1. "interrupt" \notin Keys
    BY DEF Calm
  <1>2. TypeOK /\ Handshake /\ Painting /\ [Next]_vars => Painting'
    BY PaintingNext
  <1>3. EngineInv => TypeOK /\ Handshake
    BY DEF EngineInv
  <1> QED  BY <1>1, <1>2, <1>3, PaintingInit, EngineInvariant, PTL DEF Spec

----------------------------------------------------------------------------
(* What the shell has reported. *)

\* A report of another kind changes nothing about the keymap.
LEMMA OtherReport ==
    ASSUME TypeOK, KeymapIsReported, UNCHANGED <<batch, keymap, mode>>,
           epc' # "messages" => epc # "messages",
           NEW m \in Announcements, m.kind # "v", announce' = Append(announce, m)
    PROVE  KeymapIsReported'
  <1>1. announce \in Seq(Announcements) /\ announce' \in Seq(Announcements)
    BY ChannelOps DEF TypeOK
  <1>2. /\ \A i \in DOMAIN announce : i \in DOMAIN announce' /\ announce'[i] = announce[i]
        /\ \A i \in DOMAIN announce' : \/ i \in DOMAIN announce /\ announce'[i] = announce[i]
                                       \/ announce'[i] = m
    BY <1>1
  <1>3. Silent(announce') => Silent(announce)
    BY <1>2 DEF Silent
  <1>4. \A i \in DOMAIN announce' : Newest(announce', i) =>
            i \in DOMAIN announce /\ Newest(announce, i) /\ announce'[i] = announce[i]
    BY <1>2 DEF Newest
  <1> QED  BY <1>3, <1>4 DEF KeymapIsReported, Newest, Silent

\* A report of the keymap is the newest one.
LEMMA KeymapReport ==
    ASSUME TypeOK, KeymapIsReported, UNCHANGED <<batch, mode, epc>>, NEW mo \in Modes, Keymap(mo)
    PROVE  KeymapIsReported'
  <1> DEFINE m == [kind |-> "v", mode |-> mo]
             L == Len(announce)
  <1>1. m \in Announcements
    BY DEF Announcements
  <1>2. announce \in Seq(Announcements) /\ announce' = Append(announce, m) /\ keymap' = mo
    BY DEF Keymap, TypeOK
  <1>3. /\ DOMAIN announce' = 1..L + 1 /\ L \in Nat /\ L + 1 \in DOMAIN announce'
        /\ announce'[L + 1] = m
    BY <1>1, <1>2
  <1>4. ~Silent(announce')
    BY <1>3 DEF Silent
  <1>5. \A i \in DOMAIN announce' : Newest(announce', i) => i = L + 1
    BY <1>3 DEF Newest
  <1>6. \A i \in DOMAIN announce' : Newest(announce', i) => announce'[i].mode = keymap'
    BY <1>2, <1>3, <1>5
  <1> HIDE DEF m, L
  <1> QED  BY <1>4, <1>6 DEF KeymapIsReported

\* The loop ends up with the keymap reported last, whatever else it reads in between
\* (engine.rs, the `v` handler; templates.rs, zle-keymap-select).
LEMMA KeymapKept == TypeOK /\ KeymapIsReported /\ [Next]_vars => KeymapIsReported'
  <1> SUFFICES ASSUME TypeOK, KeymapIsReported, [Next]_vars
               PROVE  KeymapIsReported'
    OBVIOUS
  <1>1. ASSUME UNCHANGED <<announce, batch, keymap, mode>>, epc' # "messages" => epc # "messages"
        PROVE  KeymapIsReported'
    BY <1>1 DEF KeymapIsReported, Newest, Silent
  <1>2. CASE Reload \/ Resize \/ Probe \/ Results
    BY <1>1, <1>2 DEF Reload, Resize, Probe, Results, loopVars, viewVars, chanVars, shellVars
  <1>3. CASE Poll \/ ReadStdin \/ (\E n \in 1..Len(pty) : ReadPty(n)) \/ Deferred
    BY <1>1, <1>3 DEF Poll, ReadStdin, ReadPty, Deferred, Handled, Turn, viewVars, chanVars, shellVars
  <1>4. CASE Drain
    <2>1. /\ epc = "drain" /\ batch' = announce /\ announce' = <<>> /\ UNCHANGED <<mode, keymap>>
          /\ epc' = IF announce = <<>> THEN "poll" ELSE "messages"
      BY <1>4 DEF Drain, viewVars, shellVars
    <2>2. batch = <<>>
      BY <2>1 DEF KeymapIsReported
    <2>3. Silent(batch)
      BY <2>2 DEF Silent
    <2> QED  BY <2>1, <2>3 DEF KeymapIsReported, Newest, Silent
  <1>5. CASE Messages
    <2> DEFINE m == Head(batch)
    <2>1. /\ batch # <<>> /\ batch' = Tail(batch) /\ UNCHANGED <<announce, keymap>>
          /\ epc' = IF Tail(batch) = <<>> THEN "poll" ELSE "messages"
          /\ mode' = IF m.kind = "v" THEN m.mode ELSE mode
      BY <1>5 DEF Messages, HandleHeader, HandleResize, HandleVimMode, Message
    <2>2. batch \in Seq(Announcements)
      BY DEF TypeOK
    <2>3. /\ m = batch[1] /\ 1 \in DOMAIN batch
          /\ \A i \in DOMAIN batch' : i \in Nat \ {0} /\ i + 1 \in DOMAIN batch
                                       /\ batch'[i] = batch[i + 1]
          /\ \A i \in DOMAIN batch : i = 1 \/ (i - 1 \in DOMAIN batch' /\ batch'[i - 1] = batch[i])
      BY <2>1, <2>2, Shifted
    <2>4. \A i \in DOMAIN batch : i \in Nat
      BY <2>2
    <2>5. \A i \in DOMAIN batch' : Newest(batch', i) => Newest(batch, i + 1)
      <3> SUFFICES ASSUME NEW i \in DOMAIN batch', Newest(batch', i),
                          NEW j \in DOMAIN batch, j > i + 1
                   PROVE  batch[j].kind # "v"
        BY <2>3 DEF Newest
      <3>1. j \in Nat /\ i \in Nat /\ j # 1 /\ j - 1 > i
        BY <2>3, <2>4
      <3> QED  BY <3>1, <2>3 DEF Newest
    <2>6. Silent(batch') => \A i \in DOMAIN batch : i # 1 => batch[i].kind # "v"
      BY <2>3 DEF Silent
    <2>7. Silent(announce) /\ Silent(batch') => mode' = keymap
      <3> SUFFICES ASSUME Silent(announce), Silent(batch')
                   PROVE  mode' = keymap
        OBVIOUS
      <3>1. CASE m.kind = "v"
        <4>1. Newest(batch, 1)
          BY <2>3, <2>4, <2>6, <3>1 DEF Newest
        <4> QED  BY <4>1, <2>1, <2>3, <3>1 DEF KeymapIsReported
      <3>2. CASE m.kind # "v"
        <4>1. Silent(batch)
          BY <2>3, <2>6, <3>2 DEF Silent
        <4> QED  BY <4>1, <2>1, <3>2 DEF KeymapIsReported
      <3> QED  BY <3>1, <3>2
    <2>8. Silent(announce) => \A i \in DOMAIN batch' : Newest(batch', i) => batch'[i].mode = keymap
      BY <2>3, <2>5 DEF KeymapIsReported
    <2>9. \A i \in DOMAIN announce : Newest(announce, i) => announce[i].mode = keymap
      BY DEF KeymapIsReported
    <2> HIDE DEF m
    <2> QED  BY <2>1, <2>7, <2>8, <2>9 DEF KeymapIsReported
  <1>6. CASE (\E w \in GW!Workers : WorkerTake(w) \/ WorkerFinish(w)) \/ Wake \/ Clock
    BY <1>1, <1>6 DEF WorkerTake, WorkerFinish, Wake, Clock, loopVars, viewVars, chanVars, shellVars
  <1>7. CASE ReloadCommand \/ \E c \in Sizes : ResizeWindow(c)
    BY <1>1, <1>7 DEF ReloadCommand, ResizeWindow, Handler, viewVars, chanVars, shellVars
  <1>8. CASE Output \/ ReadAck \/ PrintPrompt \/ Reprint
    BY <1>1, <1>8 DEF Output, ReadAck, PrintPrompt, Reprint, Shell, loopVars, viewVars
  <1>9. CASE (\E d \in Cwds : Done(d)) \/ Interrupt \/ Winch
    <2>1. UNCHANGED <<batch, mode, keymap, epc>>
      BY <1>9 DEF Done, Precmd, Interrupt, Winch, Shell, loopVars, viewVars
    <2>2. \/ announce' = announce
          \/ announce' = Append(announce, [kind |-> "r"])
          \/ \E d \in Cwds : announce' = Append(announce, [kind |-> "h", cwd |-> d, id |-> histcmd + 1])
      BY <1>9 DEF Done, Precmd, Interrupt, Winch, TypeOK
    <2>3. /\ [kind |-> "r"] \in Announcements
          /\ \A d \in Cwds : [kind |-> "h", cwd |-> d, id |-> histcmd + 1] \in Announcements
      BY DEF Announcements, TypeOK
    <2> QED  BY <1>1, <2>1, <2>2, <2>3, OtherReport
  <1>10. CASE LineInit \/ ReadKey
    <2>1. UNCHANGED <<batch, mode, epc>>
      BY <1>10 DEF LineInit, ReadKey, Shell, loopVars, viewVars
    <2>2. UNCHANGED <<announce, keymap>> \/ \E mo \in Modes : Keymap(mo)
      BY <1>10 DEF LineInit, ReadKey, Insert, Modes
    <2> QED  BY <1>1, <2>1, <2>2, KeymapReport
  <1>11. CASE (\E k \in Keys : PressKey(k)) \/ UNCHANGED vars
    BY <1>1, <1>11 DEF PressKey, vars, loopVars, viewVars, chanVars, shellVars
  <1> QED
    BY <1>2, <1>3, <1>4, <1>5, <1>6, <1>7, <1>8, <1>9, <1>10, <1>11 DEF Next, Loop, Hooks

\* The directory of the loop is the one of the prompt that was announced, answered or
\* printed last (engine.rs, the `h` handler).
LEMMA CwdKept == TypeOK /\ Handshake /\ CwdIsAnnounced /\ [Next]_vars => CwdIsAnnounced'
  <1> SUFFICES ASSUME TypeOK, Handshake, CwdIsAnnounced, [Next]_vars
               PROVE  CwdIsAnnounced'
    OBVIOUS
  <1>1. /\ \A i \in DOMAIN announce : AnnouncedAt(announce, i) => announce[i].cwd = shcwd
        /\ \A i \in DOMAIN batch : AnnouncedAt(batch, i) => batch[i].cwd = shcwd
        /\ ack # None \/ shpc \in {"print", "init", "edit", "reprint"} => cwd = shcwd
    BY DEF CwdIsAnnounced
  <1>2. ASSUME UNCHANGED <<cwd, shcwd, batch>>,
               \A i \in DOMAIN announce' : AnnouncedAt(announce', i) =>
                   AnnouncedAt(announce, i) /\ announce'[i] = announce[i],
               ack' # None \/ shpc' \in {"print", "init", "edit", "reprint"} =>
                   ack # None \/ shpc \in {"print", "init", "edit", "reprint"}
        PROVE  CwdIsAnnounced'
    <2>1. \A i \in DOMAIN announce' : AnnouncedAt(announce', i) => announce'[i].cwd = shcwd
      BY <1>1, <1>2 DEF AnnouncedAt
    <2> QED  BY <1>1, <1>2, <2>1 DEF CwdIsAnnounced, AnnouncedAt
  <1>3. ASSUME UNCHANGED <<cwd, shcwd, batch, announce, ack, shpc>>
        PROVE  CwdIsAnnounced'
    BY <1>2, <1>3
  <1>4. CASE Reload \/ Resize \/ Probe \/ Poll
    BY <1>3, <1>4 DEF Reload, LoadTheme, GW!Respawn, Resize, Probe, Poll, loopVars, viewVars,
                      gitVars, chanVars, shellVars
  <1>5. CASE ReadStdin \/ (\E n \in 1..Len(pty) : ReadPty(n)) \/ Deferred
    BY <1>3, <1>5 DEF ReadStdin, ReadPty, Deferred, gitVars, chanVars, shellVars
  <1>6. CASE Results
    BY <1>3, <1>6 DEF Results, GW!ReceiveResult, loopVars, chanVars, shellVars
  <1>7. CASE Drain
    BY <1>1, <1>7 DEF Drain, CwdIsAnnounced, AnnouncedAt, gitVars, shellVars
  <1>8. CASE Messages
    <2> DEFINE m == Head(batch)
    <2>1. /\ batch # <<>> /\ batch' = Tail(batch) /\ UNCHANGED <<announce, shpc, shcwd>>
          /\ HandleHeader(m) \/ UNCHANGED <<cwd, ack>>
      BY <1>8 DEF Messages, HandleHeader, HandleResize, HandleVimMode, Message, gitVars
    <2>2. batch \in Seq(Announcements)
      BY DEF TypeOK
    <2>3. /\ m = batch[1] /\ 1 \in DOMAIN batch
          /\ \A i \in DOMAIN batch' : i + 1 \in DOMAIN batch /\ batch'[i] = batch[i + 1]
      BY <2>1, <2>2, Shifted
    <2>4. HandleHeader(m) => cwd' = shcwd
      <3> SUFFICES ASSUME HandleHeader(m)
                   PROVE  cwd' = shcwd
        OBVIOUS
      <3>1. AnnouncedAt(batch, 1) /\ cwd' = m.cwd
        BY <2>3 DEF HandleHeader, GW!SendRequest, AnnouncedAt
      <3> QED  BY <3>1, <2>3, <1>1
    <2>5. \A i \in DOMAIN batch' : AnnouncedAt(batch', i) => batch'[i].cwd = shcwd
      BY <2>3, <1>1 DEF AnnouncedAt
    <2> HIDE DEF m
    <2> QED  BY <1>1, <2>1, <2>4, <2>5 DEF CwdIsAnnounced, AnnouncedAt
  <1>9. CASE (\E w \in GW!Workers : WorkerTake(w) \/ WorkerFinish(w)) \/ Wake \/ Clock
    BY <1>3, <1>9 DEF WorkerTake, GW!Take, WorkerFinish, GW!Finish, Wake, Clock, loopVars,
                      viewVars, gitVars, chanVars, shellVars
  <1>10. CASE ReloadCommand \/ \E c \in Sizes : ResizeWindow(c)
    BY <1>3, <1>10 DEF ReloadCommand, ResizeWindow, viewVars, gitVars, chanVars, shellVars
  <1>11. CASE \E d \in Cwds : Done(d)
    <2>1. PICK d \in Cwds : Done(d)
      BY <1>11
    <2> DEFINE m == [kind |-> "h", cwd |-> d, id |-> histcmd + 1]
    <2>2. /\ shpc = "exec" /\ shpc' = "await" /\ announce' = Append(announce, m) /\ shcwd' = d
          /\ UNCHANGED <<batch, ack>>
      BY <2>1 DEF Done, Precmd, Shell, loopVars
    <2>3. /\ ack = None
          /\ \A i \in DOMAIN announce : ~AnnouncedAt(announce, i)
          /\ \A i \in DOMAIN batch : ~AnnouncedAt(batch, i)
      BY <2>2 DEF Handshake, OneAnnounced, OneAckPerPrompt
    <2>4. m \in Announcements
      BY DEF Announcements, TypeOK
    <2>5. \A i \in DOMAIN announce' : AnnouncedAt(announce', i) => announce'[i] = m
      BY <2>2, <2>3, <2>4, Appended DEF AnnouncedAt, TypeOK
    <2> QED  BY <2>2, <2>3, <2>5 DEF CwdIsAnnounced, AnnouncedAt
  <1>12. CASE Output \/ ReadAck \/ PrintPrompt \/ Reprint
    BY <1>2, <1>12 DEF Output, ReadAck, PrintPrompt, Reprint, Shell, loopVars, gitVars
  <1>13. CASE LineInit \/ ReadKey \/ Winch
    <2>1. UNCHANGED <<cwd, shcwd, batch, ack>>
      BY <1>13 DEF LineInit, ReadKey, Winch, Shell, loopVars, gitVars
    <2>2. shpc' = shpc \/ shpc \in {"init", "edit"}
      BY <1>13 DEF LineInit, ReadKey, Winch
    <2>3. \/ announce' = announce
          \/ announce' = Append(announce, [kind |-> "r"])
          \/ \E mo \in Modes : announce' = Append(announce, [kind |-> "v", mode |-> mo])
      BY <1>13 DEF LineInit, ReadKey, Winch, Keymap, Insert, Modes
    <2>4. /\ [kind |-> "r"] \in Announcements
          /\ \A mo \in Modes : [kind |-> "v", mode |-> mo] \in Announcements
      BY DEF Announcements
    <2>5. \A i \in DOMAIN announce' : AnnouncedAt(announce', i) =>
              AnnouncedAt(announce, i) /\ announce'[i] = announce[i]
      BY <2>3, <2>4, OtherAnnouncement
    <2> QED  BY <1>2, <2>1, <2>2, <2>5
  <1>14. CASE (\E k \in Keys : PressKey(k)) \/ UNCHANGED vars
    BY <1>3, <1>14 DEF PressKey, vars, loopVars, viewVars, gitVars, chanVars, shellVars
  <1> QED
    BY <1>4, <1>5, <1>6, <1>7, <1>8, <1>9, <1>10, <1>11, <1>12, <1>13, <1>14
    DEF Next, Loop, Hooks, Interrupt, Handshake

----------------------------------------------------------------------------
(* The git part. *)

\* Both instances of GitWorker mean the same answer.
LEMMA SameAnswer ==
    /\ GP!AnswerIsInUse <=> GW!AnswerIsInUse
    /\ GP!AnswerIsInUse' <=> GW!AnswerIsInUse'
  BY DEF GP!AnswerIsInUse, GW!AnswerIsInUse, GP!Outstanding, GW!Outstanding, GP!Workers, GW!Workers,
         GP!QueuedAt, GW!QueuedAt, GP!WorkedOnBy, GW!WorkedOnBy, GP!AnsweredAt, GW!AnsweredAt

\* No step of the engine loses an answer.
LEMMA AnswerKept == TypeOK /\ GW!GitInv /\ GW!AnswerIsInUse /\ [Next]_vars => GW!AnswerIsInUse'
  <1>1. GP!GitInv /\ GP!AnswerIsInUse /\ [GP!Next]_(GP!gitVars) => GP!AnswerIsInUse'
    BY GP!AnswerIsKept, EngineAssumption DEF GP!GitRequest, GW!GitRequest, GP!Status, GW!Status
  <1> QED  BY <1>1, SameAnswer, SameInv, SameNext, GitSteps

\* Repositories change only where GitWorker is used by itself.
LEMMA ReposKept == TypeOK /\ ReposAreStill /\ [Next]_vars => ReposAreStill'
  <1> SUFFICES ASSUME TypeOK, ReposAreStill, [Next]_vars
               PROVE  ReposAreStill'
    OBVIOUS
  <1>1. ASSUME UNCHANGED gitVars
        PROVE  ReposAreStill'
    BY <1>1 DEF ReposAreStill, gitVars
  <1>2. CASE Messages
    <2> DEFINE m == Head(batch)
    <2>1. CASE HandleHeader(m)
      <3>1. m \in Announcements
        BY <1>2, FirstOfBatch DEF TypeOK, Messages
      <3>2. m.cwd \in Cwds
        BY <2>1, <3>1 DEF HandleHeader, Announcements
      <3> QED  BY <2>1, <3>2 DEF HandleHeader, GW!SendRequest, ReposAreStill
    <2>2. CASE HandleResize(m) \/ HandleVimMode(m)
      BY <1>1, <2>2 DEF HandleResize, HandleVimMode
    <2> QED  BY <1>2, <2>1, <2>2 DEF Messages
  <1>3. CASE Reload \/ Results \/ \E w \in GW!Workers : WorkerTake(w) \/ WorkerFinish(w)
    BY <1>3 DEF Reload, LoadTheme, GW!Respawn, Results, GW!ReceiveResult, WorkerTake, GW!Take,
                WorkerFinish, GW!Finish, ReposAreStill, gitVars
  <1>4. CASE Resize \/ Probe \/ Drain \/ Poll \/ Deferred \/ ReadStdin
    BY <1>1, <1>4 DEF Resize, Probe, Drain, Poll, Deferred, ReadStdin
  <1>5. CASE \E n \in 1..Len(pty) : ReadPty(n)
    BY <1>1, <1>5 DEF ReadPty
  <1>6. CASE Wake \/ ReloadCommand \/ (\E c \in Sizes : ResizeWindow(c)) \/ Clock
    BY <1>1, <1>6 DEF Wake, ReloadCommand, ResizeWindow, Clock
  <1>7. CASE Output \/ (\E d \in Cwds : Done(d)) \/ Hooks
    BY <1>1, <1>7 DEF Output, Done, Hooks, ReadAck, PrintPrompt, LineInit, ReadKey, Interrupt,
                      Winch, Reprint, Shell
  <1>8. CASE (\E k \in Keys : PressKey(k)) \/ UNCHANGED vars
    BY <1>1, <1>8 DEF PressKey, vars
  <1> QED  BY <1>2, <1>3, <1>4, <1>5, <1>6, <1>7, <1>8 DEF Next, Loop

----------------------------------------------------------------------------
(* The size of the window. *)

\* A resize that has not been passed on is noticed: its byte is in the pipe or comes, or the
\* loop looks at the flag before it polls again (wake.rs; engine.rs, run).
LEMMA ResizeSeen == TypeOK /\ ResizeIsSeen /\ [Next]_vars => ResizeIsSeen'
  <1> SUFFICES ASSUME TypeOK, ResizeIsSeen, [Next]_vars
               PROVE  ResizeIsSeen'
    OBVIOUS
  <1> USE DEF ResizeIsSeen
  <1>1. waking \in Nat
    BY DEF TypeOK
  <1>2. ASSUME UNCHANGED <<size, last_size, resize_flag, epc, pipe, waking>>
        PROVE  ResizeIsSeen'
    BY <1>2
  <1>3. CASE Reload \/ Resize
    BY <1>3 DEF Reload, Resize, SyncSize, userVars
  <1>4. CASE Probe \/ Drain
    BY <1>4 DEF Probe, Drain, viewVars, wakeVars, userVars
  <1>5. CASE Messages
    <2>1. PICK m : Message(m)
      BY <1>5 DEF Messages, HandleHeader, HandleResize, HandleVimMode
    <2> QED  BY <2>1 DEF Message, SyncSize, wakeVars, userVars
  <1>6. CASE Poll \/ ReadStdin \/ \E n \in 1..Len(pty) : ReadPty(n)
    <2>1. epc' \in {"stdin", "pty", "results"} /\ UNCHANGED <<size, last_size, resize_flag>>
      BY <1>6 DEF Poll, ReadStdin, ReadPty, Handled, Turn, viewVars, wakeVars, userVars
    <2> QED  BY <2>1
  <1>7. CASE Results \/ Deferred
    BY <1>7 DEF Results, Deferred, loopVars, viewVars, wakeVars, userVars
  <1>8. CASE Wake \/ \E w \in GW!Workers : WorkerTake(w) \/ WorkerFinish(w)
    BY <1>1, <1>8 DEF Wake, WorkerTake, WorkerFinish, WakesOfWorker, loopVars, viewVars, wakeVars,
                      userVars
  <1>9. CASE ReloadCommand \/ \E c \in Sizes : ResizeWindow(c)
    BY <1>1, <1>9 DEF ReloadCommand, ResizeWindow, Handler, WakesOfHandler, viewVars
  <1>10. CASE Clock \/ \E k \in Keys : PressKey(k)
    BY <1>2, <1>10 DEF Clock, PressKey, loopVars, viewVars, wakeVars, userVars
  <1>11. CASE Output \/ (\E d \in Cwds : Done(d)) \/ Hooks
    <2>1. Shell
      BY <1>11 DEF Output, Done, Hooks, ReadAck, PrintPrompt, LineInit, ReadKey, Interrupt, Winch,
                   Reprint
    <2> QED  BY <1>2, <2>1 DEF Shell, loopVars, viewVars, wakeVars, userVars
  <1>12. CASE UNCHANGED vars
    BY <1>2, <1>12 DEF vars, loopVars, viewVars, wakeVars, userVars
  <1> QED
    BY <1>3, <1>4, <1>5, <1>6, <1>7, <1>8, <1>9, <1>10, <1>11, <1>12 DEF Next, Loop

----------------------------------------------------------------------------
(* The header: what the steps of the loop do to it.                        *)

\* What is known of the prompt and of the header above it.
Shown == LoopIsAtPrompt /\ PromptIsPainted /\ HeaderIsKept

\* The statuses a header can show.
LEMMA StatusTyped ==
    ASSUME TypeOK
    PROVE  Vcs \in GW!Status \cup {None} /\ VcsOfCwd \in GW!Status \cup {None}
  BY DEF TypeOK, GW!TypeOK, Vcs, VcsOfCwd

\* What is painted is a header.
LEMMA HeaderTyped ==
    ASSUME TypeOK, NEW t \in Themes, NEW v \in GW!Status \cup {None}, NEW m \in Modes,
           NEW c \in Sizes
    PROVE  Header(t, v, m, c) # None
  <1>1. cwd \in Cwds \cup {None}
    BY DEF TypeOK, GW!TypeOK
  <1>2. Header(t, v, m, c) \in Headers
    BY <1>1 DEF Header, Headers
  <1> QED  BY <1>2, EngineAssumption

\* A new size of the pty is one the shell has not seen.
LEMMA NewSize ==
    ASSUME SyncSize, UNCHANGED <<shell, shpc, trap, pty>>, shell = "zsh" /\ ResizeIsTold => ResizeIsTold'
    PROVE  \A c \in Sizes : WidthIsKept(c) => WidthIsKept(c)'
  BY DEF SyncSize, WidthIsKept, Signalled, SignalAt

\* Steps that may announce something, and change no size.
LEMMA SameSize ==
    ASSUME UNCHANGED <<last_size, winch, trap, shell, shpc, pty>>, ResizeIsTold => ResizeIsTold'
    PROVE  \A c \in Sizes : WidthIsKept(c) => WidthIsKept(c)'
  BY DEF WidthIsKept, Signalled, SignalAt

\* Steps that see none of it, but perhaps the width.
LEMMA UnseenButWidth ==
    ASSUME Shown, term'.header = term.header,
           UNCHANGED <<pty, ptyin, prompt, shell, shpc, theme, mode, cwd, last_vcs, last_header>>,
           \A c \in Sizes : WidthIsKept(c) => WidthIsKept(c)'
    PROVE  Shown'
  <1> USE DEF Shown
  <1>1. AtPrompt' = AtPrompt /\ Signalled' = Signalled /\ \A i : SignalAt(i)' = SignalAt(i)
    BY DEF AtPrompt, Signalled, SignalAt
  <1>2. LoopIsAtPrompt' /\ PromptIsPainted'
    BY <1>1 DEF LoopIsAtPrompt, PromptIsPainted
  <1>3. Vcs' = Vcs /\ VcsOfCwd' = VcsOfCwd
    BY DEF Vcs, VcsOfCwd
  <1>4. HeaderIsKept'
    <2> SUFFICES ASSUME AtPrompt
                 PROVE  \E v \in {Vcs, VcsOfCwd}', c \in Sizes :
                            /\ last_header' = Header(theme, v, mode, c)' /\ WidthIsKept(c)'
                            /\ term'.header \in {last_header', None}
      BY <1>1 DEF HeaderIsKept
    <2>1. PICK v \in {Vcs, VcsOfCwd}, c \in Sizes :
              /\ last_header = Header(theme, v, mode, c) /\ WidthIsKept(c)
              /\ term.header \in {last_header, None}
      BY DEF HeaderIsKept
    <2>2. Header(theme, v, mode, c)' = Header(theme, v, mode, c)
      BY DEF Header
    <2> QED  BY <1>3, <2>1, <2>2
  <1> QED  BY <1>2, <1>4

\* Steps that see none of it at all.
LEMMA UnseenHeader ==
    ASSUME Shown,
           UNCHANGED <<pty, ptyin, prompt, shell, shpc, theme, mode, last_size, cwd, last_vcs, winch, trap,
                       announce, batch, paintVars>>
    PROVE  Shown'
  <1>1. ResizeIsTold' = ResizeIsTold
    BY DEF ResizeIsTold
  <1> QED  BY <1>1, SameSize, UnseenButWidth DEF paintVars

\* A repaint at the prompt, as wide as the pty.
LEMMA RepaintShows ==
    ASSUME Painting, Shown, AtPrompt, UNCHANGED <<pty, ptyin, prompt, shell, shpc>>,
           NEW h, h # None, h.theme.rows = theme.rows, Redraw(h) \/ RedrawAfresh(h),
           \E v \in {Vcs, VcsOfCwd}', c \in Sizes :
               h = Header(theme, v, mode, c)' /\ c = last_size'
    PROVE  Shown'
  <1> USE DEF Shown
  <1>1. term.header \in {last_header, None}
    BY DEF HeaderIsKept
  <1>2. /\ last_header' = h
        /\ RedrawAfresh(h) \/ last_header = term.header => term'.header = h
    BY RepaintFits
  <1>3. term'.header = h \/ (term.header = None /\ term'.header = None)
    <2>1. CASE RedrawAfresh(h)
      BY <1>2, <2>1
    <2>2. CASE Redraw(h) /\ last_header = h
      <3>1. UNCHANGED term
        BY <2>2 DEF Redraw
      <3> QED  BY <1>1, <2>2, <3>1
    <2>3. CASE Redraw(h) /\ last_header # h
      <3>1. RedrawAfresh(h)
        BY <2>3 DEF Redraw, RedrawAfresh
      <3> QED  BY <1>2, <3>1
    <2> QED  BY <2>1, <2>2, <2>3
  <1>4. AtPrompt' = AtPrompt /\ Signalled' = Signalled /\ \A i : SignalAt(i)' = SignalAt(i)
    BY DEF AtPrompt, Signalled, SignalAt
  <1>5. LoopIsAtPrompt' /\ PromptIsPainted'
    BY <1>3, <1>4 DEF LoopIsAtPrompt, PromptIsPainted
  <1>6. HeaderIsKept'
    BY <1>2, <1>3 DEF HeaderIsKept, WidthIsKept
  <1> QED  BY <1>5, <1>6

\* Away from the prompt nothing has to be kept.
LEMMA NoPromptShows ==
    ASSUME Shown, ~AtPrompt, UNCHANGED <<pty, ptyin, prompt, shell, shpc, term>>
    PROVE  Shown'
  <1>1. /\ ~AtPrompt' /\ AtPrompt' = AtPrompt /\ Signalled' = Signalled
        /\ \A i : SignalAt(i)' = SignalAt(i)
    BY DEF AtPrompt, Signalled, SignalAt
  <1> QED  BY <1>1 DEF Shown, LoopIsAtPrompt, PromptIsPainted, HeaderIsKept

\* A reload repaints the prompt with the theme it has taken (load_theme).
LEMMA ReloadShows ==
    ASSUME Calm, TypeOK, Painting, Shown, Reload
    PROVE  Shown'
  <1>1. /\ UNCHANGED <<pty, ptyin, prompt, shell, shpc, mode, last_size, winch, trap, announce, batch>>
        /\ (\E t \in Themes : LoadTheme(t)) \/ UNCHANGED <<theme, gitVars, paintVars>>
    BY DEF Reload, chanVars, shellVars
  <1>2. ASSUME NEW t \in Themes, LoadTheme(t)
        PROVE  Shown'
    <2> DEFINE h == Header(t, Vcs, mode, last_size)
    <2>1. t.rows = theme.rows /\ theme' = t /\ h.theme = t /\ UNCHANGED <<cwd, last_vcs>>
      BY <1>2 DEF Calm, TypeOK, LoadTheme, Header, GW!Respawn
    <2>2. h # None
      BY StatusTyped, HeaderTyped DEF TypeOK
    <2>3. CASE AtPrompt
      <3>1. RedrawAfresh(h)
        BY <1>2, <2>1, <2>3 DEF LoadTheme
      <3>2. h = Header(theme, Vcs, mode, last_size)' /\ last_size' \in Sizes
        BY <1>1, <2>1 DEF Header, Vcs, TypeOK
      <3> HIDE DEF h
      <3> QED  BY <1>1, <2>1, <2>2, <2>3, <3>1, <3>2, RepaintShows
    <2>4. CASE ~AtPrompt
      <3>1. UNCHANGED term
        BY <1>2, <2>4 DEF LoadTheme, paintVars
      <3> QED  BY <1>1, <2>4, <3>1, NoPromptShows
    <2> QED  BY <2>3, <2>4
  <1>3. CASE UNCHANGED <<theme, gitVars, paintVars>>
    BY <1>1, <1>3, UnseenHeader DEF gitVars
  <1> QED  BY <1>1, <1>2, <1>3

\* The announcements of a prompt, of its keymap and of a new size; bash is not repainted for the
\* last, and prints its prompt anew.
LEMMA MessagesShow ==
    ASSUME TypeOK, Handshake, Painting, Shown, Messages
    PROVE  Shown'
  <1> DEFINE m == Head(batch)
  <1>1. /\ batch # <<>> /\ UNCHANGED <<theme, pty, ptyin, shell, shpc, trap, announce>>
        /\ SyncSize /\ last_size' = size
    BY DEF Messages, HandleHeader, HandleResize, HandleVimMode, Message, SyncSize
  <1>2. m = batch[1] /\ 1 \in DOMAIN batch /\ m \in Announcements
    BY <1>1, Shifted, FirstOfBatch DEF TypeOK
  <1>3. ASSUME NEW mo \in Modes, mode' = mo, UNCHANGED <<prompt, gitVars>>, AtPrompt,
               Redraw(Header(theme, Vcs, mo, size)) \/ RedrawAfresh(Header(theme, Vcs, mo, size))
        PROVE  Shown'
    <2> DEFINE h == Header(theme, Vcs, mo, size)
    <2>1. h # None /\ h.theme = theme /\ size \in Sizes
      BY StatusTyped, HeaderTyped DEF TypeOK, Header
    <2>2. h = Header(theme, Vcs, mode, size)' /\ size' = size
      BY <1>1, <1>3 DEF Header, Vcs, gitVars, Messages, HandleHeader, HandleResize, HandleVimMode,
                        Message, userVars
    <2> HIDE DEF h
    <2>3. \E v \in {Vcs, VcsOfCwd}', c \in Sizes : h = Header(theme, v, mode, c)' /\ c = last_size'
      BY <1>1, <2>1, <2>2
    <2> QED  BY <1>1, <1>3, <2>1, <2>3, RepaintShows DEF h
  <1>4. CASE HandleHeader(m)
    <2>1. prompt' = "Running" /\ UNCHANGED term
      BY <1>4 DEF HandleHeader, paintVars
    <2>2. shpc = "await"
      BY <1>2, <1>4 DEF HandleHeader, Handshake, OneAnnounced, AnnouncedAt
    <2>3. ~AtPrompt' /\ Signalled' = Signalled
      BY <1>1, <2>1 DEF AtPrompt, Signalled, SignalAt
    <2> QED  BY <1>1, <2>2, <2>3 DEF Shown, LoopIsAtPrompt, PromptIsPainted, HeaderIsKept
  <1>5. CASE HandleVimMode(m)
    <2>1. UNCHANGED <<prompt, gitVars>> /\ mode' = m.mode /\ m.mode \in Modes
      BY <1>2, <1>5 DEF HandleVimMode, Announcements
    <2>2. CASE AtPrompt
      <3>1. Redraw(Header(theme, Vcs, m.mode, size))
        BY <1>5, <2>2 DEF HandleVimMode
      <3> QED  BY <1>3, <2>1, <2>2, <3>1
    <2>3. CASE ~AtPrompt
      <3>1. UNCHANGED term
        BY <1>5, <2>3 DEF HandleVimMode, paintVars
      <3> QED  BY <1>1, <2>1, <2>3, <3>1, NoPromptShows
    <2> QED  BY <2>2, <2>3
  <1>6. CASE HandleResize(m)
    <2>1. UNCHANGED <<prompt, gitVars, mode>> /\ mode \in Modes
      BY <1>6 DEF HandleResize, TypeOK
    <2>2. CASE AtPrompt /\ shell = "zsh"
      <3>1. RedrawAfresh(Header(theme, Vcs, mode, size))
        BY <1>6, <2>2 DEF HandleResize
      <3> QED  BY <1>3, <2>1, <2>2, <3>1
    <2>3. CASE ~(AtPrompt /\ shell = "zsh")
      <3>1. UNCHANGED paintVars
        BY <1>6, <2>3 DEF HandleResize
      <3>2. CASE ~AtPrompt
        BY <1>1, <2>1, <3>1, <3>2, NoPromptShows DEF paintVars
      <3>3. CASE AtPrompt
        <4>1. \A c \in Sizes : WidthIsKept(c) => WidthIsKept(c)'
          BY <1>1, <2>3, <3>3, NewSize
        <4> QED  BY <1>1, <2>1, <3>1, <4>1, UnseenButWidth DEF gitVars, paintVars
      <3> QED  BY <3>2, <3>3
    <2> QED  BY <2>2, <2>3
  <1> QED  BY <1>4, <1>5, <1>6 DEF Messages

\* A git result is filed and painted: the prompt has its directory by then.
LEMMA ResultsShow ==
    ASSUME TypeOK, CwdIsAnnounced, Painting, Shown, Results
    PROVE  Shown'
  <1> DEFINE r == Head(results)
             h == Header(theme, r.status, mode, last_size)
  <1>1. /\ UNCHANGED <<theme, mode, last_size, pty, ptyin, prompt, shell, shpc, cwd, winch, trap, announce,
                       batch>>
        /\ last_vcs' = IF GW!Accept(r) THEN [cwd |-> cwd, status |-> r.status] ELSE last_vcs
        /\ results # <<>>
    BY DEF Results, GW!ReceiveResult, loopVars, viewVars, chanVars, shellVars
  <1>2. r.status \in GW!Status
    <2>1. r \in GW!GitResult
      BY <1>1, FirstOfBatch DEF TypeOK, GW!TypeOK
    <2> QED  BY <2>1 DEF GW!GitResult
  <1>3. h # None /\ h.theme = theme
    BY <1>2, HeaderTyped DEF TypeOK, Header
  <1>4. CASE AtPrompt /\ GW!Accept(r)
    <2>1. shpc \in {"init", "edit", "reprint"}
      BY <1>4 DEF Shown, LoopIsAtPrompt
    <2>2. cwd \in Cwds
      BY <2>1 DEF CwdIsAnnounced, TypeOK
    <2>3. last_vcs' # None /\ last_vcs'.status = r.status
      <3>1. last_vcs' \in [cwd : Cwds, status : GW!Status]
        BY <1>1, <1>2, <1>4, <2>2
      <3> QED  BY <1>1, <1>4, <3>1, EngineAssumption
    <2>4. h = Header(theme, Vcs, mode, last_size)' /\ last_size' \in Sizes
      BY <1>1, <2>3 DEF Header, Vcs, TypeOK
    <2>5. Redraw(h)
      BY <1>4, <2>2, EngineAssumption DEF Results
    <2> HIDE DEF h
    <2> QED  BY <1>1, <1>3, <1>4, <2>4, <2>5, RepaintShows
  <1>5. CASE ~AtPrompt
    <2>1. UNCHANGED term
      BY <1>5 DEF Results, paintVars
    <2> QED  BY <1>1, <1>5, <2>1, NoPromptShows
  <1>6. CASE ~GW!Accept(r)
    <2>1. UNCHANGED <<last_vcs, paintVars>>
      BY <1>1, <1>6 DEF Results
    <2> QED  BY <1>1, <2>1, UnseenHeader
  <1> QED  BY <1>4, <1>5, <1>6

\* The read that brings a signal paints the header with what is known by then; where the prompt
\* is printed once the signal is the last piece, and the header stays (engine.rs, run).
LEMMA ReadPtyPaintsHeader ==
    ASSUME TypeOK, Painting, Shown, NEW n \in 1..Len(pty), ReadPty(n)
    PROVE  Shown'
  <1> DEFINE h == Header(theme, VcsOfCwd, mode, last_size)
  <1>1. UNCHANGED <<theme, mode, last_size, gitVars, ptyin, shell, shpc, winch, trap, announce, batch>>
    BY DEF ReadPty, shellVars
  <1>2. /\ pty' \in Seq(Pieces) /\ Len(pty') = Len(pty) - n
        /\ \A i \in 1..Len(pty') : pty'[i] = pty[i + n]
        /\ (\A i \in 1..n : ~SignalAt(i)) =>
              UNCHANGED <<prompt, last_header>> /\ term'.header \in {term.header, None}
        /\ (\E i \in 1..n : SignalAt(i)) =>
              /\ prompt' = "Prompt" /\ last_header' = h /\ term'.header \in {last_header', None}
              /\ (\A i \in 1..n : SignalAt(i) => i = n) => term'.header = last_header'
    BY ReadPtyShows
  <1>3. /\ pty \in Seq(Pieces) /\ Len(pty) \in Nat /\ n \in Nat \ {0} /\ n <= Len(pty)
        /\ pty # <<>> /\ DOMAIN pty = 1..Len(pty)
    BY DEF Painting, RowsAreLeft
  <1>4. /\ \A i \in DOMAIN pty' : SignalAt(i)' => SignalAt(i + n) /\ i + n \in DOMAIN pty
        /\ \A i \in 1..n : i \in DOMAIN pty
        /\ DOMAIN pty' = 1..Len(pty')
    BY <1>2, <1>3 DEF SignalAt
  <1>5. h # None /\ h = Header(theme, VcsOfCwd, mode, last_size)' /\ last_size' \in Sizes
    BY <1>1, StatusTyped, HeaderTyped DEF TypeOK, Header, VcsOfCwd, gitVars
  <1> HIDE DEF h
  <1>6. CASE \E i \in 1..n : SignalAt(i)
    <2>1. Signalled
      BY <1>4, <1>6 DEF Signalled
    <2>2. shpc \in {"init", "edit", "reprint"}
      BY <2>1 DEF Shown, LoopIsAtPrompt
    <2>3. AtPrompt' /\ last_header' = h /\ term'.header \in {h, None}
      BY <1>2, <1>6 DEF AtPrompt
    <2>4. LoopIsAtPrompt' /\ HeaderIsKept'
      BY <1>1, <1>5, <2>2, <2>3 DEF Shown, LoopIsAtPrompt, HeaderIsKept, WidthIsKept
    <2>5. ASSUME PrintsOnce
          PROVE  pty' = <<>> /\ term'.header # None
      <3>1. shpc \in {"init", "edit"}
        BY <2>2, <2>5 DEF PrintsOnce, Painting, WindowIsKept
      <3>2. \A i \in DOMAIN pty : SignalAt(i) => i = Len(pty)
        BY <1>3, <2>5, <3>1 DEF Shown, PromptIsPainted
      <3>3. n = Len(pty) /\ \A i \in 1..n : SignalAt(i) => i = n
        <4>1. PICK i \in 1..n : SignalAt(i)
          BY <1>6
        <4>2. i = Len(pty) /\ \A j \in 1..n : SignalAt(j) => j = Len(pty)
          BY <1>4, <3>2, <4>1
        <4>3. Len(pty) \in 1..n
          BY <4>2
        <4>4. n \in Nat /\ Len(pty) \in Nat /\ n <= Len(pty)
          BY <1>3
        <4>5. n = Len(pty)
          BY <4>3, <4>4
        <4> QED  BY <4>2, <4>5
      <3>4. Len(pty') = 0
        <4>1. Len(pty') = n - n /\ n \in Nat
          BY <1>2, <1>3, <3>3
        <4> QED  BY <4>1
      <3>5. term'.header = h
        BY <1>2, <1>6, <3>3
      <3> QED  BY <1>2, <1>5, <3>4, <3>5
    <2> QED  BY <2>4, <2>5 DEF Shown, PromptIsPainted
  <1>7. CASE \A i \in 1..n : ~SignalAt(i)
    <2>1. UNCHANGED <<prompt, last_header>> /\ term'.header \in {term.header, None}
      BY <1>2, <1>7
    <2>2. Signalled' = Signalled
      <3>1. Signalled' => Signalled
        BY <1>4 DEF Signalled
      <3>2. ASSUME NEW i \in DOMAIN pty, SignalAt(i)
            PROVE  i - n \in DOMAIN pty' /\ SignalAt(i - n)'
        <4>1. i \in 1..Len(pty) /\ i > n /\ i - n \in 1..Len(pty') /\ (i - n) + n = i
          BY <1>2, <1>3, <1>7, <3>2
        <4> QED  BY <4>1, <1>2, <1>4, <3>2 DEF SignalAt
      <3>3. Signalled => Signalled'
        BY <3>2 DEF Signalled
      <3> QED  BY <3>1, <3>3 DEF Signalled
    <2>3. AtPrompt' = AtPrompt /\ Vcs' = Vcs /\ VcsOfCwd' = VcsOfCwd
      BY <1>1, <2>1 DEF AtPrompt, Vcs, VcsOfCwd, gitVars
    <2>4. LoopIsAtPrompt'
      BY <1>1, <2>2, <2>3 DEF Shown, LoopIsAtPrompt
    <2>5. HeaderIsKept'
      <3>1. \A c \in Sizes : WidthIsKept(c)' = WidthIsKept(c)
        BY <1>1, <2>2 DEF WidthIsKept, ResizeIsTold
      <3>2. \A v, c : Header(theme, v, mode, c)' = Header(theme, v, mode, c)
        BY <1>1 DEF Header, gitVars
      <3> QED  BY <2>1, <2>3, <3>1, <3>2 DEF Shown, HeaderIsKept
    <2>6. ASSUME PrintsOnce
          PROVE  /\ ~AtPrompt'
                 /\ shpc \in {"init", "edit"} =>
                       /\ pty' # <<>> /\ SignalAt(Len(pty))'
                       /\ \A i \in DOMAIN pty' : SignalAt(i)' => i = Len(pty')
      <3>1. ~AtPrompt'
        BY <1>3, <2>3, <2>6 DEF Shown, PromptIsPainted
      <3> SUFFICES ASSUME shpc \in {"init", "edit"}
                   PROVE  /\ pty' # <<>> /\ SignalAt(Len(pty))'
                          /\ \A i \in DOMAIN pty' : SignalAt(i)' => i = Len(pty')
        BY <3>1
      <3>2. SignalAt(Len(pty)) /\ \A i \in DOMAIN pty : SignalAt(i) => i = Len(pty)
        BY <1>3, <2>6 DEF Shown, PromptIsPainted
      <3>3. n # Len(pty)
        BY <1>3, <1>7, <3>2
      <3>4. pty' # <<>> /\ Len(pty') \in 1..Len(pty') /\ pty'[Len(pty')] = pty[Len(pty)]
        <4>1. Len(pty') \in Nat /\ Len(pty') > 0 /\ Len(pty') + n = Len(pty)
          BY <1>2, <1>3, <3>3
        <4> QED  BY <1>2, <4>1
      <3>5. SignalAt(Len(pty))'
        BY <3>4, <1>4, <3>2 DEF SignalAt
      <3>6. ASSUME NEW i \in DOMAIN pty', SignalAt(i)'
            PROVE  i = Len(pty')
        <4>1. i + n = Len(pty) /\ i \in Nat
          BY <1>4, <3>2, <3>6
        <4> QED  BY <4>1, <1>2, <1>3
      <3> QED  BY <3>4, <3>5, <3>6
    <2>7. PromptIsPainted'
      BY <1>1, <2>6 DEF PromptIsPainted
    <2> QED  BY <2>4, <2>5, <2>7 DEF Shown
  <1> QED  BY <1>6, <1>7

\* Keys end the prompt in the loop only if they end it in the shell.
LEMMA ReadStdinShows ==
    ASSUME Calm, TypeOK, Painting, Shown, ReadStdin
    PROVE  Shown'
  <1>1. stdin \in Seq(Keys) /\ \A i \in DOMAIN stdin : stdin[i] # "interrupt"
    BY DEF Calm, TypeOK
  <1>2. ~Contains(stdin, "interrupt")
    BY <1>1 DEF Contains
  <1>3. /\ UNCHANGED <<theme, mode, last_size, gitVars, pty, shell, shpc, winch, trap, announce, batch,
                       term, last_header>>
        /\ ptyin' = ptyin \o stdin /\ prompt' = PromptAfter(stdin)
    BY <1>2 DEF ReadStdin, paintVars
  <1>4. /\ AtPrompt' => AtPrompt
        /\ AtPrompt => AtPrompt' \/ Contains(stdin, "enter")
    BY <1>3 DEF AtPrompt, PromptAfter
  <1>5. ptyin \in Seq(Keys)
    BY DEF Painting, EnterIsAwaited
  <1>6. Contains(ptyin, "enter") \/ Contains(stdin, "enter") => Contains(ptyin, "enter")'
    <2>1. /\ DOMAIN (ptyin \o stdin) = 1..Len(ptyin) + Len(stdin)
          /\ ptyin \o stdin \in Seq(Keys)
          /\ \A i \in DOMAIN ptyin : (ptyin \o stdin)[i] = ptyin[i]
          /\ \A i \in DOMAIN stdin : (ptyin \o stdin)[Len(ptyin) + i] = stdin[i]
      BY <1>1, <1>5, Followed
    <2>2. /\ \A i \in 1..Len(ptyin) : i \in 1..Len(ptyin') /\ ptyin'[i] = ptyin[i]
          /\ \A i \in 1..Len(stdin) : /\ Len(ptyin) + i \in 1..Len(ptyin')
                                       /\ ptyin'[Len(ptyin) + i] = stdin[i]
      BY <2>1, <1>1, <1>3, <1>5
    <2> QED  BY <2>2 DEF Contains
  <1>7. Signalled' = Signalled /\ \A i : SignalAt(i)' = SignalAt(i)
    BY <1>3 DEF Signalled, SignalAt
  <1>8. LoopIsAtPrompt' /\ PromptIsPainted'
    BY <1>3, <1>4, <1>6, <1>7 DEF Shown, LoopIsAtPrompt, PromptIsPainted
  <1>9. HeaderIsKept'
    <2>1. Vcs' = Vcs /\ VcsOfCwd' = VcsOfCwd
      BY <1>3 DEF Vcs, VcsOfCwd, gitVars
    <2>2. \A c \in Sizes : WidthIsKept(c)' = WidthIsKept(c)
      BY <1>3, <1>7 DEF WidthIsKept, ResizeIsTold
    <2>3. \A v, c : Header(theme, v, mode, c)' = Header(theme, v, mode, c)
      BY <1>3 DEF Header, gitVars
    <2> QED  BY <1>3, <1>4, <2>1, <2>2, <2>3 DEF Shown, HeaderIsKept
  <1> QED  BY <1>8, <1>9 DEF Shown

----------------------------------------------------------------------------
(* The header: what the shell does to it. *)

\* What the loop knows is not changed by the shell, which may announce a new width.
LEMMA ShellKeepsHeader ==
    ASSUME HeaderIsKept, Shell, \A c \in Sizes : AtPrompt /\ WidthIsKept(c) => WidthIsKept(c)'
    PROVE  HeaderIsKept'
  <1>1. AtPrompt' = AtPrompt /\ Vcs' = Vcs /\ VcsOfCwd' = VcsOfCwd /\ UNCHANGED paintVars
    BY DEF AtPrompt, Vcs, VcsOfCwd, Shell, viewVars, gitVars
  <1>2. \A v, c : Header(theme, v, mode, c)' = Header(theme, v, mode, c)
    BY DEF Header, Shell, viewVars, gitVars
  <1> QED  BY <1>1, <1>2 DEF HeaderIsKept, paintVars

\* While the prompt is not printed yet, or its line is over.
LEMMA AwayFromPrompt ==
    ASSUME ~AtPrompt', ~Signalled', shpc' \notin {"init", "edit", "reprint"}
    PROVE  Shown'
  BY DEF Shown, LoopIsAtPrompt, PromptIsPainted, HeaderIsKept

\* The prompt string ends with its signal (templates.rs, the prompt string).
LEMMA PromptSignals ==
    ASSUME Painting, shpc \in {"print", "init", "edit", "reprint"}, pty' = pty \o PromptString
    PROVE  /\ pty' # <<>> /\ SignalAt(Len(pty))' /\ Signalled'
           /\ ~Signalled => \A i \in DOMAIN pty' : SignalAt(i)' => i = Len(pty')
  <1> DEFINE L == Len(pty)
  <1>1. Lines
    BY DEF Painting, Lines
  <1>2. PromptString \in Seq(Pieces) /\ Len(PromptString) = 2 /\ DOMAIN PromptString = 1..2
        /\ PromptString[1].kind = "lead" /\ PromptString[2].kind = "sig"
    BY <1>1 DEF Lines, RowsAreLeft, PromptString, Pieces, Lead, Token
  <1>3. pty \in Seq(Pieces) /\ L \in Nat /\ DOMAIN pty = 1..L
    BY <1>1 DEF Lines, RowsAreLeft
  <1>4. /\ pty \o PromptString \in Seq(Pieces)
        /\ DOMAIN (pty \o PromptString) = 1..Len(pty) + Len(PromptString)
        /\ \A i \in DOMAIN pty : (pty \o PromptString)[i] = pty[i]
        /\ \A i \in DOMAIN PromptString : (pty \o PromptString)[Len(pty) + i] = PromptString[i]
    <2> DEFINE piece == PromptString
    <2>1. piece \in Seq(Pieces) /\ pty \in Seq(Pieces)
      BY <1>2, <1>3
    <2> HIDE DEF piece
    <2>2. /\ pty \o piece \in Seq(Pieces)
          /\ DOMAIN (pty \o piece) = 1..Len(pty) + Len(piece)
          /\ \A i \in DOMAIN pty : (pty \o piece)[i] = pty[i]
          /\ \A i \in DOMAIN piece : (pty \o piece)[Len(pty) + i] = piece[i]
      BY <2>1, Followed
    <2> QED
      BY <2>2 DEF piece
  <1>5. /\ pty' \in Seq(Pieces) /\ DOMAIN pty' = 1..L + 2 /\ Len(pty') = L + 2
        /\ \A i \in 1..L : pty'[i] = pty[i]
        /\ pty'[L + 1].kind = "lead" /\ pty'[L + 2].kind = "sig"
    <2>1. 1 \in DOMAIN PromptString /\ 2 \in DOMAIN PromptString
      BY <1>2
    <2> QED  BY <1>2, <1>3, <1>4, <2>1
  <1>6. pty' # <<>> /\ SignalAt(Len(pty))' /\ Len(pty') \in DOMAIN pty'
    BY <1>3, <1>5 DEF SignalAt
  <1>7. ~Signalled => \A i \in DOMAIN pty' : SignalAt(i)' => i = Len(pty')
    BY <1>3, <1>5 DEF Signalled, SignalAt
  <1> QED  BY <1>6, <1>7 DEF Signalled

\* The prompt is printed, or printed again: the signal behind it brings the loop to it.
LEMMA PrintingShows ==
    ASSUME TypeOK, Painting, Shown, Shell, pty' = pty \o PromptString, UNCHANGED ptyin,
           \/ shpc = "print" /\ shpc' = (IF shell = "zsh" THEN "init" ELSE "edit")
           \/ shpc \in {"edit", "reprint"} /\ shpc' = "edit" /\ ~PrintsOnce
    PROVE  Shown'
  <1>1. /\ pty' # <<>> /\ SignalAt(Len(pty))' /\ Signalled'
        /\ ~Signalled => \A i \in DOMAIN pty' : SignalAt(i)' => i = Len(pty')
    BY PromptSignals
  <1>2. AtPrompt' = AtPrompt /\ UNCHANGED shell
    BY DEF AtPrompt, Shell, viewVars
  <1>3. HeaderIsKept'
    BY <1>1, ShellKeepsHeader DEF Shown, WidthIsKept
  <1>4. LoopIsAtPrompt'
    BY <1>1, <1>2 DEF LoopIsAtPrompt
  <1>5. PromptIsPainted'
    <2> SUFFICES ASSUME PrintsOnce
                 PROVE  ~AtPrompt /\ ~Signalled
      BY <1>1, <1>2 DEF PromptIsPainted
    <2>1. shpc = "print"
      OBVIOUS
    <2> QED  BY <2>1 DEF Shown, LoopIsAtPrompt
  <1> QED  BY <1>3, <1>4, <1>5 DEF Shown

\* Between prompt and Enter the shell reports, or takes keys, and prints nothing.
LEMMA EditingShows ==
    ASSUME Shown, Shell, UNCHANGED <<pty, winch, trap>>, shpc \in {"init", "edit"}, shpc' = "edit",
           ResizeIsTold => ResizeIsTold', Contains(ptyin, "enter") => Contains(ptyin, "enter")'
    PROVE  Shown'
  <1>1. /\ AtPrompt' = AtPrompt /\ Signalled' = Signalled /\ (\A i : SignalAt(i)' = SignalAt(i))
        /\ UNCHANGED <<shell, term, last_size>>
    BY DEF AtPrompt, Signalled, SignalAt, Shell, viewVars, paintVars
  <1>2. HeaderIsKept'
    BY <1>1, ShellKeepsHeader DEF Shown, WidthIsKept
  <1>3. LoopIsAtPrompt' /\ PromptIsPainted'
    BY <1>1 DEF Shown, LoopIsAtPrompt, PromptIsPainted
  <1> QED  BY <1>2, <1>3 DEF Shown

\* What has been told stays told when more is announced.
LEMMA ToldStays ==
    ASSUME TypeOK, NEW m \in Announcements, announce' = Append(announce, m), UNCHANGED batch
    PROVE  ResizeIsTold => ResizeIsTold'
  <1>1. announce \in Seq(Announcements)
    BY DEF TypeOK
  <1>2. \A i \in DOMAIN announce : i \in DOMAIN announce' /\ announce'[i] = announce[i]
    BY <1>1
  <1> QED  BY <1>2 DEF ResizeIsTold

\* A key that leaves the prompt as it is, one that prints it again, and Enter, which ends it.
LEMMA ReadKeyShows ==
    ASSUME Calm, TypeOK, Painting, Shown, ReadKey
    PROVE  Shown'
  <1> DEFINE key == Head(ptyin)
  <1>1. /\ shpc = "edit" /\ ptyin # <<>> /\ ptyin' = Tail(ptyin) /\ UNCHANGED <<prompt, winch, batch>>
        /\ Shell
    BY DEF ReadKey, Shell, viewVars, loopVars
  <1>2. ptyin \in Seq(Keys)
    BY DEF Painting, EnterIsAwaited
  <1>3. key = ptyin[1] /\ 1 \in DOMAIN ptyin /\ key \in Keys
    BY <1>1, <1>2, FirstOfBatch
  <1>4. key # "long"
    BY <1>3 DEF Calm
  <1>5. CASE key = "enter"
    <2>1. pty = <<>> /\ prompt = "Running"
      BY <1>3, <1>5 DEF Painting, EnterIsAwaited
    <2>2. pty' = <<Token("out")>> /\ shpc' = "exec"
      BY <1>5, <2>1 DEF ReadKey
    <2>3. ~AtPrompt' /\ ~Signalled'
      BY <1>1, <2>1, <2>2 DEF AtPrompt, Signalled, SignalAt, Token
    <2> QED  BY <2>2, <2>3, AwayFromPrompt
  <1>6. key # "enter" => (Contains(ptyin, "enter") => Contains(ptyin, "enter")')
    <2> SUFFICES ASSUME key # "enter", NEW i \in 1..Len(ptyin), ptyin[i] = "enter"
                 PROVE  \E j \in 1..Len(ptyin') : ptyin'[j] = "enter"
      BY DEF Contains
    <2>1. i # 1
      BY <1>3
    <2>2. i - 1 \in 1..Len(Tail(ptyin)) /\ Tail(ptyin)[i - 1] = ptyin[i]
      BY <1>1, <1>2, <2>1
    <2> QED  BY <2>2, <1>1
  <1>7. CASE key = "redraw"
    <2>1. pty' = pty \o PromptString /\ UNCHANGED shpc
      BY <1>7 DEF ReadKey
    <2>2. ~PrintsOnce
      BY <1>3, <1>7 DEF PrintsOnce
    <2>3. \A i \in DOMAIN ptyin : ptyin[i] # "enter"
      BY <1>2, <1>3, <1>7 DEF Calm
    <2>4. ~Contains(ptyin, "enter") 
      BY <1>2, <2>3 DEF Contains
    <2>5. /\ pty' # <<>> /\ SignalAt(Len(pty))' /\ Signalled'
      BY <1>1, <2>1, PromptSignals
    <2>6. HeaderIsKept'
      BY <1>1, <2>5, ShellKeepsHeader DEF Shown, WidthIsKept
    <2>7. LoopIsAtPrompt' /\ PromptIsPainted'
      BY <1>1, <2>1, <2>2, <2>5 DEF LoopIsAtPrompt, PromptIsPainted
    <2> QED  BY <2>6, <2>7 DEF Shown
  <1>8. CASE key \notin {"enter", "redraw"}
    <2>1. UNCHANGED <<pty, shpc, trap>> /\ (UNCHANGED announce \/ Keymap("vicmd"))
      BY <1>4, <1>8 DEF ReadKey
    <2>2. [kind |-> "v", mode |-> "vicmd"] \in Announcements
      BY DEF Announcements, Modes
    <2>3. ResizeIsTold => ResizeIsTold'
      <3>1. CASE UNCHANGED announce
        BY <1>1, <3>1 DEF ResizeIsTold
      <3>2. CASE Keymap("vicmd")
        BY <1>1, <2>2, <3>2, ToldStays DEF Keymap
      <3> QED  BY <2>1, <3>1, <3>2
    <2> HIDE DEF key
    <2> QED  BY <1>1, <1>6, <1>8, <2>1, <2>3, EditingShows
  <1> QED  BY <1>5, <1>7, <1>8

\* The shell tells of the new size, and an editor prints its prompt for it (TRAPWINCH).
LEMMA WinchShows ==
    ASSUME TypeOK, Painting, Shown, Winch
    PROVE  Shown'
  <1>1. /\ winch /\ UNCHANGED <<pty, ptyin>> /\ Shell
        /\ shpc' = IF last_size # trap.cols /\ shpc = "edit" THEN "reprint" ELSE shpc
    BY DEF Winch
  <1>2. /\ AtPrompt' = AtPrompt /\ Signalled' = Signalled
        /\ UNCHANGED <<shell, last_size, batch, last_header, term, theme, mode>>
        /\ Vcs' = Vcs /\ VcsOfCwd' = VcsOfCwd /\ \A v, c : Header(theme, v, mode, c)' = Header(theme, v, mode, c)
    BY <1>1 DEF AtPrompt, Signalled, SignalAt, Shell, viewVars, loopVars, paintVars, gitVars,
                Vcs, VcsOfCwd, Header
  <1>3. ASSUME last_size # trap.cols
        PROVE  HeaderIsKept'
    <2> DEFINE m == [kind |-> "r"]
    <2>1. announce \in Seq(Announcements) /\ m \in Announcements /\ announce' = Append(announce, m)
      BY <1>3 DEF TypeOK, Announcements, Winch
    <2>2. Len(announce) + 1 \in DOMAIN announce' /\ announce'[Len(announce) + 1] = m
      BY <2>1
    <2>3. ResizeIsTold'
      BY <2>2 DEF ResizeIsTold
    <2>4. trap'.missed = trap.missed
      BY <1>3 DEF Winch, TypeOK
    <2>5. AtPrompt => shell = "zsh" \/ shpc' = "reprint"
      BY <1>1, <1>3, EngineAssumption DEF Shown, LoopIsAtPrompt, TypeOK
    <2> QED
      BY <1>1, <1>2, <2>3, <2>4, <2>5, ShellKeepsHeader DEF Shown, WidthIsKept
  <1>4. ASSUME last_size = trap.cols
        PROVE  HeaderIsKept'
    <2>1. trap'.missed = (trap.missed \/ (last_header # None /\ last_header.cols # last_size))
          /\ UNCHANGED <<announce, shpc>>
      BY <1>4 DEF Winch, TypeOK
    <2> SUFFICES ASSUME AtPrompt
                 PROVE  HeaderIsKept'
      BY <1>2 DEF HeaderIsKept
    <2>2. PICK v \in {Vcs, VcsOfCwd}, c \in Sizes :
             last_header = Header(theme, v, mode, c) /\ term.header \in {last_header, None}
      BY DEF Shown, HeaderIsKept
    <2>3. last_header # None /\ last_header.cols = c
      <3>1. v \in GW!Status \cup {None} /\ theme \in Themes /\ mode \in Modes
        BY StatusTyped DEF TypeOK
      <3> QED
        BY <2>2, <3>1, HeaderTyped DEF Header
    <2>4. c = last_size' \/ trap'.missed
      BY <1>2, <2>1, <2>3
    <2> QED
      BY <1>2, <2>2, <2>4 DEF HeaderIsKept, WidthIsKept
  <1>5. HeaderIsKept'
    BY <1>3, <1>4
  <1>6. LoopIsAtPrompt'
    BY <1>1, <1>2 DEF Shown, LoopIsAtPrompt
  <1>7. ~PrintsOnce
    BY <1>1 DEF PrintsOnce, Painting, WindowIsKept
  <1> QED  BY <1>5, <1>6, <1>7 DEF Shown, PromptIsPainted

\* Every step of the shell.
LEMMA ShellShows ==
    ASSUME Calm, TypeOK, Handshake, Painting, Shown,
           Output \/ (\E d \in Cwds : Done(d)) \/ Hooks
    PROVE  Shown'
  <1>1. Shell
    BY DEF Output, Done, Hooks, ReadAck, PrintPrompt, LineInit, ReadKey, Interrupt, Winch, Reprint
  <1>2. AtPrompt' = AtPrompt
    BY <1>1 DEF Shell, viewVars, AtPrompt
  <1>3. ~Interrupt
    BY DEF Interrupt, Handshake
  <1>4. CASE Output
    <2>1. shpc = "exec" /\ shpc' = "exec" /\ pty' = Append(pty, Token("out"))
      BY <1>4 DEF Output
    <2>2. pty \in Seq(Pieces) /\ Token("out") \in Pieces
      BY DEF Painting, RowsAreLeft, Pieces, Token
    <2>3. ~AtPrompt /\ ~Signalled
      BY <2>1 DEF Shown, LoopIsAtPrompt
    <2>4. \A i \in DOMAIN pty' : \/ i \in DOMAIN pty /\ pty'[i] = pty[i]
                                 \/ pty'[i] = Token("out")
      BY <2>1, <2>2, Appended
    <2>5. ~Signalled'
      BY <2>3, <2>4 DEF Signalled, SignalAt, Token
    <2> QED  BY <1>2, <2>1, <2>3, <2>5, AwayFromPrompt
  <1>5. CASE (\E d \in Cwds : Done(d)) \/ ReadAck
    <2>1. shpc \in {"exec", "await"} /\ shpc' \in {"await", "print"} /\ UNCHANGED pty
      BY <1>5 DEF Done, Precmd, ReadAck
    <2>2. ~AtPrompt' /\ ~Signalled'
      BY <1>2, <2>1 DEF Shown, LoopIsAtPrompt, Signalled, SignalAt
    <2> QED  BY <2>1, <2>2, AwayFromPrompt
  <1>6. CASE LineInit
    <2>1. /\ shpc = "init" /\ shpc' = "edit" /\ Keymap(Insert) /\ UNCHANGED <<pty, ptyin, winch, trap, batch>>
      BY <1>1, <1>6 DEF LineInit, Shell, loopVars
    <2>2. [kind |-> "v", mode |-> Insert] \in Announcements
      BY DEF Announcements, Modes, Insert
    <2>3. ResizeIsTold => ResizeIsTold'
      BY <2>1, <2>2, ToldStays DEF Keymap
    <2>4. Contains(ptyin, "enter")' = Contains(ptyin, "enter")
      BY <2>1
    <2> QED  BY <1>1, <2>1, <2>3, <2>4, EditingShows
  <1>7. CASE PrintPrompt \/ Reprint
    <2>1. /\ pty' = pty \o PromptString /\ UNCHANGED ptyin
          /\ \/ shpc = "print" /\ shpc' = (IF shell = "zsh" THEN "init" ELSE "edit")
             \/ shpc = "reprint" /\ shpc' = "edit"
      BY <1>7 DEF PrintPrompt, Reprint
    <2>2. shpc = "reprint" => ~PrintsOnce
      BY DEF PrintsOnce, Painting, WindowIsKept
    <2> QED  BY <1>1, <2>1, <2>2, PrintingShows
  <1> QED  BY <1>3, <1>4, <1>5, <1>6, <1>7, ReadKeyShows, WinchShows DEF Hooks

----------------------------------------------------------------------------

\* Nothing is at the prompt or on its way to it at the start.
LEMMA PaintedInit == Init => PaintedInv
  <1> SUFFICES ASSUME Init
               PROVE  PaintedInv
    OBVIOUS
  <1>1. LoopIsAtPrompt /\ PromptIsPainted /\ HeaderIsKept /\ ResizeIsSeen
    BY DEF Init, LoopIsAtPrompt, PromptIsPainted, HeaderIsKept, ResizeIsSeen, AtPrompt, Signalled,
           SignalAt
  <1>2. KeymapIsReported /\ CwdIsAnnounced
    BY DEF Init, KeymapIsReported, CwdIsAnnounced, AnnouncedAt, Newest, Silent
  <1>3. ReposAreStill /\ GW!AnswerIsInUse
    BY DEF Init, GW!Init, ReposAreStill, GW!AnswerIsInUse
  <1> QED  BY <1>1, <1>2, <1>3 DEF PaintedInv

\* No step takes the header of the moment off the prompt.
LEMMA PaintedNext ==
    ASSUME Calm, TypeOK, GW!GitInv, Handshake, Painting, PaintedInv, [Next]_vars
    PROVE  PaintedInv'
  <1>1. Shown /\ CwdIsAnnounced /\ KeymapIsReported
    BY DEF Shown, PaintedInv
  <1>2. Shown'
    <2>1. CASE Reload \/ Messages \/ ReadStdin \/ Results
      BY <1>1, <2>1, ReloadShows, MessagesShow, ReadStdinShows, ResultsShow
    <2>2. CASE \E n \in 1..Len(pty) : ReadPty(n)
      BY <1>1, <2>2, ReadPtyPaintsHeader
    <2>3. CASE Resize
      <3>1. /\ SyncSize
            /\ UNCHANGED <<pty, ptyin, prompt, shell, shpc, trap, theme, mode, gitVars, announce,
                           batch, paintVars>>
        BY <2>3 DEF Resize, chanVars
      <3>2. ResizeIsTold' = ResizeIsTold
        BY <3>1 DEF ResizeIsTold
      <3> QED  BY <1>1, <3>1, <3>2, NewSize, UnseenButWidth DEF gitVars, paintVars
    <2>4. CASE Drain
      <3>1. /\ epc = "drain" /\ batch' = announce
            /\ UNCHANGED <<pty, ptyin, viewVars, gitVars, shellVars, paintVars>>
        BY <2>4 DEF Drain
      <3>2. batch = <<>>
        BY <1>1, <3>1 DEF KeymapIsReported
      <3>3. ResizeIsTold => ResizeIsTold'
        BY <3>1, <3>2 DEF ResizeIsTold
      <3> QED
        BY <1>1, <3>1, <3>3, SameSize, UnseenButWidth DEF viewVars, gitVars, shellVars, paintVars
    <2>5. CASE Deferred
      <3>1. /\ term'.header = term.header
            /\ UNCHANGED <<prompt, theme, mode, last_size, last_header, gitVars, chanVars, shellVars,
                           batch>>
        BY <2>5 DEF Deferred, Painting, RowsAreLeft
      <3>2. ResizeIsTold' = ResizeIsTold
        BY <3>1 DEF ResizeIsTold, chanVars
      <3> QED  BY <1>1, <3>1, <3>2, SameSize, UnseenButWidth DEF gitVars, chanVars, shellVars
    <2>6. CASE Probe \/ Poll \/ Wake \/ Clock
      BY <1>1, <2>6, UnseenHeader DEF Probe, Poll, Wake, Clock, loopVars, viewVars, gitVars, chanVars,
                                      shellVars
    <2>7. CASE \E w \in GW!Workers : WorkerTake(w) \/ WorkerFinish(w)
      BY <1>1, <2>7, UnseenHeader DEF WorkerTake, GW!Take, WorkerFinish, GW!Finish, loopVars, viewVars,
                                      gitVars, chanVars, shellVars
    <2>8. CASE ReloadCommand \/ \E c \in Sizes : ResizeWindow(c)
      BY <1>1, <2>8, UnseenHeader DEF ReloadCommand, ResizeWindow, viewVars, gitVars, chanVars, shellVars
    <2>9. CASE Output \/ (\E d \in Cwds : Done(d)) \/ Hooks
      BY <1>1, <2>9, ShellShows
    <2>10. CASE (\E k \in Keys : PressKey(k)) \/ UNCHANGED vars
      BY <1>1, <2>10, UnseenHeader DEF PressKey, vars, loopVars, viewVars, gitVars, chanVars, shellVars
    <2> QED
      BY <2>1, <2>2, <2>3, <2>4, <2>5, <2>6, <2>7, <2>8, <2>9, <2>10 DEF Next, Loop
  <1>3. ResizeIsSeen' /\ KeymapIsReported' /\ CwdIsAnnounced' /\ ReposAreStill' /\ GW!AnswerIsInUse'
    BY ResizeSeen, KeymapKept, CwdKept, ReposKept, AnswerKept DEF PaintedInv
  <1> QED  BY <1>2, <1>3 DEF Shown, PaintedInv

\* The invariant of a calm session: rows, handshake, git part, and what the header rests on,
\* with the way each new width takes to the header: by the loop's flag, by the report of the
\* shell or by its prompt printed again, or by none, if the trap has missed a change there and
\* back around a paint (engine.rs, run; templates.rs, TRAPWINCH).
THEOREM CalmInvariant ==
    ASSUME Calm
    PROVE  Spec => []CalmInv
  <1>1. Calm /\ "interrupt" \notin Keys
    BY DEF Calm
  <1>2. EngineInv /\ Painting /\ PaintedInv /\ [Next]_vars => PaintedInv'
    BY PaintedNext DEF EngineInv
  <1> QED
    BY <1>1, <1>2, PaintedInit, EngineInvariant, PaintsStayOnTheirRows, PTL DEF Spec, CalmInv

\* When the shell waits for a key and nothing is on its way, the loop is at the prompt, with the
\* size of the window.
LEMMA SettledAtPrompt ==
    ASSUME Painting, PaintedInv, Settled
    PROVE  /\ AtPrompt /\ cwd = shcwd /\ mode = keymap /\ size = last_size
           /\ \A c \in Sizes : WidthIsKept(c) => c = last_size \/ trap.missed
           /\ PrintsOnce => term.header # None
  <1>1. /\ pty = <<>> /\ announce = <<>> /\ shpc = "edit" /\ ptyin = <<>> /\ epc = "poll"
        /\ ~pipe /\ waking = 0 /\ ~winch
    BY DEF Settled, Readable
  <1>2. ~Contains(ptyin, "enter") /\ ~Signalled
    BY <1>1 DEF Contains, Signalled
  <1>3. AtPrompt
    BY <1>1, <1>2 DEF PaintedInv, LoopIsAtPrompt
  <1>4. batch = <<>>
    BY <1>1 DEF PaintedInv, KeymapIsReported
  <1>5. mode = keymap
    BY <1>1, <1>4 DEF PaintedInv, KeymapIsReported, Silent
  <1>6. cwd = shcwd
    BY <1>1 DEF PaintedInv, CwdIsAnnounced
  <1>7. size = last_size
    BY <1>1 DEF PaintedInv, ResizeIsSeen
  <1>8. \A c \in Sizes : WidthIsKept(c) => c = last_size \/ trap.missed
    BY <1>1, <1>2, <1>4 DEF WidthIsKept, ResizeIsTold
  <1>9. PrintsOnce => term.header # None
    BY <1>1 DEF PaintedInv, PromptIsPainted
  <1> QED  BY <1>3, <1>5, <1>6, <1>7, <1>8, <1>9

\* Every prompt that is printed once gets its header, however output, keys and the signal are cut
\* into reads, and whatever git results and reloads come in between (engine.rs, run).
THEOREM PromptGetsItsHeader ==
    ASSUME Calm
    PROVE  Spec => []HeaderIsPainted
  <1>1. CalmInv => HeaderIsPainted
    BY SettledAtPrompt DEF CalmInv, HeaderIsPainted, PromptHasHeader
  <1> QED  BY <1>1, CalmInvariant, PTL

\* And any header is the one of the moment: the cached lines, the status kept from an earlier
\* prompt, the paint that came before the newest report and the width before the last resize are
\* never left standing, although each new size reaches the header on another way: the loop's own
\* flag, the shell's report in the FIFO, or the prompt that the shell prints again.  The one
\* exception is a header painted at a width the window had left again before the shell looked: its
\* trap finds the width it knows and reports nothing (templates.rs, TRAPWINCH and _p11k_winch).
THEOREM HeaderStaysCurrent ==
    ASSUME Calm
    PROVE  Spec => []HeaderIsCurrent
  <1>1. CalmInv => HeaderIsCurrent
    <2> USE DEF CalmInv
    <2> SUFFICES ASSUME CalmInv, Settled, term.header # None
                 PROVE  \E c \in Sizes :
                           /\ term.header = [theme |-> theme, cwd |-> shcwd, mode |-> keymap, cols |-> c,
                                             vcs |-> [of |-> shcwd, ver |-> repo[shcwd]]]
                           /\ c = size \/ trap.missed
      BY DEF HeaderIsCurrent
    <2>1. /\ AtPrompt /\ cwd = shcwd /\ mode = keymap /\ size = last_size
          /\ \A c \in Sizes : WidthIsKept(c) => c = last_size \/ trap.missed
      BY SettledAtPrompt
    <2>2. cwd \in Cwds /\ cwd # None
      BY <2>1, EngineAssumption DEF EngineInv, TypeOK
    <2>3. ~GW!Outstanding
      BY DEF Settled
    <2>4. /\ last_vcs # None /\ last_vcs.cwd = cwd
          /\ last_vcs.status.ver \in asked..repo[cwd] /\ asked = 0 /\ repo[cwd] = 0
      BY <2>2, <2>3 DEF PaintedInv, GW!AnswerIsInUse, ReposAreStill
    <2>5. last_vcs.status \in GW!Status /\ last_vcs.status.of = cwd
      BY <2>4 DEF EngineInv, GW!GitInv, GW!TypeOK, GW!VcsOfItsDirectory
    <2>6. last_vcs.status = [of |-> cwd, ver |-> repo[cwd]]
      BY <2>4, <2>5 DEF GW!Status
    <2>7. Vcs = last_vcs.status /\ VcsOfCwd = last_vcs.status
      BY <2>4 DEF Vcs, VcsOfCwd
    <2>8. PICK c \in Sizes : /\ term.header = Header(theme, last_vcs.status, mode, c)
                             /\ c = last_size \/ trap.missed
      BY <2>1, <2>7 DEF PaintedInv, HeaderIsKept
    <2> QED  BY <2>1, <2>6, <2>8 DEF Header
  <1> QED  BY <1>1, CalmInvariant, PTL
=============================================================================
