---------------------------- MODULE WizardProofs ----------------------------
(***************************************************************************)
(* Proofs about the wizard: what is written was confirmed and is what was  *)
(* shown, another theme is replaced only on a yes, and arrows answer       *)
(* nothing.  That the file reads as what was shown stays with TLC.         *)
(***************************************************************************)
EXTENDS Wizard, WellFoundedInduction, TLAPS

\* The questions by their numbers.
LEMMA QuestionNumbers ==
    /\ DOMAIN Questions = 1..20 /\ Len(Questions) = 20
    /\ \A i \in 1..20 : Questions[i] = "confirm" <=> i = 19
    /\ \A i \in 1..20 : Questions[i] = "overwrite" <=> i = 20
    /\ \A i \in 1..20 : Questions[i] \notin {"write"} \cup Ends
    /\ Questions[1] = "diamond"
  BY DEF Questions, Ends

LEMMA AreQuestions ==
    /\ {"diamond", "confirm", "overwrite"} \subseteq ToSet(Questions)
    /\ \A i \in 1..20 : Questions[i] \in ToSet(Questions)
    /\ ToSet(Questions) \cap ({"write"} \cup Ends) = {}
  BY QuestionNumbers DEF ToSet

\* The place of a question is where it stands.
LEMMA PlaceIsOfQuestion ==
    ASSUME NEW q \in ToSet(Questions)
    PROVE  Place(q) \in 1..20 /\ Questions[Place(q)] = q
  BY QuestionNumbers DEF Place, ToSet

\* A set of numbers that has one has a least one.
LEMMA LeastOfNumbers ==
    ASSUME NEW T, T \subseteq Nat, T # {}
    PROVE  \E i \in T : \A j \in T : i <= j
  <1>1. PICK i \in T : \A j \in T : <<j, i>> \notin OpToRel(<, Nat)
    BY NatLessThanWellFounded, WFMin
  <1>2. \A j \in T : ~(j < i)
    BY <1>1 DEF OpToRel
  <1>3. \A j \in T : i <= j
    BY <1>2
  <1> QED  BY <1>3

\* What follows a question: the last look before anything is final, and the question about
\* another theme wherever there is one.
LEMMA QuestionOrder ==
    ASSUME NEW q \in ToSet(Questions), NEW d, NEW given
    PROVE  LET next == NextQuestion(q, d, given) IN
           /\ next \in ToSet(Questions) \cup {"write"}
           /\ next = "overwrite" => q = "confirm" \/ q = "overwrite"
           /\ next = "write" => q \in {"confirm", "overwrite"}
           /\ next = "write" /\ file[1] # "none" => q = "overwrite"
  <1> DEFINE later == {i \in Place(q) + 1..Len(Questions) : Asked(Questions[i], d, given)}
             least == CHOOSE i \in later : \A j \in later : i <= j
             next == NextQuestion(q, d, given)
  <1>1. Place(q) \in 1..20 /\ Questions[Place(q)] = q
    BY PlaceIsOfQuestion
  <1>2. later \subseteq 2..20
    BY <1>1, QuestionNumbers
  <1>3. next = IF later = {} THEN "write" ELSE Questions[least]
    BY DEF NextQuestion
  <1>4. q \notin {"confirm", "overwrite"} => 19 \in later
    BY <1>1, QuestionNumbers DEF Asked
  <1>5. q # "overwrite" /\ file[1] # "none" => 20 \in later
    BY <1>1, QuestionNumbers DEF Asked
  <1> HIDE DEF later, next
  <1>6. later # {} => least \in later /\ \A j \in later : least <= j
    <2>1. later \subseteq Nat
      BY <1>2
    <2> QED  BY <2>1, LeastOfNumbers
  <1> HIDE DEF least
  <1>7. later # {} => Questions[least] \in ToSet(Questions) /\ Questions[least] # "write"
    <2>1. SUFFICES ASSUME later # {}
                   PROVE  Questions[least] \in ToSet(Questions) /\ Questions[least] # "write"
      OBVIOUS
    <2>2. least \in later
      BY <2>1, <1>6
    <2>3. least \in 2..20
      BY <2>2, <1>2
    <2>4. least \in 1..20
      BY <2>3
    <2> QED  BY <2>4, AreQuestions, QuestionNumbers
  <1>8. q \notin {"confirm", "overwrite"} => next # "overwrite"
    <2>1. SUFFICES ASSUME q \notin {"confirm", "overwrite"} PROVE next # "overwrite"
      OBVIOUS
    <2>2. least \in 2..20 /\ least <= 19
      BY <2>1, <1>2, <1>4, <1>6
    <2>3. next = Questions[least]
      BY <2>1, <1>3, <1>4
    <2>4. least \in 1..20 /\ least # 20
      BY <2>2
    <2> QED  BY <2>3, <2>4, QuestionNumbers
  <1>9. /\ next \in ToSet(Questions) \cup {"write"}
        /\ next = "overwrite" => q = "confirm" \/ q = "overwrite"
        /\ next = "write" => q \in {"confirm", "overwrite"}
        /\ next = "write" /\ file[1] # "none" => q = "overwrite"
    BY <1>3, <1>4, <1>5, <1>7, <1>8
  <1> QED  BY <1>9 DEF next

-----------------------------------------------------------------------------
(* The draft *)

LEMMA KindsAre == ToSet(Kinds) = {"lean", "classic", "rainbow", "pure"}
  BY DEF ToSet, Kinds

\* The fields that every theme has.
Fields == {"mode", "layout", "segments", "defaults", "separators", "frame", "vcs_remote_icons",
           "icon", "dir_classes", "shell", "padding"}

LEMMA FieldsOfNoConfig == DOMAIN NoConfig = Fields
  BY DEF NoConfig, Fields

\* Every style has them.
LEMMA FieldsOfStyles ==
    ASSUME NEW kind, NEW i
    PROVE  DOMAIN WithColor(kind, i) = DOMAIN NoConfig
  <1>1. DOMAIN Lean(i = 2) = DOMAIN NoConfig
    BY DEF Lean
  <1>2. \A sub : DOMAIN Powerline(i, sub) = DOMAIN NoConfig
    BY DEF Powerline
  <1>3. DOMAIN Classic(i) = DOMAIN NoConfig
    BY <1>2 DEF Classic
  <1>4. DOMAIN Rainbow(i) = DOMAIN NoConfig
    BY <1>2 DEF Rainbow
  <1>5. DOMAIN Pure(i = 2) = DOMAIN NoConfig
    BY DEF Pure
  <1> QED  BY <1>1, <1>3, <1>4, <1>5 DEF WithColor

\* No edit of a theme adds a field or loses one.
LEMMA FieldsOfEdits ==
    ASSUME NEW cfg, NEW i, NEW kind
    PROVE  /\ \A name : DOMAIN RemoveSegment(cfg, name) = DOMAIN cfg
           /\ DOMAIN SetRprompt(cfg, i) = DOMAIN cfg
           /\ DOMAIN SetTime(kind, cfg, i) = DOMAIN cfg
           /\ DOMAIN SetSeparators(cfg, i) = DOMAIN cfg
           /\ DOMAIN SetHeads(cfg, i) = DOMAIN cfg
           /\ DOMAIN SetTails(cfg, i) = DOMAIN cfg
           /\ DOMAIN SetHeight(cfg, i) = DOMAIN cfg
           /\ DOMAIN SetGap(cfg, i) = DOMAIN cfg
           /\ DOMAIN SetFrame(cfg, i) = DOMAIN cfg
           /\ DOMAIN SetIcons(cfg, i) = DOMAIN cfg
           /\ DOMAIN SetFlow(cfg, i) = DOMAIN cfg
  <1>1. \A name : DOMAIN RemoveSegment(cfg, name) = DOMAIN cfg
    BY DEF RemoveSegment
  <1>2. DOMAIN SetRprompt(cfg, i) = DOMAIN cfg
    BY <1>1 DEF SetRprompt
  <1>3. DOMAIN SetTime(kind, cfg, i) = DOMAIN cfg
    <2>1. DOMAIN AddToRight(cfg, "time") = DOMAIN cfg
      BY DEF AddToRight
    <2> QED  BY <2>1 DEF SetTime, RemoveSegment
  <1>4. \A c, names, n : DOMAIN SetGlyphs(c, names, n) = DOMAIN c
    BY DEF SetGlyphs
  <1>5. DOMAIN SetSeparators(cfg, i) = DOMAIN cfg
    BY <1>4 DEF SetSeparators
  <1>6. DOMAIN SetHeads(cfg, i) = DOMAIN cfg /\ DOMAIN SetTails(cfg, i) = DOMAIN cfg
    BY <1>4 DEF SetHeads, SetTails
  <1>7. DOMAIN SetHeight(cfg, i) = DOMAIN cfg
    BY DEF SetHeight
  <1>8. DOMAIN SetGap(cfg, i) = DOMAIN cfg
    BY DEF SetGap
  <1>9. DOMAIN SetFrame(cfg, i) = DOMAIN cfg
    BY DEF SetFrame
  <1>10. DOMAIN SetIcons(cfg, i) = DOMAIN cfg
    BY <1>1 DEF SetIcons
  <1>11. DOMAIN SetFlow(cfg, i) = DOMAIN cfg
    BY DEF SetFlow
  <1> QED  BY <1>1, <1>2, <1>3, <1>5, <1>6, <1>7, <1>8, <1>9, <1>10, <1>11

\* An answer leaves a draft a draft; the last two questions edit nothing.
IsDraft(d) == /\ DOMAIN d = {"kind", "cfg"}
              /\ d.kind \in ToSet(Kinds) /\ DOMAIN d.cfg = DOMAIN NoConfig

LEMMA EditsAreDrafts ==
    ASSUME NEW d, IsDraft(d), NEW q \in ToSet(Questions), NEW i \in 1..5,
           q = "style" => i \in 1..4
    PROVE  IsDraft(Edit(q, d, i)) /\ (q \in {"confirm", "overwrite"} => Edit(q, d, i) = d)
  <1> DEFINE e == Edit(q, d, i)
  <1>1. CASE q \in {"lock", "fat"}
    <2>1. e = SetMode(d, q, i)
      BY <1>1 DEF Edit
    <2> QED  BY <2>1, <1>1 DEF SetMode, IsDraft
  <1>2. CASE q = "style"
    <2>1. e = [d EXCEPT !.kind = Kinds[i]]
      BY <1>2 DEF Edit
    <2>2. Kinds[i] \in ToSet(Kinds)
      BY <1>2 DEF Kinds, ToSet
    <2> QED  BY <2>1, <2>2, <1>2 DEF IsDraft
  <1>3. CASE q = "color"
    <2>1. e = [d EXCEPT !.cfg = [WithColor(d.kind, i) EXCEPT !.mode = d.cfg.mode]]
      BY <1>3 DEF Edit, SetColor
    <2> QED  BY <2>1, <1>3, FieldsOfStyles DEF IsDraft
  <1>4. CASE q \in {"charset", "spacing", "transient"}
    BY <1>4 DEF Edit, IsDraft
  <1>5. CASE q \in {"rprompt", "time", "separators", "heads", "tails", "height", "gap",
                     "frame", "icons", "flow"}
    <2>1. q = "rprompt" => e = [d EXCEPT !.cfg = SetRprompt(d.cfg, i)]
      BY DEF Edit
    <2>2. q = "time" => e = [d EXCEPT !.cfg = SetTime(d.kind, d.cfg, i)]
      BY DEF Edit
    <2>3. q = "separators" => e = [d EXCEPT !.cfg = SetSeparators(d.cfg, i)]
      BY DEF Edit
    <2>4. q = "heads" => e = [d EXCEPT !.cfg = SetHeads(d.cfg, i)]
      BY DEF Edit
    <2>5. q = "tails" => e = [d EXCEPT !.cfg = SetTails(d.cfg, i)]
      BY DEF Edit
    <2>6. q = "height" => e = [d EXCEPT !.cfg = SetHeight(d.cfg, i)]
      BY DEF Edit
    <2>7. q = "gap" => e = [d EXCEPT !.cfg = SetGap(d.cfg, i)]
      BY DEF Edit
    <2>8. q = "frame" => e = [d EXCEPT !.cfg = SetFrame(d.cfg, i)]
      BY DEF Edit
    <2>9. q = "icons" => e = [d EXCEPT !.cfg = SetIcons(d.cfg, i)]
      BY DEF Edit
    <2>10. q = "flow" => e = [d EXCEPT !.cfg = SetFlow(d.cfg, i)]
      BY DEF Edit
    <2> HIDE DEF e
    <2>11. \A c : DOMAIN c = DOMAIN d.cfg => IsDraft([d EXCEPT !.cfg = c])
      BY DEF IsDraft
    <2>12. \E c : DOMAIN c = DOMAIN d.cfg /\ e = [d EXCEPT !.cfg = c]
      <3>1. CASE q = "rprompt"
        BY <3>1, <2>1, FieldsOfEdits
      <3>2. CASE q = "time"
        BY <3>2, <2>2, FieldsOfEdits
      <3>3. CASE q = "separators"
        BY <3>3, <2>3, FieldsOfEdits
      <3>4. CASE q = "heads"
        BY <3>4, <2>4, FieldsOfEdits
      <3>5. CASE q = "tails"
        BY <3>5, <2>5, FieldsOfEdits
      <3>6. CASE q = "height"
        BY <3>6, <2>6, FieldsOfEdits
      <3>7. CASE q = "gap"
        BY <3>7, <2>7, FieldsOfEdits
      <3>8. CASE q = "frame"
        BY <3>8, <2>8, FieldsOfEdits
      <3>9. CASE q = "icons"
        BY <3>9, <2>9, FieldsOfEdits
      <3>10. CASE q = "flow"
        BY <3>10, <2>10, FieldsOfEdits
      <3> QED  BY <1>5, <3>1, <3>2, <3>3, <3>4, <3>5, <3>6, <3>7, <3>8, <3>9, <3>10
    <2>13. IsDraft(e)
      BY <2>11, <2>12
    <2> QED  BY <2>13, <1>5 DEF e
  <1>6. CASE q \in {"diamond", "confirm", "overwrite"}
    BY <1>6 DEF Edit
  <1>7. q \in {"lock", "fat", "style", "color", "charset", "spacing", "transient", "rprompt",
               "time", "separators", "heads", "tails", "height", "gap", "frame", "icons", "flow",
               "diamond", "confirm", "overwrite"}
    BY DEF ToSet, Questions
  <1> QED  BY <1>1, <1>2, <1>3, <1>4, <1>5, <1>6, <1>7

-----------------------------------------------------------------------------
(* The keys *)

\* An answer counts from one, and a question about the style has four.
LEMMA AnswersOfKeys ==
    ASSUME NEW key, AnswerOf(key) > 0
    PROVE  /\ AnswerOf(key) \in 1..5
           /\ question = "style" => AnswerOf(key) \in 1..4
           /\ question \in {"confirm", "overwrite"} => AnswerOf(key) \in {1, 2}
  <1>1. Count(question, draft.kind) \in 2..5 /\ (question = "style" => Count(question, draft.kind) = 4)
    BY DEF Count
  <1>2. CASE question \in YesNo
    <2>1. AnswerOf(key) \in {0, 1, 2}
      BY <1>2 DEF AnswerOf
    <2>2. AnswerOf(key) \in {1, 2} /\ question # "style"
      BY <2>1, <1>2 DEF YesNo
    <2> QED  BY <2>2
  <1>3. CASE question \notin YesNo
    <2> DEFINE n == CHOOSE i \in 1..Count(question, draft.kind) : ToString(i) = key
    <2>1. AnswerOf(key) = IF \E i \in 1..Count(question, draft.kind) : ToString(i) = key THEN n ELSE 0
      BY <1>3 DEF AnswerOf
    <2>2. AnswerOf(key) \in 1..Count(question, draft.kind)
      BY <2>1, AnswerOf(key) > 0
    <2>3. question \notin {"confirm", "overwrite"}
      BY <1>3 DEF YesNo
    <2> HIDE DEF n
    <2> QED  BY <2>2, <2>3, <1>1
  <1> QED  BY <1>2, <1>3

\* A key quits, starts again, is no answer, or is one that is not the no that quits.
LEMMA KeyOutcomes ==
    ASSUME NEW key, Handle(key), Open
    PROVE  \/ Quit \/ Restart \/ UNCHANGED <<question, draft, answers, shown>>
           \/ \E i \in 1..5 :
                 LET d     == Edit(question, draft, i)
                     given == [q \in DOMAIN answers \cup {question} |-> IF q = question THEN i ELSE answers[q]]
                     next  == NextQuestion(question, d, given)
                 IN  /\ question = "style" => i \in 1..4
                     /\ question \in {"confirm", "overwrite"} => i = 1
                     /\ question' = next /\ draft' = d /\ answers' = given
                     /\ shown' = IF next = "confirm" THEN <<d.cfg>> ELSE shown
  <1>1. CASE AnswerOf(key) > 0 /\ key \notin {"q", "r"}
    <2>1. Answer(AnswerOf(key))
      BY <1>1 DEF Handle
    <2> QED  BY <2>1, <1>1, AnswersOfKeys DEF Answer
  <1>2. CASE ~(AnswerOf(key) > 0) \/ key \in {"q", "r"}
    BY <1>2 DEF Handle
  <1> QED  BY <1>1, <1>2

\* What a key does to the questions and the draft.
Asking == /\ question \in ToSet(Questions) \cup {"write"} \cup Ends
          /\ IsDraft(draft)
          /\ DOMAIN answers \subseteq ToSet(Questions)
          /\ shown = <<>> \/ DOMAIN shown[1] = DOMAIN NoConfig

LEMMA KeysKeep ==
    ASSUME WizardInv, Open, NEW key, Handle(key), UNCHANGED file
    PROVE  Asking' /\ DraftIsShown' /\ LastAreAnswered' /\ FileIsOfTheDraft'
  <1> USE DEF Asking
  <1>1. /\ question \in ToSet(Questions) /\ question \notin {"write"} \cup Ends
        /\ IsDraft(draft) /\ DOMAIN answers \subseteq ToSet(Questions)
        /\ shown = <<>> \/ DOMAIN shown[1] = DOMAIN NoConfig
        /\ file[1] \in {"none", "old"}
    BY AreQuestions DEF WizardInv, WizardTypeOK, Open, IsDraft, FileIsOfTheDraft, Ends
  <1>2. CASE Quit
    BY <1>1, <1>2 DEF Quit, Ends, DraftIsShown, LastAreAnswered, FileIsOfTheDraft
  <1>3. CASE Restart
    <2>1. IsDraft(NoDraft)
      BY KindsAre DEF IsDraft, NoDraft
    <2>2. DOMAIN Empty = {}
      BY DEF Empty
    <2> QED
      BY <1>1, <1>3, <2>1, <2>2, AreQuestions
      DEF Restart, DraftIsShown, LastAreAnswered, FileIsOfTheDraft, Ends
  <1>4. CASE UNCHANGED <<question, draft, answers, shown>>
    BY <1>1, <1>4
    DEF WizardInv, DraftIsShown, LastAreAnswered, FileIsOfTheDraft, Answered, Theme
  <1>5. ASSUME NEW i \in 1..5, NEW given, NEW next, NEW d,
               d = Edit(question, draft, i),
               given = [q \in DOMAIN answers \cup {question} |-> IF q = question THEN i ELSE answers[q]],
               next = NextQuestion(question, d, given),
               question = "style" => i \in 1..4,
               question \in {"confirm", "overwrite"} => i = 1,
               question' = next, draft' = d, answers' = given,
               shown' = IF next = "confirm" THEN <<d.cfg>> ELSE shown
        PROVE  Asking' /\ DraftIsShown' /\ LastAreAnswered' /\ FileIsOfTheDraft'
    <2>1. IsDraft(d) /\ (question \in {"confirm", "overwrite"} => d = draft)
      BY <1>1, <1>5, EditsAreDrafts
    <2>2. /\ DOMAIN given = DOMAIN answers \cup {question}
          /\ given[question] = i
          /\ \A q \in DOMAIN answers : q # question => given[q] = answers[q]
      BY <1>5
    <2>3. /\ next \in ToSet(Questions) \cup {"write"}
          /\ next = "overwrite" => question = "confirm" \/ question = "overwrite"
          /\ next = "write" => question \in {"confirm", "overwrite"}
          /\ next = "write" /\ file[1] # "none" => question = "overwrite"
      BY <1>1, <1>5, QuestionOrder
    <2>4. Asking'
      BY <1>1, <1>5, <2>1, <2>2, <2>3 DEF IsDraft
    <2>5. DraftIsShown'
      BY <1>5, <2>1, <2>3 DEF WizardInv, DraftIsShown
    <2>6. LastAreAnswered'
      BY <1>5, <1>1, <2>2, <2>3 DEF WizardInv, LastAreAnswered, Answered
    <2>7. FileIsOfTheDraft'
      BY <1>1 DEF FileIsOfTheDraft
    <2> QED  BY <2>4, <2>5, <2>6, <2>7
  <1> QED  BY <1>2, <1>3, <1>4, <1>5, KeyOutcomes

\* The other keys and bytes edit nothing: the theme and the answers stay what they are.
LEMMA QuittingKeeps ==
    ASSUME WizardInv, Open, Quit \/ UNCHANGED <<question, draft, answers, shown>>, UNCHANGED file
    PROVE  Asking' /\ DraftIsShown' /\ LastAreAnswered' /\ FileIsOfTheDraft'
  <1>1. /\ question \in ToSet(Questions) /\ question \notin {"write"} \cup Ends
        /\ IsDraft(draft) /\ DOMAIN answers \subseteq ToSet(Questions)
        /\ shown = <<>> \/ DOMAIN shown[1] = DOMAIN NoConfig
        /\ file[1] \in {"none", "old"}
    BY AreQuestions DEF WizardInv, WizardTypeOK, Open, IsDraft, FileIsOfTheDraft, Ends
  <1>2. CASE Quit
    BY <1>1, <1>2 DEF Asking, Quit, Ends, DraftIsShown, LastAreAnswered, FileIsOfTheDraft
  <1>3. CASE UNCHANGED <<question, draft, answers, shown>>
    BY <1>1, <1>3
    DEF Asking, WizardInv, DraftIsShown, LastAreAnswered, FileIsOfTheDraft, Answered, Theme
  <1> QED  BY <1>2, <1>3

-----------------------------------------------------------------------------
(* The invariant *)

\* What WizardTypeOK says of reading keys and of the file.
Reading == /\ file[1] \in {"none", "old", "partial", "theme"}
           /\ reader \in {"key", "esc", "sequence"}
           /\ typed \in [key : {"plain", "escape", "arrow"}, rest : {<<>>, Arrow, Tail(Arrow)}]
           /\ eof \in BOOLEAN

LEMMA TypesAreOfParts == WizardTypeOK <=> Asking /\ Reading
  BY DEF WizardTypeOK, Asking, Reading, IsDraft

LEMMA InvariantAtStart == Init => WizardInv
  <1> SUFFICES ASSUME Init PROVE WizardInv
    OBVIOUS
  <1>1. IsDraft(NoDraft)
    BY KindsAre DEF IsDraft, NoDraft
  <1>2. DOMAIN answers = {}
    BY DEF Init, Empty
  <1>3. Asking /\ Reading
    <2>1. Asking
      BY <1>1, <1>2, AreQuestions DEF Init, Asking
    <2>2. file[1] \in {"none", "old"}
      BY DEF Init
    <2>3. typed \in [key : {"plain", "escape", "arrow"}, rest : {<<>>, Arrow, Tail(Arrow)}]
      BY DEF Init
    <2>4. Reading
      BY <2>2, <2>3 DEF Init, Reading
    <2> QED  BY <2>1, <2>4
  <1>4. DraftIsShown /\ LastAreAnswered /\ FileIsOfTheDraft
    BY DEF Init, DraftIsShown, LastAreAnswered, FileIsOfTheDraft, Ends
  <1>5. ArrowIsRead
    BY DEF Init, ArrowIsRead
  <1> QED  BY <1>3, <1>4, <1>5, TypesAreOfParts DEF WizardInv

LEMMA BytesOfArrow ==
    /\ Arrow # <<>> /\ Tail(Arrow) # <<>> /\ Arrow # Tail(Arrow)
    /\ Tail(Tail(Arrow)) = <<>> /\ Tail(Arrow)[1] = "A"
  <1>1. Tail(Arrow) = <<"A">>
    BY DEF Arrow
  <1>2. Arrow # <<>> /\ Arrow # <<"A">>
    BY DEF Arrow
  <1>3. Tail(<<"A">>) = <<>> /\ <<"A">> # <<>> /\ <<"A">>[1] = "A"
    OBVIOUS
  <1> QED  BY <1>1, <1>2, <1>3

\* A read when the terminal is there leaves no byte of an arrow to the next one.
LEMMA ReadsKeepArrows ==
    ASSUME WizardInv, Next, ~(Write \/ WriteFails)
    PROVE  Reading' /\ ArrowIsRead'
  <1>1. /\ Reading /\ ArrowIsRead /\ Open
    BY TypesAreOfParts
    DEF WizardInv, Next, Key, Esc, NextByte, EscAlone, HangUp, Eof
  <1>2. ASSUME NEW k \in Keys, Key(k) PROVE Reading' /\ ArrowIsRead'
    BY <1>1, <1>2 DEF Key, Reading, ArrowIsRead
  <1>3. ASSUME NEW k \in {"escape", "arrow"}, Esc(k) PROVE Reading' /\ ArrowIsRead'
    BY <1>1, <1>3 DEF Esc, Reading, ArrowIsRead, Open
  <1>4. CASE NextByte
    <2>1. /\ typed' = [typed EXCEPT !.rest = Tail(typed.rest)] /\ UNCHANGED <<file, eof>>
          /\ typed.rest \in {Arrow, Tail(Arrow)} /\ ~eof
      BY <1>1, <1>4 DEF NextByte, Reading
    <2>2. typed'.key = typed.key /\ typed'.rest = Tail(typed.rest)
      BY <1>1, <2>1 DEF Reading
    <2>3. typed'.rest \in {<<>>, Tail(Arrow)}
      BY <2>1, <2>2, BytesOfArrow
    <2>4. reader' \in {"key", "esc", "sequence"}
      BY <1>1, <1>4 DEF NextByte, Reading
    <2>5. Reading'
      BY <1>1, <2>1, <2>2, <2>3, <2>4 DEF Reading
    <2>6. CASE SlowTerminal
      BY <2>5, <2>6 DEF ArrowIsRead
    <2>7. CASE ~SlowTerminal /\ reader = "esc"
      <3>1. typed.rest = Arrow /\ typed.key = "arrow"
        BY <1>1, <2>1, <2>7, BytesOfArrow DEF ArrowIsRead
      <3>2. reader' = "sequence" /\ UNCHANGED question
        BY <1>4, <2>7 DEF NextByte
      <3>3. typed'.key = "arrow" /\ typed'.rest = Tail(Arrow)
        BY <2>2, <3>1, BytesOfArrow
      <3>4. Open'
        BY <1>1, <3>2 DEF Open
      <3> QED  BY <2>5, <3>2, <3>3, <3>4 DEF ArrowIsRead
    <2>8. CASE ~SlowTerminal /\ reader = "sequence"
      <3>1. typed.rest = Tail(Arrow) /\ typed.key = "arrow"
        BY <1>1, <2>1, <2>8 DEF ArrowIsRead
      <3>2. reader' = "key" /\ UNCHANGED question
        BY <1>4, <2>8, <3>1, BytesOfArrow DEF NextByte
      <3>3. typed'.key = "arrow" /\ typed'.rest = <<>>
        BY <2>2, <3>1, BytesOfArrow
      <3>4. Open'
        BY <1>1, <3>2 DEF Open
      <3> QED  BY <2>5, <3>2, <3>3, <3>4 DEF ArrowIsRead
    <2>9. CASE ~SlowTerminal /\ reader = "key"
      BY <1>1, <2>1, <2>9, BytesOfArrow DEF ArrowIsRead
    <2> QED  BY <1>1, <2>5, <2>6, <2>7, <2>8, <2>9 DEF Reading
  <1>5. CASE EscAlone
    BY <1>1, <1>5, BytesOfArrow DEF EscAlone, EscMayEnd, Reading, ArrowIsRead
  <1>6. CASE HangUp
    BY <1>1, <1>6 DEF HangUp, Reading, ArrowIsRead
  <1>7. CASE Eof
    BY <1>1, <1>7 DEF Eof, ReadAtEof, Reading, ArrowIsRead
  <1> QED  BY <1>2, <1>3, <1>4, <1>5, <1>6, <1>7 DEF Next

LEMMA InvariantIsKept == WizardInv /\ [Next]_vars => WizardInv'
  <1> SUFFICES ASSUME WizardInv, [Next]_vars PROVE WizardInv'
    OBVIOUS
  <1>1. CASE Write \/ WriteFails
    <2>1. /\ Asking /\ Reading /\ question = "write" /\ shown = <<draft.cfg>>
          /\ Answered("confirm", 1) /\ file[1] \in {"none", "old"} /\ ArrowIsRead
      BY <1>1, TypesAreOfParts
      DEF WizardInv, Write, WriteFails, DraftIsShown, LastAreAnswered, FileIsOfTheDraft
    <2>2. /\ question' \in {"written", "failed"}
          /\ UNCHANGED <<draft, answers, shown, reader, typed, eof>>
          /\ file' \in {file, <<"partial">>, <<"theme", Theme>>}
      BY <1>1 DEF Write, WriteFails
    <2>3. file'[1] \in {"none", "old"} \/ file' \in {<<"partial">>, <<"theme", Theme>>}
      BY <2>1, <2>2
    <2>4. file'[1] \in {"none", "old", "partial", "theme"} /\ (file'[1] = "theme" => file'[2] = Theme)
      BY <2>3
    <2>5. Asking' /\ Reading'
      BY <2>1, <2>2, <2>4 DEF Asking, Reading, Ends
    <2>6. DraftIsShown' /\ LastAreAnswered'
      BY <2>2 DEF DraftIsShown, LastAreAnswered
    <2>7. FileIsOfTheDraft'
      BY <2>1, <2>2, <2>4 DEF FileIsOfTheDraft, Answered, Theme
    <2>8. question \notin ToSet(Questions)
      BY <2>1, AreQuestions
    <2>9. ArrowIsRead'
      BY <2>1, <2>2, <2>8 DEF ArrowIsRead, Open
    <2>10. WizardTypeOK'
      BY <2>5 DEF WizardTypeOK, Asking, Reading, IsDraft
    <2> QED  BY <2>6, <2>7, <2>9, <2>10 DEF WizardInv
  <1>2. CASE Next /\ ~(Write \/ WriteFails)
    <2>1. Open /\ UNCHANGED file
      BY <1>2 DEF Next, Key, Esc, NextByte, EscAlone, HangUp, Eof
    <2>2. (\E key : Handle(key)) \/ Quit \/ UNCHANGED <<question, draft, answers, shown>>
      BY <1>2 DEF Next, Key, Esc, NextByte, EscAlone, HangUp, Eof, ReadAtEof
    <2>3. Asking' /\ DraftIsShown' /\ LastAreAnswered' /\ FileIsOfTheDraft'
      BY <2>1, <2>2, KeysKeep, QuittingKeeps
    <2>4. Reading' /\ ArrowIsRead'
      BY <1>2, ReadsKeepArrows
    <2>5. WizardTypeOK'
      BY <2>3, <2>4 DEF WizardTypeOK, Asking, Reading, IsDraft
    <2> QED  BY <2>3, <2>4, <2>5 DEF WizardInv
  <1>3. CASE UNCHANGED vars
    BY <1>3
    DEF vars, WizardInv, WizardTypeOK, DraftIsShown, LastAreAnswered, FileIsOfTheDraft,
        ArrowIsRead, Answered, Theme, Open
  <1> QED  BY <1>1, <1>2, <1>3

\* The wizard's types, and that what it writes was confirmed and is the theme of the last
\* look, whatever is typed and whenever the terminal goes.
THEOREM WizardInvariant == Spec => []WizardInv
  BY InvariantAtStart, InvariantIsKept, PTL DEF Spec

\* A file with a theme in it holds the one that was shown, and was confirmed.
THEOREM WrittenIsShown ==
    Spec => [](file[1] = "theme" => Answered("confirm", 1) /\ file[2] = ToDocument(shown[1]))
  <1>1. WizardInv => (file[1] = "theme" => Answered("confirm", 1) /\ file[2] = ToDocument(shown[1]))
    BY DEF WizardInv, FileIsOfTheDraft, Theme
  <1> QED  BY <1>1, WizardInvariant, PTL

\* Another theme is replaced only behind a yes to the question about it.
THEOREM ReplacesOnAYes == Spec => Overwrites
  <1>1. WizardInv /\ [Next]_vars => [file[1] = "old" /\ file' # file => Answered("overwrite", 1)]_vars
    <2> SUFFICES ASSUME WizardInv, Next, file[1] = "old", file' # file
                 PROVE  Answered("overwrite", 1)
      BY DEF vars
    <2>1. Write \/ WriteFails
      BY DEF Next, Key, Esc, NextByte, EscAlone, HangUp, Eof
    <2> QED  BY <2>1 DEF Write, WriteFails, WizardInv, LastAreAnswered
  <1> QED  BY <1>1, WizardInvariant, PTL DEF Spec, Overwrites

\* Where the bytes of an arrow come within 20 ms of each other, it is read whole and answers
\* nothing; a terminal slower than that is taken for an Esc and letters.
THEOREM ArrowsAnswerNothing ==
    ASSUME ~SlowTerminal
    PROVE  Spec => ArrowsAreNoAnswers
  <1>1. WizardInv /\ [Next]_vars =>
        [typed.key = "arrow" /\ typed' = [typed EXCEPT !.rest = typed'.rest] /\ eof = FALSE =>
            UNCHANGED <<question, draft, answers>>]_vars
    <2> SUFFICES ASSUME WizardInv, Next, typed.key = "arrow",
                        typed' = [typed EXCEPT !.rest = typed'.rest], eof = FALSE
                 PROVE  UNCHANGED <<question, draft, answers>>
      BY DEF vars
    <2>1. ArrowIsRead /\ Reading /\ question \in ToSet(Questions)
      BY TypesAreOfParts DEF WizardInv, ArrowIsRead, Open
    <2>2. typed'.key = "arrow"
      BY <2>1 DEF Reading
    <2>3. \A k : ~Key(k)
      BY <2>2 DEF Key
    <2>4. \A k : Esc(k) => UNCHANGED <<question, draft, answers>>
      BY DEF Esc
    <2>5. NextByte => UNCHANGED <<question, draft, answers>>
      BY <2>1 DEF NextByte, ArrowIsRead, Reading
    <2>6. ~EscAlone
      BY <2>1, BytesOfArrow DEF EscAlone, EscMayEnd, ArrowIsRead
    <2>7. HangUp => UNCHANGED <<question, draft, answers>>
      BY DEF HangUp
    <2>8. ~Eof
      BY DEF Eof
    <2>9. ~Write /\ ~WriteFails
      BY <2>1, AreQuestions DEF Write, WriteFails
    <2> QED  BY <2>3, <2>4, <2>5, <2>6, <2>7, <2>8, <2>9 DEF Next
  <1> QED  BY <1>1, WizardInvariant, PTL DEF Spec, ArrowsAreNoAnswers
=============================================================================
