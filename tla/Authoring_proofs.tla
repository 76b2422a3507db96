-------------------------- MODULE Authoring_proofs --------------------------
(***************************************************************************)
(* Proofs about QuestionBank and AssessmentAuthoring, for any questions,    *)
(* assessments, sections, files and numbers of requests.                    *)
(***************************************************************************)
EXTENDS AssessmentAuthoring, SetFacts

-----------------------------------------------------------------------------
(* The invariant. *)

TaggedIn(qs, j) == {q \in Questions : qs[q].job = j}

\* What a handler of the bank knows: an edit belongs with the college of its
\* question and is valid; a change of status that nothing has overtaken puts back
\* the deletion it found and activates a complete question; an import has
\* counted its rows, and tags a question that nobody has tagged.
EditGood(w, qs, js) ==
    /\ w.op \in {"update", "status", "tag"} => w.q \in Questions /\ qs[w.q].status # "NONE"
    /\ w.op = "update" =>
         /\ w.status \in QuestionStatus /\ w.subject \in Subjects
         /\ SubjectCollege[w.subject] = qs[w.q].college
         /\ ValidQuestion(w.coding, w.complete, w.status)
    /\ w.op = "status" =>
         /\ w.status \in QuestionStatus
         /\ w.clean => /\ qs[w.q].deleted => w.deleted
                       /\ w.status = "ACTIVE" => qs[w.q].complete
    /\ w.op \in {"import", "tag"} =>
         /\ w.job \in Jobs /\ w.user \in Users
         /\ js[w.job].state # "NONE" /\ js[w.job].ok = 0 /\ js[w.job].failed = 0
         /\ js[w.job].college \in Colleges /\ js[w.job].subject \in Subjects
         /\ SubjectCollege[js[w.job].subject] = js[w.job].college
         /\ w.ok + w.failed <= js[w.job].total
         /\ w.ok = Cardinality(TaggedIn(qs, w.job))
    /\ w.op = "tag" => /\ qs[w.q].job = None
                       /\ w.ok + w.failed < js[w.job].total

EditsGood == \A e \in Editors : EditGood(edit[e], questions, jobs)

\* One import fills a job, and two imports tag two questions.
ImportsApart == \A e, f \in Editors : e # f =>
    /\ edit[e].op \in {"import", "tag"} /\ edit[f].op \in {"import", "tag"} =>
         edit[e].job # edit[f].job
    /\ edit[e].op = "tag" /\ edit[f].op = "tag" => edit[e].q # edit[f].q

\* A question that is there has a subject of its college; a job that is not
\* there has no questions.
QuestionWhole(x) ==
    IF x.status # "NONE"
    THEN /\ x.college \in Colleges /\ x.subject \in Subjects
         /\ SubjectCollege[x.subject] = x.college
    ELSE x = NoQuestion
QuestionsWhole == \A q \in Questions : QuestionWhole(questions[q])
JobsWhole == \A j \in Jobs : jobs[j].state = "NONE" =>
    jobs[j] = NoJob /\ TaggedIn(questions, j) = {}

BankTypes ==
    /\ questions \in [Questions -> QuestionRow] /\ jobs \in [Jobs -> JobRow]
    /\ edit \in [Editors -> EditRow] /\ suspect \subseteq Questions

BankInv ==
    /\ BankTypes /\ QuestionsWhole /\ JobsWhole /\ EditsGood
    /\ ImportsApart /\ ImportAccounts /\ ActiveIsComplete

-----------------------------------------------------------------------------
(* The marks of an assessment, as sums. *)

RowsType == [Questions -> AttachedRow]
SectionsType == [Sections -> SectionRow]

\* The questions of a section and their marks, and what a section counts.
Placed(rows, s) == {q \in Questions : rows[q].on /\ rows[q].section = s}
Marks(rows) == [q \in Questions |-> rows[q].marks]
InSection(rows, s) == Sum(Marks(rows), Placed(rows, s))
Own(secs, a) == {s \in Sections : secs[s].a = a}
SectionWorth(rows, secs) == [s \in Sections |->
    IF secs[s].marks > 0 THEN secs[s].marks ELSE InSection(rows, s)]
CountOf(rows, secs, a) == InSection(rows, None) + Sum(SectionWorth(rows, secs), Own(secs, a))

LEMMA MarksNat ==
  ASSUME NEW rows \in RowsType, NEW secs \in SectionsType, NEW T \in SUBSET Questions,
         NEW a
  PROVE  /\ IsFiniteSet(T) /\ \A q \in T : Marks(rows)[q] \in Nat
         /\ Sum(Marks(rows), T) \in Nat
         /\ \A s : InSection(rows, s) \in Nat
         /\ IsFiniteSet(Own(secs, a))
         /\ \A s \in Sections : SectionWorth(rows, secs)[s] \in Nat
<1>1. \A q \in Questions : Marks(rows)[q] \in Nat
  BY DEF RowsType, AttachedRow, Marks
<1>2. ASSUME NEW U \in SUBSET Questions
      PROVE  IsFiniteSet(U) /\ Sum(Marks(rows), U) \in Nat
  <2>1. IsFiniteSet(U) /\ \A q \in U : Marks(rows)[q] \in Nat
    BY <1>1, BankAssumption, FS_Subset
  <2> QED
    BY <2>1, SumNat
<1>3. \A s : InSection(rows, s) \in Nat
  <2> TAKE s
  <2>1. Placed(rows, s) \in SUBSET Questions
    BY DEF Placed
  <2> QED
    BY <1>2, <2>1 DEF InSection
<1>4. \A s \in Sections : SectionWorth(rows, secs)[s] \in Nat
  BY <1>3 DEF SectionWorth, SectionsType, SectionRow
<1>5. IsFiniteSet(Own(secs, a))
  BY AuthoringAssumption, FS_Subset DEF Own
<1> QED
  BY <1>1, <1>2, <1>3, <1>4, <1>5

LEMMA CountNat ==
  ASSUME NEW rows \in RowsType, NEW secs \in SectionsType, NEW a
  PROVE  CountOf(rows, secs, a) \in Nat
<1>1. {} \in SUBSET Questions
  OBVIOUS
<1>2. IsFiniteSet(Own(secs, a)) /\ \A s \in Own(secs, a) : SectionWorth(rows, secs)[s] \in Nat
  BY <1>1, MarksNat DEF Own
<1>3. Sum(SectionWorth(rows, secs), Own(secs, a)) \in Nat
  BY <1>2, SumNat
<1>4. InSection(rows, None) \in Nat
  BY <1>1, MarksNat
<1> QED
  BY <1>3, <1>4 DEF CountOf

\* Other assessments' sections do not count.
LEMMA CountSame ==
  ASSUME NEW rows \in RowsType, NEW secs \in SectionsType, NEW others \in SectionsType,
         NEW a, Own(secs, a) = Own(others, a),
         \A s \in Own(secs, a) : secs[s] = others[s]
  PROVE  CountOf(rows, secs, a) = CountOf(rows, others, a)
<1> DEFINE m == SectionWorth(rows, secs)
           n == SectionWorth(rows, others)
           S == Own(secs, a)
<1>1. {} \in SUBSET Questions
  OBVIOUS
<1>2. IsFiniteSet(S) /\ \A s \in S : m[s] \in Nat
  BY <1>1, MarksNat, ZenonT(120) DEF Own
<1>3. \A s \in S : m[s] = n[s]
  BY DEF Own, SectionWorth
<1> HIDE DEF m, n, S
<1>4. Sum(m, S) = Sum(n, S)
  BY <1>2, <1>3, SumSame
<1> QED
  BY <1>4 DEF CountOf, m, n, S

\* A fold of the marks of questions, and of what sections count, is a sum.
LEMMA QuestionFold ==
  ASSUME NEW rows \in RowsType, NEW T \in SUBSET Questions
  PROVE  MapThenSumSet(LAMBDA q : rows[q].marks, T) = Sum(Marks(rows), T)
<1>1. IsFiniteSet(T) /\ \A q \in T : Marks(rows)[q] \in Nat
  BY BankAssumption, FS_Subset DEF RowsType, AttachedRow, Marks
<1> DEFINE m == Marks(rows)
<1>2. PICK h \in [SUBSET T -> Nat] : Sums(h, m, T)
  BY <1>1, SumsExist
<1>3. ASSUME NEW s \in SUBSET T, s # {} PROVE m[Elt(s)] = rows[Elt(s)].marks
  BY <1>3, EltOf DEF Marks
<1>4. h = [s \in SUBSET T |-> IF s = {} THEN 0 ELSE rows[Elt(s)].marks + h[s \ {Elt(s)}]]
  <2>1. ASSUME NEW s \in SUBSET T
        PROVE  h[s] = IF s = {} THEN 0 ELSE rows[Elt(s)].marks + h[s \ {Elt(s)}]
    BY <1>2, <1>3 DEF Sums
  <2> QED
    BY <1>2, <2>1
<1>5. ASSUME NEW g,
             g = [s \in SUBSET T |-> IF s = {} THEN 0 ELSE rows[Elt(s)].marks + g[s \ {Elt(s)}]]
      PROVE  g[T] = h[T]
  <2>1. Sums(g, m, T)
    <3>1. \A s \in SUBSET T : s # {} => g[s] = m[Elt(s)] + g[s \ {Elt(s)}]
      BY <1>3, <1>5
    <3>2. g = [s \in SUBSET T |-> g[s]] /\ g[{}] = 0
      BY <1>5
    <3> QED
      BY <3>1, <3>2 DEF Sums
  <2>2. T \in SUBSET T /\ \A x \in T : m[x] = m[x]
    OBVIOUS
  <2> HIDE DEF m
  <2> QED
    BY <1>1, <1>2, <2>1, <2>2, SumsUnique
<1>6. Sum(m, T) = h[T]
  BY <1>1, <1>2, SumIs
<1>7. MapThenSumSet(LAMBDA q : rows[q].marks, T) = h[T]
  BY <1>4, <1>5 DEF MapThenSumSet, MapThenFoldSet, Elt
<1> QED
  BY <1>6, <1>7

LEMMA Counted ==
  ASSUME attached \in [Assessments -> RowsType], sections \in SectionsType, NEW a \in Assessments
  PROVE  CountedMarks(a) = CountOf(attached[a], sections, a)
<1>1. attached[a] \in RowsType /\ sections \in SectionsType
  OBVIOUS
<1>2. ASSUME NEW s PROVE QuestionsBySection(a, s) = InSection(attached[a], s)
  <2>1. {q \in Rows(a) : attached[a][q].section = s} = Placed(attached[a], s)
        /\ Placed(attached[a], s) \in SUBSET Questions
    BY DEF Rows, Placed
  <2>2. MapThenSumSet(LAMBDA q : attached[a][q].marks, Placed(attached[a], s))
          = Sum(Marks(attached[a]), Placed(attached[a], s))
    BY <1>1, <2>1, QuestionFold
  <2> QED
    BY <2>1, <2>2 DEF QuestionsBySection, InSection
<1> DEFINE T == SectionsOf(a)
           m == SectionWorth(attached[a], sections)
<1>3. IsFiniteSet(T) /\ T \in SUBSET Sections /\ \A s \in T : m[s] \in Nat
  <2>1. {} \in SUBSET Questions
    OBVIOUS
  <2> QED
    BY <1>1, <2>1, MarksNat, AuthoringAssumption, FS_Subset DEF SectionsOf
<1>4. PICK h \in [SUBSET T -> Nat] : Sums(h, m, T)
  <2> HIDE DEF m, T
  <2> QED
    BY <1>3, SumsExist
<1> DEFINE w(s) == IF sections[s].marks > 0 THEN sections[s].marks
                   ELSE QuestionsBySection(a, s)
<1>5. ASSUME NEW s \in SUBSET T, s # {} PROVE m[Elt(s)] = w(Elt(s))
  BY <1>2, <1>3, <1>5, EltOf DEF SectionWorth
<1> HIDE DEF T, m
<1>6. h = [s \in SUBSET T |-> IF s = {} THEN 0 ELSE w(Elt(s)) + h[s \ {Elt(s)}]]
  <2> HIDE DEF w
  <2>1. ASSUME NEW s \in SUBSET T
        PROVE  h[s] = IF s = {} THEN 0 ELSE w(Elt(s)) + h[s \ {Elt(s)}]
    BY <1>4, <1>5 DEF Sums
  <2> QED
    BY <1>4, <2>1
<1>7. ASSUME NEW g,
             g = [s \in SUBSET T |-> IF s = {} THEN 0 ELSE w(Elt(s)) + g[s \ {Elt(s)}]]
      PROVE  g[T] = h[T]
  <2> HIDE DEF w
  <2>1. Sums(g, m, T)
    <3>1. \A s \in SUBSET T : s # {} => g[s] = m[Elt(s)] + g[s \ {Elt(s)}]
      BY <1>5, <1>7
    <3>2. g = [s \in SUBSET T |-> g[s]] /\ g[{}] = 0
      BY <1>7
    <3> QED
      BY <3>1, <3>2 DEF Sums
  <2>2. T \in SUBSET T /\ \A x \in T : m[x] = m[x]
    OBVIOUS
  <2> QED
    BY <1>3, <1>4, <2>1, <2>2, SumsUnique
<1>8. Sum(m, T) = h[T]
  BY <1>3, <1>4, SumIs
<1>9. MapThenSumSet(LAMBDA s : IF sections[s].marks > 0 THEN sections[s].marks
                               ELSE QuestionsBySection(a, s), T) = h[T]
  BY <1>6, <1>7 DEF MapThenSumSet, MapThenFoldSet, Elt
<1>10. CountedMarks(a) = InSection(attached[a], None) + Sum(m, T)
  BY <1>2, <1>8, <1>9 DEF CountedMarks, T
<1> QED
  BY <1>10 DEF CountOf, m, T, SectionsOf, Own

\* A fold of the marks of sections is a sum.
SectionMark(secs) == [s \in Sections |-> secs[s].marks]

LEMMA SectionFold ==
  ASSUME NEW secs \in SectionsType, NEW T \in SUBSET Sections
  PROVE  /\ IsFiniteSet(T) /\ \A s \in T : SectionMark(secs)[s] \in Nat
         /\ MapThenSumSet(LAMBDA s : secs[s].marks, T) = Sum(SectionMark(secs), T)
<1> DEFINE m == SectionMark(secs)
<1>1. IsFiniteSet(T) /\ \A s \in T : m[s] \in Nat
  BY AuthoringAssumption, FS_Subset DEF SectionsType, SectionRow, SectionMark
<1>2. PICK h \in [SUBSET T -> Nat] : Sums(h, m, T)
  <2> HIDE DEF m
  <2> QED
    BY <1>1, SumsExist
<1>3. ASSUME NEW s \in SUBSET T, s # {} PROVE m[Elt(s)] = secs[Elt(s)].marks
  BY <1>3, EltOf DEF SectionMark
<1> HIDE DEF m
<1>4. h = [s \in SUBSET T |-> IF s = {} THEN 0 ELSE secs[Elt(s)].marks + h[s \ {Elt(s)}]]
  <2>1. ASSUME NEW s \in SUBSET T
        PROVE  h[s] = IF s = {} THEN 0 ELSE secs[Elt(s)].marks + h[s \ {Elt(s)}]
    BY <1>2, <1>3 DEF Sums
  <2> QED
    BY <1>2, <2>1
<1>5. ASSUME NEW g,
             g = [s \in SUBSET T |-> IF s = {} THEN 0 ELSE secs[Elt(s)].marks + g[s \ {Elt(s)}]]
      PROVE  g[T] = h[T]
  <2>1. Sums(g, m, T)
    <3>1. \A s \in SUBSET T : s # {} => g[s] = m[Elt(s)] + g[s \ {Elt(s)}]
      BY <1>3, <1>5
    <3>2. g = [s \in SUBSET T |-> g[s]] /\ g[{}] = 0
      BY <1>5
    <3> QED
      BY <3>1, <3>2 DEF Sums
  <2>2. T \in SUBSET T /\ \A x \in T : m[x] = m[x]
    OBVIOUS
  <2> QED
    BY <1>1, <1>2, <2>1, <2>2, SumsUnique
<1>6. Sum(m, T) = h[T]
  BY <1>1, <1>2, SumIs
<1>7. MapThenSumSet(LAMBDA s : secs[s].marks, T) = h[T]
  BY <1>4, <1>5 DEF MapThenSumSet, MapThenFoldSet, Elt
<1> QED
  BY <1>1, <1>6, <1>7 DEF m

\* The marks of an assessment, section by section, are those of the questions
\* that count themselves and of the sections.
Stands(rows, secs, a) == {q \in Questions : /\ rows[q].on
    /\ \A s \in Own(secs, a) : rows[q].section = s => secs[s].marks = 0}

LEMMA Reference ==
  ASSUME NEW rows \in RowsType, NEW secs \in SectionsType, NEW a,
         \A q \in Questions : rows[q].on /\ rows[q].section # None =>
            rows[q].section \in Own(secs, a)
  PROVE  CountOf(rows, secs, a)
           = Sum(Marks(rows), Stands(rows, secs, a)) + Sum(SectionMark(secs), Own(secs, a))
<1> DEFINE m == Marks(rows)
           w == SectionWorth(rows, secs)
           c == SectionMark(secs)
           S == Own(secs, a)
           In(T) == {q \in Questions : /\ rows[q].on /\ rows[q].section \in T
                                       /\ secs[rows[q].section].marks = 0}
           G == {T \in SUBSET S : Sum(w, T) = Sum(m, In(T)) + Sum(c, T)}
<1>1. {} \in SUBSET Questions /\ S \in SUBSET Sections /\ None \notin Sections
  BY AuthoringAssumption DEF Own
<1>2. /\ IsFiniteSet(S)
      /\ \A s \in S : w[s] \in Nat /\ c[s] \in Nat
      /\ \A s \in S : c[s] = secs[s].marks
      /\ \A s \in S : w[s] = IF secs[s].marks > 0 THEN c[s] ELSE Sum(m, Placed(rows, s))
  <2>1. IsFiniteSet(S) /\ \A s \in S : w[s] \in Nat
    BY <1>1, MarksNat
  <2>2. \A s \in S : c[s] = secs[s].marks /\ c[s] \in Nat
    BY <1>1 DEF SectionMark, SectionsType, SectionRow
  <2>3. \A s \in S : w[s] = IF secs[s].marks > 0 THEN c[s] ELSE Sum(m, Placed(rows, s))
    BY <1>1 DEF SectionMark, SectionWorth, InSection
  <2> QED
    BY <2>1, <2>2, <2>3
<1>3. \A U \in SUBSET Questions :
        IsFiniteSet(U) /\ (\A q \in U : m[q] \in Nat) /\ Sum(m, U) \in Nat
  <2> TAKE U \in SUBSET Questions
  <2> HIDE DEF m
  <2> QED
    BY MarksNat DEF m
<1>4. {} \in G
  <2>1. In({}) = {}
    OBVIOUS
  <2> HIDE DEF In, m, w, c, S
  <2> QED
    BY <2>1, SumEmpty
<1>5. ASSUME NEW T \in G, NEW s \in S \ T PROVE T \cup {s} \in G
  <2>1. IsFiniteSet(T) /\ T \in SUBSET S
    BY <1>2, <1>5, FS_Subset
  <2>2. (\A x \in T \cup {s} : w[x] \in Nat) /\ (\A x \in T \cup {s} : c[x] \in Nat)
    BY <1>2, <1>5
  <2>3. In(T) \in SUBSET Questions /\ Placed(rows, s) \in SUBSET Questions
    BY DEF Placed
  <2>4. secs[s].marks \in Nat
    BY <1>2, <1>5
  <2>5. secs[s].marks > 0 => In(T \cup {s}) = In(T)
    BY <1>1, <1>5, <2>4
  <2>6. secs[s].marks = 0 => In(T \cup {s}) = In(T) \cup Placed(rows, s)
                             /\ In(T) \cap Placed(rows, s) = {}
    BY <1>1, <1>5 DEF Placed
  <2> HIDE DEF In, m, w, c, S
  <2>6a. (\A x \in T \cup {s} : w[x] \in Int) /\ (\A x \in T \cup {s} : c[x] \in Int)
    BY <2>2
  <2>7. Sum(w, T \cup {s}) = w[s] + Sum(w, T)
    BY <1>5, <2>1, <2>6a, SumAdd
  <2>8. Sum(c, T \cup {s}) = c[s] + Sum(c, T)
    BY <1>5, <2>1, <2>6a, SumAdd
  <2>9. Sum(c, T) \in Nat /\ Sum(m, In(T)) \in Nat /\ Sum(m, Placed(rows, s)) \in Nat
        /\ c[s] \in Nat
    BY <1>3, <2>1, <2>2, <2>3, SumNat
  <2>10. Sum(w, T) = Sum(m, In(T)) + Sum(c, T)
    BY <1>5
  <2>11. Sum(w, T \cup {s}) = Sum(m, In(T \cup {s})) + Sum(c, T \cup {s})
    <3>1. CASE secs[s].marks > 0
      BY <1>2, <1>5, <2>5, <2>7, <2>8, <2>9, <2>10, <3>1
    <3>2. CASE secs[s].marks = 0
      <4>1. Sum(m, In(T) \cup Placed(rows, s)) = Sum(m, In(T)) + Sum(m, Placed(rows, s))
        <5>1. \A q \in In(T) \cup Placed(rows, s) : m[q] \in Nat
          BY <1>3, <2>3
        <5> QED
          BY <1>3, <2>3, <2>6, <3>2, <5>1, SumUnion
      <4>2. w[s] = Sum(m, Placed(rows, s)) /\ c[s] = 0
        BY <1>2, <1>5, <3>2
      <4>3. Sum(m, In(T \cup {s})) = Sum(m, In(T)) + Sum(m, Placed(rows, s))
        BY <2>6, <3>2, <4>1
      <4>4. Sum(w, T \cup {s}) = Sum(m, Placed(rows, s)) + (Sum(m, In(T)) + Sum(c, T))
        BY <2>7, <2>10, <4>2
      <4>5. Sum(c, T \cup {s}) = Sum(c, T)
        BY <2>8, <2>9, <4>2
      <4> QED
        BY <2>9, <4>3, <4>4, <4>5
    <3> QED
      BY <2>4, <3>1, <3>2
  <2> QED
    BY <1>5, <2>11
<1>6. S \in G
  <2> HIDE DEF G, S
  <2>1. G \in SUBSET (SUBSET S)
    BY DEF G
  <2> QED
    BY <1>2, <1>4, <1>5, <2>1, Grows
<1>7. Sum(m, Stands(rows, secs, a)) = Sum(m, Placed(rows, None)) + Sum(m, In(S))
  <2>1. Stands(rows, secs, a) = Placed(rows, None) \cup In(S)
    BY <1>1 DEF Stands, Placed
  <2>2. Placed(rows, None) \cap In(S) = {}
    BY <1>1 DEF Placed
  <2>3. Placed(rows, None) \in SUBSET Questions /\ In(S) \in SUBSET Questions
    BY DEF Placed
  <2> HIDE DEF In, m, S
  <2>4. \A q \in Placed(rows, None) \cup In(S) : m[q] \in Nat
    BY <1>3, <2>3
  <2> QED
    BY <1>3, <2>1, <2>2, <2>3, <2>4, SumUnion
<1>8. Sum(m, Placed(rows, None)) \in Nat /\ Sum(m, In(S)) \in Nat /\ Sum(c, S) \in Nat
  <2>1. Placed(rows, None) \in SUBSET Questions /\ In(S) \in SUBSET Questions
    BY DEF Placed
  <2> HIDE DEF In, m, S, c
  <2> QED
    BY <1>2, <1>3, <2>1, SumNat
<1>9. Sum(w, S) = Sum(m, In(S)) + Sum(c, S)
  BY <1>6
<1> HIDE DEF In, m, w, c, S
<1>10. CountOf(rows, secs, a) = Sum(m, Placed(rows, None)) + Sum(w, S)
  BY DEF CountOf, InSection, m, w, S
<1>11. CountOf(rows, secs, a) = (Sum(m, Placed(rows, None)) + Sum(m, In(S))) + Sum(c, S)
  BY <1>8, <1>9, <1>10
<1> QED
  BY <1>7, <1>11 DEF m, c, S

-----------------------------------------------------------------------------
(* The bank. *)

LEMMA BankFields ==
  /\ NoQuestion \in QuestionRow /\ NoQuestion.status = "NONE" /\ NoQuestion.job = None
  /\ NoQuestion.deleted = FALSE
  /\ NoJob \in JobRow /\ NoJob.state = "NONE" /\ NoJob.ok = 0 /\ NoJob.failed = 0
  /\ NoEdit \in EditRow /\ NoEdit.op = "idle" /\ NoEdit.clean
  /\ "NONE" \notin QuestionStatus
<1>1. NoQuestion \in QuestionRow
  BY DEF NoQuestion, QuestionRow
<1>2. NoJob \in JobRow
  BY BankAssumption DEF NoJob, JobRow
<1>3. NoEdit \in EditRow
  BY BankAssumption DEF NoEdit, EditRow, QuestionStatus
<1> QED
  BY <1>1, <1>2, <1>3 DEF NoQuestion, NoJob, NoEdit, QuestionStatus

\* What a handler knows outlives a step that leaves its question and its job
\* alone, or that it is told of.
LEMMA EditKept ==
  ASSUME NEW w \in EditRow, NEW v, v \in {w, [w EXCEPT !.clean = FALSE]},
         EditGood(w, questions, jobs),
         \A q \in Questions : questions[q].status # "NONE" =>
            questions'[q].status # "NONE" /\ questions'[q].college = questions[q].college,
         v.clean /\ w.op = "status" =>
            questions'[w.q].deleted = questions[w.q].deleted /\ questions'[w.q].complete = questions[w.q].complete,
         w.op = "tag" => questions'[w.q].job = questions[w.q].job,
         w.op \in {"import", "tag"} =>
            jobs'[w.job] = jobs[w.job] /\ TaggedIn(questions', w.job) = TaggedIn(questions, w.job)
  PROVE  v \in EditRow /\ EditGood(v, questions', jobs')
         /\ v.op = w.op /\ v.job = w.job /\ v.q = w.q
<1>1. /\ v \in EditRow
      /\ v.op = w.op /\ v.q = w.q /\ v.status = w.status /\ v.deleted = w.deleted
      /\ v.subject = w.subject /\ v.complete = w.complete /\ v.coding = w.coding
      /\ v.user = w.user /\ v.job = w.job /\ v.ok = w.ok /\ v.failed = w.failed
      /\ v.clean => w.clean
  BY ZenonT(60) DEF EditRow
<1>2. v.op \in {"update", "status", "tag"} => v.q \in Questions /\ questions'[v.q].status # "NONE"
      /\ questions'[v.q].college = questions[v.q].college
  BY <1>1 DEF EditGood
<1>3. v.op = "update" =>
         /\ v.status \in QuestionStatus /\ v.subject \in Subjects
         /\ SubjectCollege[v.subject] = questions'[v.q].college
         /\ ValidQuestion(v.coding, v.complete, v.status)
  BY <1>1, <1>2 DEF EditGood
<1>4. v.op = "status" =>
         /\ v.status \in QuestionStatus
         /\ v.clean => /\ questions'[v.q].deleted => v.deleted
                       /\ v.status = "ACTIVE" => questions'[v.q].complete
  BY <1>1, <1>2 DEF EditGood
<1>5. v.op \in {"import", "tag"} =>
         /\ v.job \in Jobs /\ v.user \in Users
         /\ jobs'[v.job].state # "NONE" /\ jobs'[v.job].ok = 0 /\ jobs'[v.job].failed = 0
         /\ jobs'[v.job].college \in Colleges /\ jobs'[v.job].subject \in Subjects
         /\ SubjectCollege[jobs'[v.job].subject] = jobs'[v.job].college
         /\ v.ok + v.failed <= jobs'[v.job].total
         /\ v.ok = Cardinality(TaggedIn(questions', v.job))
  BY <1>1 DEF EditGood
<1>6. v.op = "tag" => questions'[v.q].job = None /\ v.ok + v.failed < jobs'[v.job].total
  BY <1>1 DEF EditGood
<1> QED
  BY <1>1, <1>2, <1>3, <1>4, <1>5, <1>6 DEF EditGood

\* A row of the bank may change as long as its college and its job stay.
RowStep(q, x) ==
    /\ q \in Questions /\ questions' = [questions EXCEPT ![q] = x]
    /\ x \in QuestionRow /\ x.status # "NONE" /\ QuestionWhole(x)
    /\ x.job = questions[q].job
    /\ Exists(q) => x.college = questions[q].college
    /\ q \in suspect' \/ (x.status = "ACTIVE" => x.complete)
    /\ suspect' \in SUBSET Questions /\ suspect \ {q} \subseteq suspect'

LEMMA RowStepKeeps ==
  ASSUME BankInv, NEW q, NEW x, RowStep(q, x), jobs' = jobs
  PROVE  /\ questions' \in [Questions -> QuestionRow] /\ jobs' \in [Jobs -> JobRow]
         /\ suspect' \subseteq Questions
         /\ QuestionsWhole' /\ JobsWhole' /\ ImportAccounts' /\ ActiveIsComplete'
         /\ \A p \in Questions : questions[p].status # "NONE" =>
              questions'[p].status # "NONE" /\ questions'[p].college = questions[p].college
         /\ \A p \in Questions : questions'[p].job = questions[p].job
         /\ \A j : TaggedIn(questions', j) = TaggedIn(questions, j)
         /\ \A p \in Questions \ {q} : questions'[p] = questions[p]
         /\ questions'[q] = x
<1>1. /\ questions \in [Questions -> QuestionRow] /\ jobs \in [Jobs -> JobRow]
      /\ q \in Questions /\ questions' = [questions EXCEPT ![q] = x] /\ x \in QuestionRow
  BY DEF BankInv, BankTypes, RowStep
<1>2. /\ questions' \in [Questions -> QuestionRow] /\ jobs' \in [Jobs -> JobRow]
      /\ suspect' \subseteq Questions
  BY <1>1 DEF RowStep
<1>3. \A p \in Questions \ {q} : questions'[p] = questions[p]
  BY <1>1
<1>4. questions'[q] = x
  BY <1>1
<1>5. \A p \in Questions : questions[p].status # "NONE" =>
        questions'[p].status # "NONE" /\ questions'[p].college = questions[p].college
  BY <1>3, <1>4 DEF RowStep, Exists
<1>6. \A p \in Questions : questions'[p].job = questions[p].job
  BY <1>3, <1>4 DEF RowStep
<1>7. \A j : TaggedIn(questions', j) = TaggedIn(questions, j)
  BY <1>6 DEF TaggedIn
<1>8. QuestionsWhole'
  BY <1>3, <1>4 DEF QuestionsWhole, RowStep, BankInv
<1>9. JobsWhole'
  BY <1>7 DEF JobsWhole, BankInv
<1>10. ImportAccounts'
  <2>1. \A j : {p \in Questions : questions'[p].job = j} = {p \in Questions : questions[p].job = j}
    BY <1>7 DEF TaggedIn
  <2> QED
    BY <2>1 DEF ImportAccounts, BankInv
<1>11. ActiveIsComplete'
  BY <1>3, <1>4 DEF ActiveIsComplete, RowStep, BankInv
<1> QED
  BY <1>2, <1>3, <1>4, <1>5, <1>6, <1>7, <1>8, <1>9, <1>10, <1>11

\* The handlers after a step: one may be done, the others know of it.
LEMMA EditsKept ==
  ASSUME BankInv, jobs' = jobs, NEW P \in SUBSET Questions,
         \A q \in Questions : questions[q].status # "NONE" =>
            questions'[q].status # "NONE" /\ questions'[q].college = questions[q].college,
         \A q \in Questions : questions'[q].job = questions[q].job,
         \A q \in Questions \ P : questions'[q] = questions[q],
         edit' = [e \in Editors |-> edit'[e]],
         \A e \in Editors : \/ edit'[e] = NoEdit
                            \/ /\ edit'[e] = edit[e]
                               /\ edit[e].op = "status" => edit[e].q \notin P
                            \/ edit'[e] = [edit[e] EXCEPT !.clean = FALSE]
  PROVE  edit' \in [Editors -> EditRow] /\ EditsGood' /\ ImportsApart'
<1>1. \A j : TaggedIn(questions', j) = TaggedIn(questions, j)
  BY DEF TaggedIn
<1>2. ASSUME NEW e \in Editors
      PROVE  /\ edit'[e] \in EditRow /\ EditGood(edit'[e], questions', jobs')
             /\ \/ edit'[e].op = "idle"
                \/ edit'[e].op = edit[e].op /\ edit'[e].job = edit[e].job /\ edit'[e].q = edit[e].q
  <2>1. edit[e] \in EditRow /\ EditGood(edit[e], questions, jobs)
    BY DEF BankInv, BankTypes, EditsGood
  <2>2. CASE edit'[e] = NoEdit
    <3>1. edit'[e] \in EditRow /\ edit'[e].op = "idle"
      BY <2>2, BankFields
    <3> QED
      BY <3>1 DEF EditGood
  <2>3. CASE edit'[e] = edit[e] /\ (edit[e].op = "status" => edit[e].q \notin P)
    <3>1. edit[e].op = "status" => questions'[edit[e].q] = questions[edit[e].q]
      BY <2>1, <2>3 DEF EditGood
    <3>2. edit[e].op = "tag" => questions'[edit[e].q].job = questions[edit[e].q].job
      BY <2>1 DEF EditGood
    <3> QED
      BY <1>1, <2>1, <2>3, <3>1, <3>2, EditKept
  <2>4. CASE edit'[e] = [edit[e] EXCEPT !.clean = FALSE]
    <3>1. edit'[e].clean = FALSE /\ edit'[e] \in {edit[e], [edit[e] EXCEPT !.clean = FALSE]}
      BY <2>1, <2>4 DEF EditRow
    <3>2. edit[e].op = "tag" => questions'[edit[e].q].job = questions[edit[e].q].job
      BY <2>1 DEF EditGood
    <3> DEFINE w == edit[e]
               v == edit'[e]
    <3>3. /\ w \in EditRow /\ v \in {w, [w EXCEPT !.clean = FALSE]}
          /\ EditGood(w, questions, jobs)
          /\ ~v.clean /\ (w.op = "tag" => questions'[w.q].job = questions[w.q].job)
      BY <2>1, <3>1, <3>2
    <3> HIDE DEF v, w
    <3>4. /\ v.clean /\ w.op = "status" =>
               /\ questions'[w.q].deleted = questions[w.q].deleted
               /\ questions'[w.q].complete = questions[w.q].complete
          /\ w.op \in {"import", "tag"} =>
               jobs'[w.job] = jobs[w.job] /\ TaggedIn(questions', w.job) = TaggedIn(questions, w.job)
      BY <1>1, <3>3
    <3>5. /\ v \in EditRow /\ EditGood(v, questions', jobs')
          /\ v.op = w.op /\ v.job = w.job /\ v.q = w.q
      BY <3>3, <3>4, EditKept
    <3> QED
      BY <3>5 DEF v, w
  <2> QED
    BY <2>2, <2>3, <2>4
<1>3. ImportsApart'
  BY <1>2 DEF ImportsApart, BankInv
<1>4. EditsGood'
  BY <1>2 DEF EditsGood
<1> QED
  BY <1>2, <1>3, <1>4

\* A step that writes one row of the bank.
LEMMA RowStepInv ==
  ASSUME BankInv, NEW q, NEW x, RowStep(q, x), jobs' = jobs,
         edit' = [e \in Editors |-> edit'[e]],
         \A e \in Editors : \/ edit'[e] = NoEdit
                            \/ /\ edit'[e] = edit[e]
                               /\ edit[e].op = "status" => edit[e].q # q
                            \/ edit'[e] = [edit[e] EXCEPT !.clean = FALSE]
  PROVE  BankInv'
<1> DEFINE P == {q}
<1>1. /\ questions' \in [Questions -> QuestionRow] /\ jobs' \in [Jobs -> JobRow]
      /\ suspect' \subseteq Questions
      /\ QuestionsWhole' /\ JobsWhole' /\ ImportAccounts' /\ ActiveIsComplete'
      /\ \A p \in Questions : questions[p].status # "NONE" =>
           questions'[p].status # "NONE" /\ questions'[p].college = questions[p].college
      /\ \A p \in Questions : questions'[p].job = questions[p].job
      /\ \A p \in Questions \ P : questions'[p] = questions[p]
  BY RowStepKeeps
<1>2. P \in SUBSET Questions
      /\ \A e \in Editors : \/ edit'[e] = NoEdit
                            \/ /\ edit'[e] = edit[e]
                               /\ edit[e].op = "status" => edit[e].q \notin P
                            \/ edit'[e] = [edit[e] EXCEPT !.clean = FALSE]
  BY DEF RowStep
<1> HIDE DEF P
<1>3. edit' \in [Editors -> EditRow] /\ EditsGood' /\ ImportsApart'
  BY <1>1, <1>2, EditsKept
<1> QED
  BY <1>1, <1>3 DEF BankInv, BankTypes

\* A step that leaves the rows of the bank alone.
LEMMA EditStepInv ==
  ASSUME BankInv, questions' = questions, jobs' = jobs, suspect' = suspect,
         NEW e \in Editors, NEW v \in EditRow, edit' = [edit EXCEPT ![e] = v],
         EditGood(v, questions, jobs),
         \A f \in Editors \ {e} :
            /\ v.op \in {"import", "tag"} /\ edit[f].op \in {"import", "tag"} =>
                 v.job # edit[f].job
            /\ v.op = "tag" /\ edit[f].op = "tag" => v.q # edit[f].q
  PROVE  BankInv'
<1>1. edit \in [Editors -> EditRow] /\ edit' \in [Editors -> EditRow]
      /\ edit'[e] = v /\ \A f \in Editors \ {e} : edit'[f] = edit[f]
  BY DEF BankInv, BankTypes
<1>2. EditsGood'
  BY <1>1 DEF BankInv, EditsGood
<1>3. ImportsApart'
  BY <1>1 DEF BankInv, ImportsApart
<1>4. BankTypes'
  BY <1>1 DEF BankInv, BankTypes
<1>5. QuestionsWhole' /\ JobsWhole' /\ ActiveIsComplete'
  BY DEF BankInv, QuestionsWhole, JobsWhole, ActiveIsComplete
<1>6. ImportAccounts'
  BY DEF BankInv, ImportAccounts
<1> QED
  BY <1>2, <1>3, <1>4, <1>5, <1>6 DEF BankInv

\* The college of a write, and of what a user finds.
LEMMA WritesIn ==
  ASSUME NEW u \in Users, NEW c \in Colleges, Staff(u)
  PROVE  WriteCollege(u, c) \in Colleges
  BY BankAssumption DEF Staff, WriteCollege, Roles

LEMMA QuestionRows ==
  ASSUME BankInv, NEW q \in Questions, Exists(q)
  PROVE  /\ questions[q] \in QuestionRow /\ questions[q].status \in QuestionStatus
         /\ questions[q].college \in Colleges /\ questions[q].subject \in Subjects
         /\ SubjectCollege[questions[q].subject] = questions[q].college
<1>1. questions[q] \in QuestionRow
  BY DEF BankInv, BankTypes
<1>2. questions[q].status \in QuestionStatus
  BY <1>1 DEF QuestionRow, Exists
<1> QED
  BY <1>1, <1>2 DEF BankInv, QuestionsWhole, QuestionWhole, Exists

LEMMA CreateQuestionStep ==
  ASSUME BankInv, NEW u \in Users, NEW q \in Questions, NEW c \in Colleges, NEW s \in Subjects,
         NEW st \in {"DRAFT", "ACTIVE"}, NEW p \in Payloads,
         CreateQuestion(u, q, c, s, st, p.coding, p.complete)
  PROVE  BankInv'
<1> DEFINE x == NewQuestion(u, WriteCollege(u, c), s, st, p.coding, p.complete, "no")
<1>1. /\ ~Exists(q) /\ Staff(u) /\ SubjectCollege[s] = WriteCollege(u, c)
      /\ ValidQuestion(p.coding, p.complete, st)
      /\ questions' = [questions EXCEPT ![q] = x]
      /\ jobs' = jobs /\ edit' = edit /\ suspect' = suspect
  BY DEF CreateQuestion, SubjectAccess
<1>2. p.coding \in BOOLEAN /\ p.complete \in BOOLEAN /\ WriteCollege(u, c) \in Colleges
      /\ st \in QuestionStatus /\ "no" \in {"no", "plain", "grouped"}
  BY <1>1, WritesIn, BankAssumption DEF QuestionStatus
<1>3. /\ x.status = st /\ x.college = WriteCollege(u, c) /\ x.subject = s
      /\ x.complete = p.complete /\ x.job = None /\ x \in QuestionRow
  BY <1>2 DEF NewQuestion, NoQuestion, QuestionRow
<1> HIDE DEF x
<1>4. questions[q] = NoQuestion
  BY <1>1 DEF BankInv, QuestionsWhole, QuestionWhole, Exists
<1>5. QuestionWhole(x) /\ x.status # "NONE"
  BY <1>1, <1>2, <1>3, BankFields DEF QuestionWhole
<1>6. RowStep(q, x)
  BY <1>1, <1>3, <1>4, <1>5, BankFields DEF RowStep, ValidQuestion, BankInv, BankTypes
<1>7. edit' = [e \in Editors |-> edit'[e]]
      /\ \A e \in Editors : edit'[e] = edit[e] /\ (edit[e].op = "status" => edit[e].q # q)
  BY <1>1 DEF BankInv, BankTypes, EditsGood, EditGood, Exists
<1> QED
  BY <1>1, <1>6, <1>7, RowStepInv

LEMMA DuplicateQuestionStep ==
  ASSUME BankInv, NEW u \in Users, NEW q \in Questions, NEW copy \in Questions,
         DuplicateQuestion(u, q, copy)
  PROVE  BankInv'
<1> DEFINE x == [questions[q] EXCEPT
                   !.status = "DRAFT", !.deleted = FALSE, !.owner = u, !.job = None]
<1>1. /\ Exists(q) /\ ~Exists(copy) /\ questions' = [questions EXCEPT ![copy] = x]
      /\ jobs' = jobs /\ edit' = edit /\ suspect' = suspect
  BY DEF DuplicateQuestion, FindQuestion
<1>2. /\ questions[q] \in QuestionRow
      /\ questions[q].college \in Colleges /\ questions[q].subject \in Subjects
      /\ SubjectCollege[questions[q].subject] = questions[q].college
  BY <1>1, QuestionRows
<1>3. /\ x.status = "DRAFT" /\ x.college = questions[q].college
      /\ x.subject = questions[q].subject /\ x.job = None /\ x \in QuestionRow
  BY <1>2 DEF QuestionRow, QuestionStatus
<1> HIDE DEF x
<1>4. questions[copy] = NoQuestion
  BY <1>1 DEF BankInv, QuestionsWhole, QuestionWhole, Exists
<1>5. RowStep(copy, x)
  BY <1>1, <1>2, <1>3, <1>4, BankFields DEF RowStep, QuestionWhole, BankInv, BankTypes
<1>6. edit' = [e \in Editors |-> edit'[e]]
      /\ \A e \in Editors : edit'[e] = edit[e] /\ (edit[e].op = "status" => edit[e].q # copy)
  BY <1>1 DEF BankInv, BankTypes, EditsGood, EditGood, Exists
<1> QED
  BY <1>1, <1>5, <1>6, RowStepInv


LEMMA OutdateIs ==
  ASSUME BankInv, NEW q \in Questions, NEW e \in Editors,
         edit' = Outdate(q, edit) \/ edit' = Outdate(q, [edit EXCEPT ![e] = NoEdit])
  PROVE  /\ edit' = [f \in Editors |-> edit'[f]]
         /\ \A f \in Editors : \/ edit'[f] = NoEdit
                               \/ /\ edit'[f] = edit[f]
                                  /\ edit[f].op = "status" => edit[f].q # q
                               \/ edit'[f] = [edit[f] EXCEPT !.clean = FALSE]
<1>1. edit \in [Editors -> EditRow] /\ None \notin Questions /\ NoEdit.q = None
  BY BankAssumption DEF BankInv, BankTypes, NoEdit
<1>2. CASE edit' = Outdate(q, edit)
  BY <1>1, <1>2 DEF Outdate
<1>3. CASE edit' = Outdate(q, [edit EXCEPT ![e] = NoEdit])
  <2>1. edit' = [f \in Editors |-> edit'[f]]
    BY <1>3 DEF Outdate
  <2>2. edit'[e] = NoEdit
    BY <1>1, <1>3 DEF Outdate
  <2>3. ASSUME NEW f \in Editors \ {e}
        PROVE  edit'[f] = IF edit[f].q = q THEN [edit[f] EXCEPT !.clean = FALSE] ELSE edit[f]
    BY <1>1, <1>3 DEF Outdate
  <2> QED
    BY <2>1, <2>2, <2>3
<1> QED
  BY <1>2, <1>3

LEMMA DeleteQuestionStep ==
  ASSUME BankInv, NEW u \in Users, NEW q \in Questions, DeleteQuestion(u, q)
  PROVE  BankInv'
<1> DEFINE x == [questions[q] EXCEPT !.status = "ARCHIVED", !.deleted = TRUE]
<1>1. /\ Exists(q) /\ jobs' = jobs /\ edit' = Outdate(q, edit) /\ suspect' = suspect
      /\ questions' = [questions EXCEPT ![q].status = "ARCHIVED", ![q].deleted = TRUE]
  BY DEF DeleteQuestion, FindQuestion
<1>2. /\ questions[q] \in QuestionRow /\ questions \in [Questions -> QuestionRow]
      /\ questions[q].college \in Colleges /\ questions[q].subject \in Subjects
      /\ SubjectCollege[questions[q].subject] = questions[q].college
      /\ suspect \in SUBSET Questions
  BY <1>1, QuestionRows DEF BankInv, BankTypes
<1>3. questions' = [questions EXCEPT ![q] = x]
  BY <1>1, <1>2
<1>4. /\ x.status = "ARCHIVED" /\ x.college = questions[q].college
      /\ x.subject = questions[q].subject /\ x.job = questions[q].job /\ x \in QuestionRow
  BY <1>2 DEF QuestionRow, QuestionStatus
<1> HIDE DEF x
<1>5. RowStep(q, x)
  BY <1>1, <1>2, <1>3, <1>4 DEF RowStep, QuestionWhole
<1>6. CASE Editors = {}
  <2>1. /\ edit' = [f \in Editors |-> edit'[f]]
        /\ \A f \in Editors : edit'[f] = edit[f] /\ (edit[f].op = "status" => edit[f].q # q)
    BY <1>1, <1>6 DEF Outdate
  <2> QED
    BY <1>1, <1>5, <2>1, RowStepInv
<1>7. ASSUME NEW e \in Editors PROVE BankInv'
  <2>1. /\ edit' = [f \in Editors |-> edit'[f]]
        /\ \A f \in Editors : \/ edit'[f] = NoEdit
                              \/ /\ edit'[f] = edit[f]
                                 /\ edit[f].op = "status" => edit[f].q # q
                              \/ edit'[f] = [edit[f] EXCEPT !.clean = FALSE]
    BY <1>1, OutdateIs
  <2> QED
    BY <1>1, <1>5, <2>1, RowStepInv
<1> QED
  BY <1>6, <1>7

LEMMA UpdateQuestionReadStep ==
  ASSUME BankInv, NEW e \in Editors, NEW u \in Users, NEW q \in Questions,
         NEW s \in Subjects, NEW st \in {"NONE", "DRAFT", "ACTIVE"}, NEW p \in Payloads,
         UpdateQuestionRead(e, u, q, s, st, p.coding, p.complete)
  PROVE  BankInv'
<1> DEFINE target == IF st = "NONE" THEN questions[q].status ELSE st
           v == [NoEdit EXCEPT !.op = "update", !.q = q, !.subject = s, !.status = target,
                     !.coding = p.coding, !.complete = p.complete]
<1>1. /\ Exists(q) /\ SubjectCollege[s] = questions[q].college
      /\ ValidQuestion(p.coding, p.complete, target)
      /\ edit' = [edit EXCEPT ![e] = v]
      /\ questions' = questions /\ jobs' = jobs /\ suspect' = suspect
  BY DEF UpdateQuestionRead, SubjectAccess, FindQuestion
<1>2. target \in QuestionStatus /\ p.coding \in BOOLEAN /\ p.complete \in BOOLEAN
  BY <1>1, QuestionRows, BankAssumption DEF QuestionStatus
<1> HIDE DEF target
<1>3. v \in EditRow
  BY <1>2, BankFields, ZenonT(60) DEF EditRow
<1>4. v.op = "update" /\ v.q = q /\ v.status = target /\ v.subject = s
  BY DEF NoEdit
<1>5. v.coding = p.coding /\ v.complete = p.complete
  BY DEF NoEdit
<1> HIDE DEF v
<1>6. EditGood(v, questions, jobs)
  BY <1>1, <1>2, <1>4, <1>5 DEF EditGood, Exists
<1> QED
  BY <1>1, <1>3, <1>4, <1>6, EditStepInv

LEMMA UpdateStatusReadStep ==
  ASSUME BankInv, NEW e \in Editors, NEW u \in Users, NEW q \in Questions,
         NEW st \in QuestionStatus, UpdateStatusRead(e, u, q, st)
  PROVE  BankInv'
<1> DEFINE d == (st = "ARCHIVED") \/ questions[q].deleted
           v == [NoEdit EXCEPT !.op = "status", !.q = q, !.status = st, !.deleted = d]
<1>1. /\ Exists(q) /\ (st = "ACTIVE" => questions[q].complete)
      /\ edit' = [edit EXCEPT ![e] = v]
      /\ questions' = questions /\ jobs' = jobs /\ suspect' = suspect
  BY DEF UpdateStatusRead, FindQuestion, ValidQuestion
<1>2. d \in BOOLEAN /\ (questions[q].deleted => d)
  OBVIOUS
<1> HIDE DEF d
<1>3. v \in EditRow
  BY <1>2, BankFields, ZenonT(120) DEF EditRow
<1>4. v.op = "status" /\ v.q = q /\ v.status = st
  BY DEF NoEdit
<1>5. questions[q].deleted => v.deleted
  BY <1>2 DEF NoEdit
<1> HIDE DEF v
<1>6. EditGood(v, questions, jobs)
  BY <1>1, <1>4, <1>5 DEF EditGood, Exists
<1> QED
  BY <1>1, <1>3, <1>4, <1>6, EditStepInv

LEMMA UpdateQuestionWriteStep ==
  ASSUME BankInv, NEW e \in Editors, UpdateQuestionWrite(e)
  PROVE  BankInv'
<1> DEFINE r == edit[e]
           q == r.q
           x == [questions[q] EXCEPT !.status = r.status, !.subject = r.subject,
                                     !.coding = r.coding, !.complete = r.complete]
<1>1. /\ r.op = "update" /\ jobs' = jobs /\ suspect' = suspect \ {q}
      /\ edit' = Outdate(q, [edit EXCEPT ![e] = NoEdit])
      /\ questions' = [questions EXCEPT ![q].status = r.status, ![q].subject = r.subject,
                          ![q].coding = r.coding, ![q].complete = r.complete]
  BY DEF UpdateQuestionWrite
<1>2. r \in EditRow /\ EditGood(r, questions, jobs)
  BY DEF BankInv, BankTypes, EditsGood
<1> HIDE DEF r
<1>3. /\ q \in Questions /\ questions[q].status # "NONE"
      /\ r.status \in QuestionStatus /\ r.subject \in Subjects
      /\ SubjectCollege[r.subject] = questions[q].college
      /\ ValidQuestion(r.coding, r.complete, r.status)
  BY <1>1, <1>2 DEF EditGood
<1> HIDE DEF q
<1>4. /\ questions[q] \in QuestionRow /\ questions \in [Questions -> QuestionRow]
      /\ questions[q].college \in Colleges /\ suspect \in SUBSET Questions
  BY <1>3, QuestionRows DEF BankInv, BankTypes, Exists
<1>5. questions' = [questions EXCEPT ![q] = x]
  BY <1>1, <1>3, <1>4
<1>6. /\ x.status = r.status /\ x.college = questions[q].college /\ x.subject = r.subject
      /\ x.job = questions[q].job /\ x.complete = r.complete /\ x \in QuestionRow
  BY <1>2, <1>3, <1>4 DEF QuestionRow, EditRow
<1>7. x.status # "NONE"
  BY <1>3, <1>6, BankFields
<1> HIDE DEF x
<1>8. QuestionWhole(x)
  BY <1>3, <1>4, <1>6, <1>7 DEF QuestionWhole
<1>9. RowStep(q, x)
  BY <1>1, <1>3, <1>4, <1>5, <1>6, <1>7, <1>8 DEF RowStep, ValidQuestion
<1>10. /\ edit' = [f \in Editors |-> edit'[f]]
       /\ \A f \in Editors : \/ edit'[f] = NoEdit
                             \/ /\ edit'[f] = edit[f]
                                /\ edit[f].op = "status" => edit[f].q # q
                             \/ edit'[f] = [edit[f] EXCEPT !.clean = FALSE]
  BY <1>1, <1>3, OutdateIs
<1> QED
  BY <1>1, <1>9, <1>10, RowStepInv

LEMMA UpdateStatusWriteStep ==
  ASSUME BankInv, NEW e \in Editors, UpdateStatusWrite(e)
  PROVE  BankInv'
<1> DEFINE r == edit[e]
           q == r.q
           x == [questions[q] EXCEPT !.status = r.status, !.deleted = r.deleted]
<1>1. /\ r.op = "status" /\ jobs' = jobs
      /\ suspect' = IF r.clean THEN suspect ELSE suspect \cup {q}
      /\ edit' = Outdate(q, [edit EXCEPT ![e] = NoEdit])
      /\ questions' = [questions EXCEPT ![q].status = r.status, ![q].deleted = r.deleted]
  BY DEF UpdateStatusWrite
<1>2. r \in EditRow /\ EditGood(r, questions, jobs)
  BY DEF BankInv, BankTypes, EditsGood
<1> HIDE DEF r
<1>3. /\ q \in Questions /\ questions[q].status # "NONE" /\ r.status \in QuestionStatus
      /\ r.clean => (r.status = "ACTIVE" => questions[q].complete)
  BY <1>1, <1>2 DEF EditGood
<1> HIDE DEF q
<1>4. /\ questions[q] \in QuestionRow /\ questions \in [Questions -> QuestionRow]
      /\ questions[q].college \in Colleges /\ questions[q].subject \in Subjects
      /\ SubjectCollege[questions[q].subject] = questions[q].college
      /\ suspect \in SUBSET Questions
  BY <1>3, QuestionRows DEF BankInv, BankTypes, Exists
<1>5. questions' = [questions EXCEPT ![q] = x]
  BY <1>1, <1>3, <1>4
<1>6. /\ x.status = r.status /\ x.college = questions[q].college
      /\ x.subject = questions[q].subject /\ x.job = questions[q].job
      /\ x.complete = questions[q].complete /\ x \in QuestionRow
  BY <1>2, <1>3, <1>4 DEF QuestionRow, EditRow
<1>7. x.status # "NONE"
  BY <1>3, <1>6, BankFields
<1> HIDE DEF x
<1>8. QuestionWhole(x)
  BY <1>4, <1>6, <1>7 DEF QuestionWhole
<1>9. RowStep(q, x)
  BY <1>1, <1>3, <1>4, <1>5, <1>6, <1>7, <1>8 DEF RowStep
<1>10. /\ edit' = [f \in Editors |-> edit'[f]]
       /\ \A f \in Editors : \/ edit'[f] = NoEdit
                             \/ /\ edit'[f] = edit[f]
                                /\ edit[f].op = "status" => edit[f].q # q
                             \/ edit'[f] = [edit[f] EXCEPT !.clean = FALSE]
  BY <1>1, <1>3, OutdateIs
<1> QED
  BY <1>1, <1>9, <1>10, RowStepInv


\* The import of a file.
LEMMA ImportStartStep ==
  ASSUME BankInv, NEW e \in Editors, NEW u \in Users, NEW j \in Jobs, NEW c \in Colleges,
         NEW s \in Subjects, NEW n \in 1..MaxRows, ImportStart(e, u, j, c, s, n)
  PROVE  BankInv'
<1> DEFINE d == WriteCollege(u, c)
           k == [NoJob EXCEPT !.state = "COMPLETED", !.college = d, !.subject = s, !.total = n]
           v == [NoEdit EXCEPT !.op = "import", !.user = u, !.job = j]
<1>1. /\ jobs[j].state = "NONE" /\ Staff(u) /\ SubjectCollege[s] = d
      /\ jobs' = [jobs EXCEPT ![j] = k] /\ edit' = [edit EXCEPT ![e] = v]
      /\ questions' = questions /\ suspect' = suspect
  BY DEF ImportStart, SubjectAccess
<1>2. d \in Colleges /\ n \in 0..MaxRows
  BY <1>1, WritesIn, BankAssumption
<1> HIDE DEF d
<1>3. k \in JobRow
  BY <1>2, BankFields DEF JobRow
<1>4. /\ k.state = "COMPLETED" /\ k.college = d /\ k.subject = s /\ k.total = n
      /\ k.ok = 0 /\ k.failed = 0
  BY DEF NoJob
<1>5. v \in EditRow
  BY BankFields, ZenonT(60) DEF EditRow
<1>6. v.op = "import" /\ v.user = u /\ v.job = j /\ v.ok = 0 /\ v.failed = 0
  BY DEF NoEdit
<1> HIDE DEF k, v
<1>7. BankTypes'
  BY <1>1, <1>3, <1>5 DEF BankInv, BankTypes
<1>8. /\ jobs'[j] = k /\ \A i \in Jobs \ {j} : jobs'[i] = jobs[i]
      /\ edit'[e] = v /\ \A f \in Editors \ {e} : edit'[f] = edit[f]
  BY <1>1 DEF BankInv, BankTypes
<1>9. QuestionsWhole' /\ ActiveIsComplete'
  BY <1>1 DEF BankInv, QuestionsWhole, ActiveIsComplete
<1>10. JobsWhole'
  BY <1>1, <1>4, <1>8 DEF BankInv, JobsWhole
<1>11. ImportAccounts'
  BY <1>1, <1>4, <1>8 DEF BankInv, ImportAccounts
<1>12. Cardinality(TaggedIn(questions, j)) = 0
  BY <1>1, FS_EmptySet DEF BankInv, JobsWhole
<1>13. \A f \in Editors \ {e} : edit[f].op \in {"import", "tag"} => edit[f].job # j
  BY <1>1 DEF BankInv, EditsGood, EditGood
<1>14. ASSUME NEW f \in Editors PROVE EditGood(edit'[f], questions', jobs')
  <2>1. CASE f = e
    <3>1. EditGood(v, questions, jobs')
      BY <1>1, <1>2, <1>4, <1>6, <1>8, <1>12 DEF EditGood
    <3> QED
      BY <1>1, <1>8, <2>1, <3>1
  <2>2. CASE f # e
    <3>1. EditGood(edit[f], questions, jobs)
      BY DEF BankInv, EditsGood
    <3>2. edit[f].op \in {"import", "tag"} => jobs'[edit[f].job] = jobs[edit[f].job]
      BY <1>8, <1>13, <2>2, <3>1 DEF EditGood
    <3>3. EditGood(edit[f], questions, jobs')
      BY <3>1, <3>2 DEF EditGood
    <3> QED
      BY <1>1, <1>8, <2>2, <3>3
  <2> QED
    BY <2>1, <2>2
<1>15. ImportsApart'
  BY <1>6, <1>8, <1>13 DEF BankInv, ImportsApart
<1>16. EditsGood'
  BY <1>14 DEF EditsGood
<1> QED
  BY <1>7, <1>9, <1>10, <1>11, <1>15, <1>16 DEF BankInv

LEMMA ImportRowStep ==
  ASSUME BankInv, NEW e \in Editors, NEW q \in Questions, NEW i \in {"plain", "grouped"},
         ImportRow(e, q, i)
  PROVE  BankInv'
<1> DEFINE r == edit[e]
           c == jobs[r.job].college
           s == jobs[r.job].subject
           x == NewQuestion(r.user, c, s, "ACTIVE", FALSE, TRUE, i)
           v == [r EXCEPT !.op = "tag", !.q = q]
<1>1. /\ r.op = "import" /\ r.ok + r.failed < jobs[r.job].total /\ ~Exists(q)
      /\ questions' = [questions EXCEPT ![q] = x]
      /\ edit' = [edit EXCEPT ![e].op = "tag", ![e].q = q]
      /\ jobs' = jobs /\ suspect' = suspect
  BY DEF ImportRow, RowsLeft
<1>2. r \in EditRow /\ EditGood(r, questions, jobs) /\ edit \in [Editors -> EditRow]
  BY DEF BankInv, BankTypes, EditsGood
<1>3. edit' = [edit EXCEPT ![e] = v]
  BY <1>1, <1>2
<1>4. /\ v \in EditRow /\ v.op = "tag" /\ v.q = q /\ v.user = r.user /\ v.job = r.job
      /\ v.ok = r.ok /\ v.failed = r.failed
  BY <1>2 DEF EditRow
<1> HIDE DEF v, r
<1>5. /\ r.user \in Users /\ r.job \in Jobs /\ c \in Colleges /\ s \in Subjects
      /\ SubjectCollege[s] = c
  BY <1>1, <1>2 DEF EditGood
<1> HIDE DEF c, s
<1>6. /\ x.status = "ACTIVE" /\ x.college = c /\ x.subject = s /\ x.complete = TRUE
      /\ x.job = None /\ x \in QuestionRow
  BY <1>5 DEF NewQuestion, NoQuestion, QuestionRow, QuestionStatus
<1> HIDE DEF x
<1>7. questions[q] = NoQuestion /\ suspect \in SUBSET Questions
  BY <1>1 DEF BankInv, BankTypes, QuestionsWhole, QuestionWhole, Exists
<1>8. RowStep(q, x)
  BY <1>1, <1>5, <1>6, <1>7, BankFields DEF RowStep, QuestionWhole
<1>9. /\ questions' \in [Questions -> QuestionRow] /\ jobs' \in [Jobs -> JobRow]
      /\ suspect' \subseteq Questions
      /\ QuestionsWhole' /\ JobsWhole' /\ ImportAccounts' /\ ActiveIsComplete'
      /\ \A p \in Questions : questions[p].status # "NONE" =>
           questions'[p].status # "NONE" /\ questions'[p].college = questions[p].college
      /\ \A p \in Questions : questions'[p].job = questions[p].job
      /\ \A j : TaggedIn(questions', j) = TaggedIn(questions, j)
      /\ \A p \in Questions \ {q} : questions'[p] = questions[p]
      /\ questions'[q] = x
  BY <1>1, <1>8, RowStepKeeps
<1>10. BankTypes'
  BY <1>3, <1>4, <1>9, <1>2 DEF BankTypes
<1>11. edit'[e] = v /\ \A f \in Editors \ {e} : edit'[f] = edit[f]
  BY <1>2, <1>3
<1>12. \A f \in Editors : edit[f].op = "tag" => edit[f].q # q
  BY <1>1 DEF BankInv, EditsGood, EditGood, Exists
<1>13. ImportsApart'
  <2>1. \A f \in Editors \ {e} : edit[f].op \in {"import", "tag"} => edit[f].job # r.job
    BY <1>1 DEF BankInv, ImportsApart, r
  <2> QED
    BY <1>4, <1>11, <1>12, <2>1 DEF BankInv, ImportsApart
<1>14. EditGood(v, questions', jobs')
  <2>1. /\ questions'[q].status # "NONE" /\ questions'[q].job = None
        /\ TaggedIn(questions', r.job) = TaggedIn(questions, r.job)
    BY <1>6, <1>9
  <2> QED
    BY <1>1, <1>2, <1>4, <2>1 DEF EditGood
<1>15. ASSUME NEW f \in Editors \ {e} PROVE EditGood(edit'[f], questions', jobs')
  <2> DEFINE w == edit[f]
  <2>1. w \in EditRow /\ EditGood(w, questions, jobs) /\ w \in {w, [w EXCEPT !.clean = FALSE]}
    BY DEF BankInv, BankTypes, EditsGood
  <2>2. /\ w.clean /\ w.op = "status" =>
             /\ questions'[w.q].deleted = questions[w.q].deleted
             /\ questions'[w.q].complete = questions[w.q].complete
        /\ w.op = "tag" => questions'[w.q].job = questions[w.q].job
    <3>1. w.op \in {"status", "tag"} => w.q \in Questions \ {q}
      BY <1>1, <2>1 DEF EditGood, Exists
    <3> QED
      BY <1>9, <3>1
  <2> HIDE DEF w
  <2>3. w.op \in {"import", "tag"} =>
           jobs'[w.job] = jobs[w.job] /\ TaggedIn(questions', w.job) = TaggedIn(questions, w.job)
    BY <1>1, <1>9
  <2>4. EditGood(w, questions', jobs')
    BY <1>9, <2>1, <2>2, <2>3, EditKept
  <2> QED
    BY <1>11, <2>4 DEF w
<1>16. EditsGood'
  BY <1>11, <1>14, <1>15 DEF EditsGood
<1> QED
  BY <1>9, <1>10, <1>13, <1>16 DEF BankInv

LEMMA ImportFailsStep ==
  ASSUME BankInv, NEW e \in Editors, ImportRowFails(e) \/ ImportTagFails(e)
  PROVE  BankInv'
<1> DEFINE r == edit[e]
<1>1. /\ r \in EditRow /\ EditGood(r, questions, jobs) /\ edit \in [Editors -> EditRow]
      /\ r.op \in {"import", "tag"}
      /\ questions' = questions /\ jobs' = jobs /\ suspect' = suspect
  BY DEF BankInv, BankTypes, EditsGood, ImportRowFails, ImportTagFails
<1>2. /\ r.job \in Jobs /\ jobs[r.job] \in JobRow
      /\ r.ok + r.failed < jobs[r.job].total
  <2>1. r.op = "tag" => r.ok + r.failed < jobs[r.job].total
    BY <1>1 DEF EditGood
  <2> QED
    BY <1>1, <2>1 DEF EditGood, ImportRowFails, RowsLeft, ImportTagFails, BankInv, BankTypes
<1>3. r.failed + 1 \in 0..MaxRows
  BY <1>1, <1>2, BankAssumption DEF EditRow, JobRow
<1>4. PICK v \in EditRow :
        /\ edit' = [edit EXCEPT ![e] = v] /\ v.op = "import" /\ v.job = r.job /\ v.user = r.user
        /\ v.ok = r.ok /\ v.failed = r.failed + 1
  <2>1. CASE ImportRowFails(e)
    <3> DEFINE x == [r EXCEPT !.failed = r.failed + 1]
    <3>1. edit' = [edit EXCEPT ![e] = x] /\ r.op = "import"
      BY <1>1, <2>1 DEF ImportRowFails
    <3>2. /\ x \in EditRow /\ x.op = r.op /\ x.job = r.job /\ x.user = r.user
          /\ x.ok = r.ok /\ x.failed = r.failed + 1
      BY <1>1, <1>3 DEF EditRow
    <3> QED
      BY <3>1, <3>2
  <2>2. CASE ImportTagFails(e)
    <3> DEFINE x == [r EXCEPT !.op = "import", !.q = None, !.failed = r.failed + 1]
    <3>1. edit' = [edit EXCEPT ![e] = x]
      BY <1>1, <2>2 DEF ImportTagFails
    <3>2. /\ x \in EditRow /\ x.op = "import" /\ x.job = r.job /\ x.user = r.user
          /\ x.ok = r.ok /\ x.failed = r.failed + 1
      BY <1>1, <1>3 DEF EditRow
    <3> QED
      BY <3>1, <3>2
  <2> QED
    BY <2>1, <2>2
<1>5. \A f \in Editors \ {e} : edit[f].op \in {"import", "tag"} => edit[f].job # r.job
  BY <1>1 DEF BankInv, ImportsApart
<1>6. EditGood(v, questions, jobs)
  <2>1. r.ok \in Nat /\ r.failed \in Nat /\ jobs[r.job].total \in Nat
    BY <1>1, <1>2, BankAssumption DEF EditRow, JobRow
  <2> HIDE DEF r
  <2> QED
    BY <1>1, <1>2, <1>4, <2>1 DEF EditGood
<1>7. \A f \in Editors \ {e} :
        /\ v.op \in {"import", "tag"} /\ edit[f].op \in {"import", "tag"} =>
             v.job # edit[f].job
        /\ v.op = "tag" /\ edit[f].op = "tag" => v.q # edit[f].q
  BY <1>4, <1>5
<1>8. edit' = [edit EXCEPT ![e] = v]
  BY <1>4
<1> HIDE DEF r
<1> QED
  BY <1>1, <1>6, <1>7, <1>8, EditStepInv

LEMMA EditLostStep ==
  ASSUME BankInv, NEW e \in Editors, EditLost(e)
  PROVE  BankInv'
<1>1. /\ edit' = [edit EXCEPT ![e] = NoEdit]
      /\ questions' = questions /\ jobs' = jobs /\ suspect' = suspect
  BY DEF EditLost
<1>2. NoEdit \in EditRow /\ NoEdit.op = "idle"
  BY BankFields
<1>3. EditGood(NoEdit, questions, jobs)
  BY <1>2 DEF EditGood
<1> QED
  BY <1>1, <1>2, <1>3, EditStepInv

LEMMA ImportTagStep ==
  ASSUME BankInv, NEW e \in Editors, ImportTag(e)
  PROVE  BankInv'
<1> DEFINE r == edit[e]
           q == r.q
           j == r.job
           x == [questions[q] EXCEPT !.job = j]
           v == [r EXCEPT !.op = "import", !.q = None, !.ok = r.ok + 1]
<1>1. /\ r.op = "tag" /\ jobs' = jobs /\ suspect' = suspect
      /\ questions' = [questions EXCEPT ![q].job = j]
      /\ edit' = [edit EXCEPT ![e].op = "import", ![e].q = None, ![e].ok = @ + 1]
  BY DEF ImportTag
<1>2. r \in EditRow /\ EditGood(r, questions, jobs) /\ edit \in [Editors -> EditRow]
      /\ questions \in [Questions -> QuestionRow] /\ jobs \in [Jobs -> JobRow]
  BY DEF BankInv, BankTypes, EditsGood
<1>3. edit' = [edit EXCEPT ![e] = v]
  BY <1>1, <1>2
<1>4. /\ q \in Questions /\ questions[q].status # "NONE" /\ questions[q].job = None
      /\ j \in Jobs /\ r.user \in Users /\ jobs[j] \in JobRow
      /\ r.ok \in Nat /\ r.failed \in Nat /\ jobs[j].total \in 0..MaxRows
      /\ r.ok + r.failed < jobs[j].total
      /\ jobs[j].state # "NONE" /\ jobs[j].ok = 0 /\ jobs[j].failed = 0
      /\ r.ok = Cardinality(TaggedIn(questions, j))
  BY <1>1, <1>2 DEF EditGood, EditRow, JobRow
<1>5. r.ok + 1 \in 0..MaxRows
  BY <1>4, BankAssumption
<1>6. /\ v \in EditRow /\ v.op = "import" /\ v.job = j /\ v.user = r.user
      /\ v.ok = r.ok + 1 /\ v.failed = r.failed
  BY <1>2, <1>5 DEF EditRow
<1>7. questions' = [questions EXCEPT ![q] = x]
  BY <1>1, <1>2, <1>4
<1>8. /\ x \in QuestionRow /\ x.job = j /\ x.status = questions[q].status
      /\ x.college = questions[q].college /\ x.subject = questions[q].subject
      /\ x.deleted = questions[q].deleted /\ x.complete = questions[q].complete
  BY <1>2, <1>4 DEF QuestionRow
<1> HIDE DEF v, x
<1>9. edit'[e] = v /\ \A f \in Editors \ {e} : edit'[f] = edit[f]
  BY <1>2, <1>3
<1>10. \A f \in Editors \ {e} : /\ edit[f].op \in {"import", "tag"} => edit[f].job # j
                                /\ edit[f].op = "tag" => edit[f].q # q
  BY <1>1 DEF BankInv, ImportsApart
<1> HIDE DEF r, q, j
<1>11. questions'[q] = x /\ \A p \in Questions \ {q} : questions'[p] = questions[p]
  BY <1>2, <1>4, <1>7
<1>12. TaggedIn(questions', j) = TaggedIn(questions, j) \cup {q}
       /\ q \notin TaggedIn(questions, j)
  BY <1>4, <1>8, <1>11, BankAssumption DEF TaggedIn
<1>13. \A i \in Jobs \ {j} : TaggedIn(questions', i) = TaggedIn(questions, i)
  BY <1>4, <1>8, <1>11, BankAssumption DEF TaggedIn
<1>14. Cardinality(TaggedIn(questions', j)) = r.ok + 1
  <2>1. IsFiniteSet(TaggedIn(questions, j))
    BY BankAssumption, FS_Subset DEF TaggedIn
  <2> QED
    BY <1>4, <1>12, <2>1, FS_AddElement, ZenonT(60)
<1>15. BankTypes'
  <2>1. questions' \in [Questions -> QuestionRow]
    BY <1>2, <1>7, <1>8
  <2>2. edit' \in [Editors -> EditRow]
    BY <1>2, <1>3, <1>6
  <2> QED
    BY <1>1, <1>2, <2>1, <2>2 DEF BankInv, BankTypes
<1>16. QuestionsWhole'
  BY <1>4, <1>8, <1>11 DEF BankInv, QuestionsWhole, QuestionWhole
<1>17. JobsWhole'
  BY <1>1, <1>4, <1>13 DEF BankInv, JobsWhole
<1>18. ImportAccounts'
  <2>1. \A i \in Jobs \ {j} : {p \in Questions : questions'[p].job = i}
                                = {p \in Questions : questions[p].job = i}
    BY <1>13 DEF TaggedIn
  <2>2. ~(jobs[j].ok + jobs[j].failed > 0)
    BY <1>4
  <2>3. ImportAccounts
    BY DEF BankInv
  <2> QED
    BY <1>1, <2>1, <2>2, <2>3 DEF ImportAccounts
<1>19. ActiveIsComplete'
  BY <1>1, <1>8, <1>11 DEF BankInv, ActiveIsComplete
<1>20. ImportsApart'
  BY <1>6, <1>9, <1>10 DEF BankInv, ImportsApart
<1>21. EditGood(v, questions', jobs')
  <2>1. jobs[j].college \in Colleges /\ jobs[j].subject \in Subjects
        /\ SubjectCollege[jobs[j].subject] = jobs[j].college
    BY <1>1, <1>2 DEF EditGood, j
  <2>2. v.ok + v.failed <= jobs[j].total
    BY <1>4, <1>6
  <2> QED
    BY <1>1, <1>4, <1>6, <1>14, <2>1, <2>2 DEF EditGood
<1>22. ASSUME NEW f \in Editors \ {e} PROVE EditGood(edit'[f], questions', jobs')
  <2> DEFINE w == edit[f]
  <2>1. w \in EditRow /\ EditGood(w, questions, jobs) /\ w \in {w, [w EXCEPT !.clean = FALSE]}
    BY DEF BankInv, BankTypes, EditsGood
  <2>2. /\ w.op \in {"import", "tag"} => w.job \in Jobs \ {j}
        /\ w.op = "tag" => w.q \in Questions \ {q}
        /\ w.op = "status" => w.q \in Questions
    BY <1>10, <2>1 DEF EditGood
  <2> HIDE DEF w
  <2>3. /\ w.clean /\ w.op = "status" =>
             /\ questions'[w.q].deleted = questions[w.q].deleted
             /\ questions'[w.q].complete = questions[w.q].complete
        /\ w.op = "tag" => questions'[w.q].job = questions[w.q].job
        /\ w.op \in {"import", "tag"} =>
             jobs'[w.job] = jobs[w.job] /\ TaggedIn(questions', w.job) = TaggedIn(questions, w.job)
    BY <1>1, <1>8, <1>11, <1>13, <2>2, ZenonT(60)
  <2>4. \A p \in Questions : questions[p].status # "NONE" =>
           questions'[p].status # "NONE" /\ questions'[p].college = questions[p].college
    BY <1>8, <1>11
  <2>5. EditGood(w, questions', jobs')
    BY <2>1, <2>3, <2>4, EditKept
  <2> QED
    BY <1>9, <2>5 DEF w
<1>23. EditsGood'
  BY <1>9, <1>21, <1>22 DEF EditsGood
<1> QED
  BY <1>15, <1>16, <1>17, <1>18, <1>19, <1>20, <1>23 DEF BankInv

LEMMA ImportFinishStep ==
  ASSUME BankInv, NEW e \in Editors, ImportFinish(e)
  PROVE  BankInv'
<1> DEFINE r == edit[e]
           j == r.job
           st == IF r.failed > 0 THEN "COMPLETED_WITH_ERRORS" ELSE "COMPLETED"
           k == [jobs[j] EXCEPT !.ok = r.ok, !.failed = r.failed, !.state = st]
<1>1. /\ r.op = "import" /\ ~(r.ok + r.failed < jobs[j].total)
      /\ questions' = questions /\ suspect' = suspect
      /\ jobs' = [jobs EXCEPT ![j].ok = r.ok, ![j].failed = r.failed, ![j].state = st]
      /\ edit' = [edit EXCEPT ![e] = NoEdit]
  BY DEF ImportFinish, RowsLeft
<1>2. r \in EditRow /\ EditGood(r, questions, jobs) /\ edit \in [Editors -> EditRow]
      /\ questions \in [Questions -> QuestionRow] /\ jobs \in [Jobs -> JobRow]
  BY DEF BankInv, BankTypes, EditsGood
<1>3. /\ j \in Jobs /\ jobs[j] \in JobRow /\ r.ok \in 0..MaxRows /\ r.failed \in 0..MaxRows
      /\ r.ok + r.failed <= jobs[j].total /\ jobs[j].state # "NONE"
      /\ r.ok = Cardinality(TaggedIn(questions, j))
  BY <1>1, <1>2 DEF EditGood, EditRow
<1>4. r.ok + r.failed = jobs[j].total
  BY <1>1, <1>3 DEF JobRow
<1>5. jobs' = [jobs EXCEPT ![j] = k]
  BY <1>1, <1>2, <1>3
<1>6. /\ k \in JobRow /\ k.ok = r.ok /\ k.failed = r.failed /\ k.total = jobs[j].total
      /\ k.state # "NONE"
  BY <1>3 DEF JobRow
<1>7. \A f \in Editors \ {e} : edit[f].op \in {"import", "tag"} => edit[f].job # j
  BY <1>1 DEF BankInv, ImportsApart
<1> HIDE DEF k, st, r, j
<1>8. /\ jobs'[j] = k /\ \A i \in Jobs \ {j} : jobs'[i] = jobs[i]
      /\ edit'[e] = NoEdit /\ \A f \in Editors \ {e} : edit'[f] = edit[f]
  BY <1>1, <1>2, <1>3, <1>5
<1>9. BankTypes'
  BY <1>1, <1>2, <1>5, <1>6, BankFields DEF BankInv, BankTypes
<1>10. QuestionsWhole' /\ ActiveIsComplete'
  BY <1>1 DEF BankInv, QuestionsWhole, ActiveIsComplete
<1>11. JobsWhole'
  BY <1>1, <1>6, <1>8 DEF BankInv, JobsWhole
<1>12. ImportAccounts'
  <2>1. jobs'[j].ok + jobs'[j].failed = jobs'[j].total
        /\ jobs'[j].ok = Cardinality({q \in Questions : questions[q].job = j})
    BY <1>3, <1>4, <1>6, <1>8 DEF TaggedIn
  <2>2. ImportAccounts
    BY DEF BankInv
  <2> QED
    BY <1>1, <1>8, <2>1, <2>2, ZenonT(120) DEF ImportAccounts
<1>13. ImportsApart'
  BY <1>8, BankFields DEF BankInv, ImportsApart
<1>14. ASSUME NEW f \in Editors PROVE EditGood(edit'[f], questions', jobs')
  <2>1. CASE f = e
    BY <1>8, <2>1, BankFields DEF EditGood
  <2>2. CASE f # e
    <3>1. EditGood(edit[f], questions, jobs)
      BY DEF BankInv, EditsGood
    <3>2. edit[f].op \in {"import", "tag"} => jobs'[edit[f].job] = jobs[edit[f].job]
      BY <1>7, <1>8, <2>2, <3>1 DEF EditGood
    <3>3. EditGood(edit[f], questions, jobs')
      BY <3>1, <3>2 DEF EditGood
    <3> QED
      BY <1>1, <1>8, <2>2, <3>3
  <2> QED
    BY <2>1, <2>2
<1>15. EditsGood'
  BY <1>14 DEF EditsGood
<1> QED
  BY <1>9, <1>10, <1>11, <1>12, <1>13, <1>15 DEF BankInv

\* Whatever requests and imports interleave, the bank stays consistent.
LEMMA BankNextInv ==
  ASSUME BankInv, BankNext PROVE BankInv'
<1>1. \A routes, route, u : u \in Callers(routes, route) => u \in Users
  BY DEF Callers
<1>2. CASE BankRequest
  BY <1>1, <1>2, CreateQuestionStep, DuplicateQuestionStep, DeleteQuestionStep,
     UpdateQuestionReadStep, UpdateStatusReadStep, ImportStartStep DEF BankRequest
<1>3. CASE BankContinue
  BY <1>3, ImportRowStep, UpdateQuestionWriteStep, UpdateStatusWriteStep, ImportFailsStep,
     ImportTagStep, ImportFinishStep, EditLostStep DEF BankContinue
<1> QED
  BY <1>2, <1>3 DEF BankNext


\* A question stays, in its college, and a deleted question comes back only through a
\* change of status that had read it before.
Kept(q) ==
    /\ questions[q].status # "NONE" =>
         questions'[q].status # "NONE" /\ questions'[q].college = questions[q].college
    /\ questions[q].deleted /\ ~questions'[q].deleted =>
         \E e \in Editors : edit[e].op = "status" /\ edit[e].q = q /\ ~edit[e].clean

LEMMA BankKeeps ==
  ASSUME BankInv, BankNext PROVE \A q \in Questions : Kept(q)
<1>1. /\ questions \in [Questions -> QuestionRow] /\ edit \in [Editors -> EditRow]
      /\ \A q \in Questions : ~Exists(q) => questions[q].deleted = FALSE
  BY BankFields DEF BankInv, BankTypes, QuestionsWhole, QuestionWhole, Exists
<1>2. ASSUME questions' = questions PROVE \A q \in Questions : Kept(q)
  BY <1>2 DEF Kept
<1>3. ASSUME NEW p \in Questions, NEW x, questions' = [questions EXCEPT ![p] = x],
             ~Exists(p)
      PROVE  \A q \in Questions : Kept(q)
  <2> TAKE q \in Questions
  <2>1. q # p => questions'[q] = questions[q]
    BY <1>1, <1>3
  <2>2. q = p => questions[q].deleted = FALSE /\ questions[q].status = "NONE"
    BY <1>1, <1>3 DEF Exists
  <2> QED
    BY <2>1, <2>2 DEF Kept
<1>4. ASSUME NEW u, NEW p \in Questions, DeleteQuestion(u, p)
      PROVE  \A q \in Questions : Kept(q)
  <2> TAKE q \in Questions
  <2>1. questions' = [questions EXCEPT ![p].status = "ARCHIVED", ![p].deleted = TRUE]
    BY <1>4 DEF DeleteQuestion
  <2>2. questions'[q].status \in {questions[q].status, "ARCHIVED"}
        /\ questions'[q].college = questions[q].college
    BY <1>1, <2>1 DEF QuestionRow
  <2>3. questions[q].deleted => questions'[q].deleted
    BY <1>1, <2>1 DEF QuestionRow
  <2> QED
    BY <2>2, <2>3 DEF Kept
<1>5. ASSUME NEW e \in Editors, UpdateQuestionWrite(e)
      PROVE  \A q \in Questions : Kept(q)
  <2> TAKE q \in Questions
  <2> DEFINE r == edit[e]
  <2>1. /\ r.op = "update"
        /\ questions' = [questions EXCEPT ![r.q].status = r.status, ![r.q].subject = r.subject,
                           ![r.q].coding = r.coding, ![r.q].complete = r.complete]
    BY <1>5 DEF UpdateQuestionWrite
  <2>2. r.status \in QuestionStatus
    BY <2>1 DEF BankInv, EditsGood, EditGood
  <2> HIDE DEF r
  <2>3. /\ questions'[q].status \in {questions[q].status, r.status}
        /\ questions'[q].college = questions[q].college
    BY <1>1, <2>1 DEF QuestionRow
  <2>4. questions'[q].deleted = questions[q].deleted
    BY <1>1, <2>1 DEF QuestionRow
  <2> QED
    BY <2>2, <2>3, <2>4, BankFields DEF Kept
<1>6. ASSUME NEW e \in Editors, UpdateStatusWrite(e)
      PROVE  \A q \in Questions : Kept(q)
  <2> TAKE q \in Questions
  <2> DEFINE r == edit[e]
  <2>1. /\ r.op = "status"
        /\ questions' = [questions EXCEPT ![r.q].status = r.status, ![r.q].deleted = r.deleted]
    BY <1>6 DEF UpdateStatusWrite
  <2>2. /\ r.status \in QuestionStatus
        /\ r.clean => (questions[r.q].deleted => r.deleted)
    BY <2>1 DEF BankInv, EditsGood, EditGood
  <2>3. r.clean \in BOOLEAN
    BY <1>1 DEF EditRow
  <2>4. /\ questions'[q].status \in {questions[q].status, r.status}
        /\ questions'[q].college = questions[q].college
    BY <1>1, <2>1 DEF QuestionRow
  <2>5. questions'[q].deleted = IF q = r.q THEN r.deleted ELSE questions[q].deleted
    BY <1>1, <2>1 DEF QuestionRow
  <2>6. questions[q].status # "NONE" =>
           questions'[q].status # "NONE" /\ questions'[q].college = questions[q].college
    BY <2>2, <2>4, BankFields
  <2>7. questions[q].deleted /\ ~questions'[q].deleted =>
           edit[e].op = "status" /\ edit[e].q = q /\ ~edit[e].clean
    BY <2>1, <2>2, <2>5
  <2> QED
    BY <2>6, <2>7 DEF Kept
<1>7. ASSUME NEW e \in Editors, ImportTag(e) PROVE \A q \in Questions : Kept(q)
  <2> TAKE q \in Questions
  <2>1. questions' = [questions EXCEPT ![edit[e].q].job = edit[e].job]
    BY <1>7 DEF ImportTag
  <2>2. /\ questions'[q].status = questions[q].status
        /\ questions'[q].college = questions[q].college
        /\ questions'[q].deleted = questions[q].deleted
    BY <1>1, <2>1 DEF QuestionRow
  <2> QED
    BY <2>2 DEF Kept
<1>8. ASSUME NEW u, NEW q \in Questions, NEW c, NEW s, NEW st, NEW p,
             CreateQuestion(u, q, c, s, st, p.coding, p.complete)
      PROVE  \A r \in Questions : Kept(r)
  BY <1>3, <1>8 DEF CreateQuestion
<1>9. ASSUME NEW u, NEW q \in Questions, NEW copy \in Questions, DuplicateQuestion(u, q, copy)
      PROVE  \A r \in Questions : Kept(r)
  BY <1>3, <1>9 DEF DuplicateQuestion
<1>10. ASSUME NEW e, NEW q \in Questions, NEW i, ImportRow(e, q, i)
       PROVE  \A r \in Questions : Kept(r)
  BY <1>3, <1>10 DEF ImportRow
<1>11. CASE BankRequest
  <2>1. CASE questions' = questions
    BY <1>2, <2>1
  <2>2. CASE questions' # questions
    BY <1>4, <1>8, <1>9, <1>11, <2>2, ZenonT(120)
    DEF BankRequest, UpdateQuestionRead, UpdateStatusRead, ImportStart
  <2> QED
    BY <2>1, <2>2
<1>12. CASE BankContinue
  <2>1. CASE questions' = questions
    BY <1>2, <2>1
  <2>2. CASE questions' # questions
    BY <1>5, <1>6, <1>7, <1>10, <1>12, <2>2
    DEF BankContinue, ImportRowFails, ImportTagFails, ImportFinish, EditLost
  <2> QED
    BY <2>1, <2>2
<1> QED
  BY <1>11, <1>12 DEF BankNext


-----------------------------------------------------------------------------
(* The invariant of the builder. *)

Count(a) == CountOf(attached[a], sections, a)

\* Everything publishAssessment checks holds, for a sum of the marks.
Ready(x, rows, count, targets, qs) ==
    /\ \E q \in Questions : rows[q].on
    /\ targets # {}
    /\ count >= 1 /\ count >= x.passing
    /\ \A q \in Questions : rows[q].on =>
         qs[q].status = "ACTIVE" /\ (qs[q].coding => qs[q].complete)

\* What a handler of the builder knows of its assessment.  As long as nothing it
\* read has changed, an edit has the status, an insertion the first free position
\* and a publication checked what is there; as long as no rows have changed, a
\* total is the sum.
ReqGood(w, x, rows, count, targets, qs) ==
    w.at # "idle" =>
      /\ w.a \in Assessments /\ x.status # "NONE"
      /\ w.at = "save" => /\ w.status # "NONE"
                          /\ w.current /\ ~w.asked => w.status = x.status
      /\ w.at = "attach" =>
           /\ w.first > 0
           /\ \A q \in w.set : qs[q].status # "NONE" /\ qs[q].college = x.college
           /\ w.current => \A q \in Questions : rows[q].on => rows[q].order < w.first
      /\ w.at \in {"store", "blockers", "approve"} =>
           (w.current => w.clean) /\ (w.clean => w.sum = count)
      /\ w.at = "approve" /\ w.current => Ready(x, rows, count, targets, qs)
ReqOk(r) == ReqGood(req[r], assessments[req[r].a], attached[req[r].a], Count(req[r].a),
                    assigned[req[r].a], questions)

\* Attached questions are questions of the assessment's college in sections of
\* the assessment.
RowsIn(rows, x, secs, qs, a) == \A q \in Questions : rows[q].on =>
    /\ x.status # "NONE" /\ qs[q].status # "NONE" /\ qs[q].college = x.college
    /\ rows[q].section # None => secs[rows[q].section].a = a
RowsOk(a) == RowsIn(attached[a], assessments[a], sections, questions, a)

\* A total is the sum, unless it is being recalculated or was written late.
Totalling(a) == \E r \in Requests : req[r].a = a /\ req[r].at \in {"sum", "store"}
TotalOk(a) == a \in drift \/ Totalling(a) \/ assessments[a].total = Count(a)

ApprovedOk(a) == a \in approved =>
    /\ assessments[a].status = "PUBLISHED"
    /\ Ready(assessments[a], attached[a], Count(a), assigned[a], questions)

SectionsOk == \A s \in Sections : sections[s].a # None =>
    assessments[sections[s].a].status # "NONE"

BuilderTypes ==
    /\ assessments \in [Assessments -> AssessmentRow]
    /\ sections \in [Sections -> SectionRow]
    /\ attached \in [Assessments -> [Questions -> AttachedRow]]
    /\ assigned \in [Assessments -> SUBSET Targets]
    /\ req \in [Requests -> ReqRow]
    /\ drift \subseteq Assessments /\ approved \subseteq Assessments

AssessmentsWhole == \A a \in Assessments :
    IF assessments[a].status = "NONE" THEN assessments[a].total = 0
                                      ELSE assessments[a].college # None

AuthoringInv ==
    /\ BankInv /\ requests \in 0..MaxRequests
    /\ BuilderTypes /\ AssessmentsWhole /\ SectionsOk
    /\ \A a \in Assessments : RowsOk(a) /\ TotalOk(a) /\ ApprovedOk(a)
    /\ \A r \in Requests : ReqOk(r)

LEMMA CountKept ==
  ASSUME BuilderTypes, BuilderTypes', NEW a \in Assessments, attached'[a] = attached[a],
         \A s \in Sections : sections'[s] = sections[s] \/ (sections[s].a # a /\ sections'[s].a # a)
  PROVE  Count(a)' = Count(a)
<1> DEFINE rows == attached[a]
           secs == sections
           others == sections'
<1>1. rows \in RowsType /\ secs \in SectionsType /\ others \in SectionsType
  BY DEF BuilderTypes, RowsType, SectionsType
<1>2. Own(secs, a) = Own(others, a) /\ \A s \in Own(secs, a) : secs[s] = others[s]
  BY DEF Own
<1> HIDE DEF rows, secs, others
<1>3. CountOf(rows, secs, a) = CountOf(rows, others, a)
  BY <1>1, <1>2, CountSame
<1> QED
  BY <1>3 DEF Count, rows, secs, others

\* A step about assessment a, which leaves the bank and the other assessments alone.
Steady(b) ==
    /\ assessments'[b] = assessments[b] /\ attached'[b] = attached[b]
    /\ assigned'[b] = assigned[b]
    /\ \A s \in Sections : sections'[s] = sections[s] \/ (sections[s].a # b /\ sections'[s].a # b)

About(a) ==
    /\ questions' = questions /\ jobs' = jobs /\ edit' = edit /\ suspect' = suspect
    /\ requests' \in 0..MaxRequests /\ BuilderTypes' /\ assessments'[a].status # "NONE"
    /\ assessments'[a].college # None
    /\ \A b \in Assessments \ {a} : Steady(b)
    /\ \A r \in Requests :
         \/ req'[r] = req[r] /\ req[r].a # a
         \/ (Idle(r) \/ req[r].a = a) /\ (req'[r].a = a \/ req'[r].at = "idle")
    /\ drift \subseteq drift' \cup {a} /\ approved' \subseteq approved \cup {a}

LEMMA AboutInv ==
  ASSUME AuthoringInv, NEW a \in Assessments, About(a),
         RowsOk(a)', TotalOk(a)', ApprovedOk(a)',
         \A r \in Requests : req'[r].a = a => ReqOk(r)'
  PROVE  AuthoringInv'
<1>1. BankInv'
  <2>1. BankInv /\ questions' = questions /\ jobs' = jobs /\ edit' = edit /\ suspect' = suspect
    BY DEF AuthoringInv, About
  <2> QED
    BY <2>1 DEF BankInv, BankTypes, QuestionsWhole, JobsWhole, EditsGood, ImportsApart,
       ImportAccounts, ActiveIsComplete
<1>2. BuilderTypes /\ BuilderTypes' /\ questions' = questions /\ None \notin Assessments
  BY AuthoringAssumption DEF AuthoringInv, About
<1>3. ASSUME NEW b \in Assessments \ {a}
      PROVE  /\ assessments'[b] = assessments[b] /\ attached'[b] = attached[b]
             /\ assigned'[b] = assigned[b] /\ Count(b)' = Count(b)
             /\ \A s \in Sections : sections'[s].a = b <=> sections[s].a = b
  BY <1>2, CountKept DEF About, Steady
<1>4. AssessmentsWhole'
  BY <1>3 DEF AssessmentsWhole, AuthoringInv, About
<1>5. SectionsOk'
  <2> SUFFICES ASSUME NEW s \in Sections, sections'[s].a # None
               PROVE  assessments'[sections'[s].a].status # "NONE"
    BY DEF SectionsOk
  <2>1. sections'[s].a \in Assessments
    BY <1>2 DEF BuilderTypes, SectionRow
  <2>2. CASE sections'[s].a = a
    BY <2>2 DEF About
  <2>3. CASE sections'[s].a # a
    BY <1>2, <1>3, <2>1, <2>3 DEF AuthoringInv, SectionsOk
  <2> QED
    BY <2>2, <2>3
<1>6. ASSUME NEW b \in Assessments \ {a} PROVE RowsOk(b)'
  <2>1. RowsIn(attached[b], assessments[b], sections, questions, b)
    BY DEF AuthoringInv, RowsOk
  <2>2. \A q \in Questions : attached[b][q].section \in Sections \cup {None}
    BY <1>2 DEF BuilderTypes, AttachedRow
  <2>3. RowsIn(attached[b], assessments[b], sections', questions, b)
    BY <1>3, <2>1, <2>2 DEF RowsIn
  <2> QED
    BY <1>2, <1>3, <2>3 DEF RowsOk
<1>7. ASSUME NEW b \in Assessments \ {a} PROVE TotalOk(b)'
  <2>1. Totalling(b) => Totalling(b)'
    <3> SUFFICES ASSUME NEW r \in Requests, req[r].a = b, req[r].at \in {"sum", "store"}
                 PROVE  req'[r].a = b /\ req'[r].at \in {"sum", "store"}
      BY DEF Totalling
    <3> QED
      BY DEF About, Idle
  <2> QED
    BY <1>3, <2>1 DEF AuthoringInv, TotalOk, About
<1>8. ASSUME NEW b \in Assessments \ {a} PROVE ApprovedOk(b)'
  BY <1>2, <1>3 DEF AuthoringInv, ApprovedOk, About
<1>9. ASSUME NEW r \in Requests PROVE ReqOk(r)'
  <2>1. CASE req'[r].a = a
    BY <2>1
  <2>2. CASE req'[r].at = "idle"
    BY <2>2 DEF ReqOk, ReqGood
  <2>3. CASE req'[r] = req[r] /\ req[r].a # a /\ req[r].at # "idle"
    <3>1. PICK b \in Assessments \ {a} : b = req[r].a /\ req'[r].a = b
      BY <2>3 DEF AuthoringInv, ReqOk, ReqGood
    <3>2. ReqGood(req[r], assessments[b], attached[b], Count(b), assigned[b], questions)
      BY <3>1 DEF AuthoringInv, ReqOk
    <3>3. ReqGood(req'[r], assessments'[b], attached'[b], Count(b)', assigned'[b], questions')
      BY <1>2, <1>3, <2>3, <3>2
    <3> QED
      BY <3>1, <3>3 DEF ReqOk, Count
  <2> QED
    BY <2>1, <2>2, <2>3 DEF About
<1>10. \A b \in Assessments : RowsOk(b)' /\ TotalOk(b)' /\ ApprovedOk(b)'
  BY <1>6, <1>7, <1>8
<1> QED
  BY <1>1, <1>2, <1>4, <1>5, <1>9, <1>10 DEF AuthoringInv, About


LEMMA BuilderFields ==
  /\ NoReq \in ReqRow /\ NoReq.at = "idle" /\ NoReq.a = None
  /\ NoRow \in AttachedRow /\ ~NoRow.on
  /\ NoAssessment \in AssessmentRow /\ NoAssessment.status = "NONE" /\ NoAssessment.total = 0
<1>1. NoReq \in ReqRow
  BY DEF NoReq, ReqRow
<1>2. NoRow \in AttachedRow
  BY DEF NoRow, AttachedRow
<1>3. NoAssessment \in AssessmentRow
  BY DEF NoAssessment, AssessmentRow
<1> QED
  BY <1>1, <1>2, <1>3 DEF NoReq, NoRow, NoAssessment

\* A handler whose assessment changed has an outdated copy of it.
TouchedAs(v, w, a) ==
    /\ v \in ReqRow /\ v.at = w.at /\ v.a = w.a /\ (w.a # a => v = w)
    /\ v.status = w.status /\ v.first = w.first /\ v.set = w.set /\ v.sum = w.sum
    /\ w.a = a => ~v.current
    /\ v.clean => w.clean

LEMMA Touched ==
  ASSUME NEW q, NEW a, NEW r \in Requests, q[r] \in ReqRow, NEW t,
         t = Touch(a, TRUE, q) \/ t = Touch(a, FALSE, q)
  PROVE  /\ TouchedAs(t[r], q[r], a)
         /\ t = Touch(a, TRUE, q) /\ q[r].a = a => ~t[r].clean
<1> DEFINE w == q[r]
           v == t[r]
<1>1. CASE t = Touch(a, TRUE, q)
  <2>1. CASE w.a # a
    <3>1. v = w /\ w \in ReqRow
      BY <1>1, <2>1 DEF Touch
    <3> HIDE DEF v, w
    <3>2. TouchedAs(v, w, a)
      BY <2>1, <3>1 DEF TouchedAs
    <3> QED
      BY <2>1, <3>2 DEF v, w
  <2>2. CASE w.a = a
    <3> DEFINE c == w.clean /\ ~TRUE
    <3>1. v = [w EXCEPT !.current = FALSE, !.clean = c] /\ w \in ReqRow
      BY <1>1, <2>2 DEF Touch
    <3>2. w.clean \in BOOLEAN
      BY <3>1 DEF ReqRow
    <3>3. c = FALSE
      BY <3>2
    <3> HIDE DEF v, w, c
    <3>4. v = [w EXCEPT !.current = FALSE, !.clean = FALSE]
      BY <3>1, <3>3
    <3>5. TouchedAs(v, w, a) /\ ~v.clean
      BY <2>2, <3>1, <3>4 DEF TouchedAs, ReqRow
    <3> QED
      BY <3>5 DEF v, w
  <2> QED
    BY <2>1, <2>2
<1>2. CASE t = Touch(a, FALSE, q) /\ t # Touch(a, TRUE, q)
  <2>1. CASE w.a # a
    <3>1. v = w /\ w \in ReqRow
      BY <1>2, <2>1 DEF Touch
    <3> HIDE DEF v, w
    <3>2. TouchedAs(v, w, a)
      BY <2>1, <3>1 DEF TouchedAs
    <3> QED
      BY <2>1, <3>2 DEF v, w
  <2>2. CASE w.a = a
    <3> DEFINE c == w.clean /\ ~FALSE
    <3>1. v = [w EXCEPT !.current = FALSE, !.clean = c] /\ w \in ReqRow
      BY <1>2, <2>2 DEF Touch
    <3>2. w.clean \in BOOLEAN
      BY <3>1 DEF ReqRow
    <3>3. c = w.clean
      BY <3>2
    <3> HIDE DEF v, w, c
    <3>4. v = [w EXCEPT !.current = FALSE, !.clean = w.clean]
      BY <3>1, <3>3
    <3>5. TouchedAs(v, w, a)
      BY <2>2, <3>1, <3>4, ZenonT(60) DEF TouchedAs, ReqRow
    <3> QED
      BY <1>2, <3>5 DEF v, w
  <2> QED
    BY <2>1, <2>2
<1> QED
  BY <1>1, <1>2

LEMMA TouchedGood ==
  ASSUME NEW w, NEW v, NEW a, NEW x, NEW y, NEW rows, NEW others, NEW n, NEW m, NEW t, NEW z,
         NEW qs, ReqGood(w, x, rows, n, t, qs), TouchedAs(v, w, a), w.a = a,
         y.status # "NONE", y.college = x.college, v.clean => m = n
  PROVE  ReqGood(v, y, others, m, z, qs)
<1>1. /\ v.at = w.at /\ v.a = w.a /\ v.status = w.status /\ v.first = w.first
      /\ v.set = w.set /\ v.sum = w.sum /\ ~v.current /\ (v.clean => w.clean)
  BY DEF TouchedAs
<1> QED
  BY <1>1 DEF ReqGood

\* A step that writes an assessment and its assignments, and no rows.
LEMMA CommitInv ==
  ASSUME AuthoringInv, NEW a \in Assessments, NEW x \in AssessmentRow,
         NEW t \in SUBSET Targets, NEW base,
         \/ base = req
         \/ \E r \in Requests : /\ base = [req EXCEPT ![r] = NoReq]
                                /\ req[r].a = a /\ req[r].at \notin {"sum", "store"},
         assessments' = [assessments EXCEPT ![a] = x],
         assigned' = [assigned EXCEPT ![a] = t],
         x.status # "NONE", x.college # None, x.total = assessments[a].total,
         assessments[a].status # "NONE" => x.college = assessments[a].college,
         questions' = questions, jobs' = jobs, edit' = edit, suspect' = suspect,
         sections' = sections, attached' = attached, drift' = drift,
         requests' \in 0..MaxRequests, req' = Touch(a, FALSE, base),
         approved' \subseteq approved \cup {a},
         a \in approved' => x.status = "PUBLISHED"
                            /\ Ready(x, attached[a], Count(a), t, questions)
  PROVE  AuthoringInv'
<1>1. BuilderTypes /\ None \notin Assessments
  BY AuthoringAssumption DEF AuthoringInv
<1>2. /\ base \in [Requests -> ReqRow]
      /\ \A r \in Requests :
           \/ base[r] = req[r]
           \/ base[r] = NoReq /\ req[r].a = a /\ req[r].at \notin {"sum", "store"}
  BY <1>1, BuilderFields DEF BuilderTypes
<1>3. \A r \in Requests : TouchedAs(req'[r], base[r], a)
  BY <1>2, Touched
<1>14. req' \in [Requests -> ReqRow]
  BY <1>3 DEF Touch, TouchedAs
<1>4. /\ assessments'[a] = x /\ assigned'[a] = t
      /\ \A b \in Assessments \ {a} : assessments'[b] = assessments[b] /\ assigned'[b] = assigned[b]
  BY <1>1 DEF BuilderTypes
<1>5. BuilderTypes'
  BY <1>1, <1>14 DEF BuilderTypes
<1>6. \A b \in Assessments \ {a} : Steady(b)
  BY <1>4 DEF Steady
<1>7. ASSUME NEW r \in Requests
      PROVE  \/ req'[r] = req[r] /\ req[r].a # a
             \/ (Idle(r) \/ req[r].a = a) /\ (req'[r].a = a \/ req'[r].at = "idle")
  <2>1. TouchedAs(req'[r], base[r], a)
    BY <1>3
  <2>2. CASE base[r] = req[r]
    BY <2>1, <2>2 DEF TouchedAs
  <2>3. CASE base[r] = NoReq /\ req[r].a = a
    <3>1. req'[r].at = "idle"
      BY <2>1, <2>3, BuilderFields DEF TouchedAs
    <3> QED
      BY <2>3, <3>1
  <2> QED
    BY <1>2, <2>2, <2>3
<1>8. About(a)
  BY <1>4, <1>5, <1>6, <1>7 DEF About
<1>9. Count(a)' = Count(a)
  BY DEF Count
<1>10. RowsOk(a)'
  <2>1. RowsIn(attached[a], assessments[a], sections, questions, a)
    BY DEF AuthoringInv, RowsOk
  <2>2. RowsIn(attached[a], x, sections, questions, a)
    BY <2>1 DEF RowsIn
  <2> QED
    BY <1>4, <2>2 DEF RowsOk
<1>11. TotalOk(a)'
  <2>1. Totalling(a) => Totalling(a)'
    <3> SUFFICES ASSUME NEW r \in Requests, req[r].a = a, req[r].at \in {"sum", "store"}
                 PROVE  req'[r].a = a /\ req'[r].at \in {"sum", "store"}
      BY DEF Totalling
    <3>1. base[r] = req[r] /\ TouchedAs(req'[r], base[r], a)
      BY <1>2, <1>3
    <3> QED
      BY <3>1 DEF TouchedAs
  <2> QED
    BY <1>4, <1>9, <2>1 DEF AuthoringInv, TotalOk
<1>12. ApprovedOk(a)'
  BY <1>4, <1>9 DEF ApprovedOk
<1>13. ASSUME NEW r \in Requests, req'[r].a = a PROVE ReqOk(r)'
  <2>1. base[r] = req[r] /\ req[r].a = a
    BY <1>1, <1>2, <1>3, <1>13, BuilderFields, ZenonT(60) DEF TouchedAs
  <2>2. ReqGood(req[r], assessments[a], attached[a], Count(a), assigned[a], questions)
    BY <2>1 DEF AuthoringInv, ReqOk
  <2>3. CASE req[r].at = "idle"
    BY <1>3, <2>1, <2>3, ZenonT(120) DEF ReqOk, ReqGood, TouchedAs
  <2>4. CASE req[r].at # "idle"
    <3>1. x.college = assessments[a].college
      BY <2>2, <2>4 DEF ReqGood
    <3>2. ReqGood(req'[r], x, attached[a], Count(a), t, questions)
      <4> DEFINE w == req[r]
                 v == req'[r]
                 n == Count(a)
                 y == assessments[a]
                 rows == attached[a]
      <4>1. TouchedAs(v, w, a) /\ w.a = a /\ (v.clean => n = n)
        BY <1>3, <2>1
      <4>2. ReqGood(w, y, rows, n, assigned[a], questions) /\ x.college = y.college
        BY <2>2, <3>1
      <4> HIDE DEF v, w, n, y, rows
      <4>3. ReqGood(v, x, rows, n, t, questions)
        BY <4>1, <4>2, TouchedGood
      <4> QED
        BY <4>3 DEF v, n, rows
    <3>3. Count(a)' = CountOf(attached'[a], sections', a)
      BY DEF Count
    <3> QED
      BY <1>4, <1>9, <1>13, <3>2, <3>3 DEF ReqOk, Count
  <2> QED
    BY <2>3, <2>4
<1> QED
  BY <1>8, <1>10, <1>11, <1>12, <1>13, AboutInv

\* A step that writes rows of an assessment and goes on to recalculate.
LEMMA RowsInv ==
  ASSUME AuthoringInv, NEW a \in Assessments, NEW r \in Requests, Idle(r) \/ req[r].a = a,
         assessments[a].status # "NONE", RowsOk(a)',
         attached' \in [Assessments -> [Questions -> AttachedRow]],
         sections' \in [Sections -> SectionRow],
         \A b \in Assessments \ {a} : attached'[b] = attached[b],
         \A s \in Sections : \/ sections'[s] = sections[s]
                             \/ sections[s].a \in {a, None} /\ sections'[s].a \in {a, None},
         questions' = questions, jobs' = jobs, edit' = edit, suspect' = suspect,
         assessments' = assessments, assigned' = assigned, drift' = drift,
         requests' \in 0..MaxRequests, approved' = approved \ {a},
         req' = Touch(a, TRUE, [req EXCEPT ![r] = [NoReq EXCEPT !.at = "sum", !.a = a]])
  PROVE  AuthoringInv'
<1> DEFINE v == [NoReq EXCEPT !.at = "sum", !.a = a]
           base == [req EXCEPT ![r] = v]
<1>1. BuilderTypes /\ None \notin Assessments
  BY AuthoringAssumption DEF AuthoringInv
<1>2. v \in ReqRow
  BY BuilderFields, ZenonT(60) DEF ReqRow
<1>3. v.at = "sum" /\ v.a = a
  BY DEF NoReq
<1> HIDE DEF v
<1>4. base \in [Requests -> ReqRow] /\ base[r] = v /\ \A y \in Requests \ {r} : base[y] = req[y]
  BY <1>1, <1>2 DEF BuilderTypes
<1> HIDE DEF base
<1>5. \A y \in Requests : TouchedAs(req'[y], base[y], a)
                          /\ (base[y].a = a => ~req'[y].clean)
  <2>1. req' = Touch(a, TRUE, base)
    BY DEF base, v
  <2> QED
    BY <1>4, <2>1, Touched
<1>14. req' \in [Requests -> ReqRow]
  BY <1>5 DEF Touch, TouchedAs
<1>6. BuilderTypes'
  BY <1>1, <1>14 DEF BuilderTypes
<1>7. \A b \in Assessments \ {a} : Steady(b)
  BY <1>1 DEF Steady
<1>8. ASSUME NEW y \in Requests
      PROVE  \/ req'[y] = req[y] /\ req[y].a # a
             \/ (Idle(y) \/ req[y].a = a) /\ (req'[y].a = a \/ req'[y].at = "idle")
  <2>1. TouchedAs(req'[y], base[y], a) /\ (y # r => base[y] = req[y])
    BY <1>4, <1>5
  <2>2. y = r => req'[y].a = a
    BY <1>3, <1>4, <2>1 DEF TouchedAs
  <2> QED
    BY <2>1, <2>2 DEF TouchedAs
<1>9. assessments[a].college # None
  BY DEF AuthoringInv, AssessmentsWhole
<1>10. About(a)
  BY <1>6, <1>7, <1>8, <1>9 DEF About
<1>11. TotalOk(a)'
  <2>1. TouchedAs(req'[r], base[r], a)
    BY <1>5
  <2>2. req'[r].a = a /\ req'[r].at = "sum"
    BY <1>3, <1>4, <2>1 DEF TouchedAs
  <2> QED
    BY <2>2 DEF TotalOk, Totalling
<1>12. ApprovedOk(a)'
  BY DEF ApprovedOk
<1>13. ASSUME NEW y \in Requests, req'[y].a = a PROVE ReqOk(y)'
  <2>1. CASE y = r
    BY <1>3, <1>4, <1>5, <2>1, ZenonT(60) DEF ReqOk, ReqGood, TouchedAs
  <2>2. CASE y # r
    <3>1. base[y] = req[y] /\ req[y].a = a
      BY <1>4, <1>5, <1>13, <2>2, ZenonT(60) DEF TouchedAs
    <3>2. ReqGood(req[y], assessments[a], attached[a], Count(a), assigned[a], questions)
      BY <3>1 DEF AuthoringInv, ReqOk
    <3> DEFINE rows == attached'[a]
               n == CountOf(attached'[a], sections', a)
    <3> HIDE DEF rows, n
    <3>3. ReqGood(req'[y], assessments[a], rows, n, assigned[a], questions)
      <4> DEFINE w == req[y]
                 u == req'[y]
                 x == assessments[a]
                 old == attached[a]
                 m == Count(a)
      <4>1. TouchedAs(u, w, a) /\ w.a = a /\ (u.clean => n = m)
        BY <1>5, <3>1
      <4>2. ReqGood(w, x, old, m, assigned[a], questions) /\ x.status # "NONE"
        BY <3>2
      <4> HIDE DEF u, w, x, old, m
      <4>3. ReqGood(u, x, rows, n, assigned[a], questions)
        BY <4>1, <4>2, TouchedGood
      <4> QED
        BY <4>3 DEF u, x
    <3> QED
      BY <1>13, <3>3 DEF ReqOk, Count, rows, n
  <2> QED
    BY <2>1, <2>2
<1> QED
  BY <1>10, <1>11, <1>12, <1>13, AboutInv

\* A step of one handler, which writes nothing.
LEMMA HandlerInv ==
  ASSUME AuthoringInv, NEW a \in Assessments, NEW r \in Requests, NEW v \in ReqRow,
         Idle(r) \/ req[r].a = a, req' = [req EXCEPT ![r] = v],
         assessments[a].status # "NONE",
         \/ v.at = "idle" /\ v.a = None
         \/ v.a = a /\ ReqGood(v, assessments[a], attached[a], Count(a), assigned[a], questions),
         drift' \in {drift, drift \cup {a}},
         req[r].at \in {"sum", "store"} => v.at \in {"sum", "store"} \/ a \in drift',
         questions' = questions, jobs' = jobs, edit' = edit, suspect' = suspect,
         assessments' = assessments, assigned' = assigned, sections' = sections,
         attached' = attached, approved' = approved, requests' \in 0..MaxRequests
  PROVE  AuthoringInv'
<1>1. BuilderTypes /\ None \notin Assessments
  BY AuthoringAssumption DEF AuthoringInv
<1>2. req' \in [Requests -> ReqRow] /\ req'[r] = v /\ \A y \in Requests \ {r} : req'[y] = req[y]
  BY <1>1 DEF BuilderTypes
<1>3. BuilderTypes'
  BY <1>1, <1>2 DEF BuilderTypes
<1>4. \A b \in Assessments : Steady(b)
  BY DEF Steady
<1>5. ASSUME NEW y \in Requests
      PROVE  \/ req'[y] = req[y] /\ req[y].a # a
             \/ (Idle(y) \/ req[y].a = a) /\ (req'[y].a = a \/ req'[y].at = "idle")
  BY <1>2
<1>6. assessments[a].college # None
  BY DEF AuthoringInv, AssessmentsWhole
<1>7. About(a)
  BY <1>3, <1>4, <1>5, <1>6 DEF About
<1>8. Count(a)' = Count(a)
  BY DEF Count
<1>9. RowsOk(a)'
  BY DEF AuthoringInv, RowsOk
<1>10. TotalOk(a)'
  <2>1. Totalling(a) => Totalling(a)' \/ a \in drift'
    <3> SUFFICES ASSUME NEW y \in Requests, req[y].a = a, req[y].at \in {"sum", "store"}
                 PROVE  Totalling(a)' \/ a \in drift'
      BY DEF Totalling
    <3>1. CASE y = r
      <4>1. v.at \in {"sum", "store"} => v.a = a
        BY <1>1
      <4> QED
        BY <1>2, <3>1, <4>1 DEF Totalling
    <3>2. CASE y # r
      BY <1>2, <3>2 DEF Totalling
    <3> QED
      BY <3>1, <3>2
  <2> QED
    BY <1>8, <2>1 DEF AuthoringInv, TotalOk
<1>11. ApprovedOk(a)'
  BY <1>8 DEF AuthoringInv, ApprovedOk
<1>12. ASSUME NEW y \in Requests, req'[y].a = a PROVE ReqOk(y)'
  <2>1. Count(a)' = CountOf(attached'[a], sections', a)
    BY DEF Count
  <2>2. ReqGood(req'[y], assessments[a], attached[a], Count(a), assigned[a], questions)
    <3>1. CASE y = r
      BY <1>1, <1>2, <1>12, <3>1
    <3>2. CASE y # r
      BY <1>2, <1>12, <3>2 DEF AuthoringInv, ReqOk
    <3> QED
      BY <3>1, <3>2
  <2> QED
    BY <1>8, <1>12, <2>1, <2>2 DEF ReqOk, Count
<1> QED
  BY <1>7, <1>9, <1>10, <1>11, <1>12, AboutInv


-----------------------------------------------------------------------------
(* The steps of the builder. *)

LEMMA OneMore ==
  ASSUME AuthoringInv, requests < MaxRequests
  PROVE  requests + 1 \in 0..MaxRequests
  BY BankAssumption DEF AuthoringInv

\* What a handler reads of its assessment.
LEMMA Found ==
  ASSUME AuthoringInv, NEW a \in Assessments
  PROVE  /\ assessments[a] \in AssessmentRow /\ assigned[a] \in SUBSET Targets
         /\ assessments = [assessments EXCEPT ![a] = assessments[a]]
         /\ assigned = [assigned EXCEPT ![a] = assigned[a]]
         /\ \A u : FindAssessment(u, a) => /\ assessments[a].status # "NONE"
                                           /\ assessments[a].college # None
<1>1. BuilderTypes /\ AssessmentsWhole
  BY DEF AuthoringInv
<1>2. assessments[a].status # "NONE" => assessments[a].college # None
  BY <1>1 DEF AssessmentsWhole
<1> QED
  BY <1>1, <1>2 DEF BuilderTypes, FindAssessment

\* Requests of one statement.
LEMMA CommitStep ==
  ASSUME AuthoringInv, requests < MaxRequests, NEW a \in Assessments, NEW x \in AssessmentRow,
         NEW t \in SUBSET Targets, Commit(a),
         assessments' = [assessments EXCEPT ![a] = x],
         assigned' = [assigned EXCEPT ![a] = t],
         x.status # "NONE", x.college # None, x.total = assessments[a].total,
         assessments[a].status # "NONE" => x.college = assessments[a].college
  PROVE  AuthoringInv'
<1>1. /\ questions' = questions /\ jobs' = jobs /\ edit' = edit /\ suspect' = suspect
      /\ sections' = sections /\ attached' = attached /\ drift' = drift
      /\ req' = Touch(a, FALSE, req) /\ approved' = approved \ {a} /\ requests' = requests + 1
  BY DEF Commit, bankRows
<1>2. requests' \in 0..MaxRequests
  BY <1>1, OneMore
<1>3. approved' \subseteq approved \cup {a} /\ a \notin approved'
  BY <1>1
<1> DEFINE base == req
<1>4. base = req /\ req' = Touch(a, FALSE, base)
  BY <1>1
<1> HIDE DEF base
<1> QED
  BY <1>1, <1>2, <1>3, <1>4, CommitInv

LEMMA CreateAssessmentStep ==
  ASSUME AuthoringInv, requests < MaxRequests, NEW u \in Users, NEW a \in Assessments,
         NEW c \in Colleges, NEW s \in Subjects \cup {None}, NEW p \in PassingMarks,
         CreateAssessment(u, a, c, s, p)
  PROVE  AuthoringInv'
<1> DEFINE d == WriteCollege(u, c)
           x == [NoAssessment EXCEPT !.status = "DRAFT", !.college = d,
                     !.subject = s, !.owner = u, !.passing = p]
<1>1. /\ Staff(u) /\ assessments[a].status = "NONE" /\ Commit(a) /\ assigned' = assigned
      /\ assessments' = [assessments EXCEPT ![a] = x]
  BY DEF CreateAssessment
<1>2. d \in Colleges /\ d # None /\ p \in Nat
  BY <1>1, WritesIn, BankAssumption, AuthoringAssumption
<1> HIDE DEF d
<1>3. x \in AssessmentRow
  BY <1>2, BuilderFields DEF AssessmentRow, AssessmentStatus
<1>4. x.status = "DRAFT" /\ x.college = d /\ x.total = 0
  BY DEF NoAssessment
<1> HIDE DEF x
<1>5. assessments[a].total = 0
  BY <1>1 DEF AuthoringInv, AssessmentsWhole
<1>6. assigned[a] \in SUBSET Targets /\ assigned' = [assigned EXCEPT ![a] = assigned[a]]
  BY <1>1, Found
<1>7. x.status # "NONE" /\ x.college # None /\ x.total = assessments[a].total
      /\ (assessments[a].status # "NONE" => x.college = assessments[a].college)
  BY <1>1, <1>2, <1>4, <1>5
<1> QED
  BY <1>1, <1>3, <1>6, <1>7, CommitStep

LEMMA StatusStep ==
  ASSUME AuthoringInv, requests < MaxRequests, NEW u, NEW a \in Assessments,
         DeleteAssessment(u, a) \/ CancelAssessment(u, a) \/ ScheduleAssessment(u, a)
  PROVE  AuthoringInv'
<1>1. /\ FindAssessment(u, a) /\ Commit(a) /\ assigned' = assigned
      /\ assessments[a] \in AssessmentRow
      /\ assessments[a].status # "NONE" /\ assessments[a].college # None
      /\ assessments \in [Assessments -> AssessmentRow]
      /\ assigned[a] \in SUBSET Targets /\ assigned' = [assigned EXCEPT ![a] = assigned[a]]
  BY Found DEF DeleteAssessment, CancelAssessment, ScheduleAssessment, AuthoringInv, BuilderTypes
<1>2. PICK x \in AssessmentRow :
        /\ assessments' = [assessments EXCEPT ![a] = x]
        /\ x.status \in {"CANCELLED", "SCHEDULED"} /\ x.college = assessments[a].college
        /\ x.total = assessments[a].total
  <2>1. CASE DeleteAssessment(u, a)
    <3> DEFINE x == [assessments[a] EXCEPT !.status = "CANCELLED", !.deleted = TRUE]
    <3>1. assessments' = [assessments EXCEPT ![a] = x]
      BY <1>1, <2>1 DEF DeleteAssessment
    <3>2. /\ x \in AssessmentRow /\ x.status = "CANCELLED"
          /\ x.college = assessments[a].college /\ x.total = assessments[a].total
      BY <1>1 DEF AssessmentRow, AssessmentStatus
    <3> QED
      BY <3>1, <3>2
  <2>2. CASE CancelAssessment(u, a) \/ ScheduleAssessment(u, a)
    <3>1. PICK st \in {"CANCELLED", "SCHEDULED"} :
             assessments' = [assessments EXCEPT ![a].status = st]
      BY <2>2 DEF CancelAssessment, ScheduleAssessment
    <3> DEFINE x == [assessments[a] EXCEPT !.status = st]
    <3>2. assessments' = [assessments EXCEPT ![a] = x]
      BY <1>1, <3>1
    <3>3. /\ x \in AssessmentRow /\ x.status = st
          /\ x.college = assessments[a].college /\ x.total = assessments[a].total
      BY <1>1 DEF AssessmentRow, AssessmentStatus
    <3> QED
      BY <3>2, <3>3
  <2> QED
    BY <2>1, <2>2
<1>3. x.status # "NONE" /\ x.college # None /\ x.total = assessments[a].total
      /\ (assessments[a].status # "NONE" => x.college = assessments[a].college)
  BY <1>1, <1>2
<1> QED
  BY <1>1, <1>2, <1>3, CommitStep

LEMMA AssignmentStep ==
  ASSUME AuthoringInv, requests < MaxRequests, NEW u, NEW a \in Assessments, NEW t \in Targets,
         AddAssignment(u, a, t) \/ DeleteAssignment(u, a, t)
  PROVE  AuthoringInv'
<1>1. /\ FindAssessment(u, a) /\ Commit(a) /\ assessments' = assessments
      /\ assessments[a] \in AssessmentRow /\ assigned[a] \in SUBSET Targets
      /\ assessments[a].status # "NONE" /\ assessments[a].college # None
      /\ assessments' = [assessments EXCEPT ![a] = assessments[a]]
  BY Found DEF AddAssignment, DeleteAssignment
<1>2. PICK z \in SUBSET Targets : assigned' = [assigned EXCEPT ![a] = z]
  <2>1. CASE AddAssignment(u, a, t)
    <3>1. assigned' = [assigned EXCEPT ![a] = assigned[a] \cup {t}]
      BY <2>1 DEF AddAssignment
    <3> QED
      BY <1>1, <3>1
  <2>2. CASE DeleteAssignment(u, a, t)
    <3>1. assigned' = [assigned EXCEPT ![a] = assigned[a] \ {t}]
      BY <2>2 DEF DeleteAssignment
    <3> QED
      BY <1>1, <3>1
  <2> QED
    BY <2>1, <2>2
<1> DEFINE x == assessments[a]
<1>3. x \in AssessmentRow /\ x.status # "NONE" /\ x.college # None
      /\ x.total = assessments[a].total /\ x.college = assessments[a].college
      /\ assessments' = [assessments EXCEPT ![a] = x]
  BY <1>1
<1> HIDE DEF x
<1> QED
  BY <1>1, <1>2, <1>3, CommitStep

\* The writes of the two handlers that end in one.
LEMMA SaveStep ==
  ASSUME AuthoringInv, NEW r \in Requests, UpdateAssessmentWrite(r) \/ Approve(r)
  PROVE  AuthoringInv'
<1> DEFINE w == req[r]
           a == w.a
           base == [req EXCEPT ![r] = NoReq]
<1>1. /\ w.at \in {"save", "approve"}
      /\ questions' = questions /\ jobs' = jobs /\ edit' = edit /\ suspect' = suspect
      /\ sections' = sections /\ attached' = attached /\ drift' = drift
      /\ assigned' = assigned /\ requests' = requests /\ req' = Touch(a, FALSE, base)
  BY DEF UpdateAssessmentWrite, Approve, bankRows
<1>2. /\ w \in ReqRow /\ BuilderTypes /\ requests' \in 0..MaxRequests
      /\ ReqGood(w, assessments[a], attached[a], Count(a), assigned[a], questions)
  BY <1>1 DEF AuthoringInv, ReqOk, BuilderTypes
<1>3. a \in Assessments /\ assessments[a].status # "NONE" /\ (w.at = "save" => w.status # "NONE")
      /\ (w.at = "approve" /\ w.current =>
            Ready(assessments[a], attached[a], Count(a), assigned[a], questions))
  BY <1>1, <1>2 DEF ReqGood
<1>4. /\ assessments[a] \in AssessmentRow /\ assessments[a].college # None
      /\ assigned[a] \in SUBSET Targets /\ assigned' = [assigned EXCEPT ![a] = assigned[a]]
  BY <1>1, <1>3, Found DEF AuthoringInv, AssessmentsWhole
<1>5. \E y \in Requests : base = [req EXCEPT ![y] = NoReq]
                          /\ req[y].a = a /\ req[y].at \notin {"sum", "store"}
  BY <1>1
<1>6. PICK x \in AssessmentRow :
        /\ assessments' = [assessments EXCEPT ![a] = x]
        /\ x.status # "NONE" /\ x.college = assessments[a].college
        /\ x.total = assessments[a].total
        /\ approved' \subseteq approved \cup {a}
        /\ a \in approved' => x.status = "PUBLISHED"
                              /\ Ready(x, attached[a], Count(a), assigned[a], questions)
  <2>1. CASE UpdateAssessmentWrite(r)
    <3> DEFINE x == [assessments[a] EXCEPT !.status = w.status,
                        !.subject = w.subject, !.passing = w.passing]
    <3>1. /\ assessments' = [assessments EXCEPT ![a].status = w.status,
                               ![a].subject = w.subject, ![a].passing = w.passing]
          /\ approved' = approved \ {a} /\ w.at = "save"
      BY <2>1 DEF UpdateAssessmentWrite
    <3>2. assessments' = [assessments EXCEPT ![a] = x]
      BY <1>2, <1>3, <3>1 DEF BuilderTypes
    <3>3. w.status \in AssessmentStatus \cup {"NONE"} /\ w.subject \in Subjects \cup {None}
          /\ w.passing \in Nat /\ w.status # "NONE"
      BY <1>2, <1>3, <3>1 DEF ReqRow
    <3> HIDE DEF a, w
    <3>4. x \in AssessmentRow
      BY <1>4, <3>3 DEF AssessmentRow
    <3>5. x.status = w.status /\ x.college = assessments[a].college
          /\ x.total = assessments[a].total
      BY <1>4 DEF AssessmentRow
    <3> QED
      BY <3>1, <3>2, <3>3, <3>4, <3>5
  <2>2. CASE Approve(r)
    <3> DEFINE x == [assessments[a] EXCEPT !.status = "PUBLISHED"]
    <3>1. /\ assessments' = [assessments EXCEPT ![a].status = "PUBLISHED"] /\ w.at = "approve"
          /\ approved' = IF w.current THEN approved \cup {a} ELSE approved \ {a}
      BY <2>2 DEF Approve
    <3>2. assessments' = [assessments EXCEPT ![a] = x]
      BY <1>2, <1>3, <3>1 DEF BuilderTypes
    <3> HIDE DEF a, w
    <3>3. /\ x \in AssessmentRow /\ x.status = "PUBLISHED" /\ x.college = assessments[a].college
          /\ x.total = assessments[a].total /\ x.passing = assessments[a].passing
      BY <1>4 DEF AssessmentRow, AssessmentStatus
    <3> HIDE DEF x
    <3>4. a \in approved' => Ready(x, attached[a], Count(a), assigned[a], questions)
      BY <1>3, <3>1, <3>3 DEF Ready
    <3> QED
      BY <3>1, <3>2, <3>3, <3>4
  <2> QED
    BY <2>1, <2>2
<1> HIDE DEF w, a, base
<1>7. x.college # None /\ (assessments[a].status # "NONE" => x.college = assessments[a].college)
      /\ x.status # "NONE" /\ x.total = assessments[a].total
  BY <1>4, <1>6
<1> DEFINE t == assigned[a]
<1>8. t \in SUBSET Targets /\ assigned' = [assigned EXCEPT ![a] = t]
      /\ (a \in approved' => x.status = "PUBLISHED"
                             /\ Ready(x, attached[a], Count(a), t, questions))
  BY <1>4, <1>6
<1> HIDE DEF t
<1> QED
  BY <1>1, <1>2, <1>3, <1>5, <1>6, <1>7, <1>8, CommitInv


\* Requests that write sections or questions and go on to recalculate.
LEMMA RowsStep ==
  ASSUME AuthoringInv, requests < MaxRequests, NEW u, NEW a \in Assessments, NEW r \in Requests,
         Idle(r), FindAssessment(u, a), Recalculate(r, a), RowsOk(a)',
         attached' \in [Assessments -> [Questions -> AttachedRow]],
         sections' \in [Sections -> SectionRow],
         \A b \in Assessments \ {a} : attached'[b] = attached[b],
         \A s \in Sections : \/ sections'[s] = sections[s]
                             \/ sections[s].a \in {a, None} /\ sections'[s].a \in {a, None},
         questions' = questions, jobs' = jobs, edit' = edit, suspect' = suspect,
         assessments' = assessments, assigned' = assigned
  PROVE  AuthoringInv'
<1>1. /\ req' = Touch(a, TRUE, [req EXCEPT ![r] = [NoReq EXCEPT !.at = "sum", !.a = a]])
      /\ requests' = requests + 1 /\ approved' = approved \ {a} /\ drift' = drift
  BY DEF Recalculate
<1>2. requests' \in 0..MaxRequests /\ assessments[a].status # "NONE"
  BY <1>1, OneMore, Found
<1> QED
  BY <1>1, <1>2, RowsInv

LEMMA SectionStep ==
  ASSUME AuthoringInv, requests < MaxRequests, NEW u, NEW a \in Assessments, NEW r \in Requests,
         NEW s \in Sections, NEW m \in SectionMarks,
         AddSection(r, u, a, s, m) \/ UpdateSection(r, u, a, s, m)
  PROVE  AuthoringInv'
<1>1. /\ Idle(r) /\ FindAssessment(u, a) /\ Recalculate(r, a)
      /\ questions' = questions /\ jobs' = jobs /\ edit' = edit /\ suspect' = suspect
      /\ assessments' = assessments /\ assigned' = assigned /\ attached' = attached
      /\ sections[s].a \in {a, None}
  BY DEF AddSection, UpdateSection, bankRows
<1>2. /\ attached \in [Assessments -> [Questions -> AttachedRow]]
      /\ sections \in [Sections -> SectionRow] /\ m \in Nat
      /\ RowsIn(attached[a], assessments[a], sections, questions, a)
  BY AuthoringAssumption DEF AuthoringInv, BuilderTypes, RowsOk
<1>3. PICK x \in SectionRow : sections' = [sections EXCEPT ![s] = x] /\ x.a = a
  <2>1. CASE AddSection(r, u, a, s, m)
    <3> DEFINE x == [a |-> a, marks |-> m]
    <3>1. sections' = [sections EXCEPT ![s] = x] /\ x \in SectionRow /\ x.a = a
      BY <1>2, <2>1 DEF AddSection, SectionRow
    <3> QED
      BY <3>1
  <2>2. CASE UpdateSection(r, u, a, s, m)
    <3> DEFINE x == [sections[s] EXCEPT !.marks = m]
    <3>1. sections' = [sections EXCEPT ![s] = x]
      BY <1>2, <2>2 DEF UpdateSection
    <3>2. sections[s].a = a
      BY <2>2 DEF UpdateSection
    <3>3. x \in SectionRow /\ x.a = a
      BY <1>2, <3>2 DEF SectionRow
    <3> QED
      BY <3>1, <3>3
  <2> QED
    BY <2>1, <2>2
<1>4. /\ sections' \in [Sections -> SectionRow] /\ sections'[s].a = a
      /\ \A y \in Sections \ {s} : sections'[y] = sections[y]
  BY <1>2, <1>3
<1>5. RowsOk(a)'
  <2>1. RowsIn(attached[a], assessments[a], sections', questions, a)
    <3>1. \A q \in Questions : attached[a][q].section \in Sections \cup {None}
      BY <1>2 DEF AttachedRow
    <3> QED
      BY <1>2, <1>4, <3>1, ZenonT(60) DEF RowsIn
  <2> QED
    BY <1>1, <2>1 DEF RowsOk
<1>6. /\ attached' \in [Assessments -> [Questions -> AttachedRow]]
      /\ \A b \in Assessments \ {a} : attached'[b] = attached[b]
      /\ \A y \in Sections : \/ sections'[y] = sections[y]
                             \/ sections[y].a \in {a, None} /\ sections'[y].a \in {a, None}
  BY <1>1, <1>2, <1>4
<1> QED
  BY <1>1, <1>4, <1>5, <1>6, RowsStep

LEMMA DeleteSectionStep ==
  ASSUME AuthoringInv, requests < MaxRequests, NEW u, NEW a \in Assessments, NEW r \in Requests,
         NEW s \in Sections, DeleteSection(r, u, a, s)
  PROVE  AuthoringInv'
<1> DEFINE x == [a |-> None, marks |-> 0]
           row(q) == IF attached[a][q].section = s
                     THEN [attached[a][q] EXCEPT !.section = None] ELSE attached[a][q]
           rows == [q \in Questions |-> row(q)]
<1>1. /\ Idle(r) /\ FindAssessment(u, a) /\ Recalculate(r, a) /\ sections[s].a = a
      /\ questions' = questions /\ jobs' = jobs /\ edit' = edit /\ suspect' = suspect
      /\ assessments' = assessments /\ assigned' = assigned
      /\ sections' = [sections EXCEPT ![s] = x]
      /\ attached' = [attached EXCEPT ![a] = rows]
  BY DEF DeleteSection, bankRows
<1>2. /\ attached \in [Assessments -> [Questions -> AttachedRow]]
      /\ sections \in [Sections -> SectionRow]
      /\ RowsIn(attached[a], assessments[a], sections, questions, a)
  BY DEF AuthoringInv, BuilderTypes, RowsOk
<1>3. /\ x \in SectionRow /\ x.a = None
      /\ sections' \in [Sections -> SectionRow] /\ sections'[s].a = None
      /\ \A y \in Sections \ {s} : sections'[y] = sections[y]
  <2>1. x \in SectionRow /\ x.a = None
    BY DEF SectionRow
  <2> HIDE DEF x
  <2> QED
    BY <1>1, <1>2, <2>1
<1>4. \A q \in Questions : /\ row(q) \in AttachedRow /\ row(q).on = attached[a][q].on
                           /\ row(q).section \in {attached[a][q].section, None} \ {s}
  <2> TAKE q \in Questions
  <2>1. attached[a][q] \in AttachedRow /\ None # s
    BY <1>2, AuthoringAssumption
  <2>2. CASE attached[a][q].section = s
    BY <2>1, <2>2 DEF AttachedRow
  <2>3. CASE attached[a][q].section # s
    BY <2>1, <2>3
  <2> QED
    BY <2>2, <2>3
<1> HIDE DEF row, x
<1>5. /\ attached' \in [Assessments -> [Questions -> AttachedRow]]
      /\ \A b \in Assessments \ {a} : attached'[b] = attached[b]
      /\ \A q \in Questions : attached'[a][q] = row(q)
  <2>1. rows \in [Questions -> AttachedRow] /\ \A q \in Questions : rows[q] = row(q)
    BY <1>4
  <2> HIDE DEF rows
  <2> QED
    BY <1>1, <1>2, <2>1
<1>6. RowsOk(a)'
  <2> SUFFICES ASSUME NEW q \in Questions, attached'[a][q].on
               PROVE  /\ assessments[a].status # "NONE" /\ questions[q].status # "NONE"
                      /\ questions[q].college = assessments[a].college
                      /\ attached'[a][q].section # None =>
                            sections'[attached'[a][q].section].a = a
    BY <1>1 DEF RowsOk, RowsIn
  <2>1. attached[a][q].on /\ attached[a][q].section \in Sections \cup {None}
    BY <1>2, <1>4, <1>5 DEF AttachedRow
  <2>2. /\ assessments[a].status # "NONE" /\ questions[q].status # "NONE"
        /\ questions[q].college = assessments[a].college
        /\ attached[a][q].section # None => sections[attached[a][q].section].a = a
    BY <1>2, <2>1 DEF RowsIn
  <2>3. attached'[a][q].section \in {attached[a][q].section, None} \ {s}
    BY <1>4, <1>5
  <2> QED
    BY <1>3, <2>1, <2>2, <2>3
<1>7. \A y \in Sections : \/ sections'[y] = sections[y]
                          \/ sections[y].a \in {a, None} /\ sections'[y].a \in {a, None}
  BY <1>1, <1>3
<1> QED
  BY <1>1, <1>3, <1>5, <1>6, <1>7, RowsStep

LEMMA QuestionStep ==
  ASSUME AuthoringInv, requests < MaxRequests, NEW u, NEW a \in Assessments, NEW r \in Requests,
         NEW q \in Questions,
         \/ \E s \in Sections \cup {None}, o \in Orders, m \in QuestionMarks :
               AddAssessmentQuestion(r, u, a, q, s, o, m)
         \/ DeleteAssessmentQuestion(r, u, a, q)
  PROVE  AuthoringInv'
<1>1. /\ Idle(r) /\ FindAssessment(u, a) /\ Recalculate(r, a)
      /\ questions' = questions /\ jobs' = jobs /\ edit' = edit /\ suspect' = suspect
      /\ assessments' = assessments /\ assigned' = assigned /\ sections' = sections
  BY DEF AddAssessmentQuestion, DeleteAssessmentQuestion, bankRows
<1>2. /\ attached \in [Assessments -> [Questions -> AttachedRow]]
      /\ sections \in [Sections -> SectionRow]
      /\ RowsIn(attached[a], assessments[a], sections, questions, a)
      /\ assessments[a].status # "NONE"
  BY <1>1, Found DEF AuthoringInv, BuilderTypes, RowsOk
<1>3. PICK x \in AttachedRow :
        /\ attached' = [attached EXCEPT ![a][q] = x]
        /\ x.on => /\ questions[q].status # "NONE"
                   /\ questions[q].college = assessments[a].college
                   /\ x.section # None => sections[x.section].a = a
  <2>1. CASE DeleteAssessmentQuestion(r, u, a, q)
    <3>1. attached' = [attached EXCEPT ![a][q] = NoRow]
      BY <2>1 DEF DeleteAssessmentQuestion
    <3> QED
      BY <3>1, BuilderFields
  <2>2. ASSUME NEW s \in Sections \cup {None}, NEW o \in Orders, NEW m \in QuestionMarks,
               AddAssessmentQuestion(r, u, a, q, s, o, m)
        PROVE  \E x \in AttachedRow :
                 /\ attached' = [attached EXCEPT ![a][q] = x]
                 /\ x.on => /\ questions[q].status # "NONE"
                            /\ questions[q].college = assessments[a].college
                            /\ x.section # None => sections[x.section].a = a
    <3> DEFINE x == [on |-> TRUE, section |-> s, order |-> o, marks |-> m]
    <3>1. /\ attached' = [attached EXCEPT ![a][q] = x] /\ questions[q].status # "NONE"
          /\ questions[q].college = assessments[a].college
          /\ s # None => sections[s].a = a
      BY <2>2 DEF AddAssessmentQuestion, FindQuestion, Exists
    <3>2. x \in AttachedRow /\ x.section = s
      BY AuthoringAssumption DEF AttachedRow
    <3> HIDE DEF x
    <3> QED
      BY <3>1, <3>2
  <2> QED
    BY <2>1, <2>2
<1>4. /\ attached' \in [Assessments -> [Questions -> AttachedRow]]
      /\ \A b \in Assessments \ {a} : attached'[b] = attached[b]
      /\ \A p \in Questions : attached'[a][p] = IF p = q THEN x ELSE attached[a][p]
  BY <1>2, <1>3
<1>5. RowsOk(a)'
  <2> SUFFICES ASSUME NEW p \in Questions, attached'[a][p].on
               PROVE  /\ assessments[a].status # "NONE" /\ questions[p].status # "NONE"
                      /\ questions[p].college = assessments[a].college
                      /\ attached'[a][p].section # None =>
                            sections[attached'[a][p].section].a = a
    BY <1>1 DEF RowsOk, RowsIn
  <2>1. CASE p = q
    BY <1>2, <1>3, <1>4, <2>1
  <2>2. CASE p # q
    BY <1>2, <1>4, <2>2 DEF RowsIn
  <2> QED
    BY <2>1, <2>2
<1>6. sections' \in [Sections -> SectionRow] /\ \A y \in Sections : sections'[y] = sections[y]
  BY <1>1, <1>2
<1> QED
  BY <1>1, <1>4, <1>5, <1>6, RowsStep

\* Every question of a finite set has a position in it.
LEMMA Position ==
  ASSUME NEW S, IsFiniteSet(S), NEW q \in S
  PROVE  \E i \in 1..Cardinality(S) : SetToSeq(S)[i] = q
<1> DEFINE n == Cardinality(S)
<1>1. n \in Nat /\ ExistsBijection(1..n, S)
  BY FS_CardinalityType
<1>2. PICK g \in Bijection(1..n, S) : TRUE
  BY <1>1, Fun_ExistsBij
<1>3. g \in [1..n -> S] /\ IsInjective(g)
  BY <1>2 DEF Bijection, Injection
<1>4. SetToSeq(S) \in [1..n -> S] /\ IsInjective(SetToSeq(S))
  BY <1>3 DEF SetToSeq
<1>5. SetToSeq(S) \in Injection(1..n, S)
  BY <1>4 DEF Injection
<1>6. IsFiniteSet(1..n) /\ Cardinality(1..n) = n
  <2>1. 1 \in Int /\ n \in Int /\ (n = 0 => 1 > n) /\ (n # 0 => ~(1 > n)) /\ n - 1 + 1 = n
    BY <1>1
  <2> HIDE DEF n
  <2> QED
    BY <2>1, FS_Interval
<1>7. SetToSeq(S) \in Surjection(1..n, S)
  <2> HIDE DEF n
  <2>1. Cardinality(S) = n
    BY DEF n
  <2> QED
    BY <1>5, <1>6, <2>1, FS_Injection
<1> QED
  BY <1>7 DEF Surjection

\* The orders of an insertion, from the first free position on.
LEMMA Ordered ==
  ASSUME NEW S \in SUBSET Questions, NEW first \in Nat, first > 0, NEW q \in S
  PROVE  LET o == first - 1 + CHOOSE i \in 1..Cardinality(S) : SetToSeq(S)[i] = q
         IN  o \in Nat /\ o >= first
<1>1. IsFiniteSet(S)
  BY BankAssumption, FS_Subset
<1>2. Cardinality(S) \in Nat
  BY <1>1, FS_CardinalityType
<1>3. \E i \in 1..Cardinality(S) : SetToSeq(S)[i] = q
  BY <1>1, Position
<1> DEFINE i == CHOOSE i \in 1..Cardinality(S) : SetToSeq(S)[i] = q
<1>4. i \in 1..Cardinality(S)
  BY <1>3
<1> HIDE DEF i
<1>5. first - 1 + i \in Nat /\ first - 1 + i >= first
  BY <1>2, <1>4
<1> QED
  BY <1>5 DEF i

\* The position an insertion gives to a question of the set.
OrderIn(w, q) ==
    w.first - 1 + CHOOSE i \in 1..Cardinality(w.set) : SetToSeq(w.set)[i] = q
Inserted(w, q) == [on |-> TRUE, section |-> w.section, order |-> OrderIn(w, q),
                   marks |-> DefaultMarks]
Inserts(w, q) == q \in w.set /\ Free(w.a, q, OrderIn(w, q))

LEMMA AttachedRows ==
  ASSUME AuthoringInv, NEW r \in Requests, ImportSetAttach(r)
  PROVE  /\ req[r] \in ReqRow /\ req[r].a \in Assessments
         /\ ReqGood(req[r], assessments[req[r].a], attached[req[r].a], Count(req[r].a),
                    assigned[req[r].a], questions)
         /\ attached' \in [Assessments -> [Questions -> AttachedRow]]
         /\ \A b \in Assessments \ {req[r].a} : attached'[b] = attached[b]
         /\ \A q \in req[r].set : OrderIn(req[r], q) \in Nat /\ OrderIn(req[r], q) >= req[r].first
         /\ \A q \in Questions : attached'[req[r].a][q] =
               IF Inserts(req[r], q) THEN Inserted(req[r], q) ELSE attached[req[r].a][q]
<1> DEFINE w == req[r]
           a == w.a
<1>1. /\ w \in ReqRow /\ w.at = "attach" /\ BuilderTypes
      /\ ReqGood(w, assessments[a], attached[a], Count(a), assigned[a], questions)
  BY DEF ImportSetAttach, AuthoringInv, ReqOk, BuilderTypes
<1>2. /\ a \in Assessments /\ w.first > 0 /\ w.first \in Nat /\ w.set \in SUBSET Questions
      /\ w.section \in Sections \cup {None}
  BY <1>1 DEF ReqGood, ReqRow
<1>3. \A q \in w.set : OrderIn(w, q) \in Nat /\ OrderIn(w, q) >= w.first
  <2> TAKE q \in w.set
  <2> DEFINE S == w.set
             first == w.first
  <2>1. S \in SUBSET Questions /\ first \in Nat /\ first > 0 /\ q \in S
    BY <1>2
  <2> HIDE DEF S, first
  <2> DEFINE o == first - 1 + CHOOSE i \in 1..Cardinality(S) : SetToSeq(S)[i] = q
  <2>2. o \in Nat /\ o >= first
    BY <2>1, Ordered
  <2> QED
    BY <2>2 DEF OrderIn, S, first
<1> DEFINE order == [q \in w.set |-> w.first - 1 + CHOOSE i \in 1..Cardinality(w.set) :
                                       SetToSeq(w.set)[i] = q]
           row(q) == IF q \in w.set /\ Free(a, q, order[q])
                     THEN [on |-> TRUE, section |-> w.section, order |-> order[q],
                           marks |-> DefaultMarks]
                     ELSE attached[a][q]
           rows == [q \in Questions |-> row(q)]
<1>4. attached' = [attached EXCEPT ![a] = rows]
  BY DEF ImportSetAttach
<1>5. \A q \in w.set : order[q] = OrderIn(w, q)
  BY DEF OrderIn
<1> HIDE DEF order
<1>6. \A q \in Questions : row(q) = IF Inserts(w, q) THEN Inserted(w, q) ELSE attached[a][q]
  BY <1>5 DEF Inserts, Inserted
<1>7. attached \in [Assessments -> [Questions -> AttachedRow]]
  BY <1>1 DEF BuilderTypes
<1>8. ASSUME NEW q \in Questions PROVE row(q) \in AttachedRow
  <2> DEFINE o == OrderIn(w, q)
             s == w.section
             x == [on |-> TRUE, section |-> s, order |-> o, marks |-> DefaultMarks]
  <2>1. s \in Sections \cup {None} /\ Inserted(w, q) = x /\ (Inserts(w, q) => o \in Nat)
    BY <1>2, <1>3 DEF Inserted, Inserts
  <2> HIDE DEF o, s
  <2>2. Inserts(w, q) => x \in AttachedRow
    BY <2>1, AuthoringAssumption DEF AttachedRow
  <2>3. attached[a][q] \in AttachedRow
    BY <1>2, <1>7
  <2> HIDE DEF x, row
  <2> QED
    BY <1>6, <2>1, <2>2, <2>3
<1> HIDE DEF row
<1>9. rows \in [Questions -> AttachedRow] /\ \A q \in Questions : rows[q] = row(q)
  BY <1>8
<1> HIDE DEF rows
<1>10. /\ attached' \in [Assessments -> [Questions -> AttachedRow]] /\ attached'[a] = rows
       /\ \A b \in Assessments \ {a} : attached'[b] = attached[b]
  BY <1>2, <1>4, <1>7, <1>9
<1>11. \A q \in Questions : attached'[a][q] =
          IF Inserts(w, q) THEN Inserted(w, q) ELSE attached[a][q]
  BY <1>6, <1>9, <1>10
<1> QED
  BY <1>1, <1>2, <1>3, <1>10, <1>11

LEMMA ImportSetAttachStep ==
  ASSUME AuthoringInv, NEW r \in Requests, ImportSetAttach(r)
  PROVE  AuthoringInv'
<1>0. PICK w : w = req[r]
  OBVIOUS
<1>10. PICK a : a = w.a
  OBVIOUS
<1>1. /\ w.at = "attach" /\ (w.section # None => sections[w.section].a = a)
      /\ questions' = questions /\ jobs' = jobs /\ edit' = edit /\ suspect' = suspect
      /\ assessments' = assessments /\ sections' = sections /\ assigned' = assigned
      /\ drift' = drift /\ requests' = requests /\ approved' = approved \ {a}
      /\ req' = Touch(a, TRUE, [req EXCEPT ![r] = [NoReq EXCEPT !.at = "sum", !.a = a]])
  BY <1>0, <1>10 DEF ImportSetAttach, bankRows
<1>2. /\ w \in ReqRow /\ a \in Assessments
      /\ ReqGood(w, assessments[a], attached[a], Count(a), assigned[a], questions)
      /\ attached' \in [Assessments -> [Questions -> AttachedRow]]
      /\ \A b \in Assessments \ {a} : attached'[b] = attached[b]
      /\ \A q \in Questions : attached'[a][q] =
            IF Inserts(w, q) THEN Inserted(w, q) ELSE attached[a][q]
  BY <1>0, <1>10, AttachedRows
<1>3. /\ RowsIn(attached[a], assessments[a], sections, questions, a)
      /\ sections' \in [Sections -> SectionRow] /\ requests' \in 0..MaxRequests
  BY <1>1, <1>2 DEF AuthoringInv, RowsOk, BuilderTypes
<1>4. /\ assessments[a].status # "NONE"
      /\ \A q \in w.set : questions[q].status # "NONE"
                          /\ questions[q].college = assessments[a].college
  BY <1>1, <1>2 DEF ReqGood
<1>7. Idle(r) \/ req[r].a = a
  BY <1>0, <1>10
<1>5. RowsOk(a)'
  <2> SUFFICES ASSUME NEW q \in Questions, attached'[a][q].on
               PROVE  /\ assessments[a].status # "NONE" /\ questions[q].status # "NONE"
                      /\ questions[q].college = assessments[a].college
                      /\ attached'[a][q].section # None =>
                            sections[attached'[a][q].section].a = a
    BY <1>1 DEF RowsOk, RowsIn
  <2>1. CASE Inserts(w, q)
    <3>1. q \in w.set /\ attached'[a][q].section = w.section
      <4>1. attached'[a][q] = Inserted(w, q)
        BY <1>2, <2>1
      <4> QED
        BY <2>1, <4>1 DEF Inserts, Inserted
    <3> QED
      BY <1>1, <1>4, <3>1
  <2>2. CASE ~Inserts(w, q)
    BY <1>2, <1>3, <2>2 DEF RowsIn
  <2> QED
    BY <2>1, <2>2
<1>6. \A s \in Sections : sections'[s] = sections[s]
  BY <1>1
<1> QED
  BY <1>1, <1>2, <1>3, <1>4, <1>5, <1>6, <1>7, RowsInv

-----------------------------------------------------------------------------
(* The handlers that read. *)

\* What is offered to an assessment belongs to its college.
LEMMA OfferedIn ==
  ASSUME AuthoringInv, NEW u, NEW a \in Assessments, FindAssessment(u, a), NEW s,
         NEW q \in Offered(u, assessments[a].college, s)
  PROVE  /\ q \in Questions /\ Exists(q) /\ questions[q].college = assessments[a].college
         /\ Staff(u)
<1>1. assessments[a].college # None /\ Staff(u)
  BY Found DEF FindAssessment
<1>2. q \in Questions /\ Exists(q) /\ InQuestionScope(u, assessments[a].college, q)
  BY DEF Offered
<1>3. CASE RoleOf[u] = "SUPER_ADMIN"
  BY <1>1, <1>2, <1>3 DEF InQuestionScope
<1>4. CASE RoleOf[u] # "SUPER_ADMIN"
  <2>1. assessments[a].college = CollegeOf[u] /\ RoleOf[u] \in {"COLLEGE_ADMIN", "FACULTY"}
    BY <1>1, <1>4 DEF FindAssessment, Staff
  <2> QED
    BY <1>1, <1>2, <1>4, <2>1 DEF InQuestionScope
<1> QED
  BY <1>1, <1>2, <1>3, <1>4

LEMMA SetIn ==
  ASSUME NEW u, NEW c, NEW s, NEW id
  PROVE  /\ LegacySet(u, c, s) \subseteq Offered(u, c, s)
         /\ DerivedSet(u, c, s) \subseteq LegacySet(u, c, s)
         /\ JobSet(u, c, s, id) \subseteq Offered(u, c, s)
         /\ SetQuestions(u, c, s, id) \subseteq Offered(u, c, s)
<1>1. LegacySet(u, c, s) \subseteq Offered(u, c, s)
  BY DEF LegacySet
<1>2. DerivedSet(u, c, s) \subseteq LegacySet(u, c, s)
  BY DEF DerivedSet
<1>3. JobSet(u, c, s, id) \subseteq Offered(u, c, s)
  BY DEF JobSet
<1>4. SetQuestions(u, c, s, id) \in {LegacySet(u, c, s), DerivedSet(u, c, s), JobSet(u, c, s, id)}
  BY DEF SetQuestions
<1> QED
  BY <1>1, <1>2, <1>3, <1>4

\* The first free position is above every position.
LEMMA FirstIs ==
  ASSUME BuilderTypes, NEW a \in Assessments
  PROVE  /\ FirstFree(a) \in Nat /\ FirstFree(a) > 0
         /\ \A q \in Rows(a) : attached[a][q].order < FirstFree(a)
<1> DEFINE T == {attached[a][q].order : q \in Rows(a)}
           f == [q \in Rows(a) |-> attached[a][q].order]
<1>1. \A q \in Questions : attached[a][q].order \in Nat
  BY DEF BuilderTypes, AttachedRow
<1>2. T \in SUBSET Nat
  BY <1>1 DEF Rows
<1>3. IsFiniteSet(Rows(a))
  BY BankAssumption, FS_Subset DEF Rows
<1>4. f \in Surjection(Rows(a), T)
  BY DEF Surjection
<1> DEFINE R == Rows(a)
<1>5. IsFiniteSet(R) /\ f \in Surjection(R, T)
  BY <1>3, <1>4
<1> HIDE DEF f
<1>6. IsFiniteSet(T)
  <2> HIDE DEF R, T
  <2> QED
    BY <1>5, FS_Surjection
<1> DEFINE U == {0} \cup T
<1>7. IsFiniteSet(U) /\ U \in SUBSET Nat /\ U # {}
  <2>1. IsFiniteSet({0})
    BY FS_Singleton
  <2> HIDE DEF T
  <2>2. IsFiniteSet({0} \cup T)
    BY <1>6, <2>1, FS_Union
  <2>3. U \in SUBSET Nat /\ U # {}
    BY <1>2
  <2> QED
    BY <2>2, <2>3
<1>8. Max(U) \in U /\ \A y \in U : y <= Max(U)
  <2> HIDE DEF U
  <2> QED
    BY <1>7, MaxIs
<1>9. \A q \in Rows(a) : attached[a][q].order \in U
  OBVIOUS
<1>10. FirstFree(a) = 1 + Max(U)
  BY DEF FirstFree
<1> HIDE DEF U
<1>11. Max(U) \in Nat
  BY <1>7, <1>8
<1>12. ASSUME NEW q \in Rows(a) PROVE attached[a][q].order < FirstFree(a)
  <2>1. attached[a][q].order <= Max(U) /\ attached[a][q].order \in Nat
    BY <1>7, <1>8, <1>9
  <2> QED
    BY <1>10, <1>11, <2>1
<1> QED
  BY <1>10, <1>11, <1>12

LEMMA UpdateReadStep ==
  ASSUME AuthoringInv, requests < MaxRequests, NEW r \in Requests, NEW u,
         NEW a \in Assessments, NEW st \in {"NONE", "DRAFT", "PUBLISHED"},
         NEW s \in Subjects \cup {None}, NEW p \in PassingMarks,
         UpdateAssessmentRead(r, u, a, st, s, p)
  PROVE  AuthoringInv'
<1> DEFINE asked == st # "NONE"
           status == IF st = "NONE" THEN assessments[a].status ELSE st
           subject == IF s = None THEN assessments[a].subject ELSE s
           v == [NoReq EXCEPT !.at = "save", !.a = a, !.asked = asked, !.status = status,
                              !.subject = subject, !.passing = p]
<1>1. /\ Idle(r) /\ FindAssessment(u, a) /\ req' = [req EXCEPT ![r] = v]
      /\ requests' = requests + 1 /\ assessments[a].status # "NONE"
      /\ questions' = questions /\ jobs' = jobs /\ edit' = edit /\ suspect' = suspect
      /\ assessments' = assessments /\ assigned' = assigned /\ sections' = sections
      /\ attached' = attached /\ drift' = drift /\ approved' = approved
  BY DEF UpdateAssessmentRead, bankRows, FindAssessment
<1>2. assessments[a] \in AssessmentRow
  BY Found
<1>3. /\ asked \in BOOLEAN /\ status \in AssessmentStatus \cup {"NONE"}
      /\ subject \in Subjects \cup {None} /\ p \in Nat
      /\ status # "NONE" /\ (~asked => status = assessments[a].status)
  BY <1>1, <1>2, AuthoringAssumption DEF AssessmentRow, AssessmentStatus
<1> HIDE DEF asked, status, subject
<1>4. v \in ReqRow
  BY <1>3, BuilderFields, ZenonT(60) DEF ReqRow
<1>5. v.at = "save" /\ v.a = a /\ v.asked = asked /\ v.status = status
  BY DEF NoReq
<1> HIDE DEF v
<1>6. ReqGood(v, assessments[a], attached[a], Count(a), assigned[a], questions)
  BY <1>1, <1>3, <1>5 DEF ReqGood
<1>7. requests' \in 0..MaxRequests /\ req[r].at = "idle"
  BY <1>1, OneMore DEF Idle
<1> QED
  BY <1>1, <1>4, <1>5, <1>6, <1>7, HandlerInv

LEMMA PreviewStep ==
  ASSUME AuthoringInv, requests < MaxRequests, NEW r \in Requests, NEW u,
         NEW a \in Assessments,
         PreviewOrPublish(r, u, a, TRUE) \/ PreviewOrPublish(r, u, a, FALSE)
  PROVE  AuthoringInv'
<1>1. /\ Idle(r) /\ FindAssessment(u, a)
      /\ requests' = requests + 1 /\ assessments[a].status # "NONE"
      /\ questions' = questions /\ jobs' = jobs /\ edit' = edit /\ suspect' = suspect
      /\ assessments' = assessments /\ assigned' = assigned /\ sections' = sections
      /\ attached' = attached /\ drift' = drift /\ approved' = approved
  BY DEF PreviewOrPublish, bankRows, FindAssessment
<1>2. PICK v \in ReqRow : req' = [req EXCEPT ![r] = v] /\ v.at = "sum" /\ v.a = a
  <2>1. CASE PreviewOrPublish(r, u, a, TRUE)
    <3> DEFINE v == [NoReq EXCEPT !.at = "sum", !.a = a, !.publish = TRUE]
    <3>1. req' = [req EXCEPT ![r] = v]
      BY <2>1 DEF PreviewOrPublish
    <3>2. v \in ReqRow
      BY BuilderFields DEF ReqRow
    <3>3. v.at = "sum" /\ v.a = a
      BY DEF NoReq
    <3> QED
      BY <3>1, <3>2, <3>3
  <2>2. CASE PreviewOrPublish(r, u, a, FALSE)
    <3> DEFINE v == [NoReq EXCEPT !.at = "sum", !.a = a, !.publish = FALSE]
    <3>1. req' = [req EXCEPT ![r] = v]
      BY <2>2 DEF PreviewOrPublish
    <3>2. v \in ReqRow
      BY BuilderFields DEF ReqRow
    <3>3. v.at = "sum" /\ v.a = a
      BY DEF NoReq
    <3> QED
      BY <3>1, <3>2, <3>3
  <2> QED
    BY <2>1, <2>2
<1>3. ReqGood(v, assessments[a], attached[a], Count(a), assigned[a], questions)
  BY <1>1, <1>2 DEF ReqGood
<1>4. requests' \in 0..MaxRequests /\ req[r].at = "idle"
  BY <1>1, OneMore DEF Idle
<1> QED
  BY <1>1, <1>2, <1>3, <1>4, HandlerInv

LEMMA ImportSetReadStep ==
  ASSUME AuthoringInv, requests < MaxRequests, NEW r \in Requests, NEW u,
         NEW a \in Assessments, NEW id, NEW s \in Sections \cup {None},
         ImportSetRead(r, u, a, id, s)
  PROVE  AuthoringInv'
<1> DEFINE set == SetQuestions(u, assessments[a].college, assessments[a].subject, id)
           first == FirstFree(a)
           v == [NoReq EXCEPT !.at = "attach", !.a = a, !.set = set, !.section = s,
                              !.first = first]
<1>1. /\ Idle(r) /\ FindAssessment(u, a) /\ req' = [req EXCEPT ![r] = v]
      /\ requests' = requests + 1 /\ assessments[a].status # "NONE"
      /\ questions' = questions /\ jobs' = jobs /\ edit' = edit /\ suspect' = suspect
      /\ assessments' = assessments /\ assigned' = assigned /\ sections' = sections
      /\ attached' = attached /\ drift' = drift /\ approved' = approved
  BY DEF ImportSetRead, bankRows, FindAssessment
<1>2. \A q \in set : /\ q \in Questions /\ Exists(q)
                     /\ questions[q].college = assessments[a].college
  BY <1>1, SetIn, OfferedIn
<1>3. first \in Nat /\ first > 0 /\ \A q \in Rows(a) : attached[a][q].order < first
  BY FirstIs DEF AuthoringInv
<1>4. set \in SUBSET Questions
  BY <1>2
<1> HIDE DEF set, first
<1>5. v \in ReqRow
  BY <1>3, <1>4, BuilderFields, ZenonT(60) DEF ReqRow
<1>6. v.at = "attach" /\ v.a = a /\ v.set = set /\ v.first = first
  BY DEF NoReq
<1> HIDE DEF v
<1>7. ReqGood(v, assessments[a], attached[a], Count(a), assigned[a], questions)
  BY <1>1, <1>2, <1>3, <1>6 DEF ReqGood, Rows, Exists
<1>8. requests' \in 0..MaxRequests /\ req[r].at = "idle"
  BY <1>1, OneMore DEF Idle
<1> QED
  BY <1>1, <1>5, <1>6, <1>7, <1>8, HandlerInv

\* recalculateAssessmentMarks computes the sum.
LEMMA Counts ==
  ASSUME BuilderTypes, NEW a \in Assessments
  PROVE  CountedMarks(a) = Count(a) /\ Count(a) \in Nat
<1>1. attached \in [Assessments -> RowsType] /\ sections \in SectionsType
  BY DEF BuilderTypes, RowsType, SectionsType
<1>2. attached[a] \in RowsType
  BY <1>1
<1> QED
  BY <1>1, <1>2, Counted, CountNat DEF Count

LEMMA SumMarksStep ==
  ASSUME AuthoringInv, NEW r \in Requests, SumMarks(r)
  PROVE  AuthoringInv'
<1>0. PICK w : w = req[r]
  OBVIOUS
<1>1. PICK a : a = w.a
  OBVIOUS
<1>2. /\ w.at = "sum" /\ w \in ReqRow
      /\ questions' = questions /\ jobs' = jobs /\ edit' = edit /\ suspect' = suspect
      /\ assessments' = assessments /\ assigned' = assigned /\ sections' = sections
      /\ attached' = attached /\ drift' = drift /\ approved' = approved
      /\ requests' = requests
      /\ req' = [req EXCEPT ![r] = [w EXCEPT !.at = "store", !.clean = TRUE, !.current = TRUE,
                                             !.sum = CountedMarks(a)]]
  BY <1>0, <1>1 DEF SumMarks, bankRows, AuthoringInv, BuilderTypes
<1>3. a \in Assessments /\ assessments[a].status # "NONE" /\ requests' \in 0..MaxRequests
  BY <1>0, <1>1, <1>2 DEF AuthoringInv, ReqOk, ReqGood
<1> DEFINE n == CountedMarks(a)
           v == [w EXCEPT !.at = "store", !.clean = TRUE, !.current = TRUE, !.sum = n]
<1>4. n = Count(a) /\ n \in Nat
  BY <1>3, Counts DEF AuthoringInv
<1> HIDE DEF n
<1>5. v \in ReqRow
  BY <1>2, <1>4 DEF ReqRow
<1>6. v.at = "store" /\ v.a = a /\ v.sum = n /\ v.clean
  BY <1>1, <1>2 DEF ReqRow
<1>7. req' = [req EXCEPT ![r] = v]
  BY <1>2 DEF n
<1> HIDE DEF v
<1>8. ReqGood(v, assessments[a], attached[a], Count(a), assigned[a], questions)
  BY <1>3, <1>4, <1>6 DEF ReqGood
<1>9. req[r].a = a
  BY <1>0, <1>1
<1> QED
  BY <1>2, <1>3, <1>5, <1>6, <1>7, <1>8, <1>9, HandlerInv, ZenonT(60)

LEMMA CheckBlockersStep ==
  ASSUME AuthoringInv, NEW r \in Requests, CheckBlockers(r)
  PROVE  AuthoringInv'
<1>0. PICK w : w = req[r]
  OBVIOUS
<1>1. PICK a : a = w.a
  OBVIOUS
<1>2. /\ w.at = "blockers" /\ w \in ReqRow
      /\ questions' = questions /\ jobs' = jobs /\ edit' = edit /\ suspect' = suspect
      /\ assessments' = assessments /\ assigned' = assigned /\ sections' = sections
      /\ attached' = attached /\ drift' = drift /\ approved' = approved
      /\ requests' = requests
  BY <1>0, <1>1 DEF CheckBlockers, bankRows, AuthoringInv, BuilderTypes
<1>7. req' = [req EXCEPT ![r] = IF Blocked(a, w.sum) THEN NoReq
                                ELSE [w EXCEPT !.at = "approve"]]
  BY <1>0, <1>1 DEF CheckBlockers
<1>3. /\ a \in Assessments /\ assessments[a].status # "NONE" /\ requests' \in 0..MaxRequests
      /\ (w.current => w.clean) /\ (w.clean => w.sum = Count(a))
  BY <1>0, <1>1, <1>2 DEF AuthoringInv, ReqOk, ReqGood
<1>4. /\ req[r].a = a /\ req[r].at \notin {"sum", "store"}
      /\ drift' \in {drift, drift \cup {a}}
  BY <1>0, <1>1, <1>2
<1>5. CASE Blocked(a, w.sum)
  <2>1. req' = [req EXCEPT ![r] = NoReq]
    BY <1>5, <1>7
  <2> QED
    BY <1>2, <1>3, <1>4, <2>1, HandlerInv, BuilderFields
<1>6. CASE ~Blocked(a, w.sum)
  <2> DEFINE v == [w EXCEPT !.at = "approve"]
             n == Count(a)
  <2>1. req' = [req EXCEPT ![r] = v]
    BY <1>6, <1>7
  <2>2. v \in ReqRow
    BY <1>2 DEF ReqRow
  <2>3. /\ v.at = "approve" /\ v.a = a /\ v.sum = w.sum /\ v.current = w.current
        /\ v.clean = w.clean
    BY <1>1, <1>2 DEF ReqRow
  <2> HIDE DEF v
  <2>4. w.current => Ready(assessments[a], attached[a], n, assigned[a], questions)
    <3> SUFFICES ASSUME w.current
                 PROVE  Ready(assessments[a], attached[a], n, assigned[a], questions)
      OBVIOUS
    <3>1. w.sum = n /\ n \in Nat /\ assessments[a].passing \in Nat
      BY <1>3, Counts, Found DEF AssessmentRow, AuthoringInv
    <3> HIDE DEF n
    <3>2. ~Blocked(a, n)
      BY <1>6, <3>1
    <3>3. n >= 1 /\ n >= assessments[a].passing
      BY <3>1, <3>2 DEF Blocked
    <3>4. /\ \E q \in Questions : attached[a][q].on
          /\ assigned[a] # {}
          /\ \A q \in Questions : attached[a][q].on =>
               questions[q].status = "ACTIVE" /\ (questions[q].coding => questions[q].complete)
      BY <3>2 DEF Blocked, Rows
    <3> QED
      BY <3>3, <3>4 DEF Ready
  <2>5. ReqGood(v, assessments[a], attached[a], n, assigned[a], questions)
    BY <1>3, <2>3, <2>4 DEF ReqGood
  <2> QED
    BY <1>2, <1>3, <1>4, <2>1, <2>2, <2>3, <2>5, HandlerInv
<1> QED
  BY <1>5, <1>6

LEMMA RequestLostStep ==
  ASSUME AuthoringInv, NEW r \in Requests, RequestLost(r)
  PROVE  AuthoringInv'
<1>0. PICK a : a = req[r].a
  OBVIOUS
<1>1. /\ req[r].at # "idle" /\ req' = [req EXCEPT ![r] = NoReq]
      /\ questions' = questions /\ jobs' = jobs /\ edit' = edit /\ suspect' = suspect
      /\ assessments' = assessments /\ assigned' = assigned /\ sections' = sections
      /\ attached' = attached /\ approved' = approved /\ requests' = requests
      /\ drift' = IF req[r].at \in {"sum", "store"} THEN drift \cup {a} ELSE drift
  BY <1>0 DEF RequestLost, bankRows
<1>2. a \in Assessments /\ assessments[a].status # "NONE" /\ requests' \in 0..MaxRequests
  BY <1>0, <1>1 DEF AuthoringInv, ReqOk, ReqGood
<1>3. drift' \in {drift, drift \cup {a}} /\ (req[r].at \in {"sum", "store"} => a \in drift')
  BY <1>1
<1> QED
  BY <1>0, <1>1, <1>2, <1>3, BuilderFields, HandlerInv

\* What a handler knows does not depend on the total.
LEMMA TotalFree ==
  ASSUME NEW w, NEW x, NEW y, NEW rows, NEW n, NEW t, NEW qs, ReqGood(w, x, rows, n, t, qs),
         y.status = x.status, y.college = x.college, y.passing = x.passing
  PROVE  ReqGood(w, y, rows, n, t, qs)
  BY DEF ReqGood, Ready

LEMMA StoreTotalStep ==
  ASSUME AuthoringInv, NEW r \in Requests, StoreTotal(r)
  PROVE  AuthoringInv'
<1>0. PICK w : w = req[r]
  OBVIOUS
<1>1. PICK a : a = w.a
  OBVIOUS
<1>2. /\ w.at = "store" /\ w \in ReqRow /\ BuilderTypes
      /\ questions' = questions /\ jobs' = jobs /\ edit' = edit /\ suspect' = suspect
      /\ assigned' = assigned /\ sections' = sections /\ attached' = attached
      /\ approved' = approved /\ requests' = requests
      /\ drift' = IF w.clean THEN drift \ {a} ELSE drift \cup {a}
  BY <1>0, <1>1 DEF StoreTotal, bankRows, AuthoringInv, BuilderTypes
<1>3. assessments' = [assessments EXCEPT ![a].total = w.sum]
  BY <1>0, <1>1 DEF StoreTotal
<1>4. req' = [req EXCEPT ![r] = IF w.publish THEN [w EXCEPT !.at = "blockers"] ELSE NoReq]
  BY <1>0, <1>1 DEF StoreTotal
<1>5. /\ a \in Assessments /\ assessments[a].status # "NONE" /\ requests' \in 0..MaxRequests
      /\ (w.current => w.clean) /\ (w.clean => w.sum = Count(a))
      /\ ReqGood(w, assessments[a], attached[a], Count(a), assigned[a], questions)
  BY <1>0, <1>1, <1>2 DEF AuthoringInv, ReqOk, ReqGood
<1>6. PICK x \in AssessmentRow :
        /\ assessments' = [assessments EXCEPT ![a] = x]
        /\ x.status = assessments[a].status /\ x.college = assessments[a].college
        /\ x.passing = assessments[a].passing /\ x.total = w.sum
  <2> DEFINE x == [assessments[a] EXCEPT !.total = w.sum]
  <2>1. assessments' = [assessments EXCEPT ![a] = x]
    BY <1>2, <1>3, <1>5 DEF BuilderTypes
  <2>2. assessments[a] \in AssessmentRow /\ w.sum \in Nat
    BY <1>2, <1>5 DEF BuilderTypes, ReqRow
  <2>3. x \in AssessmentRow
    BY <2>2 DEF AssessmentRow
  <2>4. /\ x.status = assessments[a].status /\ x.college = assessments[a].college
        /\ x.passing = assessments[a].passing /\ x.total = w.sum
    BY <2>2 DEF AssessmentRow
  <2> QED
    BY <2>1, <2>3, <2>4
<1>7. PICK v \in ReqRow :
        /\ req' = [req EXCEPT ![r] = v]
        /\ \/ v.at = "idle" /\ v.a = None
           \/ v.a = a /\ ReqGood(v, assessments[a], attached[a], Count(a), assigned[a], questions)
  <2>1. CASE w.publish
    <3> DEFINE v == [w EXCEPT !.at = "blockers"]
    <3>1. req' = [req EXCEPT ![r] = v]
      BY <1>4, <2>1
    <3>2. v \in ReqRow
      BY <1>2 DEF ReqRow
    <3>3. v.at = "blockers" /\ v.a = a /\ v.sum = w.sum /\ v.current = w.current
          /\ v.clean = w.clean
      BY <1>1, <1>2 DEF ReqRow
    <3> HIDE DEF v
    <3>4. ReqGood(v, assessments[a], attached[a], Count(a), assigned[a], questions)
      BY <1>5, <3>3 DEF ReqGood
    <3> QED
      BY <3>1, <3>2, <3>3, <3>4
  <2>2. CASE ~w.publish
    BY <1>4, <2>2, BuilderFields
  <2> QED
    BY <2>1, <2>2
<1>8. /\ req' \in [Requests -> ReqRow] /\ req'[r] = v
      /\ \A y \in Requests \ {r} : req'[y] = req[y]
  BY <1>2, <1>7 DEF BuilderTypes
<1>9. /\ assessments' \in [Assessments -> AssessmentRow] /\ assessments'[a] = x
      /\ \A b \in Assessments \ {a} : assessments'[b] = assessments[b]
  BY <1>2, <1>5, <1>6 DEF BuilderTypes
<1>10. BuilderTypes'
  BY <1>2, <1>5, <1>8, <1>9 DEF BuilderTypes
<1>11. \A b \in Assessments \ {a} : Steady(b)
  BY <1>2, <1>9 DEF Steady
<1>12. assessments[a].college # None /\ None \notin Assessments
  BY <1>5, AuthoringAssumption DEF AuthoringInv, AssessmentsWhole
<1>13. ASSUME NEW y \in Requests
       PROVE  \/ req'[y] = req[y] /\ req[y].a # a
              \/ (Idle(y) \/ req[y].a = a) /\ (req'[y].a = a \/ req'[y].at = "idle")
  BY <1>0, <1>1, <1>7, <1>8
<1>14. About(a)
  BY <1>2, <1>5, <1>6, <1>9, <1>10, <1>11, <1>12, <1>13 DEF About
<1>15. Count(a)' = Count(a)
  BY <1>2 DEF Count
<1>16. RowsOk(a)'
  <2>1. RowsIn(attached[a], assessments[a], sections, questions, a)
    BY <1>5 DEF AuthoringInv, RowsOk
  <2>2. RowsIn(attached[a], x, sections, questions, a)
    BY <1>6, <2>1 DEF RowsIn
  <2> QED
    BY <1>2, <1>9, <2>2 DEF RowsOk
<1>17. TotalOk(a)'
  BY <1>2, <1>5, <1>6, <1>9, <1>15 DEF TotalOk
<1>18. ApprovedOk(a)'
  <2>1. a \in approved => /\ assessments[a].status = "PUBLISHED"
                          /\ Ready(assessments[a], attached[a], Count(a), assigned[a], questions)
    BY <1>5 DEF AuthoringInv, ApprovedOk
  <2> DEFINE n == Count(a)
  <2>2. a \in approved => /\ x.status = "PUBLISHED"
                          /\ Ready(x, attached[a], n, assigned[a], questions)
    BY <1>6, <2>1 DEF Ready
  <2> QED
    BY <1>2, <1>9, <1>15, <2>2 DEF ApprovedOk
<1>19. ASSUME NEW y \in Requests, req'[y].a = a PROVE ReqOk(y)'
  <2>1. Count(a)' = CountOf(attached'[a], sections', a)
    BY DEF Count
  <2>2. ReqGood(req'[y], assessments[a], attached[a], Count(a), assigned[a], questions)
    <3>1. CASE y = r
      BY <1>5, <1>7, <1>8, <1>12, <1>19, <3>1
    <3>2. CASE y # r
      BY <1>5, <1>8, <1>19, <3>2 DEF AuthoringInv, ReqOk
    <3> QED
      BY <3>1, <3>2
  <2> DEFINE n == Count(a)
             u == req'[y]
             z == assessments[a]
  <2>3. ReqGood(u, z, attached[a], n, assigned[a], questions)
        /\ x.status = z.status /\ x.college = z.college /\ x.passing = z.passing
    BY <1>6, <2>2
  <2> HIDE DEF n, u, z
  <2>4. ReqGood(u, x, attached[a], n, assigned[a], questions)
    BY <2>3, TotalFree
  <2>5. ReqGood(req'[y], assessments'[a], attached[a], Count(a), assigned[a], questions)
    BY <1>9, <2>4 DEF n, u
  <2> QED
    BY <1>2, <1>15, <1>19, <2>1, <2>5 DEF ReqOk, Count
<1> QED
  BY <1>5, <1>14, <1>16, <1>17, <1>18, <1>19, AboutInv

LEMMA DuplicateAssessmentStep ==
  ASSUME AuthoringInv, requests < MaxRequests, NEW u \in Users, NEW a \in Assessments,
         NEW copy \in Assessments, NEW s \in Sections, DuplicateAssessment(u, a, copy, s)
  PROVE  AuthoringInv'
<1> DEFINE x == [assessments[a] EXCEPT !.status = "DRAFT", !.deleted = FALSE, !.owner = u]
           z == [a |-> copy, marks |-> 0]
<1>1. /\ questions' = questions /\ jobs' = jobs /\ edit' = edit /\ suspect' = suspect
      /\ assigned' = assigned /\ attached' = attached /\ req' = req /\ approved' = approved
      /\ drift' = drift \cup {copy} /\ requests' = requests + 1
      /\ assessments[a].status # "NONE" /\ assessments[copy].status = "NONE"
      /\ sections[s].a = None /\ assessments' = [assessments EXCEPT ![copy] = x]
  BY DEF DuplicateAssessment, bankRows, FindAssessment
<1>2. sections' = sections \/ sections' = [sections EXCEPT ![s] = z]
  BY DEF DuplicateAssessment
<1>3. /\ requests' \in 0..MaxRequests /\ BuilderTypes /\ None \notin Assessments
      /\ assessments[a].college # None /\ assessments[a] \in AssessmentRow
  BY <1>1, OneMore, AuthoringAssumption
  DEF AuthoringInv, AssessmentsWhole, BuilderTypes
<1>4. x \in AssessmentRow
  BY <1>3 DEF AssessmentRow, AssessmentStatus
<1>5. x.status = "DRAFT" /\ x.college = assessments[a].college
  BY <1>3 DEF AssessmentRow
<1>6. z \in SectionRow /\ z.a = copy
  BY DEF SectionRow
<1> HIDE DEF x, z
<1>7. /\ assessments' \in [Assessments -> AssessmentRow] /\ assessments'[copy] = x
      /\ \A b \in Assessments \ {copy} : assessments'[b] = assessments[b]
  BY <1>1, <1>3, <1>4 DEF BuilderTypes
<1>8. /\ sections' \in [Sections -> SectionRow]
      /\ \A y \in Sections : \/ sections'[y] = sections[y]
                             \/ sections[y].a = None /\ sections'[y].a = copy
  BY <1>1, <1>2, <1>3, <1>6 DEF BuilderTypes
<1>9. BuilderTypes'
  BY <1>1, <1>3, <1>7, <1>8 DEF BuilderTypes
<1>10. \A b \in Assessments \ {copy} : Steady(b)
  BY <1>1, <1>3, <1>7, <1>8 DEF Steady
<1>11. ASSUME NEW r \in Requests, req[r].a = copy PROVE req[r].at = "idle"
  BY <1>1, <1>11 DEF AuthoringInv, ReqOk, ReqGood
<1>12. ASSUME NEW r \in Requests
       PROVE  \/ req'[r] = req[r] /\ req[r].a # copy
              \/ (Idle(r) \/ req[r].a = copy) /\ (req'[r].a = copy \/ req'[r].at = "idle")
  BY <1>1, <1>11
<1>13. About(copy)
  BY <1>1, <1>3, <1>5, <1>7, <1>9, <1>10, <1>12 DEF About
<1>14. RowsOk(copy)'
  <2>1. RowsIn(attached[copy], assessments[copy], sections, questions, copy)
    BY DEF AuthoringInv, RowsOk
  <2>2. \A q \in Questions : ~attached'[copy][q].on
    BY <1>1, <2>1 DEF RowsIn
  <2> QED
    BY <2>2 DEF RowsOk, RowsIn
<1>15. TotalOk(copy)'
  BY <1>1 DEF TotalOk
<1>16. ApprovedOk(copy)'
  BY <1>1 DEF AuthoringInv, ApprovedOk
<1>17. ASSUME NEW r \in Requests, req'[r].a = copy PROVE ReqOk(r)'
  BY <1>1, <1>11, <1>17 DEF ReqOk, ReqGood
<1> QED
  BY <1>13, <1>14, <1>15, <1>16, <1>17, AboutInv

-----------------------------------------------------------------------------
(* The steps of the bank, seen from the builder. *)

LEMMA BankCount ==
  ASSUME AuthoringInv, BankNext
  PROVE  requests' \in 0..MaxRequests
<1>1. requests \in 0..MaxRequests /\ MaxRequests \in Nat
  BY BankAssumption, SMTT(20) DEF AuthoringInv
<1>2. requests < MaxRequests /\ BankRequest => requests' = requests + 1
  BY ZenonT(120) DEF BankRequest, CreateQuestion, DuplicateQuestion, DeleteQuestion, UpdateQuestionRead,
     UpdateStatusRead, ImportStart
<1>3. BankContinue => requests' = requests
  BY DEF BankContinue, ImportRow, UpdateQuestionWrite, UpdateStatusWrite, ImportRowFails,
     ImportTag, ImportTagFails, ImportFinish, EditLost
<1> QED
  BY <1>1, <1>2, <1>3 DEF BankNext

Changed(a) == \E q \in Rows(a) : questions'[q] # questions[q]

\* A handler whose assessment's questions stay as they are, or that holds an outdated
\* copy of them.
LEMMA BankGood ==
  ASSUME NEW w, NEW v, NEW x, NEW rows, NEW n, NEW t, NEW qs, NEW ps,
         ReqGood(w, x, rows, n, t, qs), v \in {w, [w EXCEPT !.current = FALSE]}, w \in ReqRow,
         v.current => \A q \in Questions : rows[q].on => ps[q] = qs[q],
         \A q \in Questions : qs[q].status # "NONE" =>
            ps[q].status # "NONE" /\ ps[q].college = qs[q].college
  PROVE  ReqGood(v, x, rows, n, t, ps)
<1>1. /\ v.at = w.at /\ v.a = w.a /\ v.status = w.status /\ v.asked = w.asked
      /\ v.set = w.set /\ v.first = w.first /\ v.clean = w.clean /\ v.sum = w.sum
      /\ (v.current => w.current)
  BY DEF ReqRow
<1>2. w.set \subseteq Questions
  BY DEF ReqRow
<1>3. v.current /\ Ready(x, rows, n, t, qs) => Ready(x, rows, n, t, ps)
  BY DEF Ready
<1>4. CASE w.at = "attach"
  BY <1>1, <1>2, <1>4 DEF ReqGood
<1>5. CASE w.at = "approve"
  BY <1>1, <1>3, <1>5 DEF ReqGood
<1>6. CASE w.at \notin {"attach", "approve"}
  BY <1>1, <1>6 DEF ReqGood
<1> QED
  BY <1>4, <1>5, <1>6

LEMMA BankStepInv ==
  ASSUME AuthoringInv, BankStep PROVE AuthoringInv'
<1>1. /\ BankNext /\ approved' = {a \in approved : ~Changed(a)}
      /\ req' = [r \in Requests |-> IF req[r].a # None /\ Changed(req[r].a)
                                    THEN [req[r] EXCEPT !.current = FALSE] ELSE req[r]]
      /\ assessments' = assessments /\ sections' = sections /\ attached' = attached
      /\ assigned' = assigned /\ drift' = drift
  BY DEF BankStep, Changed
<1>2. BankInv /\ BuilderTypes /\ requests' \in 0..MaxRequests /\ None \notin Assessments
  BY <1>1, BankCount, AuthoringAssumption DEF AuthoringInv
<1>3. BankInv' /\ \A q \in Questions : Kept(q)
  BY <1>1, <1>2, BankNextInv, BankKeeps
<1>4. \A q \in Questions : questions[q].status # "NONE" =>
         questions'[q].status # "NONE" /\ questions'[q].college = questions[q].college
  BY <1>3 DEF Kept
<1>5. ASSUME NEW r \in Requests
      PROVE  /\ req'[r] \in {req[r], [req[r] EXCEPT !.current = FALSE]}
             /\ req[r].a # None /\ Changed(req[r].a) => req'[r] = [req[r] EXCEPT !.current = FALSE]
             /\ req[r] \in ReqRow /\ req'[r] \in ReqRow
             /\ req'[r].at = req[r].at /\ req'[r].a = req[r].a
  <2>1. req[r] \in ReqRow
    BY <1>2 DEF BuilderTypes
  <2>2. /\ req'[r] \in {req[r], [req[r] EXCEPT !.current = FALSE]}
        /\ req[r].a # None /\ Changed(req[r].a) => req'[r] = [req[r] EXCEPT !.current = FALSE]
    BY <1>1
  <2> DEFINE w == req[r]
             v == [w EXCEPT !.current = FALSE]
  <2>3. v \in ReqRow /\ v.at = w.at /\ v.a = w.a
    <3> HIDE DEF w
    <3>1. w \in ReqRow
      BY <2>1 DEF w
    <3> QED
      BY <3>1 DEF ReqRow
  <2> HIDE DEF v
  <2>4. req'[r] \in {w, v}
    BY <2>2 DEF v
  <2>5. req'[r] \in ReqRow /\ req'[r].at = w.at /\ req'[r].a = w.a
    BY <2>1, <2>3, <2>4
  <2> QED
    BY <2>1, <2>2, <2>5
<1>6. BuilderTypes'
  <2>1. req' \in [Requests -> ReqRow]
    BY <1>1, <1>5
  <2>2. approved' \subseteq Assessments
    BY <1>1, <1>2 DEF BuilderTypes
  <2> QED
    BY <1>1, <1>2, <2>1, <2>2 DEF BuilderTypes
<1>7. AssessmentsWhole' /\ SectionsOk'
  BY <1>1 DEF AuthoringInv, AssessmentsWhole, SectionsOk
<1>8. ASSUME NEW a \in Assessments PROVE RowsOk(a)'
  <2>1. RowsIn(attached[a], assessments[a], sections, questions, a)
    BY DEF AuthoringInv, RowsOk
  <2>2. RowsIn(attached[a], assessments[a], sections, questions', a)
    BY <1>4, <2>1 DEF RowsIn
  <2> QED
    BY <1>1, <2>2 DEF RowsOk
<1>9. ASSUME NEW a \in Assessments PROVE Count(a)' = Count(a)
  BY <1>1 DEF Count
<1>10. ASSUME NEW a \in Assessments PROVE TotalOk(a)'
  <2>1. Totalling(a) => Totalling(a)'
    BY <1>5 DEF Totalling
  <2> QED
    BY <1>1, <1>9, <2>1 DEF AuthoringInv, TotalOk
<1>11. ASSUME NEW a \in Assessments PROVE ApprovedOk(a)'
  <2> SUFFICES ASSUME a \in approved'
               PROVE  /\ assessments[a].status = "PUBLISHED"
                      /\ Ready(assessments[a], attached[a], Count(a), assigned[a], questions')
    BY <1>1, <1>9 DEF ApprovedOk
  <2>1. a \in approved /\ \A q \in Questions : attached[a][q].on => questions'[q] = questions[q]
    BY <1>1 DEF Changed, Rows
  <2>2. /\ assessments[a].status = "PUBLISHED"
        /\ Ready(assessments[a], attached[a], Count(a), assigned[a], questions)
    BY <2>1 DEF AuthoringInv, ApprovedOk
  <2> DEFINE n == Count(a)
  <2> HIDE DEF n
  <2>3. Ready(assessments[a], attached[a], n, assigned[a], questions)
        => Ready(assessments[a], attached[a], n, assigned[a], questions')
    BY <2>1 DEF Ready
  <2> QED
    BY <2>2, <2>3 DEF n
<1>12. ASSUME NEW r \in Requests PROVE ReqOk(r)'
  <2>1. CASE req[r].at = "idle"
    BY <1>5, <2>1 DEF ReqOk, ReqGood
  <2>2. CASE req[r].at # "idle"
    <3>1. PICK a \in Assessments : a = req[r].a
      BY <2>2 DEF AuthoringInv, ReqOk, ReqGood
    <3>2. ReqGood(req[r], assessments[a], attached[a], Count(a), assigned[a], questions)
      BY <3>1 DEF AuthoringInv, ReqOk
    <3>3. req'[r].current => \A q \in Questions : attached[a][q].on => questions'[q] = questions[q]
      <4>1. CASE Changed(a)
        <5>1. req'[r] = [req[r] EXCEPT !.current = FALSE] /\ req[r] \in ReqRow
          BY <1>2, <1>5, <3>1, <4>1
        <5>2. ~req'[r].current
          BY <5>1 DEF ReqRow
        <5> QED
          BY <5>2
      <4>2. CASE ~Changed(a)
        BY <4>2 DEF Changed, Rows
      <4> QED
        BY <4>1, <4>2
    <3> DEFINE w == req[r]
               v == req'[r]
               x == assessments[a]
               rows == attached[a]
               n == Count(a)
               t == assigned[a]
               qs == questions
               ps == questions'
    <3>4. /\ ReqGood(w, x, rows, n, t, qs) /\ v \in {w, [w EXCEPT !.current = FALSE]}
          /\ w \in ReqRow
          /\ (v.current => \A q \in Questions : rows[q].on => ps[q] = qs[q])
          /\ \A q \in Questions : qs[q].status # "NONE" =>
                ps[q].status # "NONE" /\ ps[q].college = qs[q].college
      BY <1>4, <1>5, <3>2, <3>3
    <3> HIDE DEF w, v, x, rows, n, t, qs, ps
    <3>5. ReqGood(v, x, rows, n, t, ps)
      BY <3>4, BankGood
    <3>6. ReqGood(req'[r], assessments'[a], attached'[a], Count(a)', assigned'[a], questions')
      BY <1>1, <1>9, <3>5 DEF v, x, rows, n, t, ps
    <3>7. req'[r].a = a
      BY <1>5, <3>1
    <3> QED
      BY <3>6, <3>7 DEF ReqOk, Count
  <2> QED
    BY <2>1, <2>2
<1> QED
  BY <1>2, <1>3, <1>6, <1>7, <1>8, <1>10, <1>11, <1>12 DEF AuthoringInv

-----------------------------------------------------------------------------
(* The invariant holds initially and every step preserves it. *)

LEMMA AuthoringInitInv ==
  ASSUME Init PROVE AuthoringInv
<1>1. /\ questions = [q \in Questions |-> NoQuestion] /\ jobs = [j \in Jobs |-> NoJob]
      /\ edit = [e \in Editors |-> NoEdit] /\ suspect = {} /\ requests = 0
      /\ assessments = [a \in Assessments |-> NoAssessment]
      /\ sections = [s \in Sections |-> [a |-> None, marks |-> 0]]
      /\ attached = [a \in Assessments |-> [q \in Questions |-> NoRow]]
      /\ assigned = [a \in Assessments |-> {}]
      /\ req = [r \in Requests |-> NoReq] /\ drift = {} /\ approved = {}
  BY DEF Init, BankInit, AuthoringInit
<1>2. BankInv
  <2>1. BankTypes
    BY <1>1, BankFields DEF BankTypes
  <2>2. QuestionsWhole /\ ActiveIsComplete
    BY <1>1, BankFields DEF QuestionsWhole, QuestionWhole, ActiveIsComplete
  <2>3. \A j \in Jobs : TaggedIn(questions, j) = {} /\ jobs[j] = NoJob
    BY <1>1, BankFields, BankAssumption DEF TaggedIn
  <2>4. JobsWhole /\ ImportAccounts
    BY <2>3, BankFields DEF JobsWhole, ImportAccounts
  <2>5. \A e \in Editors : edit[e].op = "idle"
    BY <1>1, BankFields
  <2>6. EditsGood /\ ImportsApart
    BY <2>5 DEF EditsGood, EditGood, ImportsApart
  <2> QED
    BY <2>1, <2>2, <2>4, <2>6 DEF BankInv
<1>3. BuilderTypes /\ requests \in 0..MaxRequests
  <2>1. requests \in 0..MaxRequests
    BY <1>1, BankAssumption
  <2> DEFINE z == [a |-> None, marks |-> 0]
  <2>2. z \in SectionRow
    BY DEF SectionRow
  <2> HIDE DEF z
  <2>3. sections = [s \in Sections |-> z]
    BY <1>1 DEF z
  <2> QED
    BY <1>1, <2>1, <2>2, <2>3, BuilderFields DEF BuilderTypes
<1>4. AssessmentsWhole
  BY <1>1, BuilderFields DEF AssessmentsWhole
<1>5. \A s \in Sections : sections[s].a = None
  BY <1>1
<1>6. SectionsOk
  BY <1>5 DEF SectionsOk
<1>7. ASSUME NEW a \in Assessments PROVE RowsOk(a) /\ TotalOk(a) /\ ApprovedOk(a)
  <2>1. \A q \in Questions : ~attached[a][q].on
    BY <1>1, BuilderFields
  <2>2. RowsOk(a)
    BY <2>1 DEF RowsOk, RowsIn
  <2>3. Count(a) = 0
    <3>1. \A s : Placed(attached[a], s) = {}
      BY <2>1 DEF Placed
    <3>2. InSection(attached[a], None) = 0
      BY <3>1, SumEmpty DEF InSection
    <3>3. Own(sections, a) = {}
      BY <1>5, AuthoringAssumption DEF Own
    <3>4. Sum(SectionWorth(attached[a], sections), Own(sections, a)) = 0
      BY <3>3, SumEmpty
    <3> QED
      BY <3>2, <3>4 DEF Count, CountOf
  <2>4. TotalOk(a)
    BY <1>1, <2>3, BuilderFields DEF TotalOk
  <2> QED
    BY <1>1, <2>2, <2>4 DEF ApprovedOk
<1>8. \A r \in Requests : ReqOk(r)
  BY <1>1, BuilderFields DEF ReqOk, ReqGood
<1> QED
  BY <1>2, <1>3, <1>4, <1>6, <1>7, <1>8 DEF AuthoringInv

LEMMA AuthoringRequestInv ==
  ASSUME AuthoringInv, requests < MaxRequests, AuthoringRequest
  PROVE  AuthoringInv'
<1>1. \A route, u : u \in Authors(route) => u \in Users
  BY DEF Authors, Callers
<1>2. CASE \E u \in Authors("createAssessment"), a \in Assessments, c \in Colleges,
              s \in Subjects \cup {None}, p \in PassingMarks : CreateAssessment(u, a, c, s, p)
  BY <1>1, <1>2, CreateAssessmentStep
<1>3. CASE \E u \in Authors("duplicateAssessment"), a \in Assessments, copy \in Assessments,
              s \in Sections : DuplicateAssessment(u, a, copy, s)
  BY <1>1, <1>3, DuplicateAssessmentStep
<1>4. CASE \E r \in Requests, u \in Authors("updateAssessment"), a \in Assessments,
              status \in {"NONE", "DRAFT", "PUBLISHED"}, s \in Subjects \cup {None},
              p \in PassingMarks : UpdateAssessmentRead(r, u, a, status, s, p)
  BY <1>4, UpdateReadStep
<1>5. CASE \E a \in Assessments :
              \/ \E u \in Authors("deleteAssessment") : DeleteAssessment(u, a)
              \/ \E u \in Authors("cancelAssessment") : CancelAssessment(u, a)
              \/ \E u \in Authors("scheduleAssessment") : ScheduleAssessment(u, a)
  BY <1>5, StatusStep
<1>6. CASE \E a \in Assessments, t \in Targets :
              \/ \E u \in Authors("addAssignment") : AddAssignment(u, a, t)
              \/ \E u \in Authors("deleteAssignment") : DeleteAssignment(u, a, t)
  BY <1>6, AssignmentStep
<1>7. CASE \E r \in Requests, a \in Assessments, s \in Sections :
              \/ \E u \in Authors("addSection"), m \in SectionMarks : AddSection(r, u, a, s, m)
              \/ \E u \in Authors("updateSection"), m \in SectionMarks :
                    UpdateSection(r, u, a, s, m)
              \/ \E u \in Authors("deleteSection") : DeleteSection(r, u, a, s)
  BY <1>7, SectionStep, DeleteSectionStep
<1>8. CASE \E r \in Requests, a \in Assessments, q \in Questions :
              \/ \E u \in Authors("addAssessmentQuestion"), s \in Sections \cup {None},
                    o \in Orders, m \in QuestionMarks :
                      AddAssessmentQuestion(r, u, a, q, s, o, m)
              \/ \E u \in Authors("deleteAssessmentQuestion") :
                    DeleteAssessmentQuestion(r, u, a, q)
  BY <1>8, QuestionStep
<1>9. CASE \E r \in Requests, u \in Authors("addImportSet"), a \in Assessments, id \in SetIds,
              s \in Sections \cup {None} : ImportSetRead(r, u, a, id, s)
  BY <1>9, ImportSetReadStep
<1>10. CASE \E r \in Requests, a \in Assessments :
              \/ \E u \in Authors("previewAssessment") : PreviewOrPublish(r, u, a, FALSE)
              \/ \E u \in Authors("publishAssessment") : PreviewOrPublish(r, u, a, TRUE)
  BY <1>10, PreviewStep
<1> QED
  BY <1>2, <1>3, <1>4, <1>5, <1>6, <1>7, <1>8, <1>9, <1>10 DEF AuthoringRequest

LEMMA AuthoringSame ==
  ASSUME AuthoringInv, UNCHANGED vars PROVE AuthoringInv'
<1>1. /\ questions' = questions /\ jobs' = jobs /\ edit' = edit /\ suspect' = suspect
      /\ requests' = requests /\ assessments' = assessments /\ sections' = sections
      /\ attached' = attached /\ assigned' = assigned /\ req' = req /\ drift' = drift
      /\ approved' = approved
  BY DEF vars, bankVars, bankRows, authoringVars
<1>2. BankInv'
  BY <1>1 DEF AuthoringInv, BankInv, BankTypes, QuestionsWhole, JobsWhole, EditsGood,
     ImportsApart, ImportAccounts, ActiveIsComplete
<1>3. BuilderTypes' /\ AssessmentsWhole' /\ SectionsOk' /\ requests' \in 0..MaxRequests
  BY <1>1 DEF AuthoringInv, BuilderTypes, AssessmentsWhole, SectionsOk
<1>4. \A a \in Assessments : RowsOk(a)' /\ TotalOk(a)' /\ ApprovedOk(a)'
  BY <1>1 DEF AuthoringInv, RowsOk, TotalOk, Totalling, ApprovedOk, Count
<1>5. \A r \in Requests : ReqOk(r)'
  BY <1>1 DEF AuthoringInv, ReqOk, Count
<1> QED
  BY <1>2, <1>3, <1>4, <1>5 DEF AuthoringInv

LEMMA AuthoringNextInv ==
  ASSUME AuthoringInv, [Next]_vars PROVE AuthoringInv'
<1>1. CASE AuthoringContinue
  BY <1>1, SaveStep, ImportSetAttachStep, SumMarksStep, StoreTotalStep, CheckBlockersStep,
     RequestLostStep DEF AuthoringContinue
<1> QED
  BY <1>1, BankStepInv, AuthoringRequestInv, AuthoringSame DEF Next

LEMMA AuthoringInvariant == Spec => []AuthoringInv
<1>1. Init => AuthoringInv
  BY AuthoringInitInv
<1>2. AuthoringInv /\ [Next]_vars => AuthoringInv'
  BY AuthoringNextInv
<1> QED
  BY <1>1, <1>2, PTL DEF Spec

-----------------------------------------------------------------------------
(* What the invariant says of the bank and the builder. *)

LEMMA Typed == AuthoringInv => TypeOK
<1> SUFFICES ASSUME AuthoringInv PROVE TypeOK
  OBVIOUS
<1>1. BankTypeOK
  BY DEF AuthoringInv, BankInv, BankTypes, BankTypeOK
<1>2. BuilderTypes /\ \A a \in Assessments :
         assessments[a].status # "NONE" => assessments[a].college # None
  BY DEF AuthoringInv, AssessmentsWhole
<1> QED
  BY <1>1, <1>2 DEF TypeOK, BuilderTypes

LEMMA InTenant == AuthoringInv => RowsInTenant
<1> SUFFICES ASSUME AuthoringInv, NEW a \in Assessments, NEW q \in Rows(a)
             PROVE  /\ questions[q].college = assessments[a].college
                    /\ SubjectCollege[questions[q].subject] = assessments[a].college
                    /\ attached[a][q].section # None =>
                         sections[attached[a][q].section].a = a
  BY DEF RowsInTenant
<1>1. q \in Questions /\ attached[a][q].on
  BY DEF Rows
<1>2. /\ questions[q].status # "NONE" /\ questions[q].college = assessments[a].college
      /\ attached[a][q].section # None => sections[attached[a][q].section].a = a
  BY <1>1 DEF AuthoringInv, RowsOk, RowsIn
<1>3. SubjectCollege[questions[q].subject] = questions[q].college
  BY <1>1, <1>2 DEF AuthoringInv, BankInv, QuestionsWhole, QuestionWhole
<1> QED
  BY <1>2, <1>3

LEMMA SetChosen ==
  ASSUME NEW u, NEW c, NEW s
  PROVE  /\ SetQuestions(u, c, s, "legacy") = LegacySet(u, c, s)
         /\ SetQuestions(u, c, s, "derived") = DerivedSet(u, c, s)
         /\ \A j \in Jobs : SetQuestions(u, c, s, j) = JobSet(u, c, s, j)
<1>1. SetQuestions(u, c, s, "legacy") = LegacySet(u, c, s)
  BY DEF SetQuestions
<1>2. SetQuestions(u, c, s, "derived") = DerivedSet(u, c, s)
  BY DEF SetQuestions
<1>3. ASSUME NEW j \in Jobs PROVE SetQuestions(u, c, s, j) = JobSet(u, c, s, j)
  <2>1. j # "legacy" /\ j # "derived"
    BY BankAssumption
  <2> QED
    BY <2>1 DEF SetQuestions
<1> QED
  BY <1>1, <1>2, <1>3

LEMMA Attachable == AuthoringInv => OffersAttach
<1> SUFFICES ASSUME AuthoringInv, NEW u \in Users, NEW a \in Assessments, FindAssessment(u, a)
             PROVE  LET c == assessments[a].college  s == assessments[a].subject IN
                    /\ s # None => \A id \in ListedSets(u, c, s) : SetQuestions(u, c, s, id) # {}
                    /\ \A q \in Offered(u, c, s) : /\ FindQuestion(u, q) /\ q \in Listed(u, c)
                                                   /\ questions[q].college = c
  BY DEF OffersAttach
<1> DEFINE c == assessments[a].college
           s == assessments[a].subject
<1>1. ASSUME NEW id \in ListedSets(u, c, s) PROVE SetQuestions(u, c, s, id) # {}
  <2> HIDE DEF c, s
  <2>1. CASE id \in Jobs /\ JobSet(u, c, s, id) # {}
    BY <2>1, SetChosen
  <2>2. CASE id = "legacy" /\ LegacySet(u, c, s) # {}
    BY <2>2, SetChosen
  <2>3. CASE id = "derived" /\ DerivedGroups(u, c, s) # {}
    <3>1. DerivedGroups(u, c, s) \subseteq DerivedSet(u, c, s)
      BY DEF DerivedGroups, DerivedSet, LegacySet
    <3> QED
      BY <2>3, <3>1, SetChosen
  <2>4. \/ id \in {j \in Jobs : /\ jobs[j].state # "NONE" /\ jobs[j].college = c
                                /\ jobs[j].subject = s /\ JobSet(u, c, s, j) # {}}
        \/ id \in {"legacy" : q \in LegacySet(u, c, s)}
        \/ id \in {"derived" : q \in DerivedGroups(u, c, s)}
    BY <1>1 DEF ListedSets
  <2> QED
    BY <2>1, <2>2, <2>3, <2>4
<1>2. ASSUME NEW q \in Offered(u, c, s)
      PROVE  FindQuestion(u, q) /\ q \in Listed(u, c) /\ questions[q].college = c
  <2>1. q \in Questions /\ Exists(q) /\ questions[q].college = c /\ Staff(u)
    BY OfferedIn
  <2>2. InQuestionScope(u, c, q) /\ ~questions[q].deleted
    BY DEF Offered
  <2>3. FindQuestion(u, q)
    <3> HIDE DEF c, s
    <3>1. CASE RoleOf[u] = "SUPER_ADMIN"
      BY <2>1, <3>1 DEF FindQuestion, InQuestionScope
    <3>2. CASE RoleOf[u] # "SUPER_ADMIN"
      BY <2>1, <2>2, <3>2 DEF FindQuestion, InQuestionScope
    <3> QED
      BY <3>1, <3>2
  <2>4. q \in Listed(u, c)
    BY <2>1, <2>2 DEF Listed
  <2> QED
    BY <2>1, <2>3, <2>4
<1> QED
  BY <1>1, <1>2

LEMMA Published == AuthoringInv => PublishedIsReady
<1> SUFFICES ASSUME AuthoringInv, NEW a \in approved
             PROVE  /\ assessments[a].status = "PUBLISHED"
                    /\ Rows(a) # {} /\ assigned[a] # {}
                    /\ CountedMarks(a) >= 1 /\ CountedMarks(a) >= assessments[a].passing
                    /\ \A q \in Rows(a) : /\ questions[q].status = "ACTIVE"
                                          /\ questions[q].coding => questions[q].complete
  BY DEF PublishedIsReady
<1>1. a \in Assessments
  BY DEF AuthoringInv, BuilderTypes
<1>2. /\ assessments[a].status = "PUBLISHED"
      /\ Ready(assessments[a], attached[a], Count(a), assigned[a], questions)
  BY <1>1 DEF AuthoringInv, ApprovedOk
<1>3. CountedMarks(a) = Count(a)
  BY <1>1, Counts DEF AuthoringInv
<1> DEFINE n == Count(a)
<1> HIDE DEF n
<1>4. Ready(assessments[a], attached[a], n, assigned[a], questions) /\ CountedMarks(a) = n
  BY <1>2, <1>3 DEF n
<1> QED
  BY <1>2, <1>4 DEF Ready, Rows

LEMMA TotalIs == AuthoringInv => TotalExact
<1> SUFFICES ASSUME AuthoringInv, NEW a \in Assessments, a \notin drift,
                    \A r \in Requests : req[r].a = a => req[r].at \notin {"sum", "store"}
             PROVE  assessments[a].total =
                      MapThenSumSet(LAMBDA q : attached[a][q].marks, Standing(a))
                      + MapThenSumSet(LAMBDA s : sections[s].marks, SectionsOf(a))
  BY DEF TotalExact
<1>1. assessments[a].total = Count(a)
  BY DEF AuthoringInv, TotalOk, Totalling
<1>2. attached[a] \in RowsType /\ sections \in SectionsType
  BY DEF AuthoringInv, BuilderTypes, RowsType, SectionsType
<1>3. SectionsOf(a) = Own(sections, a) /\ SectionsOf(a) \in SUBSET Sections
  BY DEF SectionsOf, Own
<1>4. Standing(a) = Stands(attached[a], sections, a) /\ Standing(a) \in SUBSET Questions
  BY <1>3 DEF Standing, Stands, Rows
<1>5. \A q \in Questions : attached[a][q].on /\ attached[a][q].section # None =>
         attached[a][q].section \in Own(sections, a)
  <2>1. \A q \in Questions : attached[a][q].section \in Sections \cup {None}
    BY <1>2 DEF RowsType, AttachedRow
  <2> QED
    BY <2>1 DEF AuthoringInv, RowsOk, RowsIn, Own
<1>6. Count(a) = Sum(Marks(attached[a]), Stands(attached[a], sections, a))
                   + Sum(SectionMark(sections), Own(sections, a))
  <2> DEFINE rows == attached[a]
             secs == sections
  <2>1. /\ rows \in RowsType /\ secs \in SectionsType
        /\ \A q \in Questions : rows[q].on /\ rows[q].section # None =>
              rows[q].section \in Own(secs, a)
    BY <1>2, <1>5
  <2> HIDE DEF rows, secs
  <2>2. CountOf(rows, secs, a)
          = Sum(Marks(rows), Stands(rows, secs, a)) + Sum(SectionMark(secs), Own(secs, a))
    BY <2>1, Reference
  <2> QED
    BY <2>2 DEF Count, rows, secs
<1> DEFINE T == Standing(a)
           U == SectionsOf(a)
<1>7. MapThenSumSet(LAMBDA q : attached[a][q].marks, T) = Sum(Marks(attached[a]), T)
  <2> HIDE DEF T
  <2>1. T \in SUBSET Questions
    BY <1>4 DEF T
  <2> QED
    BY <1>2, <2>1, QuestionFold
<1>8. MapThenSumSet(LAMBDA s : sections[s].marks, U) = Sum(SectionMark(sections), U)
  <2> HIDE DEF U
  <2>1. U \in SUBSET Sections
    BY <1>3 DEF U
  <2> QED
    BY <1>2, <2>1, SectionFold
<1> QED
  BY <1>1, <1>3, <1>4, <1>6, <1>7, <1>8

\* Rows of the bank and the builder stay in one tenant, what is offered can be attached,
\* imports account for every row of their file and active coding questions are complete,
\* whatever requests interleave.
THEOREM RowsAgree == Spec => []AuthoringConsistent
<1>1. AuthoringInv => AuthoringConsistent
  BY Typed, InTenant, Attachable DEF AuthoringInv, BankInv, AuthoringConsistent
<1> QED
  BY <1>1, AuthoringInvariant, PTL

\* A publication of which nothing has changed since published what may be published:
\* the three statements of publishAssessment check what they publish.
THEOREM PublicationChecks == Spec => []PublishedIsReady
  BY AuthoringInvariant, Published, PTL

\* A total is the sum of the marks the assessment is worth, once nothing is being
\* recalculated and the last recalculation to write had lost no race.
THEOREM TotalsAreExact == Spec => []TotalExact
  BY AuthoringInvariant, TotalIs, PTL

-----------------------------------------------------------------------------
(* What a step may never undo. *)

\* What a request to the builder leaves alone.
LEMMA LeftAlone ==
  ASSUME NEW r, NEW u, NEW a, NEW s, NEW q, NEW m, NEW n
  PROVE  /\ CreateAssessment(u, a, q, s, m) \/ DuplicateAssessment(u, a, q, s)
            \/ DeleteAssessment(u, a) \/ CancelAssessment(u, a) \/ ScheduleAssessment(u, a) =>
              questions' = questions
         /\ UpdateAssessmentRead(r, u, a, q, s, m)
            \/ AddAssignment(u, a, s) \/ DeleteAssignment(u, a, s) =>
              questions' = questions /\ assessments' = assessments
         /\ AddSection(r, u, a, s, m) \/ UpdateSection(r, u, a, s, m)
            \/ DeleteSection(r, u, a, s) =>
              questions' = questions /\ assessments' = assessments
         /\ AddAssessmentQuestion(r, u, a, q, s, n, m) \/ DeleteAssessmentQuestion(r, u, a, q) =>
              questions' = questions /\ assessments' = assessments
         /\ ImportSetRead(r, u, a, q, s) \/ PreviewOrPublish(r, u, a, q) =>
              questions' = questions /\ assessments' = assessments
<1>1. CreateAssessment(u, a, q, s, m) \/ DuplicateAssessment(u, a, q, s)
      \/ DeleteAssessment(u, a) \/ CancelAssessment(u, a) \/ ScheduleAssessment(u, a) =>
        questions' = questions
  BY DEF CreateAssessment, DuplicateAssessment, DeleteAssessment, CancelAssessment,
     ScheduleAssessment, Commit, bankRows
<1>2. UpdateAssessmentRead(r, u, a, q, s, m)
      \/ AddAssignment(u, a, s) \/ DeleteAssignment(u, a, s) =>
        questions' = questions /\ assessments' = assessments
  BY DEF UpdateAssessmentRead, AddAssignment, DeleteAssignment, Commit, bankRows
<1>3. AddSection(r, u, a, s, m) \/ UpdateSection(r, u, a, s, m) \/ DeleteSection(r, u, a, s) =>
        questions' = questions /\ assessments' = assessments
  BY DEF AddSection, UpdateSection, DeleteSection, bankRows
<1>4. AddAssessmentQuestion(r, u, a, q, s, n, m) \/ DeleteAssessmentQuestion(r, u, a, q) =>
        questions' = questions /\ assessments' = assessments
  BY DEF AddAssessmentQuestion, DeleteAssessmentQuestion, bankRows
<1>5. ImportSetRead(r, u, a, q, s) \/ PreviewOrPublish(r, u, a, q) =>
        questions' = questions /\ assessments' = assessments
  BY DEF ImportSetRead, PreviewOrPublish, bankRows
<1> QED
  BY <1>1, <1>2, <1>3, <1>4, <1>5

\* The builder leaves the questions of the bank alone.
LEMMA BuilderOnly ==
  ASSUME AuthoringRequest \/ AuthoringContinue PROVE questions' = questions
<1>1. CASE AuthoringRequest
  BY <1>1, LeftAlone DEF AuthoringRequest
<1>2. CASE AuthoringContinue
  BY <1>2 DEF AuthoringContinue, bankRows, UpdateAssessmentWrite, ImportSetAttach, SumMarks,
     StoreTotal, CheckBlockers, Approve, RequestLost
<1> QED
  BY <1>1, <1>2

LEMMA Undeleted ==
  ASSUME AuthoringInv, [Next]_vars, NEW q \in Questions,
         questions[q].deleted, ~questions'[q].deleted
  PROVE  \E e \in Editors : edit[e].op = "status" /\ edit[e].q = q /\ ~edit[e].clean
<1>1. CASE BankStep
  <2>1. Kept(q)
    BY <1>1, BankKeeps DEF AuthoringInv, BankStep
  <2> QED
    BY <2>1 DEF Kept
<1>2. CASE AuthoringRequest \/ AuthoringContinue
  BY <1>2, BuilderOnly
<1>3. CASE UNCHANGED vars
  BY <1>3 DEF vars, bankVars, bankRows
<1> QED
  BY <1>1, <1>2, <1>3 DEF Next

Revival(a) == \/ assessments'[a].status = "SCHEDULED"
              \/ \E r \in Requests : /\ req[r].a = a
                                     /\ \/ req[r].at = "approve"
                                        \/ req[r].at = "save" /\ (req[r].asked \/ ~req[r].current)

LEMMA Revived ==
  ASSUME AuthoringInv, [Next]_vars, NEW a \in Assessments,
         assessments[a].status = "CANCELLED", assessments'[a].status # "CANCELLED"
  PROVE  Revival(a)
<1>1. /\ assessments \in [Assessments -> AssessmentRow]
      /\ \A b \in Assessments : assessments[b] \in AssessmentRow
  BY DEF AuthoringInv, BuilderTypes
<1>2. assessments' # assessments
  OBVIOUS
<1>3. ASSUME NEW b \in Assessments, NEW x, assessments' = [assessments EXCEPT ![b] = x],
             assessments[b].status = "NONE"
      PROVE  FALSE
  BY <1>1, <1>3
<1>4. ASSUME NEW u, NEW b \in Assessments,
             DeleteAssessment(u, b) \/ CancelAssessment(u, b) \/ ScheduleAssessment(u, b)
      PROVE  Revival(a)
  <2>1. CASE DeleteAssessment(u, b)
    <3>1. assessments' = [assessments EXCEPT ![b].status = "CANCELLED", ![b].deleted = TRUE]
      BY <2>1 DEF DeleteAssessment
    <3>2. assessments'[a].status \in {assessments[a].status, "CANCELLED"}
      BY <1>1, <3>1 DEF AssessmentRow
    <3> QED
      BY <3>2
  <2>2. CASE CancelAssessment(u, b)
    <3>1. assessments' = [assessments EXCEPT ![b].status = "CANCELLED"]
      BY <2>2 DEF CancelAssessment
    <3>2. assessments'[a].status \in {assessments[a].status, "CANCELLED"}
      BY <1>1, <3>1 DEF AssessmentRow
    <3> QED
      BY <3>2
  <2>3. CASE ScheduleAssessment(u, b)
    <3>1. assessments' = [assessments EXCEPT ![b].status = "SCHEDULED"]
      BY <2>3 DEF ScheduleAssessment
    <3>2. assessments'[a].status \in {assessments[a].status, "SCHEDULED"}
      BY <1>1, <3>1 DEF AssessmentRow
    <3> QED
      BY <3>2 DEF Revival
  <2> QED
    BY <1>4, <2>1, <2>2, <2>3
<1>5. CASE AuthoringRequest
  <2>1. ASSUME NEW u, NEW b \in Assessments, NEW c, NEW s, NEW p,
               CreateAssessment(u, b, c, s, p)
        PROVE  FALSE
    BY <1>3, <2>1 DEF CreateAssessment
  <2>2. ASSUME NEW u, NEW b, NEW copy \in Assessments, NEW s,
               DuplicateAssessment(u, b, copy, s)
        PROVE  FALSE
    BY <1>3, <2>2 DEF DuplicateAssessment
  <2> QED
    BY <1>2, <1>4, <1>5, <2>1, <2>2, LeftAlone DEF AuthoringRequest
<1>6. ASSUME NEW r \in Requests, UpdateAssessmentWrite(r) PROVE Revival(a)
  <2>1. PICK w : w = req[r]
    OBVIOUS
  <2>2. /\ w.at = "save"
        /\ assessments' = [assessments EXCEPT ![w.a].status = w.status,
              ![w.a].subject = w.subject, ![w.a].passing = w.passing]
    BY <1>6, <2>1 DEF UpdateAssessmentWrite
  <2>3. w.current /\ ~w.asked => w.status = assessments[w.a].status
    BY <2>1, <2>2 DEF AuthoringInv, ReqOk, ReqGood
  <2>4. assessments'[a].status = IF a = w.a THEN w.status ELSE assessments[a].status
    BY <1>1, <2>2 DEF AssessmentRow
  <2> QED
    BY <2>1, <2>2, <2>3, <2>4 DEF Revival
<1>7. ASSUME NEW r \in Requests, Approve(r) PROVE Revival(a)
  <2>1. PICK w : w = req[r]
    OBVIOUS
  <2>2. /\ w.at = "approve"
        /\ assessments' = [assessments EXCEPT ![w.a].status = "PUBLISHED"]
    BY <1>7, <2>1 DEF Approve
  <2>3. a # w.a => assessments'[a] = assessments[a]
    BY <1>1, <2>2
  <2> QED
    BY <2>1, <2>2, <2>3 DEF Revival
<1>8. ASSUME NEW r \in Requests, StoreTotal(r) PROVE FALSE
  <2>1. PICK w : w = req[r]
    OBVIOUS
  <2>2. assessments' = [assessments EXCEPT ![w.a].total = w.sum]
    BY <1>8, <2>1 DEF StoreTotal
  <2>3. assessments'[a].status = assessments[a].status
    BY <1>1, <2>2 DEF AssessmentRow
  <2> QED
    BY <2>3
<1>9. CASE AuthoringContinue
  BY <1>2, <1>6, <1>7, <1>8, <1>9
  DEF AuthoringContinue, ImportSetAttach, SumMarks, CheckBlockers, RequestLost
<1>10. CASE BankStep
  BY <1>2, <1>10 DEF BankStep
<1>11. CASE UNCHANGED vars
  BY <1>2, <1>11 DEF vars, authoringVars
<1> QED
  BY <1>5, <1>9, <1>10, <1>11 DEF Next

\* A handler stays where it is while others move.
LEMMA StaysPut ==
  ASSUME AuthoringInv, NEW r \in Requests, NEW a, NEW base, base[r] = req[r],
         req' = base \/ req' = Touch(a, TRUE, base) \/ req' = Touch(a, FALSE, base)
  PROVE  req'[r].at = req[r].at
<1>1. req[r] \in ReqRow
  BY DEF AuthoringInv, BuilderTypes
<1>2. CASE req' = base
  BY <1>2
<1>3. CASE req' = Touch(a, TRUE, base) \/ req' = Touch(a, FALSE, base)
  <2>1. TouchedAs(req'[r], base[r], a)
    BY <1>1, <1>3, Touched
  <2> QED
    BY <2>1 DEF TouchedAs
<1> QED
  BY <1>2, <1>3

\* What a request to the builder does to the handlers in flight.
LEMMA RequestMoves ==
  ASSUME NEW r, NEW u, NEW a, NEW s, NEW q, NEW m, NEW n
  PROVE  /\ CreateAssessment(u, a, q, s, m) \/ DeleteAssessment(u, a) \/ CancelAssessment(u, a)
            \/ ScheduleAssessment(u, a) \/ AddAssignment(u, a, s)
            \/ DeleteAssignment(u, a, s) => req' = Touch(a, FALSE, req)
         /\ DuplicateAssessment(u, a, q, s) => req' = req
         /\ UpdateAssessmentRead(r, u, a, q, s, m) \/ ImportSetRead(r, u, a, q, s)
            \/ PreviewOrPublish(r, u, a, q) =>
              req[r].at = "idle" /\ \E v : req' = [req EXCEPT ![r] = v]
<1>1. CreateAssessment(u, a, q, s, m) \/ DeleteAssessment(u, a) \/ CancelAssessment(u, a)
      \/ ScheduleAssessment(u, a) \/ AddAssignment(u, a, s) \/ DeleteAssignment(u, a, s) =>
        req' = Touch(a, FALSE, req)
  BY DEF CreateAssessment, DeleteAssessment, CancelAssessment, ScheduleAssessment,
     AddAssignment, DeleteAssignment, Commit
<1>2. DuplicateAssessment(u, a, q, s) => req' = req
  BY DEF DuplicateAssessment
<1>3. UpdateAssessmentRead(r, u, a, q, s, m) \/ ImportSetRead(r, u, a, q, s)
      \/ PreviewOrPublish(r, u, a, q) =>
        req[r].at = "idle" /\ \E v : req' = [req EXCEPT ![r] = v]
  BY DEF UpdateAssessmentRead, ImportSetRead, PreviewOrPublish, Idle
<1> QED
  BY <1>1, <1>2, <1>3

\* Only the insertion itself takes an insertion on to its recalculation.
LEMMA MovesOn ==
  ASSUME AuthoringInv, [Next]_vars, NEW r \in Requests,
         req[r].at = "attach", req'[r].at = "sum"
  PROVE  ImportSetAttach(r)
<1>1. ASSUME NEW a, req' = req \/ req' = Touch(a, FALSE, req) PROVE FALSE
  <2> DEFINE base == req
  <2>1. base[r] = req[r] /\ (req' = base \/ req' = Touch(a, FALSE, base))
    BY <1>1
  <2> HIDE DEF base
  <2>2. req'[r].at = req[r].at
    BY <2>1, StaysPut
  <2> QED
    BY <2>2
<1>2. ASSUME NEW y \in Requests, req[y].at # "attach", NEW v, NEW a,
             \/ req' = [req EXCEPT ![y] = v]
             \/ req' = Touch(a, TRUE, [req EXCEPT ![y] = v])
             \/ req' = Touch(a, FALSE, [req EXCEPT ![y] = v])
      PROVE  FALSE
  <2>1. y # r
    BY <1>2
  <2> DEFINE base == [req EXCEPT ![y] = v]
  <2>2. /\ base[r] = req[r]
        /\ req' = base \/ req' = Touch(a, TRUE, base) \/ req' = Touch(a, FALSE, base)
    BY <1>2, <2>1 DEF AuthoringInv, BuilderTypes
  <2> HIDE DEF base
  <2>3. req'[r].at = req[r].at
    BY <2>2, StaysPut
  <2> QED
    BY <2>3
<1>3. CASE AuthoringRequest
  <2>1. ASSUME NEW y \in Requests, NEW u, NEW a, NEW s, NEW q, NEW m, NEW n,
               \/ UpdateAssessmentRead(y, u, a, q, s, m) \/ ImportSetRead(y, u, a, q, s)
               \/ PreviewOrPublish(y, u, a, q) \/ AddSection(y, u, a, s, m)
               \/ UpdateSection(y, u, a, s, m) \/ DeleteSection(y, u, a, s)
               \/ AddAssessmentQuestion(y, u, a, q, s, n, m)
               \/ DeleteAssessmentQuestion(y, u, a, q)
        PROVE  FALSE
    <3>1. CASE UpdateAssessmentRead(y, u, a, q, s, m) \/ ImportSetRead(y, u, a, q, s)
               \/ PreviewOrPublish(y, u, a, q)
      <4>1. req[y].at = "idle" /\ \E v : req' = [req EXCEPT ![y] = v]
        BY <3>1, RequestMoves
      <4> QED
        BY <1>2, <4>1
    <3>2. CASE ~(UpdateAssessmentRead(y, u, a, q, s, m) \/ ImportSetRead(y, u, a, q, s)
                 \/ PreviewOrPublish(y, u, a, q))
      <4>1. \/ AddSection(y, u, a, s, m) \/ UpdateSection(y, u, a, s, m)
            \/ DeleteSection(y, u, a, s) \/ AddAssessmentQuestion(y, u, a, q, s, n, m)
            \/ DeleteAssessmentQuestion(y, u, a, q)
        BY <2>1, <3>2
      <4>2. req[y].at = "idle" /\ Recalculate(y, a)
        BY <4>1 DEF AddSection, UpdateSection, DeleteSection, AddAssessmentQuestion,
           DeleteAssessmentQuestion, Idle
      <4>3. \E v : req' = Touch(a, TRUE, [req EXCEPT ![y] = v])
        BY <4>2 DEF Recalculate
      <4> QED
        BY <1>2, <4>2, <4>3
    <3> QED
      BY <3>1, <3>2
  <2>2. ASSUME NEW u, NEW a, NEW s, NEW q, NEW m,
               \/ CreateAssessment(u, a, q, s, m) \/ DeleteAssessment(u, a)
               \/ CancelAssessment(u, a) \/ ScheduleAssessment(u, a)
               \/ AddAssignment(u, a, s) \/ DeleteAssignment(u, a, s)
               \/ DuplicateAssessment(u, a, q, s)
        PROVE  FALSE
    BY <1>1, <2>2, RequestMoves
  <2> QED
    BY <1>3, <2>1, <2>2 DEF AuthoringRequest
<1>4. ASSUME NEW y \in Requests, UpdateAssessmentWrite(y) \/ Approve(y) PROVE FALSE
  BY <1>2, <1>4 DEF UpdateAssessmentWrite, Approve
<1>5. ASSUME NEW y \in Requests, SumMarks(y) \/ StoreTotal(y) \/ CheckBlockers(y) PROVE FALSE
  <2>1. req[y].at # "attach" /\ \E v : req' = [req EXCEPT ![y] = v]
    BY <1>5 DEF SumMarks, StoreTotal, CheckBlockers
  <2> QED
    BY <1>2, <2>1
<1>6. ASSUME NEW y \in Requests, RequestLost(y) PROVE FALSE
  <2>1. req' = [req EXCEPT ![y] = NoReq]
    BY <1>6 DEF RequestLost
  <2>2. CASE y = r
    <3>1. req'[r] = NoReq
      BY <2>1, <2>2 DEF AuthoringInv, BuilderTypes
    <3> QED
      BY <3>1, BuilderFields
  <2>3. CASE y # r
    <3>1. req'[r] = req[r]
      BY <2>1, <2>3
    <3> QED
      BY <3>1
  <2> QED
    BY <2>2, <2>3
<1>7. ASSUME NEW y \in Requests \ {r}, ImportSetAttach(y) PROVE FALSE
  <2>1. PICK v, a : req' = Touch(a, TRUE, [req EXCEPT ![y] = v])
    BY <1>7 DEF ImportSetAttach
  <2> DEFINE base == [req EXCEPT ![y] = v]
  <2>2. base[r] = req[r] /\ req' = Touch(a, TRUE, base)
    BY <2>1 DEF AuthoringInv, BuilderTypes
  <2> HIDE DEF base
  <2>3. req'[r].at = req[r].at
    BY <2>2, StaysPut
  <2> QED
    BY <2>3
<1>8. CASE AuthoringContinue
  BY <1>4, <1>5, <1>6, <1>7, <1>8 DEF AuthoringContinue
<1>9. CASE BankStep
  <2> DEFINE w == req[r]
             v == [w EXCEPT !.current = FALSE]
  <2>1. w \in ReqRow
    BY DEF AuthoringInv, BuilderTypes
  <2>2. req'[r] \in {w, v}
    BY <1>9 DEF BankStep
  <2>3. v.at = w.at
    <3> HIDE DEF w
    <3> QED
      BY <2>1 DEF ReqRow
  <2> HIDE DEF v
  <2> QED
    BY <2>2, <2>3
<1>10. CASE UNCHANGED vars
  BY <1>10 DEF vars, authoringVars
<1> QED
  BY <1>3, <1>8, <1>9, <1>10 DEF Next

LEMMA Whole ==
  ASSUME AuthoringInv, [Next]_vars, NEW r \in Requests,
         req[r].at = "attach", req'[r].at = "sum", req[r].current, NEW q \in req[r].set
  PROVE  attached'[req[r].a][q].on
<1>0. PICK w : w = req[r]
  OBVIOUS
<1>10. PICK a : a = w.a
  OBVIOUS
<1>1. ImportSetAttach(r)
  BY MovesOn
<1>2. /\ w \in ReqRow /\ a \in Assessments
      /\ ReqGood(w, assessments[a], attached[a], Count(a), assigned[a], questions)
      /\ OrderIn(w, q) \in Nat /\ OrderIn(w, q) >= w.first
      /\ \A p \in Questions : attached'[a][p] =
            IF Inserts(w, p) THEN Inserted(w, p) ELSE attached[a][p]
  BY <1>0, <1>1, <1>10, AttachedRows
<1>3. /\ q \in Questions /\ q \in w.set /\ w.first \in Nat
      /\ \A x \in Questions : attached[a][x].on => attached[a][x].order < w.first
  BY <1>0, <1>2 DEF ReqRow, ReqGood
<1>4. \A x \in Questions : attached[a][x].order \in Nat
  BY <1>2 DEF AuthoringInv, BuilderTypes, AttachedRow
<1>5. CASE Inserts(w, q)
  <2>1. attached'[a][q] = Inserted(w, q)
    BY <1>2, <1>3, <1>5
  <2> QED
    BY <1>0, <1>10, <2>1 DEF Inserted
<1>6. CASE ~Inserts(w, q)
  <2> DEFINE o == OrderIn(w, q)
  <2>1. o \in Nat /\ o >= w.first
    BY <1>2
  <2>2. ~Free(a, q, o)
    BY <1>3, <1>6, <1>10 DEF Inserts
  <2> HIDE DEF o
  <2>3. attached[a][q].on
    <3>1. \A x \in Rows(a) : attached[a][x].order # o
      BY <1>3, <1>4, <2>1 DEF Rows
    <3> QED
      BY <2>2, <3>1 DEF Free
  <2>4. attached'[a][q] = attached[a][q]
    BY <1>2, <1>3, <1>6
  <2> QED
    BY <1>0, <1>10, <2>3, <2>4
<1> QED
  BY <1>5, <1>6

\* Cancellations and deletions stand, and an import set is attached as a whole: no
\* request of the bank or the builder undoes a change it could not have known of.
THEOREM ChangesDoStand == Spec => ChangesStand
<1>1. AuthoringInv /\ [Next]_vars =>
        \A a \in Assessments :
          assessments[a].status = "CANCELLED" /\ assessments'[a].status # "CANCELLED"
          => \/ assessments'[a].status = "SCHEDULED"
             \/ \E r \in Requests : /\ req[r].a = a
                                    /\ \/ req[r].at = "approve"
                                       \/ req[r].at = "save" /\ (req[r].asked \/ ~req[r].current)
  BY Revived DEF Revival
<1>2. AuthoringInv /\ [Next]_vars =>
        \A q \in Questions : questions[q].deleted /\ ~questions'[q].deleted
          => \E e \in Editors : edit[e].op = "status" /\ edit[e].q = q /\ ~edit[e].clean
  BY Undeleted
<1>3. AuthoringInv /\ [Next]_vars =>
        \A r \in Requests :
          req[r].at = "attach" /\ req'[r].at = "sum" /\ req[r].current
          => \A q \in req[r].set : attached'[req[r].a][q].on
  BY Whole
<1> QED
  BY <1>1, <1>2, <1>3, AuthoringInvariant, PTL
  DEF Spec, ChangesStand, CancellationStands, DeletionStands, ImportSetWhole

=============================================================================
