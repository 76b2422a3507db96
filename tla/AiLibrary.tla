----------------------------- MODULE AiLibrary -----------------------------
(***************************************************************************)
(* The material around AI generation (AiWorkflowsService): a prompt template *)
(* with its versions, a syllabus with its units, and papers drawn from the   *)
(* question bank.  Updates read the row in one statement and write it in a   *)
(* later one; the units of a syllabus are deleted before the update that     *)
(* creates the new ones.                                                     *)
(***************************************************************************)
EXTENDS AiReview, Sequences

CONSTANTS Texts,        \* instructions a template can have
          UnitSets,     \* the unit numbers a syllabus is sent with
          Pool,         \* sequence of the bank's questions in shuffle's order
          Marks,        \* defaultMarks of each question
          TargetMarks,  \* totalMarks asked for
          SetCodes      \* number of random paper sets of a request

ASSUME LibraryAssumption ==
    /\ Marks \in [1..Len(Pool) -> Nat \ {0}] /\ TargetMarks \in Nat
    /\ UnitSets \subseteq SUBSET (1..2) /\ {} \notin UnitSets

VARIABLES template,    \* the aiPromptTemplate row
          said,        \* history: <<version, content>> the template has had
          syllabus,    \* units of the syllabus row, and its version
          eligible,    \* questions of Pool that are active or draft, not deleted
          papers,      \* aiGeneratedPaperSet rows of each request: their questions
          exam,        \* the assessment generateExamPaper made
          memo         \* the row a handler has read

libRows == <<template, said, syllabus, eligible, papers, exam, memo>>
vars == <<reviewVars, libRows>>

MaxVersion == 1 + MaxRequests
Content == [text : Texts, active : BOOLEAN]
NoExam == [made |-> FALSE, total |-> 0, rows |-> {}]
NoMemo == [content |-> None, hist |-> <<>>, version |-> 0, set |-> {}]

LibTypeOK ==
    /\ template \in [content : Content, version : Nat,
                    hist : Seq([version : Nat, content : Content])]
    /\ said \subseteq Nat \X Content
    /\ syllabus \subseteq 1..2
    /\ eligible \subseteq 1..Len(Pool)
    /\ papers \in [Requests -> Seq(SUBSET (1..Len(Pool)))]
    /\ exam.made \in BOOLEAN /\ exam.rows \subseteq 1..Len(Pool)

Library(route, r, u) == RoleOf[u] \in AiRoutes[route] /\ Begin(r)
Hold(r, op, m) == /\ req' = [req EXCEPT ![r] = [NoReq EXCEPT !.op = op]]
                  /\ memo' = [memo EXCEPT ![r] = m]
Release(r) == /\ req' = [req EXCEPT ![r] = NoReq]
              /\ memo' = [memo EXCEPT ![r] = NoMemo]
GenRows == <<jobs, results, usage, batch, run, breaker, stopped, crashes>>

-----------------------------------------------------------------------------
(* Prompt templates. *)

Says(version, content) == said' = said \cup {<<version, content>>}
Snapshot == [NoMemo EXCEPT !.content = template.content, !.hist = template.hist,
                           !.version = template.version]

UpdatePromptTemplate(r, u, text) ==
    /\ Library("updatePromptTemplate", r, u)
    /\ Hold(r, "prompt", [Snapshot EXCEPT !.set = {text}])
    /\ UNCHANGED <<GenRows, reviewRows, template, said, syllabus, eligible, papers, exam>>

\* the entry of versionHistory: the row that was read, under its version
HistoryEntry(m, text) == [version |-> m.version, content |-> m.content]

\* the history is the one that was read, one entry longer; the version goes up
\* from what it is by now, and what the request leaves out keeps its value
PromptWrite(r) ==
    LET m == memo[r]
        text == CHOOSE x \in m.set : TRUE
        content == [text |-> text, active |-> template.content.active] IN
    /\ req[r].op = "prompt" /\ Release(r)
    /\ template' = [content |-> content, version |-> template.version + 1,
                    hist |-> Append(m.hist, HistoryEntry(m, text))]
    /\ Says(template.version + 1, content)
    /\ UNCHANGED <<GenRows, reviewRows, requests, syllabus, eligible, papers, exam>>

DeletePromptTemplate(r, u) ==
    LET content == [template.content EXCEPT !.active = FALSE] IN
    /\ Library("deletePromptTemplate", r, u)
    /\ template' = [template EXCEPT !.content = content]
    /\ Says(template.version, content)
    /\ UNCHANGED <<GenRows, reviewRows, req, memo, syllabus, eligible, papers, exam>>

\* rollbackPromptTemplate to a version that has an entry: find takes the first
RollbackPromptTemplate(r, u, v) ==
    LET at == {i \in 1..Len(template.hist) : template.hist[i].version = v} IN
    /\ Library("rollbackPromptTemplate", r, u) /\ at # {}
    /\ Hold(r, "rollback", [NoMemo EXCEPT !.version = v,
           !.content = template.hist[First(at)].content])
    /\ UNCHANGED <<GenRows, reviewRows, template, said, syllabus, eligible, papers, exam>>

\* the history gets no entry for the version that is replaced
RollbackWrite(r) ==
    /\ req[r].op = "rollback" /\ Release(r)
    /\ template' = [template EXCEPT !.content = memo[r].content, !.version = @ + 1]
    /\ Says(template.version + 1, memo[r].content)
    /\ UNCHANGED <<GenRows, reviewRows, requests, syllabus, eligible, papers, exam>>

-----------------------------------------------------------------------------
(* Syllabi. *)

\* Mutant: the new units are created first and the old ones deleted afterwards.
MutUpdateSyllabus(r, u, units) ==
    /\ Library("updateSyllabus", r, u)
    /\ syllabus' = units
    /\ Hold(r, "units", NoMemo)
    /\ UNCHANGED <<GenRows, reviewRows, template, said, eligible, papers, exam>>

\* updateSyllabus: syllabusUnit.deleteMany ...
UpdateSyllabus(r, u, units) ==
    /\ Library("updateSyllabus", r, u)
    /\ syllabus' = {}
    /\ Hold(r, "units", [NoMemo EXCEPT !.set = units])
    /\ UNCHANGED <<GenRows, reviewRows, template, said, eligible, papers, exam>>

\* ... and the update that creates the new units; (syllabusId, unitNumber) is
\* unique, so it fails as a whole when another update has created one of them
UnitsWrite(r) ==
    LET units == memo[r].set IN
    /\ req[r].op = "units" /\ Release(r)
    /\ syllabus' = IF syllabus \cap units # {} THEN syllabus
                   ELSE IF units = {} THEN {} ELSE syllabus \cup units
    /\ UNCHANGED <<GenRows, reviewRows, requests, template, said, eligible, papers, exam>>

-----------------------------------------------------------------------------
(* Papers. *)

Total(S) == MapThenSumSet(LAMBDA q : Marks[q], S)

\* selectPaperQuestions: shuffle orders the questions by a hash of their rows,
\* the same order every time, and takes them until the marks are reached
SelectPaperQuestions ==
    {q \in eligible : Total({p \in eligible : p < q}) < TargetMarks}

\* the bank changes between two requests
BankChanges(q) ==
    /\ requests < MaxRequests /\ requests' = requests + 1
    /\ eligible' = IF q \in eligible THEN eligible \ {q} ELSE eligible \cup {q}
    /\ UNCHANGED <<GenRows, reviewRows, req, template, said, syllabus, papers, exam, memo>>

\* generateExamPaper: the draft assessment with its total first
GenerateExamPaper(r, u) ==
    /\ Library("generateExamPaper", r, u)
    /\ ~exam.made /\ SelectPaperQuestions # {}
    /\ exam' = [made |-> TRUE, total |-> Total(SelectPaperQuestions), rows |-> {}]
    /\ Hold(r, "paper", [NoMemo EXCEPT !.set = SelectPaperQuestions])
    /\ UNCHANGED <<GenRows, reviewRows, template, said, syllabus, eligible, papers>>

PaperWrite(r) ==
    /\ req[r].op = "paper" /\ Release(r)
    /\ exam' = [exam EXCEPT !.rows = memo[r].set]
    /\ UNCHANGED <<GenRows, reviewRows, requests, template, said, syllabus, eligible, papers>>

GenerateRandomPaperSets(r, u) ==
    /\ Library("generateRandomPaperSets", r, u)
    /\ Hold(r, "sets", NoMemo)
    /\ papers' = [papers EXCEPT ![r] = <<>>]
    /\ UNCHANGED <<GenRows, reviewRows, template, said, syllabus, eligible, exam>>

Fresh(r) == SelectPaperQuestions \ memo[r].set

\* one set of the loop: select, drop what an earlier set has, create
RandomSet(r) ==
    /\ req[r].op = "sets" /\ Len(papers[r]) < SetCodes
    /\ papers' = [papers EXCEPT ![r] = Append(@, Fresh(r))]
    /\ memo' = [memo EXCEPT ![r].set = @ \cup Fresh(r)]
    /\ UNCHANGED <<GenRows, reviewRows, requests, req, template, said, syllabus, eligible, exam>>

RandomSetsDone(r) ==
    /\ req[r].op = "sets" /\ Len(papers[r]) = SetCodes /\ Release(r)
    /\ UNCHANGED <<GenRows, reviewRows, requests, template, said, syllabus, eligible, papers, exam>>

-----------------------------------------------------------------------------

LibStep(r) == PromptWrite(r) \/ RollbackWrite(r) \/ UnitsWrite(r)
              \/ PaperWrite(r) \/ RandomSet(r) \/ RandomSetsDone(r)

LibRequest(r) == requests < MaxRequests /\ \E u \in Users :
    \/ \E x \in Texts : UpdatePromptTemplate(r, u, x)
    \/ DeletePromptTemplate(r, u)
    \/ \E v \in 1..MaxVersion : RollbackPromptTemplate(r, u, v)
    \/ \E s \in UnitSets : UpdateSyllabus(r, u, s)
    \/ GenerateExamPaper(r, u) \/ GenerateRandomPaperSets(r, u)

LibNext ==
    \/ ReviewNext /\ UNCHANGED libRows
    \/ \E r \in Requests : LibRequest(r) \/ LibStep(r)
    \/ \E q \in 1..Len(Pool) : BankChanges(q)

\* what generations left, none of it reviewed and nothing under way, beside a
\* template and a syllabus as they were created
AiInit ==
    /\ GenTypeOK
    /\ \A g \in Results : results[g].status \in {"NONE", "PENDING"}
    /\ \A j \in Jobs : stopped[j] = -1 /\ usage[j] <= Cardinality(ResultsOf(j))
    /\ batch = [status |-> "NONE", ids |-> {}, college |-> None]
    /\ run = [x \in Runs |-> NoRun]
    /\ req = [r \in Requests |-> NoReq]
    /\ requests = 0 /\ crashes = 0
    /\ ReviewRowsInit
    /\ LibTypeOK
    /\ template.hist = <<>> /\ said = {<<template.version, template.content>>}
    /\ syllabus # {} /\ exam = NoExam
    /\ papers = [r \in Requests |-> <<>>]
    /\ memo = [r \in Requests |-> NoMemo]

AiSpec == AiInit /\ [][LibNext]_vars

-----------------------------------------------------------------------------
(* Properties. *)

\* What the history of a template keeps under a version is what the template
\* said at that version, so a rollback restores it, also after updates,
\* deactivations and rollbacks that overlapped (updatePromptTemplate,
\* rollbackPromptTemplate).
HistoryTruthful == \A i \in 1..Len(template.hist) :
    <<template.hist[i].version, template.hist[i].content>> \in said

\* When no update is under way and the process has not died, the syllabus has
\* units: an update that fails on another one's units leaves those
\* (updateSyllabus).
SyllabusKeepsUnits == AtRest /\ crashes = 0 => syllabus # {}

\* No question is in two of the paper sets of a request, however the bank
\* changes while they are made (generateRandomPaperSets).
SetsDisjoint == \A r \in Requests : \A i, k \in 1..Len(papers[r]) :
    i # k => papers[r][i] \cap papers[r][k] = {}

\* Once the questions of a generated paper are attached, its total is the sum of
\* their marks, however the bank changed meanwhile (generateExamPaper).
PaperTotalExact == exam.rows # {} => exam.total = Total(exam.rows)

AiTypeOK == GenTypeOK /\ ReviewTypeOK /\ LibTypeOK

\* Templates, syllabi and papers survive overlapping updates: the history is what
\* a version said, a syllabus keeps units, paper sets share no question, and the
\* total of a paper is that of its questions.
LibraryConsistent ==
    /\ AiTypeOK
    /\ HistoryTruthful
    /\ SyllabusKeepsUnits
    /\ SetsDisjoint
    /\ PaperTotalExact

=============================================================================
