----------------------------- MODULE MCAiReview -----------------------------
(* The review of one completed job with two generated questions, beside a    *)
(* template, a syllabus and a bank of three questions.                       *)
EXTENDS AiLibrary

CONSTANTS admin, c1, t1

MCRoleOf == [u \in Users |-> "COLLEGE_ADMIN"]
MCCollegeOf == [u \in Users |-> c1]
MCSubjectOpen == {}
MCPool == <<1, 2, 3>>
MCMarks == <<1, 2, 1>>
MCUnitSets == {{1}, {2}}

MCInit ==
    /\ jobs = [j \in Jobs |-> [status |-> "COMPLETED", owner |-> admin,
                              college |-> c1, key |-> None]]
    /\ results = [g \in Results |-> IF g < MaxResults
                     THEN [job |-> 1, status |-> "PENDING"] ELSE NoResult]
    /\ usage = [j \in Jobs |-> 1]
    /\ batch = [status |-> "NONE", ids |-> {}, college |-> None]
    /\ run = [x \in Runs |-> NoRun]
    /\ breaker = [failures |-> 0, open |-> FALSE]
    /\ req = [r \in Requests |-> NoReq]
    /\ stopped = [j \in Jobs |-> -1]
    /\ requests = 0 /\ crashes = 0
    /\ ReviewRowsInit
    /\ template = [content |-> [text |-> t1, active |-> TRUE], version |-> 1,
                   hist |-> <<>>]
    /\ said = {<<1, template.content>>}
    /\ syllabus = {1}
    /\ eligible = {1, 2}
    /\ papers = [r \in Requests |-> <<>>] /\ exam = NoExam
    /\ memo = [r \in Requests |-> NoMemo]
    /\ AiInit

MCSpec == MCInit /\ [][LibNext]_vars

Symmetry == Permutations(Requests)
=============================================================================
