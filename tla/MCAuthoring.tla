---------------------------- MODULE MCAuthoring ----------------------------
(* A bank of two colleges: a platform user, an administrator and a student  *)
(* of the first college and a faculty member of the second.  The run starts *)
(* from a bank these operations build: q1 is active and attached to the     *)
(* draft a1, q2 is an unfinished coding question, q3 belongs to the other   *)
(* college, q4 is a free identifier.                                        *)
EXTENDS AssessmentAuthoring

CONSTANTS root, admin, faculty, student, c1, c2, s1, s2, q1, q2, q3, a1, t1

MCRoleOf == [u \in Users |-> CASE u = root -> "SUPER_ADMIN"
                               [] u = admin -> "COLLEGE_ADMIN" [] u = faculty -> "FACULTY"
                               [] OTHER -> "STUDENT"]
MCCollegeOf == [u \in Users |-> CASE u = root -> None [] u = faculty -> c2 [] OTHER -> c1]
MCTeaches == [u \in Users |-> IF u = faculty THEN {s2} ELSE {}]
MCSubjectCollege == [s \in Subjects |-> IF s = s1 THEN c1 ELSE c2]

MCPayloads == {[coding |-> FALSE, complete |-> TRUE], [coding |-> TRUE, complete |-> FALSE],
               [coding |-> TRUE, complete |-> TRUE]}

MCInit ==
    /\ questions = [q \in Questions |->
          CASE q = q1 -> NewQuestion(admin, c1, s1, "ACTIVE", FALSE, TRUE, "no")
            [] q = q2 -> NewQuestion(admin, c1, s1, "DRAFT", TRUE, FALSE, "no")
            [] q = q3 -> NewQuestion(faculty, c2, s2, "ACTIVE", FALSE, TRUE, "no")
            [] OTHER -> NoQuestion]
    /\ jobs = [j \in Jobs |-> NoJob]
    /\ edit = [e \in Editors |-> NoEdit]
    /\ suspect = {} /\ requests = 0
    /\ assessments = [a \in Assessments |-> IF a = a1
          THEN [NoAssessment EXCEPT !.status = "DRAFT", !.college = c1,
                    !.subject = s1, !.owner = admin, !.total = 1, !.passing = 1]
          ELSE NoAssessment]
    /\ sections = [s \in Sections |-> [a |-> None, marks |-> 0]]
    /\ attached = [a \in Assessments |-> [q \in Questions |-> IF a = a1 /\ q = q1
          THEN [on |-> TRUE, section |-> None, order |-> 1, marks |-> 1] ELSE NoRow]]
    /\ assigned = [a \in Assessments |-> IF a = a1 THEN {t1} ELSE {}]
    /\ req = [r \in Requests |-> NoReq]
    /\ drift = {} /\ approved = {}

MCSpec == MCInit /\ [][Next]_vars

Symmetry == Permutations(Requests)
=============================================================================
