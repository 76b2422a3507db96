--------------------------- MODULE MCAiGeneration ---------------------------
(* One administrator: the limits, the runs and the batch of a single user. *)
EXTENDS AiGeneration

CONSTANTS admin, c1

MCRoleOf == [u \in Users |-> "COLLEGE_ADMIN"]
MCCollegeOf == [u \in Users |-> c1]
MCSubjectOpen == Users \X Colleges
=============================================================================
