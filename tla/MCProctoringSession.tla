------------------------ MODULE MCProctoringSession ------------------------
(* A session with interchangeable requests and event keys; or the page of an *)
(* attempt under three policies (none, a strict one that asks for the camera,*)
(* and one with the checks the page never reports).                          *)
EXTENDS ProctoringSession, ProctoredPage, TLC

VARIABLE side

MCPolicy(on, cam, more, block) ==
    [enabled |-> on, fullscreen |-> on, preferred |-> more, camera |-> cam,
     other |-> more, block |-> block, critical |-> block,
     allowed |-> IF more THEN 2 ELSE 1]
MCPolicies == {MCPolicy(FALSE, FALSE, FALSE, FALSE),
               MCPolicy(TRUE, TRUE, FALSE, TRUE), MCPolicy(TRUE, FALSE, TRUE, FALSE)}

MCInit == /\ Init /\ PageInit /\ side \in {"session", "page"}
          /\ side = "session" => policy = MCPolicy(FALSE, FALSE, FALSE, FALSE)
MCNext ==
    /\ UNCHANGED side
    /\ \/ side = "session" /\ Next /\ UNCHANGED proctoredVars
       \/ side = "page" /\ PageNext /\ UNCHANGED vars
MCSpec == MCInit /\ [][MCNext]_<<vars, proctoredVars, side>>

Symmetry == Permutations(Requests) \cup Permutations(Keys)
=============================================================================
