-------------------------- MODULE MCResultRelease --------------------------
(* ResultRelease for TLC: clients, questions and marks are symmetric.      *)
EXTENDS ResultRelease, TLC

MCSymmetry == Permutations(Clients) \cup Permutations(ManualQuestions)
                 \cup Permutations(Marks)
=============================================================================
