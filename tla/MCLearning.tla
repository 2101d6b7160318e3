----------------------------- MODULE MCLearning -----------------------------
(***************************************************************************)
(* Small instances of Learning for TLC.  Captures, workers, routes and     *)
(* sources are interchangeable.                                            *)
(***************************************************************************)
EXTENDS LearningHistory, TLC

Symmetry ==
    Permutations(Captures) \cup Permutations(Workers)
        \cup Permutations(Routes) \cup Permutations(Sources)
=============================================================================
