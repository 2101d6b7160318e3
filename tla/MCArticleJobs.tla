--------------------------- MODULE MCArticleJobs ---------------------------
(***************************************************************************)
(* Small instances of ArticleJobs for TLC.  Workers are interchangeable.   *)
(***************************************************************************)
EXTENDS ArticleJobs, TLC

WorkerSymmetry == Permutations(Workers)
=============================================================================
