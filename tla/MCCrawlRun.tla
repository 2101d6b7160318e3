----------------------------- MODULE MCCrawlRun -----------------------------
(***************************************************************************)
(* Small instances of CrawlRun for TLC.  Workers are interchangeable: no   *)
(* action and no safety property tells one from another.                   *)
(***************************************************************************)
EXTENDS CrawlRun, TLC

WorkerSymmetry == Permutations(Workers)
=============================================================================
