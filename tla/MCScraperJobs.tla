---------------------------- MODULE MCScraperJobs ----------------------------
(* ScraperJobs on a small instance, for TLC. *)
EXTENDS ScraperJobs, TLC

WorkerSymmetry == Permutations(Worker)
=============================================================================
