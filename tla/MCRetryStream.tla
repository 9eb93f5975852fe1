--------------------------- MODULE MCRetryStream ---------------------------
(* Instances of RetryStream for TLC. *)
EXTENDS RetryStream, TLC

Symmetry == Permutations(Worker) \cup Permutations(Ticket)
=============================================================================
