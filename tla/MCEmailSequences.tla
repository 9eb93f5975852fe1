-------------------------- MODULE MCEmailSequences --------------------------
(* EmailSequences on a small instance, for TLC: every step is due on the     *)
(* first day.                                                                *)
EXTENDS EmailSequences, TLC

Symmetry == Permutations(Server) \cup Permutations(Conn)
Offsets == [s \in Step |-> 0]
=============================================================================
