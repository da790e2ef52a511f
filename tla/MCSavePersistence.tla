-------------------------- MODULE MCSavePersistence --------------------------
(* A small instance of SavePersistence for TLC. *)
EXTENDS SavePersistence, TLC

Symmetry == Permutations(Threads)
=============================================================================
