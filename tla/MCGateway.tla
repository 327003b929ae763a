------------------------------ MODULE MCGateway ------------------------------
(* Instances of Gateway for TLC. *)
EXTENDS Gateway, TLC

(* Pool threads are interchangeable, and so are descriptors. *)
Symmetry == Permutations(Pool) \cup Permutations(Fds)
=============================================================================
