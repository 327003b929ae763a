----------------------------- MODULE MCStreamHub -----------------------------
(* Instances of StreamHub for TLC. *)
EXTENDS StreamHub, TLC

(* Threads are interchangeable, and so are clients of the same kind. *)
Symmetry == Permutations(Threads) \cup Permutations(Browsers)
            \cup Permutations(Sessions \ Browsers)
=============================================================================
