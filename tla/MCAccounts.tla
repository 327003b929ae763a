----------------------------- MODULE MCAccounts -----------------------------
(* Instances of Accounts for TLC. *)
EXTENDS Accounts, TLC

(* Threads and tokens are interchangeable; so are the login names other    *)
(* than Admin.                                                             *)
Symmetry == Permutations(Threads) \cup Permutations(Tokens)
            \cup Permutations(Ids \ {Admin})
=============================================================================
