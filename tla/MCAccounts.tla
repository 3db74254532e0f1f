----------------------------- MODULE MCAccounts -----------------------------
(* Accounts with interchangeable threads and numbers. *)
EXTENDS Accounts, TLC

Symmetry == Permutations(Threads) \union Permutations(Numbers)
=============================================================================
