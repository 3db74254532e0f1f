--------------------------- MODULE MCJobAssignments ---------------------------
(* Small instances of JobAssignments for TLC. *)
EXTENDS JobAssignments, TLC

Symmetry == Permutations(Threads) \union Permutations(Employees) \union Permutations(Companies)

===============================================================================
