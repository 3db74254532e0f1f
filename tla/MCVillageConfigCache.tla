------------------------ MODULE MCVillageConfigCache ------------------------
(* Small instances of VillageConfigCache for TLC. *)
EXTENDS VillageConfigCache, TLC

(* The well-formed contents are interchangeable, and so are the threads. *)
Symmetry == Permutations(Threads) \union Permutations(Texts \ Malformed)
=============================================================================
