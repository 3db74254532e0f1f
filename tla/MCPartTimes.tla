----------------------------- MODULE MCPartTimes -----------------------------
(* A week of one working day and one day of the weekend. *)
EXTENDS PartTimes
==============================================================================
