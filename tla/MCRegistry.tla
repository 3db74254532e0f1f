----------------------------- MODULE MCRegistry -----------------------------
(* Registry with three files of participants and one of companies.  In the first the number of
   the second line may have become that of the first line's participant, in another it is the
   same; a line is skipped, and one of the companies' is refused before one that is not. *)
EXTENDS Registry, TLC

CONSTANTS n1, n2, m1

EmployeeFile ==
  [table |-> Employees,
   lines |-> <<[key |-> n1, active |-> "", auth_group |-> None, parsed |-> TRUE],
               [key |-> n2, active |-> "false", auth_group |-> "staff", parsed |-> TRUE]>>]

SkippedFile ==
  [table |-> Employees,
   lines |-> <<[key |-> n2, active |-> "true", auth_group |-> "staff", parsed |-> FALSE]>>]

RepeatedFile ==
  [table |-> Employees,
   lines |-> <<[key |-> n1, active |-> "true", auth_group |-> "staff", parsed |-> TRUE],
               [key |-> n1, active |-> "other", auth_group |-> "staff", parsed |-> TRUE]>>]

CompanyFile ==
  [table |-> Companies,
   lines |-> <<[key |-> m1, active |-> "true", auth_group |-> None, parsed |-> FALSE],
               [key |-> m1, active |-> "false", auth_group |-> None, parsed |-> TRUE]>>]

AllFiles == {EmployeeFile, SkippedFile, RepeatedFile, CompanyFile}

Symmetry == Permutations(Employees)
=============================================================================
