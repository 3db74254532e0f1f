---------------------------- MODULE MCCompanyCaps ----------------------------
(* A week of one working day and one day of the weekend. *)
EXTENDS CompanyCaps

CONSTANTS monday, saturday

MCNextDay == [d \in CalendarDays |-> IF d = monday THEN saturday ELSE monday]
==============================================================================
