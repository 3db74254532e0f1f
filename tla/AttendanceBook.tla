--------------------------- MODULE AttendanceBook ---------------------------
(***************************************************************************)
(* What attendance promises, without transactions or clocks read twice: a  *)
(* book in which a participant arrives at most once a day, may leave that  *)
(* day once, and from which nothing is ever erased or rewritten.           *)
(***************************************************************************)
EXTENDS Integers

CONSTANTS
  Employees,  \* camp participants
  DayOf(_)    \* the camp date of an instant

VARIABLES
  arrivals,   \* set of [employee, day, at]
  departures  \* set of [employee, day, at]

Init == arrivals = {} /\ departures = {}

(* The request may have begun the day before its instant: midnight is a race. *)
Arrive(a) ==
  /\ \A b \in arrivals : ~(b.employee = a.employee /\ b.day = a.day)
  /\ a.day <= DayOf(a.at)
  /\ arrivals' = arrivals \union {a}
  /\ UNCHANGED departures

Leave(d) ==
  /\ \E a \in arrivals : a.employee = d.employee /\ a.day = d.day /\ a.at <= d.at
  /\ \A b \in departures : ~(b.employee = d.employee /\ b.day = d.day)
  /\ departures' = departures \union {d}
  /\ UNCHANGED arrivals

Next ==
  \/ \E a \in arrivals' \ arrivals : Arrive(a)
  \/ \E d \in departures' \ departures : Leave(d)

Spec == Init /\ [][Next]_<<arrivals, departures>>
=============================================================================
