-------------------------- MODULE AssignmentBoard --------------------------
(***************************************************************************)
(* What LA-Server promises about job placements, with no sessions, locks   *)
(* or snapshots: a board of current placements and an append-only record   *)
(* of the ended ones.  A placement enters the board in one step and leaves *)
(* it in the very step that records its end.  JobAssignments implements    *)
(* this module when the database detects stale reads.                      *)
(***************************************************************************)

CONSTANTS
  Ids,        \* primary keys of placements
  Employees,  \* camp participants
  Companies,
  Enders      \* who may end a placement, so that two records stay apart

VARIABLES
  jobs,       \* current placements
  history     \* records of the ended placements

Rows == [id : Ids, employee : Employees, company : Companies]

Reasons == {"deleted", "reset_company", "reset_all"}

Records == [job : Rows, reason : Reasons, by : Enders]

Init == jobs = {} /\ history = {}

(* A key is never used twice and no participant holds two placements at one company. *)
Assign(row) ==
  /\ \A h \in history : h.job.id # row.id
  /\ \A r \in jobs : /\ r.id # row.id
                     /\ <<r.employee, r.company>> # <<row.employee, row.company>>
  /\ jobs' = jobs \union {row}
  /\ UNCHANGED history

(* What one request may end: one placement, all at a company, or all. *)
EndsTogether(ended, reason) ==
  CASE reason = "deleted"       -> \E r \in jobs : ended = {r}
    [] reason = "reset_company" -> \E c \in Companies : ended = {r \in jobs : r.company = c}
    [] reason = "reset_all"     -> ended = jobs

End(ended, reason, by) ==
  /\ EndsTogether(ended, reason)
  /\ jobs' = jobs \ ended
  /\ history' = history \union {[job |-> r, reason |-> reason, by |-> by] : r \in ended}

Next ==
  \/ \E row \in Rows : Assign(row)
  \/ \E ended \in SUBSET jobs, reason \in Reasons, by \in Enders : End(ended, reason, by)

Spec == Init /\ [][Next]_<<jobs, history>>
=============================================================================
