----------------------------- MODULE Attendance -----------------------------
(***************************************************************************)
(* Check-in and check-out as concurrent transactions under a moving clock. *)
(* A request reads the participant (which opens its snapshot), then the    *)
(* camp date, then the instant it will store, each at its own time, and    *)
(* then writes; two requests meet at the row of a participant and a day.   *)
(* The lists, the history of a participant and the gate that placements    *)
(* look at are functions of the committed rows and the clock.              *)
(***************************************************************************)
EXTENDS Integers, FiniteSets

CONSTANTS
  Threads,     \* waitress worker threads
  Employees,   \* camp participants (rows of employees)
  DayLength,   \* instants from one midnight of the camp's zone to the next
  WeekLength,  \* camp days of an ISO week (7)
  None,        \* SQL NULL, and no answer yet
  MaxTime,     \* bound: the clock stops here
  MaxChanges   \* bound: changes of participants and of village.ini's switches

ASSUME AttendanceAssumption ==
  /\ DayLength \in Nat \ {0} /\ WeekLength \in Nat \ {0}
  /\ MaxTime \in Nat /\ MaxChanges \in Nat
  /\ None \notin Nat /\ \A e \in Employees : e # None

VARIABLES
  now,          \* the clock
  attendances,  \* committed rows of attendances
  active,       \* participants whose active column is true
  group,        \* auth_group of each participant's login row; None without a row
  required,     \* the tiers for which village.ini requires attendance
  changes,      \* number of changes so far (see MaxChanges)
  pc,           \* where each thread's request stands
  req,          \* the request each thread is serving
  camp_date,    \* local: the camp date it read
  stamp,        \* local: the instant it read
  known,        \* check-out: the participant's rows in its snapshot
  written,      \* its uncommitted row
  answer        \* the 2xx answer a thread's last request gave, until the next begins

rows    == <<now, attendances>>
camp    == <<active, group, required, changes>>
session == <<pc, req, camp_date, stamp, known, written>>
vars    == <<rows, camp, session, answer>>

DayOf(i) == i \div DayLength
WeekOf(d) == d \div WeekLength

camp_today == DayOf(now)

Rows == [employee : Employees, day : Nat, in : Nat, out : Nat \union {None}]

Requests == [op : {"check_in", "check_out"}, employee : Employees]

NoRequest == [op |-> "none"]

TypeOK ==
  /\ now \in Nat /\ attendances \subseteq Rows
  /\ active \subseteq Employees
  /\ group \in [Employees -> {"employee", "staff", "admin", None}]
  /\ required \subseteq {"kids", "staff"} /\ changes \in Nat
  /\ pc \in [Threads -> {"idle", "found", "dated", "stamped", "written"}]
  /\ req \in [Threads -> Requests \union {NoRequest}]
  /\ camp_date \in [Threads -> Nat] /\ stamp \in [Threads -> Nat]
  /\ known \in [Threads -> SUBSET Rows] /\ written \in [Threads -> SUBSET Rows]
  /\ answer \in [Threads -> Rows \union {None}]
-----------------------------------------------------------------------------
(* The reads *)

Of(S, e) == {r \in S : r.employee = e}
On(S, d) == {r \in S : r.day = d}

(* Slip: who has left counts as not checked in. *)
CheckedInAndPresent(e, d) == \E r \in On(Of(attendances, e), d) : r.out = None

(* Check-out is ignored: a row is enough. *)
has_checkin_for_date(e, d) == On(Of(attendances, e), d) # {}

auth_group_for(e) == IF group[e] = None THEN "employee" ELSE group[e]

participant_requires_attendance(e) ==
  IF auth_group_for(e) \in {"staff", "admin"} THEN "staff" \in required ELSE "kids" \in required

(* What create and delete of a placement look at. *)
GateOpen(e) == participant_requires_attendance(e) => has_checkin_for_date(e, camp_today)

(* Slip: the week that began on the last day of the ISO week. *)
resolve_from_sunday(d) == camp_today - ((camp_today + 1) % WeekLength) + d

(* The d-th day of the ISO week that contains camp today. *)
resolve_attendance_workday(d) == camp_today - (camp_today % WeekLength) + d

Weekdays == 0 .. WeekLength - 1

list_checkouts_by_camp_date(d) == {r \in On(attendances, d) : r.out # None}

(* The day is in the header of the list, not in its entries. *)
ListEntry(r) == [employee |-> r.employee, in |-> r.in, out |-> r.out]

list_check_ins(d) ==
  LET day == resolve_attendance_workday(d)
  IN  [camp_date |-> day, entries |-> {ListEntry(r) : r \in On(attendances, day)}]

list_check_outs(d) ==
  LET day == resolve_attendance_workday(d)
  IN  [camp_date |-> day, entries |-> {ListEntry(r) : r \in list_checkouts_by_camp_date(day)}]

RowResponse(r) == [camp_date |-> r.day, in |-> r.in, out |-> r.out]

(* Without a day the whole history, with one the row of that day. *)
list_attendance(e, days) ==
  {RowResponse(r) : r \in
     IF days = {} THEN Of(attendances, e)
     ELSE {s \in Of(attendances, e) :
             \E d \in days : s.day = resolve_attendance_workday(d)}}

-----------------------------------------------------------------------------
Finish(t) ==
  /\ pc' = [pc EXCEPT ![t] = "idle"] /\ req' = [req EXCEPT ![t] = NoRequest]
  /\ camp_date' = [camp_date EXCEPT ![t] = 0] /\ stamp' = [stamp EXCEPT ![t] = 0]
  /\ known' = [known EXCEPT ![t] = {}] /\ written' = [written EXCEPT ![t] = {}]

(* 404, 400 or 409, or a connection that is lost: the session rolls back. *)
Refuse(t) == Finish(t) /\ UNCHANGED <<rows, camp, answer>>

(* The employee row is read and active is checked. *)
BeginCheckIn(t, e) ==
  /\ pc[t] = "idle"
  /\ e \in active
  /\ pc' = [pc EXCEPT ![t] = "found"]
  /\ req' = [req EXCEPT ![t] = [op |-> "check_in", employee |-> e]]
  /\ answer' = [answer EXCEPT ![t] = None]
  /\ UNCHANGED <<rows, camp, camp_date, stamp, known, written>>

(* Active is not checked: who was deactivated may leave. *)
BeginCheckOut(t, e) ==
  /\ pc[t] = "idle"
  /\ pc' = [pc EXCEPT ![t] = "found"]
  /\ req' = [req EXCEPT ![t] = [op |-> "check_out", employee |-> e]]
  /\ known' = [known EXCEPT ![t] = Of(attendances, e)]
  /\ answer' = [answer EXCEPT ![t] = None]
  /\ UNCHANGED <<rows, camp, camp_date, stamp, written>>

(* camp_today(), and in a check-out the SELECT of that day's row, from the snapshot. *)
ReadDate(t) ==
  /\ pc[t] = "found"
  /\ IF req[t].op = "check_out" /\ On(known[t], camp_today) = {}
       THEN Refuse(t)
       ELSE /\ camp_date' = [camp_date EXCEPT ![t] = camp_today]
            /\ known' = [known EXCEPT ![t] = On(known[t], camp_today)]
            /\ pc' = [pc EXCEPT ![t] = "dated"]
            /\ UNCHANGED <<rows, camp, req, stamp, written, answer>>

(* Slip: the instant is left to a column that has no default. *)
ReadNoStamp(t) ==
  /\ pc[t] = "dated"
  /\ stamp' = [stamp EXCEPT ![t] = None]
  /\ pc' = [pc EXCEPT ![t] = "stamped"]
  /\ UNCHANGED <<rows, camp, req, camp_date, known, written, answer>>

(* utc_now(), before the write that may have to wait for a lock. *)
ReadStamp(t) ==
  /\ pc[t] = "dated"
  /\ stamp' = [stamp EXCEPT ![t] = now]
  /\ pc' = [pc EXCEPT ![t] = "stamped"]
  /\ UNCHANGED <<rows, camp, req, camp_date, known, written, answer>>

RowLocked(t) ==
  \E u \in Threads \ {t} : On(Of(written[u], req[t].employee), camp_date[t]) # {}

Existing(t) == On(Of(attendances, req[t].employee), camp_date[t])

(* Slip: no unique key over participant and day. *)
InsertAgain(t) ==
  /\ pc[t] = "stamped" /\ req[t].op = "check_in" /\ ~RowLocked(t)
  /\ written' = [written EXCEPT ![t] =
       {[employee |-> req[t].employee, day |-> camp_date[t], in |-> stamp[t], out |-> None]}]
  /\ pc' = [pc EXCEPT ![t] = "written"]
  /\ UNCHANGED <<rows, camp, req, camp_date, stamp, known, answer>>

(* The unique key over participant and day waits for an uncommitted row, and refuses a
   committed one. *)
InsertRow(t) ==
  /\ pc[t] = "stamped" /\ req[t].op = "check_in" /\ ~RowLocked(t)
  /\ IF Existing(t) # {}
       THEN Refuse(t)
       ELSE /\ written' = [written EXCEPT ![t] =
                 {[employee |-> req[t].employee, day |-> camp_date[t],
                   in |-> stamp[t], out |-> None]}]
            /\ pc' = [pc EXCEPT ![t] = "written"]
            /\ UNCHANGED <<rows, camp, req, camp_date, stamp, known, answer>>

(* Slip: the condition on the old value is left out. *)
UpdateAnyRow(t) ==
  /\ pc[t] = "stamped" /\ req[t].op = "check_out" /\ ~RowLocked(t)
  /\ written' = [written EXCEPT ![t] = {[r EXCEPT !.out = stamp[t]] : r \in Existing(t)}]
  /\ pc' = [pc EXCEPT ![t] = "written"]
  /\ UNCHANGED <<rows, camp, req, camp_date, stamp, known, answer>>

(* Slip: the row count is not looked at, and the request goes on. *)
UpdateUnchecked(t) ==
  /\ pc[t] = "stamped" /\ req[t].op = "check_out" /\ ~RowLocked(t)
  /\ written' = [written EXCEPT ![t] =
       {[r EXCEPT !.out = stamp[t]] : r \in {s \in Existing(t) : s.out = None}}]
  /\ pc' = [pc EXCEPT ![t] = "written"]
  /\ UNCHANGED <<rows, camp, req, camp_date, stamp, known, answer>>

(* UPDATE ... WHERE checkout_at IS NULL, on the current row; no row is a 409, as is the
   stale read that a database with snapshot isolation reports in the same case. *)
UpdateRow(t) ==
  /\ pc[t] = "stamped" /\ req[t].op = "check_out" /\ ~RowLocked(t)
  /\ IF \A r \in Existing(t) : r.out # None
       THEN Refuse(t)
       ELSE /\ written' = [written EXCEPT ![t] =
                 {[r EXCEPT !.out = stamp[t]] : r \in Existing(t)}]
            /\ pc' = [pc EXCEPT ![t] = "written"]
            /\ UNCHANGED <<rows, camp, req, camp_date, stamp, known, answer>>

(* A check-in answers the row it flushed.  A check-out answers the row it read, with the
   instant it meant to store in it. *)
Answer(t) ==
  IF req[t].op = "check_in" THEN CHOOSE r \in written[t] : TRUE
  ELSE [CHOOSE r \in known[t] : TRUE EXCEPT !.out = stamp[t]]

Commit(t) ==
  /\ pc[t] = "written"
  /\ attendances' =
       {r \in attendances : \A w \in written[t] : ~(w.employee = r.employee /\ w.day = r.day)}
         \union written[t]
  /\ answer' = [answer EXCEPT ![t] = Answer(t)]
  /\ Finish(t)
  /\ UNCHANGED <<now, camp>>

Rollback(t) == pc[t] # "idle" /\ Refuse(t)
-----------------------------------------------------------------------------
Tick == now < MaxTime /\ now' = now + 1 /\ UNCHANGED <<attendances, camp, session, answer>>

Change == changes < MaxChanges /\ changes' = changes + 1 /\ UNCHANGED <<rows, session, answer>>

(* An update of the employees row waits for an insert that references it. *)
UpdateEmployee(e) ==
  /\ \A t \in Threads : req[t].op = "check_in" => Of(written[t], e) = {}
  /\ active' \in {active \ {e}, active \union {e}}
  /\ UNCHANGED <<group, required>>
  /\ Change

SetGroup(e, g) == group' = [group EXCEPT ![e] = g] /\ UNCHANGED <<active, required>> /\ Change

EditSwitches(S) == required' = S /\ UNCHANGED <<active, group>> /\ Change
-----------------------------------------------------------------------------
Init ==
  /\ now = 0 /\ attendances = {}
  /\ active = Employees /\ group \in [Employees -> {"staff", None}]
  /\ required = {"kids"} /\ changes = 0
  /\ pc = [t \in Threads |-> "idle"] /\ req = [t \in Threads |-> NoRequest]
  /\ camp_date = [t \in Threads |-> 0] /\ stamp = [t \in Threads |-> 0]
  /\ known = [t \in Threads |-> {}] /\ written = [t \in Threads |-> {}]
  /\ answer = [t \in Threads |-> None]

Request(t) ==
  \/ \E e \in Employees : BeginCheckIn(t, e) \/ BeginCheckOut(t, e)
  \/ ReadDate(t) \/ ReadStamp(t) \/ InsertRow(t) \/ UpdateRow(t) \/ Commit(t) \/ Rollback(t)

Environment ==
  \/ Tick
  \/ \E e \in Employees : UpdateEmployee(e)
  \/ \E e \in Employees, g \in {"employee", "staff"} : SetGroup(e, g)
  \/ \E S \in SUBSET {"kids", "staff"} : EditSwitches(S)

Next == (\E t \in Threads : Request(t)) \/ Environment

Spec == Init /\ [][Next]_vars
-----------------------------------------------------------------------------
arrivals == {[employee |-> r.employee, day |-> r.day, at |-> r.in] : r \in attendances}

departures ==
  {[employee |-> r.employee, day |-> r.day, at |-> r.out] :
      r \in {s \in attendances : s.out # None}}

Book == INSTANCE AttendanceBook

(* Whatever requests race for a participant's day, and whenever midnight falls, the table
   is a book: one arrival a day, at most one departure after it, nothing rewritten. *)
ImplementsBook == Book!Spec

(* A scan that was answered with success is in the table as it was answered, although a
   check-out's answer is put together from the row its snapshot held. *)
AnswersAreStored ==
  [][\A t \in Threads : answer'[t] # answer[t] /\ answer'[t] # None =>
        answer'[t] \in attendances']_vars

(* Two staff members who scan one badge at once do not both succeed: of two answers for
   one participant and day, one is the arrival and the other the departure. *)
OneSuccessPerScan ==
  \A t, u \in Threads :
     /\ t # u /\ answer[t] # None /\ answer[u] # None
     /\ answer[t].employee = answer[u].employee /\ answer[t].day = answer[u].day
     => (answer[t].out = None) # (answer[u].out = None)

(* The lists are three views of one table: a row of the current ISO week is listed under
   exactly one weekday and a row of another week under none, the check-outs are the
   check-ins with a departure, and a participant's history says the same of each day. *)
ListsAgree ==
  /\ \A r \in attendances :
        Cardinality({d \in Weekdays :
                       /\ list_check_ins(d).camp_date = r.day
                       /\ ListEntry(r) \in list_check_ins(d).entries})
          = IF WeekOf(r.day) = WeekOf(camp_today) THEN 1 ELSE 0
  /\ \A d \in Weekdays : \A e \in Employees :
        list_attendance(e, {d}) =
          {[camp_date |-> list_check_ins(d).camp_date, in |-> x.in, out |-> x.out] :
              x \in {y \in list_check_ins(d).entries : y.employee = e}}
  /\ \A d \in Weekdays :
        list_check_outs(d).entries = {x \in list_check_ins(d).entries : x.out # None}
  /\ \A e \in Employees :
        has_checkin_for_date(e, camp_today) =>
          \E d \in Weekdays : list_attendance(e, {d}) \intersect list_attendance(e, {}) # {}

(* Who may take or leave a job may do so for the rest of the camp day, after a check-out
   too: only midnight, another tier or another switch closes the gate. *)
GateOutlivesCheckOut ==
  [][\A e \in Employees :
        GateOpen(e) /\ ~GateOpen(e)' =>
          camp_today' # camp_today \/ group'[e] # group[e] \/ required' # required]_vars
-----------------------------------------------------------------------------
(* What the proofs need besides. *)
SameKey(r, s) == r.employee = s.employee /\ r.day = s.day

OneRowPerDay == \A r, s \in attendances : SameKey(r, s) => r = s

(* A row's day is not after its arrival, nor the arrival after the departure or now. *)
RowsInOrder ==
  \A r \in attendances :
     /\ r.day <= DayOf(r.in) /\ r.in <= now
     /\ r.out # None => r.in <= r.out

(* What a request has read: the date before the instant, both in the past, and in a
   check-out one row of its participant that is still there, checked out or not. *)
ReadsInv ==
  \A t \in Threads :
    /\ pc[t] # "idle" => req[t] \in Requests
    /\ pc[t] = "idle" => known[t] = {}
    /\ pc[t] \in {"dated", "stamped", "written"} => camp_date[t] <= camp_today
    /\ pc[t] \in {"stamped", "written"} =>
         stamp[t] <= now /\ camp_date[t] <= DayOf(stamp[t])
    /\ \A r \in known[t] :
         /\ r.employee = req[t].employee /\ r.in <= now
         /\ \E s \in attendances : SameKey(r, s) /\ r.in = s.in
    /\ \A r, s \in known[t] : SameKey(r, s) => r = s
    /\ pc[t] \in {"dated", "stamped", "written"} /\ req[t].op = "check_out" =>
         known[t] # {} /\ \A r \in known[t] : r.day = camp_date[t]
    /\ pc[t] \in {"stamped", "written"} => \A r \in known[t] : r.in <= stamp[t]

(* An uncommitted row of a check-in is new, a check-out's is the committed row, not
   checked out, with the departure filled in. *)
Fits(t, w) ==
  /\ w.employee = req[t].employee /\ w.day = camp_date[t]
  /\ req[t].op = "check_in" =>
       /\ w.in = stamp[t] /\ w.out = None
       /\ \A r \in attendances : ~SameKey(r, w)
  /\ req[t].op = "check_out" =>
       \E r \in attendances : r.out = None /\ w = [r EXCEPT !.out = stamp[t]]

(* An uncommitted row is alone with its key. *)
WrittenInv ==
  \A t \in Threads :
    /\ pc[t] # "written" => written[t] = {}
    /\ pc[t] = "written" => \E w \in written[t] : written[t] = {w} /\ Fits(t, w)
    /\ \A u \in Threads \ {t} : \A v \in written[t], w \in written[u] : ~SameKey(v, w)

(* An answered arrival stays in the table, with or without a departure by now; an
   answered departure stays as it is. *)
AnswersStay ==
  \A t \in Threads : answer[t] # None =>
     \E r \in attendances :
        SameKey(r, answer[t]) /\ (answer[t].out # None => r.out # None)

Inv ==
  /\ TypeOK /\ OneRowPerDay /\ RowsInOrder /\ ReadsInv /\ WrittenInv
  /\ AnswersStay /\ OneSuccessPerScan
=============================================================================
