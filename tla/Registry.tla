------------------------------ MODULE Registry ------------------------------
(***************************************************************************)
(* The participants and the companies themselves: creating, changing and   *)
(* deleting them through the API while a CSV import of either table runs,  *)
(* and the participant list.  Both tables have the same shape: a unique    *)
(* key (employee_number, company_name), an active flag, schedule rows that *)
(* are loaded with the row and go with it, and placements that hold it.    *)
(* Changes and deletes read the row first and write later; whether the     *)
(* database refuses a write to a row changed in between is left open, so   *)
(* any transaction may also be refused.  The session of the import outlives *)
(* its lines, and so do the participants it holds.                         *)
(***************************************************************************)
EXTENDS Integers, Sequences, FiniteSets, SequencesExt

CONSTANTS
  Threads,    \* worker threads of the server
  Employees,  \* ids of participants
  Companies,  \* ids of companies
  Numbers,    \* employee numbers
  Names,      \* company names
  Files,      \* CSV files: the tables they are for and their lines
  MaxChanges, \* bound: committed writes of the API
  None        \* no row, no value

AUTH_GROUPS == {"employee", "staff", "admin"}

Ids == Employees \union Companies

Keys(i) == IF i \in Employees THEN Numbers ELSE Names

Rows(i) == [key : Keys(i), active : BOOLEAN,
            auth_group : IF i \in Employees THEN AUTH_GROUPS ELSE {None}]

(* What a line of a CSV file says.  A line that is not "parsed" lacks a required cell or
   has one that cannot be read. *)
Lines(keys) == [key : keys, active : {"true", "false", "", "other"},
                auth_group : AUTH_GROUPS \union {None}, parsed : BOOLEAN]

ASSUME RegistryAssumption ==
  /\ IsFiniteSet(Employees) /\ IsFiniteSet(Companies)
  /\ Employees \intersect Companies = {} /\ Numbers \intersect Names = {}
  /\ MaxChanges \in Nat
  /\ Files \subseteq [table : {Employees}, lines : Seq(Lines(Numbers))]
                       \union [table : {Companies}, lines : Seq(Lines(Names))]
  /\ None \notin Ids \union Numbers \union Names \union AUTH_GROUPS \union {"true", "other"}
  /\ None \notin BOOLEAN
  /\ \A i \in Ids : None \notin Rows(i)

VARIABLES
  rows,             \* id -> row of employees or companies
  gone,             \* ids that were deleted: ids are not given twice
  slots,            \* ids with a row in part_times, or company_jobs_max
  attendances,      \* participants with a row of today
  job_assignments,  \* placements: <<participant, company>>
  changes,          \* number of writes of the API (see MaxChanges)
  req,              \* the transaction each thread is in
  seen,             \* the row it read, and the rows that refer to it
  file,             \* the CSV file that is imported
  line,             \* the line being imported
  found,            \* the row of that line: not looked up yet, none, or its id and contents
  loaded,           \* participants as the session of the import last read or wrote them
  broken,           \* the session of the import must be rolled back
  report,           \* outcome of each line
  raced             \* history: the line's row, or one with its key, was written meanwhile

tables  == <<rows, gone, slots, attendances, job_assignments>>
session == <<req, seen>>
import  == <<file, line, found, loaded, broken, report, raced>>
vars    == <<tables, changes, session, import>>

(* PUT: a field that is None is not in the body. *)
Requests ==
  [op : {"update"}, id : Ids, key : Numbers \union Names \union {None},
   active : BOOLEAN \union {None}]
    \union [op : {"delete"}, id : Ids]

NoRequest == [op |-> "none"]

NothingSeen == [row |-> None, slots |-> FALSE, placed |-> FALSE]

NotLookedUp == [id |-> None, row |-> NoRequest, stale |-> FALSE]

NothingLoaded == [i \in Employees |-> None]

TypeOK ==
  /\ rows \in [Ids -> (UNION {Rows(i) : i \in Ids}) \union {None}]
  /\ \A i \in Ids : rows[i] \in Rows(i) \union {None}
  /\ gone \subseteq Ids /\ slots \subseteq Ids /\ attendances \subseteq Employees
  /\ job_assignments \subseteq Employees \X Companies
  /\ changes \in 0 .. MaxChanges
  /\ req \in [Threads -> Requests \union {NoRequest}]
  /\ DOMAIN seen = Threads
  /\ file \in Files /\ line \in 1 .. Len(file.lines) + 1
  /\ DOMAIN loaded = Employees /\ \A i \in Employees : loaded[i] \in Rows(i) \union {None}
  /\ broken \in BOOLEAN /\ raced \in BOOLEAN
  /\ report \in [1 .. line - 1 -> {"skipped", "ok", "failed"}]
-----------------------------------------------------------------------------
(* Reads *)

Stored(i) == rows[i] # None

get_by_key(k) == {i \in Ids : Stored(i) /\ rows[i].key = k}

Placements(i) == {p \in job_assignments : i \in {p[1], p[2]}}

(* get_with_company and get_by_name load the schedule rows with the row; the placements
   are loaded when the row is deleted, from the same snapshot. *)
Load(i) == [row |-> rows[i], slots |-> i \in slots, placed |-> Placements(i) # {}]
-----------------------------------------------------------------------------
(* Committed writes *)

KeyFree(i, k) == \A j \in Ids \ {i} : Stored(j) => rows[j].key # k

(* A write of row i under key k concerns the line being imported if it is that line's row
   or has that line's key. *)
ConcernsImport(i, k) ==
  found # NotLookedUp /\ (i = found.id \/ k = file.lines[line].key)

(* Bookkeeping of a write of row i by the API; k is the key it has after or had before. *)
Count(i, k) ==
  /\ changes < MaxChanges /\ changes' = changes + 1
  /\ raced' = (raced \/ ConcernsImport(i, k))

Insert(i, r) ==
  /\ ~Stored(i) /\ i \notin gone /\ KeyFree(i, r.key)
  /\ rows' = [rows EXCEPT ![i] = r]
  /\ UNCHANGED <<gone, slots, attendances, job_assignments>>

(* POST /employees, POST /companies *)
Create(i, r) ==
  /\ Insert(i, r) /\ Count(i, r.key)
  /\ UNCHANGED <<session, file, line, found, loaded, broken, report>>

(* What a body may say of the flag: a JSON boolean (or 0, 1), or text. *)
JsonFlags == {"TRUE", "FALSE", "'true'", "'false'", "'other'", None}

(* Participants: text is read, and refused if it cannot be. *)
parse_bool_from_json(v) ==
  IF v = None THEN None ELSE v \in {"TRUE", "'true'"}

(* Companies: any text is true. *)
bool(v) == IF v = None THEN None ELSE v # "FALSE"

CreateEmployeeRequest(k, g, v) ==
  [key |-> k, active |-> v = None \/ parse_bool_from_json(v), auth_group |-> g]

(* Passed on as it is; the column refuses text. *)
CreateCompanyRequest(k, v) ==
  [key |-> k, active |-> v \in {None, "TRUE"}, auth_group |-> None]

create_employee ==
  \E i \in Employees, k \in Numbers, g \in AUTH_GROUPS, v \in JsonFlags \ {"'other'"} :
    Create(i, CreateEmployeeRequest(k, g, v))

create_company ==
  \E i \in Companies, k \in Names, v \in {"TRUE", "FALSE", None} :
    Create(i, CreateCompanyRequest(k, v))
-----------------------------------------------------------------------------
(* Changes and deletes: read, then write *)

Begin(t, q) ==
  /\ req[t] = NoRequest
  /\ req' = [req EXCEPT ![t] = q]
  /\ seen' = [seen EXCEPT ![t] = Load(q.id)]
  /\ UNCHANGED <<tables, changes, import>>

Update(t, i, k, act) ==
  Stored(i) /\ Begin(t, [op |-> "update", id |-> i, key |-> k, active |-> act])

update_employee(t) ==
  \E i \in Employees, k \in Numbers \union {None}, v \in JsonFlags \ {"'other'"} :
    Update(t, i, k, parse_bool_from_json(v))

update_company(t) ==
  \E i \in Companies, k \in Names \union {None}, v \in JsonFlags :
    Update(t, i, k, bool(v))

(* DELETE without hard *)
deactivate_employee(t) == \E i \in Employees : Update(t, i, None, FALSE)

hard_delete_employee(t) ==
  \E i \in Employees : Stored(i) /\ Begin(t, [op |-> "delete", id |-> i])

delete_company(t) ==
  \E i \in Companies : Stored(i) /\ Begin(t, [op |-> "delete", id |-> i])

Finish(t) ==
  /\ req' = [req EXCEPT ![t] = NoRequest]
  /\ seen' = [seen EXCEPT ![t] = NothingSeen]

(* A column is written only if it is assigned a value that differs from the one read. *)
Column(read, assigned, current) ==
  IF assigned = None \/ assigned = read THEN current ELSE assigned

(* Slip: the row that was read is written back with the changes. *)
WholeRow(q, read, row) ==
  [read EXCEPT !.key = IF q.key = None THEN @ ELSE q.key,
               !.active = IF q.active = None THEN @ ELSE q.active]

Changed(q, read, row) ==
  [row EXCEPT !.key = Column(read.key, q.key, @),
              !.active = Column(read.active, q.active, @)]

CommitUpdate(t) ==
  LET q == req[t] row == rows[q.id]
  IN  /\ q.op = "update" /\ row # None
      /\ LET new == Changed(q, seen[t].row, row)
         IN  /\ KeyFree(q.id, new.key)
             /\ rows' = [rows EXCEPT ![q.id] = new]
             /\ Count(q.id, new.key)
      /\ Finish(t)
      /\ UNCHANGED <<gone, slots, attendances, job_assignments,
                     file, line, found, loaded, broken, report>>

(* Slip: only placements that were read hold a row. *)
UnplacedWhenRead(t) == ~seen[t].placed

(* ON DELETE RESTRICT *)
Unplaced(t) == Placements(req[t].id) = {}

(* The ORM first sets the key to NULL in the referring rows it has loaded, which they do
   not allow.  Rows it has not loaded are left to ON DELETE CASCADE.  The row of another
   transaction's delete is simply not there any more. *)
CommitDelete(t) ==
  LET i == req[t].id
  IN  /\ req[t].op = "delete"
      /\ ~seen[t].slots /\ ~seen[t].placed
      /\ Unplaced(t)
      /\ rows' = [rows EXCEPT ![i] = None]
      /\ gone' = gone \union {i}
      /\ slots' = slots \ {i} /\ attendances' = attendances \ {i}
      /\ Count(i, seen[t].row.key)
      /\ Finish(t)
      /\ UNCHANGED <<job_assignments, file, line, found, loaded, broken, report>>

(* A duplicate key, a referring row, a row that is gone, or a conflict. *)
Refuse(t) ==
  /\ req[t] # NoRequest
  /\ Finish(t)
  /\ UNCHANGED <<tables, changes, import>>
-----------------------------------------------------------------------------
(* Other services' rows, which refer to a stored row or are refused. *)

ReferringRows ==
  /\ changes < MaxChanges /\ changes' = changes + 1
  /\ \/ /\ \E i \in Ids : \/ Stored(i) /\ slots' = slots \union {i}
                          \/ slots' = slots \ {i}
        /\ UNCHANGED <<attendances, job_assignments>>
     \/ /\ \E i \in Employees : Stored(i) /\ attendances' = attendances \union {i}
        /\ UNCHANGED <<slots, job_assignments>>
     \/ /\ \E i \in Employees, c \in Companies :
             \/ Stored(i) /\ Stored(c) /\ job_assignments' = job_assignments \union {<<i, c>>}
             \/ job_assignments' = job_assignments \ {<<i, c>>}
        /\ UNCHANGED <<slots, attendances>>
  /\ UNCHANGED <<rows, gone, session, import>>
-----------------------------------------------------------------------------
(* The CSV import: one session, one commit per line *)

Line == file.lines[line]

(* An empty cell means yes, an unreadable one no. *)
parse_csv_bool(cell) == cell \in {"true", ""}

(* Slip: no cell is stored as it is. *)
ImportedAsIs(i, r) ==
  [key |-> r.key, active |-> parse_csv_bool(r.active),
   auth_group |-> IF i \in Companies THEN None ELSE r.auth_group]

(* No cell means the default of the column when a row is inserted. *)
Imported(i, r) ==
  [key |-> r.key, active |-> parse_csv_bool(r.active),
   auth_group |-> IF i \in Companies THEN None
                  ELSE IF r.auth_group = None THEN "employee" ELSE r.auth_group]

Report(outcome) ==
  /\ report' = Append(report, outcome)
  /\ line' = line + 1 /\ found' = NotLookedUp /\ raced' = FALSE

(* The import of participants reads all cells before it asks the database for anything; the
   import of companies leaves what cannot be read to the database. *)
Skipped == file.table = Employees /\ ~Line.parsed

SkipLine ==
  /\ line <= Len(file.lines) /\ found = NotLookedUp /\ Skipped
  /\ Report("skipped")
  /\ UNCHANGED <<tables, changes, session, file, loaded, broken>>

(* A commit does not expire what the session holds (expire_on_commit=False): as long as an
   earlier line's participant has not been collected as garbage, the query that finds the row
   answers with that object as it is. *)
SessionCopies(i) == {rows[i]} \union (IF i \in Employees THEN {loaded[i]} \ {None} ELSE {})

LookUp ==
  /\ line <= Len(file.lines) /\ found = NotLookedUp /\ ~Skipped /\ ~broken
  /\ \/ /\ get_by_key(Line.key) = {}
        /\ found' = [id |-> None, row |-> None, stale |-> FALSE]
     \/ \E i \in get_by_key(Line.key) : \E copy \in SessionCopies(i) :
          found' = [id |-> i, row |-> copy, stale |-> copy # rows[i]]
  /\ UNCHANGED <<tables, changes, session, file, line, loaded, broken, report, raced>>

(* Slip: the active flag of an existing row is forgotten. *)
TierOnly(i, r, read, row) ==
  [row EXCEPT !.auth_group = IF i \in Companies THEN None
                             ELSE IF r.auth_group = read.auth_group THEN @ ELSE r.auth_group]

(* Slip: the copy the session holds is written back with what the line says. *)
CopyWithLine(i, r, read, row) ==
  [read EXCEPT !.active = parse_csv_bool(r.active),
               !.auth_group = IF i \in Companies THEN None ELSE r.auth_group]

(* Columns of an existing row, which may not be NULL. *)
ImportChanges(i, r, read, row) ==
  [row EXCEPT !.active = Column(read.active, parse_csv_bool(r.active), @),
              !.auth_group = IF i \in Companies THEN None
                             ELSE IF r.auth_group = read.auth_group THEN @ ELSE r.auth_group]

(* There is always something to update, and a row to be found for it: a new salt for the
   password of a participant, cells as text for the numbers of a company. *)
CanUpdate ==
  Stored(found.id) /\ Line.parsed /\ (found.id \in Employees => Line.auth_group # None)

ImportUpdate ==
  /\ CanUpdate
  /\ rows' = [rows EXCEPT ![found.id] = ImportChanges(found.id, Line, found.row, @)]
  /\ loaded' = [i \in Employees |->
                   IF i = found.id THEN ImportChanges(i, Line, found.row, found.row)
                   ELSE loaded[i]]
  /\ UNCHANGED <<gone, slots, attendances, job_assignments>>

ImportInsert(i) ==
  /\ Line.parsed /\ Insert(i, Imported(i, Line))
  /\ loaded' = [j \in Employees |-> IF j = i THEN Imported(i, Line) ELSE loaded[j]]

ImportLine ==
  /\ found # NotLookedUp /\ ~broken
  /\ \/ found.id # None /\ ImportUpdate
     \/ found.id = None /\ \E i \in file.table : ImportInsert(i)
  /\ Report("ok")
  /\ UNCHANGED <<changes, session, file, broken>>

(* A row that is gone, a column that may not be NULL, a cell that is no number, a key that was
   taken meanwhile, or a conflict.  The session refuses everything until it is rolled back,
   the next look-up as well. *)
LineFails ==
  /\ found # NotLookedUp /\ ~broken
  /\ \/ found.id # None /\ ~CanUpdate
     \/ found.id = None /\ (~Line.parsed \/ get_by_key(Line.key) # {})
     \/ raced
  /\ broken' = TRUE
  /\ UNCHANGED <<tables, changes, session, file, line, found, loaded, report, raced>>

(* Slip: the handler counts the failure and goes on. *)
CountOnly ==
  /\ line <= Len(file.lines) /\ ~Skipped /\ broken
  /\ Report("failed")
  /\ UNCHANGED <<tables, changes, session, file, loaded, broken>>

(* A rollback expires all that the session holds. *)
RollbackLine ==
  /\ line <= Len(file.lines) /\ ~Skipped /\ broken
  /\ broken' = FALSE /\ loaded' = NothingLoaded
  /\ Report("failed")
  /\ UNCHANGED <<tables, changes, session, file>>
-----------------------------------------------------------------------------
Init ==
  /\ rows \in [Ids -> (UNION {Rows(i) : i \in Ids}) \union {None}]
  /\ \A i \in Ids : rows[i] \in {r \in Rows(i) : r.active /\ r.auth_group \in {"employee", None}} \union {None}
  /\ \A i \in Ids : Stored(i) => KeyFree(i, rows[i].key)
  /\ gone = {} /\ slots = {} /\ attendances = {} /\ job_assignments = {} /\ changes = 0
  /\ req = [t \in Threads |-> NoRequest] /\ seen = [t \in Threads |-> NothingSeen]
  /\ file \in Files /\ line = 1 /\ found = NotLookedUp /\ loaded = NothingLoaded
  /\ broken = FALSE /\ raced = FALSE /\ report = <<>>

Request(t) ==
  \/ update_employee(t) \/ update_company(t) \/ deactivate_employee(t)
  \/ hard_delete_employee(t) \/ delete_company(t)
  \/ CommitUpdate(t) \/ CommitDelete(t) \/ Refuse(t)

ImportStep == SkipLine \/ LookUp \/ ImportLine \/ LineFails \/ RollbackLine

Next ==
  \/ create_employee \/ create_company
  \/ \E t \in Threads : Request(t)
  \/ ReferringRows \/ ImportStep

Spec == Init /\ [][Next]_vars
-----------------------------------------------------------------------------
(* GET /employees: one transaction *)

Queries == [active : {"true", "other", None}, checked_in : {"true", "other", None},
            auth_group : AUTH_GROUPS \union {None}]

(* A filter that is None is not in the query. *)
ListEmployeesQuery(q) ==
  LET flag(arg) == IF arg = None THEN None ELSE arg = "true"
  IN  [q EXCEPT !.active = flag(@), !.checked_in = flag(@)]

(* Slip: checked_in=false is taken for no filter. *)
FilterIfTrue(f) ==
  {i \in Employees :
     /\ Stored(i)
     /\ f.active # None => rows[i].active = f.active
     /\ f.checked_in = TRUE => i \in attendances
     /\ f.auth_group # None => rows[i].auth_group = f.auth_group}

apply_list_filters(f) ==
  {i \in Employees :
     /\ Stored(i)
     /\ f.active # None => rows[i].active = f.active
     /\ f.checked_in # None => (i \in attendances) = f.checked_in
     /\ f.auth_group # None => rows[i].auth_group = f.auth_group}

(* Outer joins: one row per placement, and one for a participant without. *)
list_with_company(f) ==
  {e \in apply_list_filters(f) \X (Companies \union {None}) :
     IF e[2] = None THEN Placements(e[1]) = {} ELSE e \in job_assignments}

count(f) == Cardinality(apply_list_filters(f))

EmployeeResponse(i, c) ==
  [id |-> i, company |-> c, active |-> rows[i].active, checked_in |-> i \in attendances]

list_employees(q) ==
  LET f == ListEmployeesQuery(q)
  IN  [employees |-> {EmployeeResponse(e[1], e[2]) : e \in list_with_company(f)},
       count |-> count(f)]

(* GET /companies *)
list_with_job_counts(active) ==
  {[id |-> c, jobs |-> Cardinality(Placements(c))] :
     c \in {c \in Companies : Stored(c) /\ (active # None => rows[c].active = active)}}

(* The filters of the lists divide what is listed: an entry is what its list says, whoever is
   on a list is on exactly one of the lists each further filter makes of it, "count" counts
   people, there are more entries than that only where somebody has two placements, and the
   companies together have as many jobs taken as there are placements. *)
ListsAgree ==
  /\ \A q \in Queries :
       LET list == list_employees(q)
           Halves(a, b) ==
             /\ list.count = a.count + b.count
             /\ list.employees = a.employees \union b.employees
       IN  /\ q.active = None =>
                Halves(list_employees([q EXCEPT !.active = "true"]),
                       list_employees([q EXCEPT !.active = "other"]))
           /\ q.checked_in = None =>
                Halves(list_employees([q EXCEPT !.checked_in = "true"]),
                       list_employees([q EXCEPT !.checked_in = "other"]))
           /\ q.auth_group = None =>
                list.employees = UNION {list_employees([q EXCEPT !.auth_group = g]).employees :
                                          g \in AUTH_GROUPS}
           /\ \A e \in list.employees :
                /\ q.active # None => e.active = (q.active = "true")
                /\ q.checked_in # None => e.checked_in = (q.checked_in = "true")
           /\ (\A i \in Employees : Cardinality(Placements(i)) <= 1)
                => Cardinality(list.employees) = list.count
  /\ FoldSet(LAMBDA e, n : e.jobs + n, 0,
             list_with_job_counts(TRUE) \union list_with_job_counts(FALSE))
       = Cardinality(job_assignments)

Deleted(i) == rows[i] # None /\ rows'[i] = None

(* Nobody and no company is deleted under a placement, whenever it was made. *)
PlacementsOutliveDeletes ==
  [][\A i \in Ids : Deleted(i) => Placements(i) = {} /\ Placements(i)' = {}]_vars

(* A PUT leaves the columns it does not name as they are in the database, with what others
   have committed to them since the row was read. *)
UpdatesMerge ==
  [][\A t \in Threads : CommitUpdate(t) =>
       LET q == req[t]
       IN  /\ q.key = None => rows'[q.id].key = rows[q.id].key
           /\ q.active = None => rows'[q.id].active = rows[q.id].active]_vars

(* A line fails for what it says itself, or because somebody else wrote the same row at that
   moment; never because of the lines before it or of what the session remembers of them. *)
LinesAreIndependent ==
  [][report' # report /\ Last(report') = "failed" =>
       raced \/ ~Line.parsed \/ (found.id \in Employees /\ Line.auth_group = None)]_vars

(* A line reported as imported is stored as it is written, unless the row was changed at that
   moment or since an earlier line of the file wrote it, and a line reported otherwise has
   changed nothing. *)
ReportsAreTrue ==
  [][report' # report =>
       IF Last(report') = "ok"
         THEN \E i \in file.table :
                /\ rows'[i] # None
                /\ ~raced /\ ~found.stale => rows'[i] = Imported(i, Line)
         ELSE rows' = rows]_vars

(* What a line writes into a row that exists is what the line says.  A number or a flag that
   somebody changed since the session of the import read it is never put back: a participant
   who was renamed after an earlier line of the file keeps the new number. *)
LinesWriteTheirCells ==
  [][report' # report => \A i \in Ids : Stored(i) =>
       /\ rows'[i].key = rows[i].key
       /\ rows'[i].active \in {rows[i].active, parse_csv_bool(Line.active)}
       /\ rows'[i].auth_group \in {rows[i].auth_group, Line.auth_group}]_vars
=============================================================================
