--------------------------- MODULE JobAssignments ---------------------------
(***************************************************************************)
(* The job-assignment service as concurrent requests.  Worker threads run  *)
(* one request each, a request is one database transaction, and an action  *)
(* is one statement of it (or several reads answered by one snapshot).     *)
(* The database is InnoDB at REPEATABLE READ: a plain SELECT reads the     *)
(* snapshot taken at the transaction's first plain SELECT, while SELECT    *)
(* FOR UPDATE, INSERT and DELETE act on current rows and hold locks until  *)
(* commit or rollback.                                                     *)
(***************************************************************************)
EXTENDS Integers, FiniteSets

CONSTANTS
  Threads,            \* waitress worker threads
  Employees,          \* camp participants (rows of employees)
  Companies,          \* rows of companies
  Caps,               \* job caps a company or a schedule row may be given
  NoSlot,             \* no company_jobs_max row applies now
  Exempt,             \* participants that village.ini frees from the check-in gate
  MaxId,              \* bound: job_assignments rows ever inserted
  MaxChanges,         \* bound: company, schedule, participant and attendance changes
  SnapshotIsolation   \* innodb_snapshot_isolation: a stale locking access is errno 1020

ASSUME ConstantsAssumption ==
  /\ Caps \subseteq Nat /\ NoSlot \notin Nat
  /\ Exempt \subseteq Employees
  /\ MaxId \in Nat /\ MaxChanges \in Nat
  /\ SnapshotIsolation \in BOOLEAN

VARIABLES
  jobs,       \* committed rows of job_assignments
  history,    \* committed rows of job_assignment_history, each with its writer
  nextId,     \* AUTO_INCREMENT of job_assignments; not undone by a rollback
  activeCompanies,  \* companies whose active column is true
  activeEmployees,  \* participants whose active column is true
  jobsMax,    \* companies.jobs_max
  slotMax,    \* jobs_max of the schedule row the camp clock selects, or NoSlot
  cleared,    \* participants the check-in gate lets through now
  changes,    \* number of changes so far (see MaxChanges)
  pc,         \* where each thread's transaction stands
  req,        \* the request each thread is serving
  admitted,   \* create: the cap read by the capacity check
  inserted,   \* create: its uncommitted row
  archived,   \* delete, reset: rows read and copied to uncommitted history
  removed     \* delete, reset: rows deleted and locked, not committed

stored  == <<jobs, history, nextId>>
camp    == <<activeCompanies, activeEmployees, jobsMax, slotMax, cleared, changes>>
session == <<pc, req, admitted, inserted, archived, removed>>
vars    == <<stored, camp, session>>

Ids == 1 .. MaxId

Board == INSTANCE AssignmentBoard WITH Enders <- Threads

Rows == [id : Ids, employee : Employees, company : Companies]

Records == [job : Rows, reason : {"deleted", "reset_company", "reset_all"}, by : Threads]

NoRequest == [op |-> "none"]

CreateRequests == [op : {"create"}, employee : Employees, company : Companies]

RemoveRequests ==
  [op : {"delete"}, id : Ids] \union [op : {"reset_company"}, company : Companies]
    \union [op : {"reset_all"}]

Requests == CreateRequests \union RemoveRequests

States == {"idle", "locking", "checking", "inserting", "inserted", "archived", "removed"}

TypeOK ==
  /\ jobs \subseteq Rows /\ history \subseteq Records
  /\ nextId \in Nat \ {0}
  /\ activeCompanies \subseteq Companies /\ activeEmployees \subseteq Employees
  /\ jobsMax \in [Companies -> Nat] /\ slotMax \in [Companies -> Nat \union {NoSlot}]
  /\ cleared \subseteq Employees /\ changes \in Nat
  /\ pc \in [Threads -> States] /\ req \in [Threads -> Requests \union {NoRequest}]
  /\ admitted \in [Threads -> Nat]
  /\ inserted \in [Threads -> SUBSET Rows]
  /\ archived \in [Threads -> SUBSET Rows] /\ removed \in [Threads -> SUBSET Rows]
-----------------------------------------------------------------------------
JobsAt(c) == {r \in jobs : r.company = c}

EffectiveMax(c) == IF slotMax[c] = NoSlot THEN jobsMax[c] ELSE slotMax[c]

(* The rows the request's DELETE statement ranges over. *)
Covers(q, row) ==
  \/ q.op = "delete" /\ row.id = q.id
  \/ q.op = "reset_company" /\ row.company = q.company
  \/ q.op = "reset_all"

InScope(t) == {r \in jobs : Covers(req[t], r)}

(* Slip: the name of the operation is recorded, not the documented reason. *)
OperationAsReason(q) == q.op

EndReason(q) == IF q.op = "delete" THEN "deleted" ELSE q.op

(* Row lock taken by SELECT company FOR UPDATE. *)
LocksCompany(t, c) ==
  /\ pc[t] \in {"checking", "inserting", "inserted"}
  /\ req[t].company = c

(* Slip: get_by_name instead of get_by_name_with_lock. *)
CompanyFreeWithoutLock(c) == TRUE

CompanyFree(c) == \A t \in Threads : ~LocksCompany(t, c)

(* Shared lock on the parent row, taken by the foreign-key check of an insert. *)
ReferencesEmployee(t, e) == \E r \in inserted[t] : r.employee = e

(* Slip: a session that is closed without a rollback keeps its row locks. *)
FinishKeepingLocks(t) ==
  /\ pc' = [pc EXCEPT ![t] = "idle"]
  /\ req' = [req EXCEPT ![t] = NoRequest]
  /\ admitted' = [admitted EXCEPT ![t] = 0]
  /\ archived' = [archived EXCEPT ![t] = {}]
  /\ removed' = [removed EXCEPT ![t] = {}]
  /\ UNCHANGED inserted

Finish(t) ==
  /\ pc' = [pc EXCEPT ![t] = "idle"]
  /\ req' = [req EXCEPT ![t] = NoRequest]
  /\ admitted' = [admitted EXCEPT ![t] = 0]
  /\ inserted' = [inserted EXCEPT ![t] = {}]
  /\ archived' = [archived EXCEPT ![t] = {}]
  /\ removed' = [removed EXCEPT ![t] = {}]

(* An exception leaves the route's "with g.db.begin()": the session rolls back, and its
   locks and uncommitted rows go with it. *)
Refuse(t) == Finish(t) /\ UNCHANGED <<stored, camp>>
-----------------------------------------------------------------------------
(* create_assignment *)

BeginCreate(t, e, c) ==
  /\ pc[t] = "idle"
  /\ pc' = [pc EXCEPT ![t] = "locking"]
  /\ req' = [req EXCEPT ![t] = [op |-> "create", employee |-> e, company |-> c]]
  /\ UNCHANGED <<stored, camp, admitted, inserted, archived, removed>>

(* get_by_name_with_lock; the locking read sees the current active column. *)
LockCompany(t) ==
  /\ pc[t] = "locking"
  /\ CompanyFree(req[t].company)
  /\ IF req[t].company \in activeCompanies
       THEN /\ pc' = [pc EXCEPT ![t] = "checking"]
            /\ UNCHANGED <<stored, camp, req, admitted, inserted, archived, removed>>
       ELSE Refuse(t)

(* Slip: the capacity comparison off by one. *)
MayAssignOneTooMany(e, c) ==
  /\ e \in activeEmployees
  /\ e \in cleared
  /\ \A r \in jobs : r.employee # e
  /\ Cardinality(JobsAt(c)) <= EffectiveMax(c)

(* The participant, the check-in gate, the one-job rule and the capacity, all
   read from the snapshot that the first plain SELECT opens under the lock. *)
MayAssign(e, c) ==
  /\ e \in activeEmployees
  /\ e \in cleared
  /\ \A r \in jobs : r.employee # e
  /\ Cardinality(JobsAt(c)) < EffectiveMax(c)

CheckAssignment(t) ==
  /\ pc[t] = "checking"
  /\ IF MayAssign(req[t].employee, req[t].company)
       THEN /\ pc' = [pc EXCEPT ![t] = "inserting"]
            /\ admitted' = [admitted EXCEPT ![t] = EffectiveMax(req[t].company)]
            /\ UNCHANGED <<stored, camp, req, inserted, archived, removed>>
       ELSE Refuse(t)

(* A reset that has deleted keeps the gaps of its range locked. *)
RangeLocked(t, c) ==
  \E u \in Threads \ {t} :
     /\ pc[u] = "removed"
     /\ \/ req[u].op = "reset_all"
        \/ req[u].op = "reset_company" /\ req[u].company = c

(* The insert fails once the primary keys are used up (MaxId). *)
InsertAssignment(t) ==
  /\ pc[t] = "inserting"
  /\ ~RangeLocked(t, req[t].company)
  /\ IF nextId \in Ids
       THEN /\ inserted' = [inserted EXCEPT ![t] =
                 {[id |-> nextId, employee |-> req[t].employee, company |-> req[t].company]}]
            /\ nextId' = nextId + 1
            /\ pc' = [pc EXCEPT ![t] = "inserted"]
            /\ UNCHANGED <<jobs, history, camp, req, admitted, archived, removed>>
       ELSE Refuse(t)

CommitCreate(t) ==
  /\ pc[t] = "inserted"
  /\ jobs' = jobs \union inserted[t]
  /\ Finish(t)
  /\ UNCHANGED <<history, nextId, camp>>
-----------------------------------------------------------------------------
(* delete_assignment, delete_assignment_by_employee_number, reset_assignments *)

(* The reads and the archive inserts: one snapshot answers all the reads, and the
   new history rows stay invisible until commit.  Covers every row of the scope. *)
Archive(t, q) ==
  /\ pc' = [pc EXCEPT ![t] = "archived"]
  /\ req' = [req EXCEPT ![t] = q]
  /\ archived' = [archived EXCEPT ![t] = {r \in jobs : Covers(q, r)}]
  /\ UNCHANGED <<stored, camp, admitted, inserted, removed>>

(* A missing row or a closed gate answers at once and changes nothing. *)
BeginDelete(t, row) ==
  /\ pc[t] = "idle"
  /\ row \in jobs
  /\ row.employee \in cleared
  /\ Archive(t, [op |-> "delete", id |-> row.id])

(* The staff fallback looks the row up by participant: any one of them (.first()). *)
BeginDeleteByEmployee(t, e) ==
  \E row \in jobs : row.employee = e /\ BeginDelete(t, row)

BeginResetCompany(t, c) ==
  /\ pc[t] = "idle"
  /\ Archive(t, [op |-> "reset_company", company |-> c])

BeginResetAll(t) ==
  /\ pc[t] = "idle"
  /\ Archive(t, [op |-> "reset_all"])

(* Another transaction holds a row of the scope: deleted it or inserted it. *)
ScopeBusy(t) ==
  \E u \in Threads \ {t} : \E r \in inserted[u] \union removed[u] : Covers(req[t], r)

(* Slip: only deleted rows count as stale, new ones in the range do not. *)
StaleOnlyIfDeleted(t) == archived[t] \ jobs # {}

(* Slip: only new rows count as stale, deleted ones are skipped. *)
StaleOnlyIfNew(t) == InScope(t) \ archived[t] # {}

(* Rows of the scope committed or deleted since the snapshot. *)
Stale(t) == InScope(t) # archived[t]

HistoryOf(t) ==
  {[job |-> r, reason |-> EndReason(req[t]), by |-> t] : r \in archived[t]}

(* The DELETE statement may run: no lock in its range, no stale read to report. *)
DeleteGranted(t) ==
  /\ pc[t] = "archived"
  /\ ~ScopeBusy(t)
  /\ ~(SnapshotIsolation /\ Stale(t))

(* errno 1020: "record has changed since last read", answered with 409 and a rollback. *)
DeleteConflicts(t) ==
  /\ pc[t] = "archived"
  /\ ~ScopeBusy(t)
  /\ SnapshotIsolation /\ Stale(t)
  /\ Refuse(t)

(* Slip: the row count of the single delete is not looked at. *)
MissUnnoticed(t) ==
  /\ DeleteGranted(t)
  /\ req[t].op = "delete" /\ InScope(t) = {}
  /\ history' = history \union HistoryOf(t)
  /\ Finish(t)
  /\ UNCHANGED <<jobs, nextId, camp>>

(* A single delete that matches no row is a 404, and its history row is rolled back. *)
DeleteMisses(t) ==
  /\ DeleteGranted(t)
  /\ req[t].op = "delete" /\ InScope(t) = {}
  /\ Refuse(t)

(* Slip: the rows read are deleted one by one instead of the whole range. *)
RemoveRowsRead(t) ==
  /\ DeleteGranted(t)
  /\ req[t].op = "delete" => InScope(t) # {}
  /\ removed' = [removed EXCEPT ![t] = archived[t] \intersect jobs]
  /\ pc' = [pc EXCEPT ![t] = "removed"]
  /\ UNCHANGED <<stored, camp, req, admitted, inserted, archived>>

(* DELETE acts on the current rows and keeps them locked. *)
RemoveRows(t) ==
  /\ DeleteGranted(t)
  /\ req[t].op = "delete" => InScope(t) # {}
  /\ removed' = [removed EXCEPT ![t] = InScope(t)]
  /\ pc' = [pc EXCEPT ![t] = "removed"]
  /\ UNCHANGED <<stored, camp, req, admitted, inserted, archived>>

CommitRemove(t) ==
  /\ pc[t] = "removed"
  /\ jobs' = jobs \ removed[t]
  /\ history' = history \union HistoryOf(t)
  /\ Finish(t)
  /\ UNCHANGED <<nextId, camp>>
-----------------------------------------------------------------------------
(* A deadlock victim, a lock-wait timeout, a lost connection or a dead process. *)
Rollback(t) == pc[t] # "idle" /\ Refuse(t)

Change ==
  /\ changes < MaxChanges
  /\ changes' = changes + 1
  /\ UNCHANGED <<stored, session>>

(* update_company waits for the row lock of a create in progress. *)
UpdateCompany(c, n) ==
  /\ CompanyFree(c)
  /\ jobsMax' = [jobsMax EXCEPT ![c] = n]
  /\ activeCompanies' \in {activeCompanies \ {c}, activeCompanies \union {c}}
  /\ UNCHANGED <<activeEmployees, slotMax, cleared>>
  /\ Change

(* Schedule rows are updated and deleted without the company's lock, and the camp
   clock moves to the next shift, so another row (or none) may apply at any time. *)
ChangeSlot(c, n) ==
  /\ slotMax' = [slotMax EXCEPT ![c] = n]
  /\ UNCHANGED <<activeCompanies, activeEmployees, jobsMax, cleared>>
  /\ Change

(* update_employee and deactivate_employee wait for an insert that references the row. *)
UpdateEmployee(e) ==
  /\ \A t \in Threads : ~ReferencesEmployee(t, e)
  /\ activeEmployees' \in {activeEmployees \ {e}, activeEmployees \union {e}}
  /\ UNCHANGED <<activeCompanies, jobsMax, slotMax, cleared>>
  /\ Change

CheckIn(e) ==
  /\ e \in activeEmployees
  /\ cleared' = cleared \union {e}
  /\ UNCHANGED <<activeCompanies, activeEmployees, jobsMax, slotMax>>
  /\ Change

(* Midnight in the camp's zone: nobody has a check-in row for the new date. *)
NewCampDay ==
  /\ cleared' = Exempt
  /\ UNCHANGED <<activeCompanies, activeEmployees, jobsMax, slotMax>>
  /\ Change
-----------------------------------------------------------------------------
Init ==
  /\ jobs = {} /\ history = {} /\ nextId = 1
  /\ activeCompanies = Companies /\ activeEmployees = Employees
  /\ jobsMax \in [Companies -> Caps] /\ slotMax = [c \in Companies |-> NoSlot]
  /\ cleared = Employees /\ changes = 0
  /\ pc = [t \in Threads |-> "idle"] /\ req = [t \in Threads |-> NoRequest]
  /\ admitted = [t \in Threads |-> 0] /\ inserted = [t \in Threads |-> {}]
  /\ archived = [t \in Threads |-> {}] /\ removed = [t \in Threads |-> {}]

Begin(t) ==
  \/ \E e \in Employees, c \in Companies : BeginCreate(t, e, c)
  \/ \E row \in jobs : BeginDelete(t, row)
  \/ \E e \in Employees : BeginDeleteByEmployee(t, e)
  \/ \E c \in Companies : BeginResetCompany(t, c)
  \/ BeginResetAll(t)

Step(t) ==
  \/ LockCompany(t) \/ CheckAssignment(t) \/ InsertAssignment(t) \/ CommitCreate(t)
  \/ DeleteConflicts(t) \/ DeleteMisses(t) \/ RemoveRows(t) \/ CommitRemove(t)

Environment ==
  \/ \E c \in Companies, n \in Caps : UpdateCompany(c, n)
  \/ \E c \in Companies, n \in Caps \union {NoSlot} : ChangeSlot(c, n)
  \/ \E e \in Employees : UpdateEmployee(e) \/ CheckIn(e)
  \/ NewCampDay

Next ==
  \/ \E t \in Threads : Begin(t) \/ Step(t) \/ Rollback(t)
  \/ Environment

Spec == Init /\ [][Next]_vars

(* A request that was begun runs on: the threads keep running, and a lock request
   waits in InnoDB's queue, so one that is free again and again is granted. *)
Fairness ==
  \A t \in Threads :
     /\ WF_vars(CheckAssignment(t)) /\ WF_vars(CommitCreate(t)) /\ WF_vars(CommitRemove(t))
     /\ SF_vars(LockCompany(t)) /\ SF_vars(InsertAssignment(t))
     /\ SF_vars(DeleteConflicts(t) \/ DeleteMisses(t) \/ RemoveRows(t))

FairSpec == Spec /\ Fairness
-----------------------------------------------------------------------------
(* Two creates at one company never overlap: SELECT ... FOR UPDATE holds from the
   capacity check to the commit.  Everything below about capacity rests on it. *)
OneCreatorPerCompany ==
  \A c \in Companies : \A t, u \in Threads :
     LocksCompany(t, c) /\ LocksCompany(u, c) => t = u

(* A create that passed the capacity check still has the free job when it commits:
   no other create and no late commit uses it up, whatever the schedule does. *)
RoomReserved ==
  \A t \in Threads : pc[t] \in {"inserting", "inserted"} =>
     Cardinality(JobsAt(req[t].company)) < admitted[t]

(* However creates interleave with each other, with removals and with schedule
   changes, a commit that adds a placement leaves the company within the cap that
   the same request read: nothing slips in between check and commit. *)
CapacityRespected ==
  [][\A t \in Threads : pc[t] = "inserted" /\ pc'[t] = "idle" /\ jobs' # jobs =>
        Cardinality({r \in jobs' : r.company = req[t].company}) <= admitted[t]]_vars

(* The company lock serialises creates at one company, so a second request for the
   same participant there sees the first one's row (the one-job rule, per company). *)
OneJobPerCompany ==
  \A r, s \in jobs : r.employee = s.employee /\ r.company = s.company => r = s

(* A participant holds at most one placement, at whichever company: what the
   documentation promises of create_assignment. *)
OneJobPerEmployee == \A r, s \in jobs : r.employee = s.employee => r = s

(* A placement leaves job_assignments only in a step that records its end. *)
RemovedAreArchived ==
  [][\A r \in jobs \ jobs' : \E h \in history' \ history : h.job = r]_<<jobs, history>>

(* One history row per ended placement, whoever raced to end it, two resets or a reset
   and a delete included: true only where the database reports the stale read. *)
ArchivedOnce == \A g, h \in history : g.job = h.job => g = h

(* Two deletes of one placement, by number, by participant or repeated by a client,
   write one history row: the one whose DELETE matches no row rolls its copy back. *)
DeletedOnce ==
  \A g, h \in history : g.job = h.job /\ g.reason = "deleted" /\ h.reason = "deleted" => g = h

(* From a reset's DELETE to its commit no placement enters its scope, so the response
   "reset successful" finds the company, or the whole table, empty. *)
ResetEmptiesScope ==
  \A t \in Threads : pc[t] = "removed" =>
     /\ InScope(t) = removed[t]
     /\ req[t].op # "delete" =>
          \A u \in Threads : \A r \in inserted[u] : ~Covers(req[t], r)

(* Every request is answered: no lock is left behind by a refusal or a rollback, and
   creates and resets never wait for one another in a circle. *)
RequestsAnswered == \A t \in Threads : pc[t] # "idle" ~> pc[t] = "idle"

(* With stale reads detected, the service is the atomic board: a placement moves to
   the history in one step, once, and a reset takes its whole scope. *)
ImplementsBoard == Board!Spec
-----------------------------------------------------------------------------
(* What the proofs need besides: which requests and rows belong to which phase. *)
PhaseInv ==
  \A t \in Threads :
    /\ pc[t] \in {"locking", "checking", "inserting", "inserted"} => req[t] \in CreateRequests
    /\ pc[t] \in {"archived", "removed"} =>
         /\ req[t] \in RemoveRequests
         /\ \A r \in archived[t] : Covers(req[t], r)
         /\ req[t].op = "delete" => archived[t] # {}
    /\ pc[t] = "inserted" =>
         \E k \in Ids :
            /\ k < nextId
            /\ inserted[t] =
                 {[id |-> k, employee |-> req[t].employee, company |-> req[t].company]}
    /\ pc[t] # "inserted" => inserted[t] = {}
    /\ pc[t] # "removed" => removed[t] = {}

(* A primary key belongs to one row for ever: live, uncommitted, read into some
   transaction's archive, or ended; and what has ended is no longer live. *)
KeyInv ==
  /\ IsFiniteSet(jobs)
  /\ \A r \in jobs : r.id < nextId
  /\ \A r, s \in jobs : r.id = s.id => r = s
  /\ \A h \in history : h.job.id < nextId
  /\ \A h \in history, r \in jobs : h.job.id # r.id
  /\ \A t \in Threads : \A r \in inserted[t] :
       /\ \A s \in jobs : r.id # s.id
       /\ \A h \in history : r.id # h.job.id
       /\ \A u \in Threads \ {t} : \A s \in inserted[u] : r.id # s.id
       /\ \A u \in Threads : \A s \in archived[u] : r.id # s.id
  /\ \A t \in Threads : \A r \in archived[t] :
       /\ r.id < nextId
       /\ \A s \in jobs : r.id = s.id => r = s

(* A create past its checks has no rival for its participant at its company. *)
NoRivalRow ==
  \A t \in Threads : pc[t] \in {"inserting", "inserted"} =>
     \A r \in jobs : ~(r.employee = req[t].employee /\ r.company = req[t].company)

(* Rows deleted but not committed are live and locked by one transaction only.  They
   are the rows it archived: always in a single delete, thanks to the row count, and
   in a reset when the database detects stale reads. *)
RemovalInv ==
  \A t \in Threads : pc[t] = "removed" =>
    /\ removed[t] \subseteq jobs
    /\ SnapshotIsolation \/ req[t].op = "delete" => archived[t] = removed[t]
    /\ \A u \in Threads \ {t} : removed[t] \intersect removed[u] = {}

(* A placement's history row is its only one: among deletes always, and among all that
   end placements when the database detects stale reads. *)
HistoryInv == DeletedOnce /\ (SnapshotIsolation => ArchivedOnce)

(* The inductive invariant. *)
Inv ==
  /\ TypeOK /\ PhaseInv /\ KeyInv /\ NoRivalRow /\ RemovalInv
  /\ OneCreatorPerCompany /\ RoomReserved /\ OneJobPerCompany
  /\ ResetEmptiesScope /\ HistoryInv
=============================================================================
