------------------------ MODULE JobAssignments_proofs ------------------------
(* Proofs about JobAssignments, for every number of threads, participants,     *)
(* companies and rows, and with stale reads detected or not.                   *)
EXTENDS JobAssignments, FiniteSetTheorems, TLAPS

(* A refused or rolled-back request leaves well-typed state. *)
LEMMA RefuseTypeOK ==
  ASSUME TypeOK, NEW t \in Threads, Refuse(t)
  PROVE  TypeOK'
  BY DEF TypeOK, Refuse, Finish, stored, camp, States

(* An environment change touches neither the stored placements nor the sessions. *)
LEMMA EnvironmentFrame ==
  Environment => UNCHANGED <<stored, session>>
  BY DEF Environment, UpdateCompany, ChangeSlot, UpdateEmployee, CheckIn, NewCampDay, Change

(* A change of the companies, the schedules, the participants or the day is well typed. *)
LEMMA EnvironmentTypeOK ==
  ASSUME TypeOK, Environment
  PROVE  TypeOK'
<1>1. CASE \E c \in Companies, n \in Caps : UpdateCompany(c, n)
  BY <1>1, ConstantsAssumption DEF TypeOK, UpdateCompany, Change, stored, session
<1>2. CASE \E c \in Companies, n \in Caps \union {NoSlot} : ChangeSlot(c, n)
  BY <1>2, ConstantsAssumption DEF TypeOK, ChangeSlot, Change, stored, session
<1>3. CASE \E e \in Employees : UpdateEmployee(e)
  BY <1>3, ConstantsAssumption DEF TypeOK, UpdateEmployee, Change, stored, session
<1>4. CASE \E e \in Employees : CheckIn(e)
  BY <1>4, ConstantsAssumption DEF TypeOK, CheckIn, Change, stored, session
<1>5. CASE NewCampDay
  BY <1>5, ConstantsAssumption DEF TypeOK, NewCampDay, Change, stored, session
<1> QED BY <1>1, <1>2, <1>3, <1>4, <1>5 DEF Environment

(* So is the batch of history rows that a delete or a reset writes. *)
LEMMA ArchiveTypeOK ==
  ASSUME TypeOK, NEW t \in Threads, NEW q \in RemoveRequests, Archive(t, q)
  PROVE  TypeOK'
  BY DEF TypeOK, Archive, stored, camp, States, Requests

(* So is the first statement of each kind of request. *)
LEMMA BeginTypeOK ==
  ASSUME TypeOK, NEW t \in Threads, Begin(t)
  PROVE  TypeOK'
<1>1. CASE \E e \in Employees, c \in Companies : BeginCreate(t, e, c)
  BY <1>1 DEF TypeOK, BeginCreate, stored, camp, States, Requests, CreateRequests
<1>2. ASSUME NEW row \in jobs, BeginDelete(t, row) PROVE TypeOK'
  <2>1. [op |-> "delete", id |-> row.id] \in RemoveRequests
    BY <1>2 DEF TypeOK, Rows, RemoveRequests
  <2> QED BY <2>1, <1>2, ArchiveTypeOK DEF BeginDelete
<1>3. CASE \E e \in Employees : BeginDeleteByEmployee(t, e)
  BY <1>2, <1>3 DEF BeginDeleteByEmployee
<1>4. ASSUME NEW c \in Companies, BeginResetCompany(t, c) PROVE TypeOK'
  <2>1. [op |-> "reset_company", company |-> c] \in RemoveRequests
    BY DEF RemoveRequests
  <2> QED BY <2>1, <1>4, ArchiveTypeOK DEF BeginResetCompany
<1>5. CASE BeginResetAll(t)
  <2>1. [op |-> "reset_all"] \in RemoveRequests
    BY DEF RemoveRequests
  <2> QED BY <2>1, <1>5, ArchiveTypeOK DEF BeginResetAll
<1> QED BY <1>1, <1>2, <1>3, <1>4, <1>5 DEF Begin

(* So is every later statement, and the end of a request. *)
LEMMA StepTypeOK ==
  ASSUME TypeOK, PhaseInv, NEW t \in Threads, Step(t)
  PROVE  TypeOK'
<1>1. CASE LockCompany(t)
  BY <1>1, RefuseTypeOK DEF TypeOK, LockCompany, stored, camp, States
<1>2. CASE CheckAssignment(t)
  <2>1. req[t] \in CreateRequests
    BY <1>2 DEF CheckAssignment, PhaseInv
  <2>2. EffectiveMax(req[t].company) \in Nat
    BY <2>1 DEF TypeOK, EffectiveMax, CreateRequests
  <2> QED BY <1>2, <2>2, RefuseTypeOK DEF TypeOK, CheckAssignment, stored, camp, States
<1>3. CASE InsertAssignment(t)
  <2>1. req[t] \in CreateRequests
    BY <1>3 DEF InsertAssignment, PhaseInv
  <2>2. nextId \in Ids =>
          [id |-> nextId, employee |-> req[t].employee, company |-> req[t].company] \in Rows
    BY <2>1 DEF Rows, CreateRequests
  <2> QED BY <1>3, <2>2, RefuseTypeOK DEF TypeOK, InsertAssignment, camp, States
<1>4. CASE CommitCreate(t)
  BY <1>4 DEF TypeOK, CommitCreate, Finish, camp, States
<1>5. CASE RemoveRows(t)
  BY <1>5 DEF TypeOK, RemoveRows, InScope, stored, camp, States
<1>6. CASE DeleteConflicts(t) \/ DeleteMisses(t)
  BY <1>6, RefuseTypeOK DEF DeleteConflicts, DeleteMisses
<1>7. CASE CommitRemove(t)
  <2>1. req[t] \in RemoveRequests
    BY <1>7 DEF CommitRemove, PhaseInv
  <2>2. EndReason(req[t]) \in {"deleted", "reset_company", "reset_all"}
    BY <2>1 DEF EndReason, RemoveRequests
  <2>3. HistoryOf(t) \subseteq Records
    BY <2>2 DEF HistoryOf, Records, TypeOK
  <2> QED BY <1>7, <2>3 DEF TypeOK, CommitRemove, Finish, camp, States
<1> QED BY <1>1, <1>2, <1>3, <1>4, <1>5, <1>6, <1>7 DEF Step

(* Every step keeps the types. *)
LEMMA NextTypeOK ==
  ASSUME TypeOK, PhaseInv, [Next]_vars
  PROVE  TypeOK'
<1>1. CASE \E t \in Threads : Begin(t)
  BY <1>1, BeginTypeOK
<1>2. CASE \E t \in Threads : Step(t)
  BY <1>2, StepTypeOK
<1>3. CASE \E t \in Threads : Rollback(t)
  BY <1>3, RefuseTypeOK DEF Rollback
<1>4. CASE Environment
  BY <1>4, EnvironmentTypeOK
<1>5. CASE UNCHANGED vars
  BY <1>5 DEF TypeOK, vars, stored, camp, session
<1> QED BY <1>1, <1>2, <1>3, <1>4, <1>5 DEF Next
-----------------------------------------------------------------------------
(* Preservation of the invariant, one lemma per kind of step. *)

(* An empty board satisfies the invariant. *)
LEMMA InitInv == Init => Inv
<1> SUFFICES ASSUME Init PROVE Inv
  OBVIOUS
<1>1. TypeOK
  <2>1. jobs \subseteq Rows /\ history \subseteq Records /\ nextId \in Nat \ {0}
    BY DEF Init
  <2>2. /\ activeCompanies \subseteq Companies /\ activeEmployees \subseteq Employees
        /\ jobsMax \in [Companies -> Nat] /\ slotMax \in [Companies -> Nat \union {NoSlot}]
        /\ cleared \subseteq Employees /\ changes \in Nat
    BY ConstantsAssumption DEF Init
  <2>3. /\ pc \in [Threads -> States] /\ req \in [Threads -> Requests \union {NoRequest}]
        /\ admitted \in [Threads -> Nat]
    BY DEF Init, States
  <2>4. /\ inserted \in [Threads -> SUBSET Rows]
        /\ archived \in [Threads -> SUBSET Rows] /\ removed \in [Threads -> SUBSET Rows]
    BY DEF Init
  <2> QED BY <2>1, <2>2, <2>3, <2>4 DEF TypeOK
<1>2. IsFiniteSet(jobs)
  BY FS_EmptySet DEF Init
<1>3. PhaseInv
  BY DEF Init, PhaseInv
<1>4. KeyInv
  BY <1>2 DEF Init, KeyInv
<1>5. NoRivalRow /\ RemovalInv /\ RoomReserved /\ ResetEmptiesScope
  BY DEF Init, NoRivalRow, RemovalInv, RoomReserved, ResetEmptiesScope
<1>6. OneCreatorPerCompany /\ OneJobPerCompany /\ HistoryInv
  BY DEF Init, OneCreatorPerCompany, LocksCompany, OneJobPerCompany, HistoryInv, DeletedOnce, ArchivedOnce
<1> QED BY <1>1, <1>3, <1>4, <1>5, <1>6 DEF Inv

(* Neither an environment change nor a stuttering step touches what Inv is about. *)
LEMMA FrameInv ==
  ASSUME Inv, TypeOK', UNCHANGED <<stored, session>>
  PROVE  Inv'
<1> USE DEF Inv, stored, session
<1>1. /\ PhaseInv' /\ NoRivalRow' /\ RemovalInv' /\ OneJobPerCompany' /\ HistoryInv'
  BY DEF PhaseInv, NoRivalRow, RemovalInv, OneJobPerCompany, HistoryInv, DeletedOnce, ArchivedOnce
<1>2. KeyInv'
  BY DEF KeyInv
<1>3. OneCreatorPerCompany'
  BY DEF OneCreatorPerCompany, LocksCompany
<1>4. RoomReserved' /\ ResetEmptiesScope'
  BY DEF RoomReserved, ResetEmptiesScope, JobsAt, InScope
<1> QED BY <1>1, <1>2, <1>3, <1>4

(* A rollback gives up locks and uncommitted rows and nothing else. *)
LEMMA RefuseInv ==
  ASSUME Inv, NEW t \in Threads, Refuse(t)
  PROVE  Inv'
<1> USE DEF Inv, Refuse, Finish, stored, TypeOK
<1>1. TypeOK'
  BY RefuseTypeOK DEF Refuse
<1>2. \A u \in Threads : u # t =>
        /\ pc'[u] = pc[u] /\ req'[u] = req[u] /\ admitted'[u] = admitted[u]
        /\ inserted'[u] = inserted[u] /\ archived'[u] = archived[u] /\ removed'[u] = removed[u]
  OBVIOUS
<1>3. /\ pc'[t] = "idle" /\ inserted'[t] = {} /\ archived'[t] = {} /\ removed'[t] = {}
  OBVIOUS
<1>4. jobs' = jobs /\ history' = history /\ nextId' = nextId
  OBVIOUS
<1> HIDE DEF Refuse, Finish, TypeOK
<1>5. PhaseInv'
  BY <1>2, <1>3, <1>4 DEF PhaseInv
<1>6. KeyInv'
  BY <1>2, <1>3, <1>4 DEF KeyInv
<1>7. NoRivalRow' /\ RemovalInv'
  BY <1>2, <1>3, <1>4 DEF NoRivalRow, RemovalInv
<1>8. OneCreatorPerCompany'
  BY <1>2, <1>3 DEF OneCreatorPerCompany, LocksCompany
<1>9. RoomReserved'
  BY <1>2, <1>3, <1>4 DEF RoomReserved, JobsAt
<1>10. ResetEmptiesScope'
  BY <1>2, <1>3, <1>4 DEF ResetEmptiesScope, InScope
<1>11. OneJobPerCompany' /\ HistoryInv'
  BY <1>4 DEF OneJobPerCompany, HistoryInv, DeletedOnce, ArchivedOnce
<1> QED BY <1>1, <1>5, <1>6, <1>7, <1>8, <1>9, <1>10, <1>11

(* Reading and copying the scope holds no lock that others see. *)
LEMMA ArchiveInv ==
  ASSUME Inv, NEW t \in Threads, pc[t] = "idle", NEW q \in RemoveRequests,
         q.op = "delete" => \E r \in jobs : Covers(q, r),
         Archive(t, q)
  PROVE  Inv'
<1> USE DEF Inv, Archive, stored, TypeOK
<1>1. TypeOK'
  BY ArchiveTypeOK DEF Archive
<1>2. \A u \in Threads : u # t =>
        pc'[u] = pc[u] /\ req'[u] = req[u] /\ archived'[u] = archived[u]
  OBVIOUS
<1>3. /\ pc'[t] = "archived" /\ req'[t] = q
      /\ archived'[t] = {r \in jobs : Covers(q, r)}
  OBVIOUS
<1>4. /\ jobs' = jobs /\ history' = history /\ nextId' = nextId
      /\ admitted' = admitted /\ inserted' = inserted /\ removed' = removed
  OBVIOUS
<1>5. inserted[t] = {} /\ removed[t] = {}
  BY DEF PhaseInv
<1> HIDE DEF Archive, TypeOK
<1>6. PhaseInv'
  BY <1>2, <1>3, <1>4, <1>5 DEF PhaseInv
<1>7. KeyInv'
  BY <1>2, <1>3, <1>4, <1>5 DEF KeyInv
<1>8. NoRivalRow' /\ RemovalInv'
  BY <1>2, <1>3, <1>4 DEF NoRivalRow, RemovalInv
<1>9. OneCreatorPerCompany'
  BY <1>2, <1>3 DEF OneCreatorPerCompany, LocksCompany
<1>10. RoomReserved' /\ ResetEmptiesScope'
  BY <1>2, <1>3, <1>4 DEF RoomReserved, JobsAt, ResetEmptiesScope, InScope
<1>11. OneJobPerCompany' /\ HistoryInv'
  BY <1>4 DEF OneJobPerCompany, HistoryInv, DeletedOnce, ArchivedOnce
<1> QED BY <1>1, <1>6, <1>7, <1>8, <1>9, <1>10, <1>11

(* A request that starts locks at most what it will read, and archives only rows it saw. *)
LEMMA BeginInv ==
  ASSUME Inv, NEW t \in Threads, Begin(t)
  PROVE  Inv'
<1>1. ASSUME NEW e \in Employees, NEW c \in Companies, BeginCreate(t, e, c) PROVE Inv'
  <2> USE DEF Inv, BeginCreate, stored, TypeOK
  <2>1. TypeOK'
    BY <1>1, BeginTypeOK DEF Begin
  <2>2. \A u \in Threads : u # t => pc'[u] = pc[u] /\ req'[u] = req[u]
    BY <1>1
  <2>3. pc'[t] = "locking" /\ req'[t] \in CreateRequests
    BY <1>1 DEF CreateRequests
  <2>4. /\ jobs' = jobs /\ history' = history /\ nextId' = nextId /\ admitted' = admitted
        /\ inserted' = inserted /\ archived' = archived /\ removed' = removed
    BY <1>1
  <2>5. inserted[t] = {} /\ removed[t] = {}
    BY <1>1 DEF PhaseInv
  <2> HIDE DEF BeginCreate, TypeOK
  <2>6. PhaseInv'
    BY <2>2, <2>3, <2>4, <2>5 DEF PhaseInv
  <2>7. KeyInv' /\ OneJobPerCompany' /\ HistoryInv'
    BY <2>4 DEF KeyInv, OneJobPerCompany, HistoryInv, DeletedOnce, ArchivedOnce
  <2>8. NoRivalRow' /\ RemovalInv'
    BY <2>2, <2>3, <2>4 DEF NoRivalRow, RemovalInv
  <2>9. OneCreatorPerCompany'
    BY <2>2, <2>3 DEF OneCreatorPerCompany, LocksCompany
  <2>10. RoomReserved' /\ ResetEmptiesScope'
    BY <2>2, <2>3, <2>4 DEF RoomReserved, JobsAt, ResetEmptiesScope, InScope
  <2> QED BY <2>1, <2>6, <2>7, <2>8, <2>9, <2>10
<1>2. ASSUME NEW row \in jobs, BeginDelete(t, row) PROVE Inv'
  <2> DEFINE q == [op |-> "delete", id |-> row.id]
  <2>1. q \in RemoveRequests
    BY <1>2 DEF Inv, TypeOK, Rows, RemoveRequests
  <2>2. Covers(q, row)
    BY DEF Covers
  <2> QED BY <1>2, <2>1, <2>2, ArchiveInv DEF BeginDelete
<1>3. CASE \E e \in Employees : BeginDeleteByEmployee(t, e)
  BY <1>2, <1>3 DEF BeginDeleteByEmployee
<1>4. ASSUME NEW c \in Companies, BeginResetCompany(t, c) PROVE Inv'
  <2>1. [op |-> "reset_company", company |-> c] \in RemoveRequests
    BY DEF RemoveRequests
  <2> QED BY <1>4, <2>1, ArchiveInv DEF BeginResetCompany
<1>5. CASE BeginResetAll(t)
  <2>1. [op |-> "reset_all"] \in RemoveRequests
    BY DEF RemoveRequests
  <2> QED BY <1>5, <2>1, ArchiveInv DEF BeginResetAll
<1> QED BY <1>1, <1>2, <1>3, <1>4, <1>5 DEF Begin

(* The lock is granted only when nobody holds it. *)
LEMMA LockCompanyInv ==
  ASSUME Inv, NEW t \in Threads, LockCompany(t)
  PROVE  Inv'
<1>1. CASE req[t].company \notin activeCompanies
  BY <1>1, RefuseInv DEF LockCompany
<1>2. CASE req[t].company \in activeCompanies
  <2> USE <1>2 DEF Inv, LockCompany, stored, TypeOK
  <2>1. TypeOK'
    BY StepTypeOK DEF Step
  <2>2. \A u \in Threads : u # t => pc'[u] = pc[u]
    OBVIOUS
  <2>3. pc[t] = "locking" /\ pc'[t] = "checking" /\ CompanyFree(req[t].company)
    OBVIOUS
  <2>4. /\ jobs' = jobs /\ history' = history /\ nextId' = nextId /\ req' = req
        /\ admitted' = admitted /\ inserted' = inserted /\ archived' = archived
        /\ removed' = removed
    OBVIOUS
  <2> HIDE DEF LockCompany, TypeOK
  <2>5. PhaseInv'
    BY <2>2, <2>3, <2>4 DEF PhaseInv
  <2>6. KeyInv' /\ OneJobPerCompany' /\ HistoryInv'
    BY <2>4 DEF KeyInv, OneJobPerCompany, HistoryInv, DeletedOnce, ArchivedOnce
  <2>7. NoRivalRow' /\ RemovalInv'
    BY <2>2, <2>3, <2>4 DEF NoRivalRow, RemovalInv
  <2>8. OneCreatorPerCompany'
    BY <2>2, <2>3, <2>4 DEF OneCreatorPerCompany, LocksCompany, CompanyFree
  <2>9. RoomReserved' /\ ResetEmptiesScope'
    BY <2>2, <2>3, <2>4 DEF RoomReserved, JobsAt, ResetEmptiesScope, InScope
  <2> QED BY <2>1, <2>5, <2>6, <2>7, <2>8, <2>9
<1> QED BY <1>1, <1>2

(* The check reads the count under the lock: room and absence of a rival are fact. *)
LEMMA CheckAssignmentInv ==
  ASSUME Inv, NEW t \in Threads, CheckAssignment(t)
  PROVE  Inv'
<1>1. CASE ~MayAssign(req[t].employee, req[t].company)
  BY <1>1, RefuseInv DEF CheckAssignment
<1>2. CASE MayAssign(req[t].employee, req[t].company)
  <2> USE <1>2 DEF Inv, CheckAssignment, stored, TypeOK
  <2>1. TypeOK'
    BY StepTypeOK DEF Step
  <2>2. \A u \in Threads : u # t => pc'[u] = pc[u] /\ admitted'[u] = admitted[u]
    OBVIOUS
  <2>3. /\ pc[t] = "checking" /\ pc'[t] = "inserting"
        /\ admitted'[t] = EffectiveMax(req[t].company)
    OBVIOUS
  <2>4. /\ jobs' = jobs /\ history' = history /\ nextId' = nextId /\ req' = req
        /\ inserted' = inserted /\ archived' = archived /\ removed' = removed
    OBVIOUS
  <2> HIDE DEF CheckAssignment, TypeOK
  <2>5. PhaseInv'
    BY <2>2, <2>3, <2>4 DEF PhaseInv
  <2>6. KeyInv' /\ OneJobPerCompany' /\ HistoryInv'
    BY <2>4 DEF KeyInv, OneJobPerCompany, HistoryInv, DeletedOnce, ArchivedOnce
  <2>7. NoRivalRow' /\ RemovalInv'
    BY <2>2, <2>3, <2>4 DEF NoRivalRow, RemovalInv, MayAssign
  <2>8. OneCreatorPerCompany'
    BY <2>2, <2>3, <2>4 DEF OneCreatorPerCompany, LocksCompany
  <2>9. RoomReserved' /\ ResetEmptiesScope'
    BY <2>2, <2>3, <2>4 DEF RoomReserved, JobsAt, ResetEmptiesScope, InScope, MayAssign
  <2> QED BY <2>1, <2>5, <2>6, <2>7, <2>8, <2>9
<1> QED BY <1>1, <1>2

(* The new row has a fresh key and is outside the range of every reset in progress. *)
LEMMA InsertAssignmentInv ==
  ASSUME Inv, NEW t \in Threads, InsertAssignment(t)
  PROVE  Inv'
<1>1. CASE nextId \notin Ids
  BY <1>1, RefuseInv DEF InsertAssignment
<1>2. CASE nextId \in Ids
  <2> DEFINE row == [id |-> nextId, employee |-> req[t].employee, company |-> req[t].company]
  <2> USE <1>2 DEF Inv, InsertAssignment, TypeOK
  <2>1. TypeOK'
    BY StepTypeOK DEF Step
  <2>2. \A u \in Threads : u # t => pc'[u] = pc[u] /\ inserted'[u] = inserted[u]
    OBVIOUS
  <2>3. /\ pc[t] = "inserting" /\ pc'[t] = "inserted" /\ inserted'[t] = {row}
        /\ ~RangeLocked(t, req[t].company) /\ nextId' = nextId + 1
    OBVIOUS
  <2>4. /\ jobs' = jobs /\ history' = history /\ req' = req /\ admitted' = admitted
        /\ archived' = archived /\ removed' = removed
    OBVIOUS
  <2>5. nextId \in Nat /\ \A k \in Ids : k \in Nat
    BY ConstantsAssumption DEF Ids
  <2> HIDE DEF InsertAssignment, TypeOK
  <2>6. PhaseInv'
    <3>1. nextId < nextId'
      BY <2>3, <2>5
    <3>2. \A k \in Ids : k < nextId => k < nextId'
      BY <2>3, <2>5
    <3> QED BY <2>2, <2>3, <2>4, <3>1, <3>2, <1>2 DEF PhaseInv
  <2>7. KeyInv'
    <3>0. \A k \in Ids : k < nextId => k < nextId' /\ k # nextId
      BY <2>3, <2>5
    <3>1. \A r \in jobs : r.id < nextId' /\ r.id # nextId
      <4>1. \A r \in jobs : r.id \in Ids
        BY DEF TypeOK, Rows
      <4> QED BY <3>0, <4>1 DEF KeyInv
    <3>2. \A h \in history : h.job.id < nextId' /\ h.job.id # nextId
      <4>1. \A h \in history : h.job.id \in Ids
        BY DEF TypeOK, Records, Rows
      <4> QED BY <3>0, <4>1 DEF KeyInv
    <3>3. \A u \in Threads : \A r \in archived[u] : r.id < nextId' /\ r.id # nextId
      <4>1. \A u \in Threads : \A r \in archived[u] : r.id \in Ids
        BY DEF TypeOK, Rows
      <4> QED BY <3>0, <4>1 DEF KeyInv
    <3>4. \A u \in Threads : \A r \in inserted[u] : r.id # nextId
      BY <2>5 DEF PhaseInv
    <3>5. \A r \in inserted'[t] : r.id = nextId
      BY <2>3
    <3>6. \A u \in Threads : u # t => inserted'[u] = inserted[u]
      BY <2>2
    <3> QED BY <2>4, <3>1, <3>2, <3>3, <3>4, <3>5, <3>6 DEF KeyInv
  <2>8. NoRivalRow' /\ RemovalInv'
    BY <2>2, <2>3, <2>4 DEF NoRivalRow, RemovalInv
  <2>9. OneCreatorPerCompany'
    BY <2>2, <2>3, <2>4 DEF OneCreatorPerCompany, LocksCompany
  <2>10. RoomReserved' /\ OneJobPerCompany' /\ HistoryInv'
    BY <2>2, <2>3, <2>4 DEF RoomReserved, JobsAt, OneJobPerCompany, HistoryInv, DeletedOnce, ArchivedOnce
  <2>11. ResetEmptiesScope'
    <3>1. \A u \in Threads : pc[u] = "removed" /\ req[u].op # "delete" => ~Covers(req[u], row)
      BY <2>3 DEF RangeLocked, Covers, PhaseInv, RemoveRequests
    <3> QED BY <2>2, <2>3, <2>4, <3>1 DEF ResetEmptiesScope, InScope
  <2> QED BY <2>1, <2>6, <2>7, <2>8, <2>9, <2>10, <2>11
<1> QED BY <1>1, <1>2

(* Another creator works at another company, so the new row takes none of its room. *)
LEMMA CommitCreateInv ==
  ASSUME Inv, NEW t \in Threads, CommitCreate(t)
  PROVE  Inv'
<1> USE DEF Inv
<1>1. PICK k \in Ids :
        /\ k < nextId
        /\ inserted[t] = {[id |-> k, employee |-> req[t].employee, company |-> req[t].company]}
  BY DEF CommitCreate, PhaseInv
<1> DEFINE row == [id |-> k, employee |-> req[t].employee, company |-> req[t].company]
<1>2. TypeOK'
  BY StepTypeOK DEF Step
<1>3. /\ pc[t] = "inserted" /\ pc'[t] = "idle" /\ jobs' = jobs \union {row}
      /\ inserted'[t] = {} /\ archived'[t] = {} /\ removed'[t] = {}
  BY <1>1 DEF CommitCreate, Finish, TypeOK
<1>4. \A u \in Threads : u # t =>
        /\ pc'[u] = pc[u] /\ req'[u] = req[u] /\ admitted'[u] = admitted[u]
        /\ inserted'[u] = inserted[u] /\ archived'[u] = archived[u] /\ removed'[u] = removed[u]
  BY DEF CommitCreate, Finish, TypeOK
<1>5. history' = history /\ nextId' = nextId
  BY DEF CommitCreate
<1>6. req[t] \in CreateRequests
  BY <1>3 DEF PhaseInv
<1>7. /\ \A s \in jobs : s.id # row.id
      /\ \A h \in history : h.job.id # row.id
      /\ \A u \in Threads : u # t => \A s \in inserted[u] : s.id # row.id
      /\ \A u \in Threads : \A s \in archived[u] : s.id # row.id
  <2>1. row \in inserted[t]
    BY <1>1
  <2> HIDE DEF row
  <2> QED BY <2>1 DEF KeyInv
<1>8. PhaseInv'
  BY <1>3, <1>4, <1>5 DEF PhaseInv
<1>9. KeyInv'
  <2>1. IsFiniteSet(jobs')
    BY <1>3, FS_AddElement DEF KeyInv
  <2> QED BY <1>1, <1>3, <1>4, <1>5, <1>7, <2>1 DEF KeyInv
<1>10. \A u \in Threads : u # t /\ pc[u] \in {"inserting", "inserted"} =>
         req[u].company # req[t].company
  BY <1>3, <1>6 DEF OneCreatorPerCompany, LocksCompany, PhaseInv, CreateRequests
<1>11. NoRivalRow'
  BY <1>3, <1>4, <1>10 DEF NoRivalRow
<1>12. RemovalInv'
  BY <1>3, <1>4 DEF RemovalInv
<1>13. OneCreatorPerCompany'
  BY <1>3, <1>4 DEF OneCreatorPerCompany, LocksCompany
<1>14. RoomReserved'
  <2> SUFFICES ASSUME NEW u \in Threads, pc'[u] \in {"inserting", "inserted"}
               PROVE  Cardinality(JobsAt(req[u].company)') < admitted'[u] /\ req'[u] = req[u]
    BY DEF RoomReserved, JobsAt
  <2>1. u # t /\ req'[u] = req[u]
    BY <1>3, <1>4
  <2>2. JobsAt(req[u].company)' = JobsAt(req[u].company)
    BY <1>3, <1>4, <1>10, <2>1 DEF JobsAt
  <2> QED BY <1>4, <2>1, <2>2 DEF RoomReserved
<1>15. OneJobPerCompany'
  BY <1>3 DEF OneJobPerCompany, NoRivalRow
<1>16. ResetEmptiesScope'
  <2> SUFFICES ASSUME NEW u \in Threads, u # t, pc[u] = "removed"
               PROVE  ~Covers(req[u], row)
    BY <1>3, <1>4 DEF ResetEmptiesScope, InScope
  <2>1. CASE req[u].op # "delete"
    BY <1>1, <2>1 DEF ResetEmptiesScope
  <2>2. CASE req[u].op = "delete"
    BY <1>7, <2>2 DEF PhaseInv, RemovalInv, Covers
  <2> QED BY <2>1, <2>2
<1>17. HistoryInv'
  BY <1>5 DEF HistoryInv, DeletedOnce, ArchivedOnce
<1> QED BY <1>2, <1>8, <1>9, <1>11, <1>12, <1>13, <1>14, <1>15, <1>16, <1>17

(* The DELETE takes every live row of the scope, and only rows nobody else holds. *)
LEMMA RemoveRowsInv ==
  ASSUME Inv, NEW t \in Threads, RemoveRows(t)
  PROVE  Inv'
<1> USE DEF Inv, RemoveRows, DeleteGranted, TypeOK
<1>1. TypeOK'
  BY StepTypeOK DEF Step
<1>2. \A u \in Threads : u # t => pc'[u] = pc[u] /\ removed'[u] = removed[u]
  OBVIOUS
<1>3. /\ pc[t] = "archived" /\ pc'[t] = "removed" /\ removed'[t] = InScope(t)
      /\ ~ScopeBusy(t) /\ ~(SnapshotIsolation /\ Stale(t))
      /\ ~(req[t].op = "delete" /\ InScope(t) = {})
  OBVIOUS
<1>4. /\ jobs' = jobs /\ history' = history /\ nextId' = nextId /\ req' = req
      /\ admitted' = admitted /\ archived' = archived /\ inserted' = inserted
  BY DEF stored
<1> HIDE DEF RemoveRows, DeleteGranted, TypeOK
<1>5. PhaseInv'
  BY <1>2, <1>3, <1>4 DEF PhaseInv
<1>6. KeyInv' /\ OneJobPerCompany' /\ HistoryInv'
  BY <1>4 DEF KeyInv, OneJobPerCompany, HistoryInv, DeletedOnce, ArchivedOnce
<1>7. NoRivalRow'
  BY <1>2, <1>3, <1>4 DEF NoRivalRow
<1>8. OneCreatorPerCompany'
  BY <1>2, <1>3, <1>4 DEF OneCreatorPerCompany, LocksCompany
<1>9. RoomReserved'
  BY <1>2, <1>3, <1>4 DEF RoomReserved, JobsAt
<1>10. ResetEmptiesScope'
  <2>1. \A u \in Threads : \A r \in inserted[u] : ~Covers(req[t], r)
    BY <1>3 DEF ScopeBusy, PhaseInv
  <2> QED BY <1>2, <1>3, <1>4, <2>1 DEF ResetEmptiesScope, InScope
<1>11. RemovalInv'
  <2>1. SnapshotIsolation => InScope(t) = archived[t]
    BY <1>3 DEF Stale
  <2>2. req[t].op = "delete" => InScope(t) = archived[t]
    <3> SUFFICES ASSUME req[t].op = "delete" PROVE InScope(t) = archived[t]
      OBVIOUS
    <3>1. \A r \in archived[t] : r.id = req[t].id
      BY <1>3 DEF PhaseInv, Covers
    <3>2. \A s \in InScope(t) : s \in jobs /\ s.id = req[t].id
      BY DEF InScope, Covers
    <3>3. PICK s \in InScope(t) : TRUE
      BY <1>3
    <3>4. PICK r \in archived[t] : TRUE
      BY <1>3 DEF PhaseInv
    <3>5. \A x \in archived[t], y \in InScope(t) : x = y
      BY <3>1, <3>2 DEF KeyInv
    <3> QED BY <3>3, <3>4, <3>5
  <2>3. \A u \in Threads : u # t => InScope(t) \intersect removed[u] = {}
    BY <1>3 DEF ScopeBusy, InScope
  <2>4. InScope(t) \subseteq jobs
    BY DEF InScope
  <2> QED BY <1>2, <1>3, <1>4, <2>1, <2>2, <2>3, <2>4 DEF RemovalInv
<1> QED BY <1>1, <1>5, <1>6, <1>7, <1>8, <1>9, <1>10, <1>11

(* Removed rows are live until here, so their history rows are their first. *)
LEMMA CommitRemoveInv ==
  ASSUME Inv, NEW t \in Threads, CommitRemove(t)
  PROVE  Inv'
<1> USE DEF Inv
<1>1. TypeOK'
  BY StepTypeOK DEF Step
<1>2. /\ pc[t] = "removed" /\ pc'[t] = "idle" /\ jobs' = jobs \ removed[t]
      /\ inserted'[t] = {} /\ archived'[t] = {} /\ removed'[t] = {}
  BY DEF CommitRemove, Finish, TypeOK
<1>3. \A u \in Threads : u # t =>
        /\ pc'[u] = pc[u] /\ req'[u] = req[u] /\ admitted'[u] = admitted[u]
        /\ inserted'[u] = inserted[u] /\ archived'[u] = archived[u] /\ removed'[u] = removed[u]
  BY DEF CommitRemove, Finish, TypeOK
<1>4. history' = history \union HistoryOf(t) /\ nextId' = nextId
  BY DEF CommitRemove
<1>5. \A h \in HistoryOf(t) : h.job \in archived[t] /\ h.reason = EndReason(req[t]) /\ h.by = t
  BY DEF HistoryOf
<1>6. \A r \in jobs : r \in archived[t] => r \in removed[t]
  BY <1>2 DEF ResetEmptiesScope, InScope, PhaseInv
<1>7. PhaseInv'
  BY <1>2, <1>3, <1>4 DEF PhaseInv
<1>8. KeyInv'
  <2>1. IsFiniteSet(jobs')
    BY <1>2, FS_Subset DEF KeyInv
  <2>2. \A h \in HistoryOf(t) : h.job.id < nextId
    BY <1>5 DEF KeyInv
  <2>3. \A h \in HistoryOf(t), r \in jobs' : h.job.id # r.id
    BY <1>2, <1>5, <1>6 DEF KeyInv
  <2>4. \A u \in Threads : \A r \in inserted[u] : \A h \in HistoryOf(t) : r.id # h.job.id
    BY <1>5 DEF KeyInv
  <2> QED BY <1>2, <1>3, <1>4, <2>1, <2>2, <2>3, <2>4 DEF KeyInv
<1>9. NoRivalRow'
  BY <1>2, <1>3 DEF NoRivalRow
<1>10. RemovalInv'
  BY <1>2, <1>3 DEF RemovalInv
<1>11. OneCreatorPerCompany'
  BY <1>2, <1>3 DEF OneCreatorPerCompany, LocksCompany
<1>12. RoomReserved'
  <2> SUFFICES ASSUME NEW u \in Threads, pc'[u] \in {"inserting", "inserted"}
               PROVE  Cardinality(JobsAt(req[u].company)') < admitted'[u] /\ req'[u] = req[u]
    BY DEF RoomReserved, JobsAt
  <2>1. u # t /\ req'[u] = req[u] /\ admitted'[u] = admitted[u] /\ admitted[u] \in Nat
    BY <1>2, <1>3 DEF TypeOK
  <2>2. JobsAt(req[u].company)' \subseteq JobsAt(req[u].company)
    BY <1>2, <2>1 DEF JobsAt
  <2>3. IsFiniteSet(JobsAt(req[u].company))
    BY FS_Subset DEF JobsAt, KeyInv
  <2>4. /\ Cardinality(JobsAt(req[u].company)') \in Nat
        /\ Cardinality(JobsAt(req[u].company)) \in Nat
        /\ Cardinality(JobsAt(req[u].company)') <= Cardinality(JobsAt(req[u].company))
    BY <2>2, <2>3, FS_Subset, FS_CardinalityType
  <2>5. Cardinality(JobsAt(req[u].company)) < admitted[u]
    BY <1>3, <2>1 DEF RoomReserved
  <2> QED BY <2>1, <2>4, <2>5
<1>13. OneJobPerCompany'
  BY <1>2 DEF OneJobPerCompany
<1>14. ResetEmptiesScope'
  BY <1>2, <1>3 DEF ResetEmptiesScope, InScope, RemovalInv
<1>15. HistoryInv'
  <2>1. ASSUME SnapshotIsolation \/ req[t].op = "delete"
        PROVE  \A g \in HistoryOf(t), h \in history : g.job # h.job
    BY <1>2, <1>5, <2>1 DEF RemovalInv, KeyInv
  <2>2. ASSUME NEW g \in HistoryOf(t), g.reason = "deleted"
        PROVE  req[t].op = "delete"
    BY <1>2, <1>5, <2>2 DEF EndReason, PhaseInv, RemoveRequests
  <2>3. \A g, h \in HistoryOf(t) : g.job = h.job => g = h
    BY DEF HistoryOf
  <2>4. DeletedOnce'
    BY <1>4, <2>1, <2>2, <2>3 DEF HistoryInv, DeletedOnce
  <2>5. SnapshotIsolation => ArchivedOnce'
    BY <1>4, <2>1, <2>3 DEF HistoryInv, ArchivedOnce
  <2> QED BY <2>4, <2>5 DEF HistoryInv
<1> QED BY <1>1, <1>7, <1>8, <1>9, <1>10, <1>11, <1>12, <1>13, <1>14, <1>15

(* Every step of a worker or of the environment keeps the invariant. *)
LEMMA NextInv ==
  ASSUME Inv, [Next]_vars
  PROVE  Inv'
<1>1. CASE \E t \in Threads : Begin(t)
  BY <1>1, BeginInv
<1>2. CASE \E t \in Threads : Step(t)
  BY <1>2, LockCompanyInv, CheckAssignmentInv, InsertAssignmentInv, CommitCreateInv,
     RefuseInv, RemoveRowsInv, CommitRemoveInv DEF Step, DeleteConflicts, DeleteMisses
<1>3. CASE \E t \in Threads : Rollback(t)
  BY <1>3, RefuseInv DEF Rollback
<1>4. CASE Environment
  BY <1>4, EnvironmentFrame, EnvironmentTypeOK, FrameInv DEF Inv
<1>5. CASE UNCHANGED vars
  <2>1. TypeOK'
    BY <1>5, NextTypeOK DEF Inv
  <2> QED BY <1>5, <2>1, FrameInv DEF vars
<1> QED BY <1>1, <1>2, <1>3, <1>4, <1>5 DEF Next

(* The inductive invariant holds in every reachable state, whether the database       *)
(* detects stale reads or not.                                                        *)
THEOREM Invariance == Spec => []Inv
<1>1. Init => Inv
  BY InitInv
<1>2. Inv /\ [Next]_vars => Inv'
  BY NextInv
<1> QED BY <1>1, <1>2, PTL DEF Spec

(* The service's state keeps its types: keys stay in range, caps stay naturals. *)
THEOREM TypeCorrect == Spec => []TypeOK
<1>1. Inv => TypeOK
  BY DEF Inv
<1> QED BY <1>1, Invariance, PTL

(* create_assignment never gives a participant two placements at one company. *)
THEOREM OneJobAtACompany == Spec => []OneJobPerCompany
<1>1. Inv => OneJobPerCompany
  BY DEF Inv
<1> QED BY <1>1, Invariance, PTL

(* Competing deletes of one placement write one history row between them. *)
THEOREM DeletesArchiveOnce == Spec => []DeletedOnce
<1>1. Inv => DeletedOnce
  BY DEF Inv, HistoryInv
<1> QED BY <1>1, Invariance, PTL

(* With stale reads detected, whoever races to end a placement, it gets one history row. *)
THEOREM EndsArchiveOnce ==
  ASSUME SnapshotIsolation
  PROVE  Spec => []ArchivedOnce
<1>1. Inv => ArchivedOnce
  BY DEF Inv, HistoryInv
<1> QED BY <1>1, Invariance, PTL

(* No placement enters the scope of a reset between its DELETE and its commit. *)
THEOREM ResetLeavesNothing == Spec => []ResetEmptiesScope
<1>1. Inv => ResetEmptiesScope
  BY DEF Inv
<1> QED BY <1>1, Invariance, PTL
-----------------------------------------------------------------------------
(* Steps that change the stored placements. *)

(* Only the two commits change what other requests can read. *)
LEMMA OnlyCommitsWrite ==
  ASSUME [Next]_vars
  PROVE  \/ UNCHANGED <<jobs, history>>
         \/ \E u \in Threads : CommitCreate(u)
         \/ \E u \in Threads : CommitRemove(u)
<1>1. ASSUME NEW u \in Threads, Begin(u) PROVE UNCHANGED <<jobs, history>>
  BY <1>1 DEF Begin, BeginCreate, BeginDelete, BeginDeleteByEmployee, BeginResetCompany,
     BeginResetAll, Archive, stored
<1>2. ASSUME NEW u \in Threads, Refuse(u) PROVE UNCHANGED <<jobs, history>>
  BY <1>2 DEF Refuse, stored
<1>3. ASSUME NEW u \in Threads, Step(u)
      PROVE  \/ UNCHANGED <<jobs, history>>
             \/ CommitCreate(u) \/ CommitRemove(u)
  BY <1>2, <1>3 DEF Step, LockCompany, CheckAssignment, InsertAssignment, DeleteConflicts,
     DeleteMisses, RemoveRows, stored
<1>4. CASE Environment
  BY <1>4, EnvironmentFrame DEF stored
<1>5. CASE UNCHANGED vars
  BY <1>5 DEF vars, stored
<1> QED BY <1>1, <1>2, <1>3, <1>4, <1>5 DEF Next, Rollback

(* A placement that leaves without a record was removed by a reset that had not read it. *)
OnlyResetsLose ==
  [][\A r \in jobs \ jobs' :
        \/ \E h \in history' \ history : h.job = r
        \/ \E t \in Threads : /\ pc[t] = "removed" /\ req[t].op # "delete"
                             /\ r \in removed[t] \ archived[t] /\ ~SnapshotIsolation]_<<jobs, history>>

LEMMA WhatIsRemoved ==
  ASSUME Inv, [Next]_vars, NEW r \in jobs \ jobs'
  PROVE  \/ \E h \in history' \ history : h.job = r
         \/ \E t \in Threads : /\ pc[t] = "removed" /\ req[t].op # "delete"
                              /\ r \in removed[t] \ archived[t] /\ ~SnapshotIsolation
<1>1. PICK t \in Threads : CommitRemove(t)
  BY OnlyCommitsWrite DEF CommitCreate
<1>2. /\ pc[t] = "removed" /\ jobs' = jobs \ removed[t] /\ history' = history \union HistoryOf(t)
      /\ r \in removed[t]
  BY <1>1 DEF CommitRemove
<1>3. SnapshotIsolation \/ req[t].op = "delete" => archived[t] = removed[t]
  BY <1>2 DEF Inv, RemovalInv
<1>4. CASE r \in archived[t]
  <2> DEFINE h == [job |-> r, reason |-> EndReason(req[t]), by |-> t]
  <2>1. h \in HistoryOf(t)
    BY <1>4 DEF HistoryOf
  <2>2. h \notin history
    BY DEF Inv, KeyInv
  <2> QED BY <1>2, <2>1, <2>2
<1>5. CASE r \notin archived[t]
  BY <1>2, <1>3, <1>5
<1> QED BY <1>4, <1>5

(* Whatever the database detects, a delete archives the placement it removes; only a reset can
   remove one that it did not archive. *)
THEOREM DeletesLoseNothing == Spec => OnlyResetsLose
<1>1. Inv /\ [Next]_vars =>
        [\A r \in jobs \ jobs' :
           \/ \E h \in history' \ history : h.job = r
           \/ \E t \in Threads : /\ pc[t] = "removed" /\ req[t].op # "delete"
                                /\ r \in removed[t] \ archived[t] /\ ~SnapshotIsolation]_<<jobs, history>>
  BY WhatIsRemoved
<1> QED BY <1>1, Invariance, PTL DEF Spec, OnlyResetsLose

(* With stale reads detected every placement that leaves job_assignments is recorded in the
   same step, a reset's too: what a run shows to fail without. *)
THEOREM NothingIsLost ==
  ASSUME SnapshotIsolation
  PROVE  Spec => RemovedAreArchived
<1>1. Inv /\ [Next]_vars => [\A r \in jobs \ jobs' : \E h \in history' \ history : h.job = r]_<<jobs, history>>
  BY WhatIsRemoved
<1> QED BY <1>1, Invariance, PTL DEF Spec, RemovedAreArchived

(* A create commits within the cap it read, for any number of competing requests. *)
THEOREM CapacityIsRespected == Spec => CapacityRespected
<1> DEFINE Within ==
      \A t \in Threads : pc[t] = "inserted" /\ pc'[t] = "idle" /\ jobs' # jobs =>
        Cardinality({r \in jobs' : r.company = req[t].company}) <= admitted[t]
<1>1. ASSUME Inv, [Next]_vars PROVE Within
  <2> SUFFICES ASSUME NEW t \in Threads, pc[t] = "inserted", pc'[t] = "idle", jobs' # jobs
               PROVE  Cardinality({r \in jobs' : r.company = req[t].company}) <= admitted[t]
    OBVIOUS
  <2> USE <1>1 DEF Inv
  <2>1. CommitCreate(t)
    <3>1. \A u \in Threads : CommitCreate(u) \/ CommitRemove(u) =>
            \A v \in Threads : v # u => pc'[v] = pc[v]
      BY DEF CommitCreate, CommitRemove, Finish, TypeOK
    <3>2. ~CommitRemove(t)
      BY DEF CommitRemove
    <3> QED BY <3>1, <3>2, OnlyCommitsWrite
  <2> DEFINE c == req[t].company
  <2>2. PICK k \in Ids :
          inserted[t] = {[id |-> k, employee |-> req[t].employee, company |-> c]}
    BY DEF PhaseInv
  <2> DEFINE row == [id |-> k, employee |-> req[t].employee, company |-> c]
  <2>3. row \notin jobs
    <3>1. row \in inserted[t]
      BY <2>2
    <3> QED BY <3>1 DEF KeyInv
  <2>4. {r \in jobs' : r.company = c} = JobsAt(c) \union {row}
    BY <2>1, <2>2 DEF CommitCreate, JobsAt
  <2>5. IsFiniteSet(JobsAt(c)) /\ row \notin JobsAt(c)
    BY <2>3, FS_Subset DEF JobsAt, KeyInv
  <2>6. Cardinality(JobsAt(c) \union {row}) = Cardinality(JobsAt(c)) + 1
    BY <2>5, FS_AddElement
  <2>7. Cardinality(JobsAt(c)) < admitted[t] /\ Cardinality(JobsAt(c)) \in Nat
        /\ admitted[t] \in Nat
    BY <2>5, FS_CardinalityType DEF RoomReserved, TypeOK
  <2>8. Cardinality(JobsAt(c) \union {row}) <= admitted[t]
    BY <2>6, <2>7
  <2> QED BY <2>4, <2>8, Zenon
<1> QED BY <1>1, Invariance, PTL DEF Spec, CapacityRespected
-----------------------------------------------------------------------------
(* With stale reads detected the service implements the board. *)

(* A create's commit is the board's Assign. *)
LEMMA CreateIsAssign ==
  ASSUME Inv, NEW t \in Threads, CommitCreate(t)
  PROVE  \E row \in Board!Rows : Board!Assign(row)
<1> USE DEF Inv
<1>1. PICK k \in Ids :
        inserted[t] = {[id |-> k, employee |-> req[t].employee, company |-> req[t].company]}
  BY DEF CommitCreate, PhaseInv
<1> DEFINE row == [id |-> k, employee |-> req[t].employee, company |-> req[t].company]
<1>2. row \in inserted[t] /\ jobs' = jobs \union {row} /\ history' = history
  BY <1>1 DEF CommitCreate
<1>3. row \in Board!Rows
  BY <1>2 DEF TypeOK, Rows, Board!Rows
<1>4. /\ \A h \in history : h.job.id # row.id
      /\ \A r \in jobs : r.id # row.id
  <2> HIDE DEF row
  <2> QED BY <1>2 DEF KeyInv
<1>5. \A r \in jobs : <<r.employee, r.company>> # <<row.employee, row.company>>
  BY DEF NoRivalRow, CommitCreate
<1> HIDE DEF row
<1> QED BY <1>2, <1>3, <1>4, <1>5 DEF Board!Assign

(* A delete's or reset's commit is the board's End. *)
LEMMA RemoveIsEnd ==
  ASSUME SnapshotIsolation, Inv, NEW t \in Threads, CommitRemove(t)
  PROVE  \E ended \in SUBSET jobs, reason \in Board!Reasons, by \in Threads :
            Board!End(ended, reason, by)
<1> USE DEF Inv
<1>1. /\ pc[t] = "removed" /\ removed[t] \subseteq jobs /\ archived[t] = removed[t]
      /\ removed[t] = InScope(t) /\ req[t] \in RemoveRequests
      /\ req[t].op = "delete" => removed[t] # {}
  BY DEF CommitRemove, RemovalInv, ResetEmptiesScope, PhaseInv
<1>2. EndReason(req[t]) \in Board!Reasons
  BY <1>1 DEF EndReason, RemoveRequests, Board!Reasons
<1>3. Board!EndsTogether(removed[t], EndReason(req[t]))
  <2>1. CASE req[t].op = "delete"
    <3>1. PICK r \in removed[t] : TRUE
      BY <1>1, <2>1
    <3>2. removed[t] = {r}
      BY <1>1, <2>1 DEF InScope, Covers, KeyInv
    <3> QED BY <1>1, <2>1, <3>2 DEF Board!EndsTogether, EndReason
  <2>2. CASE req[t].op = "reset_company"
    <3>1. req[t].company \in Companies
      BY <1>1, <2>2 DEF RemoveRequests
    <3>2. removed[t] = {r \in jobs : r.company = req[t].company}
      BY <1>1, <2>2 DEF InScope, Covers
    <3> QED BY <2>2, <3>1, <3>2 DEF Board!EndsTogether, EndReason
  <2>3. CASE req[t].op = "reset_all"
    <3>1. removed[t] = jobs
      BY <1>1, <2>3 DEF InScope, Covers
    <3> QED BY <2>3, <3>1 DEF Board!EndsTogether, EndReason
  <2> QED BY <1>1, <2>1, <2>2, <2>3 DEF RemoveRequests
<1>4. Board!End(removed[t], EndReason(req[t]), t)
  BY <1>1, <1>3 DEF CommitRemove, HistoryOf, Board!End
<1> QED BY <1>1, <1>2, <1>4

(* Every behaviour of the service, seen through its two tables, is a behaviour of the *)
(* atomic board: no ended placement without its record, none recorded twice.          *)
THEOREM Implementation ==
  ASSUME SnapshotIsolation
  PROVE  Spec => ImplementsBoard
<1>1. Init => Board!Init
  BY DEF Init, Board!Init
<1>2. ASSUME Inv, [Next]_vars PROVE [Board!Next]_<<jobs, history>>
  <2>1. CASE UNCHANGED <<jobs, history>>
    BY <2>1
  <2>2. ASSUME NEW t \in Threads, CommitCreate(t) PROVE Board!Next
    BY <1>2, <2>2, CreateIsAssign DEF Board!Next
  <2>3. ASSUME NEW t \in Threads, CommitRemove(t) PROVE Board!Next
    BY <1>2, <2>3, RemoveIsEnd DEF Board!Next
  <2> QED BY <1>2, <2>1, <2>2, <2>3, OnlyCommitsWrite DEF Inv
<1> QED BY <1>1, <1>2, Invariance, PTL DEF Spec, ImplementsBoard, Board!Spec
-----------------------------------------------------------------------------
(* The one-job rule.  What breaks it takes two creates for one participant. *)

(* Past its checks, not committed yet. *)
Admitted(t) == pc[t] \in {"inserting", "inserted"}

(* No two creates for one participant have both passed their checks, at whichever companies. *)
CreatesApart ==
  \A t, u \in Threads : Admitted(t) /\ Admitted(u) /\ req[t].employee = req[u].employee => t = u

(* A create past its checks is for somebody without a placement. *)
NoJobYet == \A t \in Threads : Admitted(t) => \A r \in jobs : r.employee # req[t].employee

(* There is no way past the checks but through them. *)
LEMMA AdmittedSteps ==
  ASSUME Inv, [Next]_vars, NEW t \in Threads, Admitted(t)'
  PROVE  /\ req'[t] = req[t]
         /\ Admitted(t) \/ (jobs' = jobs /\ \A r \in jobs : r.employee # req[t].employee)
<1> USE DEF Inv, TypeOK, Admitted
<1>1. CASE UNCHANGED <<jobs, pc, req>>
  BY <1>1
<1>2. ASSUME NEW u \in Threads, Refuse(u) PROVE u # t /\ pc'[t] = pc[t] /\ req'[t] = req[t]
  BY <1>2 DEF Refuse, Finish
<1>3. ASSUME NEW u \in Threads, Begin(u) PROVE u # t /\ pc'[t] = pc[t] /\ req'[t] = req[t]
  BY <1>3 DEF Begin, BeginCreate, BeginDelete, BeginDeleteByEmployee, BeginResetCompany, BeginResetAll, Archive
<1>4. ASSUME NEW u \in Threads, CheckAssignment(u), ~Refuse(u)
      PROVE  /\ req'[t] = req[t]
             /\ Admitted(t) \/ (jobs' = jobs /\ \A r \in jobs : r.employee # req[t].employee)
  <2>1. /\ MayAssign(req[u].employee, req[u].company) /\ jobs' = jobs /\ req' = req
        /\ \A v \in Threads : v # u => pc'[v] = pc[v]
    BY <1>4 DEF CheckAssignment, stored
  <2>2. CASE u = t
    BY <2>1, <2>2 DEF MayAssign
  <2>3. CASE u # t
    BY <2>1, <2>3
  <2> QED BY <2>2, <2>3
<1>5. ASSUME NEW u \in Threads, LockCompany(u) \/ InsertAssignment(u), ~Refuse(u)
      PROVE  req'[t] = req[t] /\ Admitted(t)
  BY <1>5 DEF LockCompany, InsertAssignment
<1>6. ASSUME NEW u \in Threads, CommitCreate(u) \/ CommitRemove(u) \/ RemoveRows(u)
      PROVE  u # t /\ pc'[t] = pc[t] /\ req'[t] = req[t]
  BY <1>6 DEF CommitCreate, CommitRemove, RemoveRows, Finish
<1>7. ASSUME NEW u \in Threads, DeleteConflicts(u) \/ DeleteMisses(u) \/ Rollback(u)
      PROVE  Refuse(u)
  BY <1>7 DEF DeleteConflicts, DeleteMisses, Rollback
<1>8. CASE Environment
  BY <1>1, <1>8, EnvironmentFrame DEF stored, session
<1>9. CASE UNCHANGED vars
  BY <1>1, <1>9 DEF vars, stored, session
<1>10. CASE \E u \in Threads : Begin(u) \/ Step(u) \/ Rollback(u)
  BY <1>2, <1>3, <1>4, <1>5, <1>6, <1>7, <1>10 DEF Step
<1> QED BY <1>8, <1>9, <1>10 DEF Next

LEMMA ApartStep ==
  ASSUME Inv, OneJobPerEmployee, NoJobYet, CreatesApart, [Next]_vars
  PROVE  (OneJobPerEmployee /\ NoJobYet)'
<1>1. CASE jobs' \subseteq jobs
  <2>1. OneJobPerEmployee'
    BY <1>1 DEF OneJobPerEmployee
  <2>2. ASSUME NEW t \in Threads, Admitted(t)'
        PROVE  \A r \in jobs' : r.employee # req'[t].employee
    BY <1>1, <2>2, AdmittedSteps DEF NoJobYet
  <2> QED BY <2>1, <2>2 DEF NoJobYet
<1>2. CASE \E t \in Threads : CommitCreate(t)
  <2>1. PICK t \in Threads : CommitCreate(t)
    BY <1>2
  <2>2. /\ Admitted(t) /\ jobs' = jobs \union inserted[t] /\ pc'[t] = "idle"
        /\ \A r \in inserted[t] : r.employee = req[t].employee
        /\ \A r, s \in inserted[t] : r = s
    BY <2>1 DEF CommitCreate, Finish, Inv, PhaseInv, TypeOK, Admitted
  <2>3. OneJobPerEmployee'
    BY <2>2 DEF OneJobPerEmployee, NoJobYet
  <2>4. ASSUME NEW u \in Threads, Admitted(u)'
        PROVE  \A r \in jobs' : r.employee # req'[u].employee
    <3>1. u # t
      BY <2>2, <2>4 DEF Admitted
    <3>2. pc'[u] = pc[u] /\ req'[u] = req[u]
      BY <2>1, <3>1 DEF CommitCreate, Finish, Inv, TypeOK
    <3>3. Admitted(u) /\ req[u].employee # req[t].employee
      BY <2>2, <2>4, <3>1, <3>2 DEF Admitted, CreatesApart
    <3> QED BY <2>2, <3>2, <3>3 DEF NoJobYet
  <2> QED BY <2>3, <2>4 DEF NoJobYet
<1> QED BY <1>1, <1>2, OnlyCommitsWrite DEF CommitRemove

(* As long as no two creates for one participant are past their checks together, a participant has
   one placement at most: the rule fails by that overlap and by nothing else, however creates for
   different participants, deletes, resets and the camp interleave. *)
THEOREM OneJobUnlessRaced == Spec /\ []CreatesApart => []OneJobPerEmployee
<1>1. Init => OneJobPerEmployee /\ NoJobYet
  BY DEF Init, OneJobPerEmployee, NoJobYet
<1>2. Inv /\ (OneJobPerEmployee /\ NoJobYet) /\ CreatesApart /\ [Next]_vars
        => (OneJobPerEmployee /\ NoJobYet)'
  BY ApartStep
<1> QED BY <1>1, <1>2, Invariance, PTL DEF Spec
=============================================================================
