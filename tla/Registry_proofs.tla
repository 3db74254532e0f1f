-------------------------- MODULE Registry_proofs --------------------------
(* Proofs about Registry, for any tables, any number of requests and any      *)
(* files.                                                                     *)
EXTENDS Registry, SequenceTheorems, FiniteSetTheorems, WellFoundedInduction, TLAPS

-----------------------------------------------------------------------------
(* The invariant *)

(* A request assigns a key of its row's table. *)
SessionsInv ==
  \A t \in Threads :
    req[t].op = "update" => req[t].key \in Keys(req[t].id) \union {None}

(* The row that was looked up is the row of the line as long as nobody raced with it, and its
   contents are known unless the session remembered older ones... *)
Fresh ==
  IF found.id = None THEN get_by_key(Line.key) = {}
  ELSE /\ rows[found.id] # None /\ rows[found.id].key = Line.key
       /\ ~found.stale => rows[found.id] = found.row

(* ... and a session is broken only by a race or by what the line says. *)
LineInv ==
  /\ found # NotLookedUp =>
       /\ line <= Len(file.lines) /\ ~Skipped
       /\ found.id \in file.table \union {None}
       /\ found.id # None => found.row \in Rows(found.id)
       /\ ~raced => Fresh
  /\ broken =>
       /\ found # NotLookedUp
       /\ raced \/ ~Line.parsed \/ (found.id \in Employees /\ Line.auth_group = None)

RegistryInv == TypeOK /\ SessionsInv /\ LineInv
-----------------------------------------------------------------------------
(* What the types give *)

LEMMA RowsTyped ==
  ASSUME TypeOK, NEW i \in Ids, NEW r \in Rows(i) \union {None}
  PROVE  /\ [rows EXCEPT ![i] = r] \in [Ids -> (UNION {Rows(j) : j \in Ids}) \union {None}]
         /\ \A j \in Ids : [rows EXCEPT ![i] = r][j] \in Rows(j) \union {None}
         /\ [rows EXCEPT ![i] = r][i] = r
         /\ \A j \in Ids \ {i} : [rows EXCEPT ![i] = r][j] = rows[j]
<1> DEFINE All == (UNION {Rows(j) : j \in Ids}) \union {None}
<1>1. r \in All
  <2>1. ASSUME r \in Rows(i) PROVE r \in UNION {Rows(j) : j \in Ids}
    BY <2>1, Zenon
  <2>2. CASE r = None
    BY <2>2
  <2>3. CASE r \in Rows(i)
    BY <2>1, <2>3, Zenon
  <2> QED BY <2>2, <2>3, Zenon
<1>2. rows \in [Ids -> All] /\ \A j \in Ids : rows[j] \in Rows(j) \union {None}
  BY DEF TypeOK
<1> HIDE DEF All
<1>3. [rows EXCEPT ![i] = r] \in [Ids -> All]
  BY <1>1, <1>2
<1>4. [rows EXCEPT ![i] = r][i] = r /\ \A j \in Ids \ {i} : [rows EXCEPT ![i] = r][j] = rows[j]
  BY <1>2
<1> QED BY <1>2, <1>3, <1>4 DEF All

LEMMA KeysApart ==
  /\ \A i \in Employees : Keys(i) = Numbers /\ i \in Ids
  /\ \A i \in Companies : Keys(i) = Names /\ i \in Ids /\ i \notin Employees
  /\ \A k : ~(k \in Numbers /\ k \in Names) /\ (k = None => k \notin Numbers \union Names)
  /\ \A i \in Ids : i # None /\ None \notin Rows(i)
  BY RegistryAssumption DEF Keys, Ids

(* A file is of one table, and its lines have keys of it. *)
LEMMA LineTyped ==
  ASSUME TypeOK, line <= Len(file.lines)
  PROVE  /\ file.table \in {Employees, Companies} /\ file.table \subseteq Ids
         /\ \A i \in file.table : Line \in Lines(Keys(i))
         /\ Line \in Lines(Numbers) \union Lines(Names)
         /\ \A i \in Ids : rows[i] # None /\ rows[i].key = Line.key => i \in file.table
<1>1. \/ file.table = Employees /\ file.lines \in Seq(Lines(Numbers))
      \/ file.table = Companies /\ file.lines \in Seq(Lines(Names))
  BY RegistryAssumption DEF TypeOK
<1>2. line \in 1 .. Len(file.lines)
  BY <1>1, LenProperties DEF TypeOK
<1>3. \/ file.table = Employees /\ Line \in Lines(Numbers)
      \/ file.table = Companies /\ Line \in Lines(Names)
  BY <1>1, <1>2, ElementOfSeq DEF Line
<1>4. \A i \in Ids : rows[i] # None => rows[i].key \in Keys(i)
  BY DEF TypeOK, Rows
<1>5. \/ file.table = Employees /\ Line.key \in Numbers
      \/ file.table = Companies /\ Line.key \in Names
  BY <1>3 DEF Lines
<1> QED BY <1>3, <1>4, <1>5, KeysApart, RegistryAssumption DEF Ids

LEMMA Appended ==
  ASSUME TypeOK, NEW x \in {"skipped", "ok", "failed"}, line <= Len(file.lines)
  PROVE  /\ Append(report, x) \in [1 .. (line + 1) - 1 -> {"skipped", "ok", "failed"}]
         /\ Last(Append(report, x)) = x
         /\ line + 1 \in 1 .. Len(file.lines) + 1
<1> DEFINE S == {"skipped", "ok", "failed"}
<1>1. line \in Nat /\ line >= 1 /\ line - 1 \in Nat /\ report \in [1 .. line - 1 -> S]
  <2>1. line \in 1 .. Len(file.lines) + 1
    BY DEF TypeOK
  <2> QED BY <2>1 DEF TypeOK
<1>2. report \in Seq(S) /\ Len(report) = line - 1
  <2>1. report \in Seq(S)
    BY <1>1, SeqDef
  <2>2. DOMAIN report = 1 .. Len(report) /\ Len(report) \in Nat
    BY <2>1, LenProperties
  <2> QED BY <1>1, <2>1, <2>2
<1>3. Append(report, x) \in Seq(S) /\ Len(Append(report, x)) = line /\ Append(report, x)[line] = x
  BY <1>1, <1>2, AppendProperties
<1>4. Append(report, x) \in [1 .. line -> S]
  BY <1>3, LenProperties
<1>5. Len(file.lines) \in Nat
  <2>1. file.lines \in Seq(Lines(Numbers)) \/ file.lines \in Seq(Lines(Names))
    BY RegistryAssumption DEF TypeOK
  <2> QED BY <2>1, LenProperties
<1> QED BY <1>1, <1>3, <1>4, <1>5 DEF Last

-----------------------------------------------------------------------------
(* Writes of rows *)

(* The API writes a row: what the import knows of its line is still so, or it was raced. *)
LEMMA ApiWriteKeepsLine ==
  ASSUME RegistryInv, NEW i \in Ids, NEW r \in Rows(i) \union {None}, NEW k,
         r # None => r.key = k,
         rows' = [rows EXCEPT ![i] = r], raced' = (raced \/ ConcernsImport(i, k)),
         UNCHANGED <<file, line, found, broken, report>>
  PROVE  LineInv'
<1>1. /\ file' = file /\ line' = line /\ found' = found /\ broken' = broken
      /\ Line' = Line /\ Skipped' = Skipped /\ rows'[i] = r /\ \A j \in Ids \ {i} : rows'[j] = rows[j]
  BY RowsTyped DEF RegistryInv, Line, Skipped
<1>2. raced => raced'
  OBVIOUS
<1>3. ASSUME found # NotLookedUp, ~raced' PROVE Fresh'
  <2>1. ~raced /\ i # found.id /\ k # Line.key
    BY <1>3 DEF ConcernsImport, Line
  <2>2. Fresh /\ found.id \in file.table \union {None} /\ line <= Len(file.lines)
    BY <1>3, <2>1 DEF RegistryInv, LineInv
  <2>3. CASE found.id = None
    <3>1. \A j \in Ids : ~(rows[j] # None /\ rows[j].key = Line.key)
      BY <2>2, <2>3 DEF Fresh, get_by_key, Stored
    <3>2. \A j \in Ids : ~(rows'[j] # None /\ rows'[j].key = Line.key)
      BY <1>1, <2>1, <3>1
    <3> QED BY <1>1, <2>3, <3>2 DEF Fresh, get_by_key, Stored
  <2>4. CASE found.id # None
    <3>1. found.id \in Ids /\ rows'[found.id] = rows[found.id]
      BY <1>1, <2>1, <2>2, <2>4, LineTyped DEF RegistryInv
    <3> QED BY <1>1, <2>2, <2>4, <3>1 DEF Fresh
  <2> QED BY <2>3, <2>4
<1> QED BY <1>1, <1>2, <1>3 DEF RegistryInv, LineInv

(* Nothing else moves the line either. *)
LEMMA OtherStepsKeepLine ==
  ASSUME LineInv, rows' = rows, UNCHANGED import
  PROVE  LineInv'
<1>1. /\ file' = file /\ line' = line /\ found' = found /\ broken' = broken /\ raced' = raced
  BY DEF import
<1>2. Line' = Line /\ Skipped' = Skipped /\ Fresh' = Fresh
  BY <1>1 DEF Line, Skipped, Fresh, get_by_key, Stored
<1> QED BY <1>1, <1>2 DEF LineInv

LEMMA CreateStep ==
  ASSUME RegistryInv, NEW i \in Ids, NEW r \in Rows(i), Create(i, r)
  PROVE  RegistryInv'
<1>1. /\ rows' = [rows EXCEPT ![i] = r]
      /\ changes' = changes + 1 /\ changes < MaxChanges /\ raced' = (raced \/ ConcernsImport(i, r.key))
      /\ gone' = gone /\ slots' = slots /\ attendances' = attendances /\ job_assignments' = job_assignments
      /\ req' = req /\ seen' = seen /\ loaded' = loaded
      /\ file' = file /\ line' = line /\ found' = found /\ broken' = broken /\ report' = report
  BY DEF Create, Insert, Count, session
<1>2. TypeOK'
  <2>1. /\ rows' \in [Ids -> (UNION {Rows(j) : j \in Ids}) \union {None}]
        /\ \A j \in Ids : rows'[j] \in Rows(j) \union {None}
    BY <1>1, RowsTyped DEF RegistryInv
  <2>2. changes' \in 0 .. MaxChanges /\ raced' \in BOOLEAN
    BY <1>1, RegistryAssumption DEF RegistryInv, TypeOK, ConcernsImport
  <2> QED BY <1>1, <2>1, <2>2 DEF RegistryInv, TypeOK
<1>3. SessionsInv'
  BY <1>1 DEF RegistryInv, SessionsInv
<1>4. LineInv'
  BY <1>1, ApiWriteKeepsLine
<1> QED BY <1>2, <1>3, <1>4 DEF RegistryInv

LEMMA CreatedRows ==
  /\ create_employee => \E i \in Ids : \E r \in Rows(i) : Create(i, r)
  /\ create_company => \E i \in Ids : \E r \in Rows(i) : Create(i, r)
<1>1. ASSUME NEW i \in Employees, NEW k \in Numbers, NEW g \in AUTH_GROUPS, NEW v \in JsonFlags
      PROVE  i \in Ids /\ CreateEmployeeRequest(k, g, v) \in Rows(i)
  BY DEF CreateEmployeeRequest, parse_bool_from_json, Rows, Keys, Ids
<1>2. ASSUME NEW i \in Companies, NEW k \in Names, NEW v \in JsonFlags
      PROVE  i \in Ids /\ CreateCompanyRequest(k, v) \in Rows(i)
  BY KeysApart DEF CreateCompanyRequest, Rows
<1>3. {"TRUE", "FALSE", None} \subseteq JsonFlags
  BY DEF JsonFlags
<1>4. create_employee => \E i \in Ids : \E r \in Rows(i) : Create(i, r)
  <2> SUFFICES ASSUME NEW i \in Employees, NEW k \in Numbers, NEW g \in AUTH_GROUPS, NEW v \in JsonFlags,
                      Create(i, CreateEmployeeRequest(k, g, v))
               PROVE  \E j \in Ids : \E r \in Rows(j) : Create(j, r)
    BY DEF create_employee
  <2> QED BY <1>1
<1>5. create_company => \E i \in Ids : \E r \in Rows(i) : Create(i, r)
  <2> SUFFICES ASSUME NEW i \in Companies, NEW k \in Names, NEW v \in JsonFlags,
                      Create(i, CreateCompanyRequest(k, v))
               PROVE  \E j \in Ids : \E r \in Rows(j) : Create(j, r)
    BY <1>3 DEF create_company
  <2> QED BY <1>2
<1> QED BY <1>4, <1>5

LEMMA BeginStep ==
  ASSUME RegistryInv, NEW t \in Threads, NEW q \in Requests,
         q.op = "update" => q.key \in Keys(q.id) \union {None}, Begin(t, q)
  PROVE  RegistryInv'
<1>1. /\ req' = [req EXCEPT ![t] = q]
      /\ seen' = [seen EXCEPT ![t] = Load(q.id)]
      /\ UNCHANGED tables /\ changes' = changes /\ UNCHANGED import
  BY DEF Begin
<1>2. TypeOK'
  <2>1. req' \in [Threads -> Requests \union {NoRequest}] /\ DOMAIN seen' = Threads
    BY <1>1 DEF RegistryInv, TypeOK
  <2> QED BY <1>1, <2>1 DEF RegistryInv, TypeOK, tables, import
<1>3. SessionsInv'
  <2>1. req'[t] = q
    BY <1>1 DEF RegistryInv, TypeOK
  <2>2. \A u \in Threads \ {t} : req'[u] = req[u]
    BY <1>1 DEF RegistryInv, TypeOK
  <2> QED BY <2>1, <2>2 DEF RegistryInv, SessionsInv
<1>4. LineInv'
  BY <1>1, OtherStepsKeepLine DEF RegistryInv, tables
<1> QED BY <1>2, <1>3, <1>4 DEF RegistryInv

LEMMA FinishKeepsSessions ==
  ASSUME TypeOK, SessionsInv, NEW t \in Threads, Finish(t)
  PROVE  /\ SessionsInv'
         /\ req' \in [Threads -> Requests \union {NoRequest}]
         /\ DOMAIN seen' = Threads
<1>1. req'[t] = NoRequest /\ \A u \in Threads \ {t} : req'[u] = req[u]
  BY DEF Finish, TypeOK
<1> QED BY <1>1 DEF Finish, TypeOK, SessionsInv, NoRequest

LEMMA CommitUpdateStep ==
  ASSUME RegistryInv, NEW t \in Threads, CommitUpdate(t)
  PROVE  /\ RegistryInv' /\ req[t].id \in Ids /\ rows'[req[t].id] # None
         /\ \A j \in Ids \ {req[t].id} : rows'[j] = rows[j]
<1> DEFINE q == req[t]
           new == Changed(q, seen[t].row, rows[q.id])
<1>1. /\ q.op = "update" /\ rows[q.id] # None /\ rows' = [rows EXCEPT ![q.id] = new]
      /\ changes' = changes + 1 /\ changes < MaxChanges /\ raced' = (raced \/ ConcernsImport(q.id, new.key))
      /\ gone' = gone /\ slots' = slots /\ attendances' = attendances /\ job_assignments' = job_assignments
      /\ Finish(t)
      /\ file' = file /\ line' = line /\ found' = found /\ loaded' = loaded /\ broken' = broken /\ report' = report
  BY DEF CommitUpdate, Count
<1>2. q \in Requests /\ q.id \in Ids /\ q.key \in Keys(q.id) \union {None} /\ q.active \in BOOLEAN \union {None}
  <2>1. q \in Requests
    BY <1>1 DEF RegistryInv, TypeOK, NoRequest
  <2>2. q.id \in Ids /\ q.active \in BOOLEAN \union {None}
    BY <1>1, <2>1 DEF Requests
  <2> QED BY <1>1, <2>1, <2>2 DEF RegistryInv, SessionsInv, NoRequest
<1>3. new \in Rows(q.id) /\ new # None
  <2>1. rows[q.id] \in Rows(q.id)
    BY <1>1, <1>2 DEF RegistryInv, TypeOK
  <2>2. new \in Rows(q.id)
    BY <1>2, <2>1 DEF Changed, Column, Rows
  <2> QED BY <1>2, <2>2, KeysApart
<1> HIDE DEF new
<1>4. TypeOK'
  <2>1. /\ rows' \in [Ids -> (UNION {Rows(j) : j \in Ids}) \union {None}]
        /\ \A j \in Ids : rows'[j] \in Rows(j) \union {None}
    BY <1>1, <1>2, <1>3, RowsTyped DEF RegistryInv
  <2>2. changes' \in 0 .. MaxChanges /\ raced' \in BOOLEAN
    BY <1>1, RegistryAssumption DEF RegistryInv, TypeOK, ConcernsImport
  <2> QED BY <1>1, <2>1, <2>2, FinishKeepsSessions DEF RegistryInv, TypeOK
<1>5. SessionsInv'
  BY <1>1, FinishKeepsSessions DEF RegistryInv
<1>6. LineInv'
  BY <1>1, <1>2, <1>3, ApiWriteKeepsLine
<1>7. rows'[q.id] = new /\ \A j \in Ids \ {q.id} : rows'[j] = rows[j]
  BY <1>1, <1>2, <1>3, RowsTyped DEF RegistryInv
<1> QED BY <1>2, <1>3, <1>4, <1>5, <1>6, <1>7 DEF RegistryInv

LEMMA CommitDeleteStep ==
  ASSUME RegistryInv, NEW t \in Threads, CommitDelete(t)
  PROVE  /\ RegistryInv' /\ req[t] = [op |-> "delete", id |-> req[t].id] /\ req[t].id \in Ids
         /\ Placements(req[t].id) = {} /\ job_assignments' = job_assignments
         /\ \A j \in Ids \ {req[t].id} : rows'[j] = rows[j]
<1> DEFINE i == req[t].id
<1>1. /\ req[t].op = "delete" /\ ~seen[t].slots /\ Placements(i) = {}
      /\ rows' = [rows EXCEPT ![i] = None]
      /\ gone' = gone \union {i} /\ slots' = slots \ {i} /\ attendances' = attendances \ {i}
      /\ changes' = changes + 1 /\ changes < MaxChanges
      /\ raced' = (raced \/ ConcernsImport(i, seen[t].row.key))
      /\ Finish(t) /\ job_assignments' = job_assignments
      /\ file' = file /\ line' = line /\ found' = found /\ loaded' = loaded /\ broken' = broken /\ report' = report
  BY DEF CommitDelete, Count, Unplaced
<1>2. req[t] \in Requests /\ req[t] # NoRequest
  BY <1>1 DEF RegistryInv, TypeOK, NoRequest
<1>3. req[t] = [op |-> "delete", id |-> i] /\ i \in Ids
  BY <1>1, <1>2 DEF Requests
<1>5. TypeOK'
  <2>1. /\ rows' \in [Ids -> (UNION {Rows(j) : j \in Ids}) \union {None}]
        /\ \A j \in Ids : rows'[j] \in Rows(j) \union {None}
    BY <1>1, <1>3, RowsTyped DEF RegistryInv
  <2>2. changes' \in 0 .. MaxChanges /\ raced' \in BOOLEAN
    BY <1>1, RegistryAssumption DEF RegistryInv, TypeOK, ConcernsImport
  <2> QED BY <1>1, <1>3, <2>1, <2>2, FinishKeepsSessions DEF RegistryInv, TypeOK
<1>6. SessionsInv'
  BY <1>1, FinishKeepsSessions DEF RegistryInv
<1>7. LineInv'
  BY <1>1, <1>3, ApiWriteKeepsLine
<1>8. \A j \in Ids \ {i} : rows'[j] = rows[j]
  BY <1>1, <1>3, RowsTyped DEF RegistryInv
<1> QED BY <1>1, <1>3, <1>5, <1>6, <1>7, <1>8 DEF RegistryInv

LEMMA ReferringStep ==
  ASSUME RegistryInv, ReferringRows
  PROVE  RegistryInv' /\ rows' = rows
<1>1. /\ changes' = changes + 1 /\ changes < MaxChanges /\ rows' = rows /\ gone' = gone
      /\ UNCHANGED session /\ UNCHANGED import
  BY DEF ReferringRows
<1>2. slots' \subseteq Ids /\ attendances' \subseteq Employees /\ job_assignments' \subseteq Employees \X Companies
  <2>1. /\ slots \subseteq Ids /\ attendances \subseteq Employees
        /\ job_assignments \subseteq Employees \X Companies
    BY DEF RegistryInv, TypeOK
  <2>2. CASE \E i \in Ids : slots' = slots \union {i} \/ slots' = slots \ {i}
    BY <2>1, <2>2 DEF ReferringRows
  <2>3. CASE \E i \in Employees : attendances' = attendances \union {i}
    BY <2>1, <2>3 DEF ReferringRows
  <2>4. CASE \E i \in Employees, c \in Companies :
               job_assignments' = job_assignments \union {<<i, c>>} \/ job_assignments' = job_assignments \ {<<i, c>>}
    BY <2>1, <2>4 DEF ReferringRows
  <2> QED BY <2>1, <2>2, <2>3, <2>4 DEF ReferringRows
<1>3. changes' \in 0 .. MaxChanges
  BY <1>1, RegistryAssumption DEF RegistryInv, TypeOK
<1>4. TypeOK'
  BY <1>1, <1>2, <1>3 DEF RegistryInv, TypeOK, session, import
<1>5. SessionsInv'
  BY <1>1 DEF RegistryInv, SessionsInv, session
<1>6. LineInv'
  BY <1>1, OtherStepsKeepLine DEF RegistryInv
<1> QED BY <1>1, <1>4, <1>5, <1>6 DEF RegistryInv

LEMMA RefuseStep ==
  ASSUME RegistryInv, NEW t \in Threads, Refuse(t)
  PROVE  RegistryInv' /\ rows' = rows
<1>1. Finish(t) /\ UNCHANGED tables /\ changes' = changes /\ UNCHANGED import /\ rows' = rows
  BY DEF Refuse, tables
<1>2. TypeOK'
  BY <1>1, FinishKeepsSessions DEF RegistryInv, TypeOK, tables, import
<1> QED BY <1>1, <1>2, FinishKeepsSessions, OtherStepsKeepLine DEF RegistryInv

-----------------------------------------------------------------------------
(* The import *)

(* A line is done with. *)
LEMMA ReportStep ==
  ASSUME RegistryInv, NEW outcome \in {"skipped", "ok", "failed"}, line <= Len(file.lines), Report(outcome),
         ~broken', broken' \in BOOLEAN, UNCHANGED <<changes, session, file>>
  PROVE  /\ SessionsInv' /\ LineInv' /\ Last(report') = outcome
         /\ changes' \in 0 .. MaxChanges
         /\ req' \in [Threads -> Requests \union {NoRequest}] /\ DOMAIN seen' = Threads
         /\ file' \in Files /\ line' \in 1 .. Len(file'.lines) + 1 /\ raced' \in BOOLEAN
         /\ report' \in [1 .. line' - 1 -> {"skipped", "ok", "failed"}]
<1>1. /\ report' = Append(report, outcome) /\ line' = line + 1 /\ found' = NotLookedUp /\ raced' = FALSE
      /\ req' = req /\ seen' = seen /\ changes' = changes /\ file' = file
  BY DEF Report, session
<1>2. /\ report' \in [1 .. line' - 1 -> {"skipped", "ok", "failed"}] /\ Last(report') = outcome
      /\ line' \in 1 .. Len(file'.lines) + 1
  <2>1. /\ Append(report, outcome) \in [1 .. (line + 1) - 1 -> {"skipped", "ok", "failed"}]
        /\ Last(Append(report, outcome)) = outcome
        /\ line + 1 \in 1 .. Len(file.lines) + 1
    BY Appended DEF RegistryInv
  <2>2. Last(report') = outcome
    BY <1>1, <2>1, Zenon
  <2>3. report' \in [1 .. line' - 1 -> {"skipped", "ok", "failed"}]
    <3> DEFINE Reports(n) == [1 .. n - 1 -> {"skipped", "ok", "failed"}]
    <3>1. Append(report, outcome) \in Reports(line + 1)
      BY <2>1
    <3> HIDE DEF Reports
    <3>2. report' \in Reports(line')
      BY <1>1, <3>1
    <3> QED BY <3>2 DEF Reports
  <2>4. line' \in 1 .. Len(file'.lines) + 1
    BY <1>1, <2>1, Zenon
  <2> QED BY <2>2, <2>3, <2>4
<1> QED BY <1>1, <1>2 DEF RegistryInv, TypeOK, SessionsInv, LineInv

(* Lines that write nothing. *)
LEMMA NothingStep ==
  ASSUME RegistryInv, SkipLine \/ RollbackLine
  PROVE  /\ RegistryInv' /\ rows' = rows
         /\ SkipLine => Last(report') = "skipped"
         /\ RollbackLine => Last(report') = "failed"
<1>1. /\ line <= Len(file.lines) /\ UNCHANGED tables /\ UNCHANGED <<changes, session, file>> /\ rows' = rows
      /\ DOMAIN loaded' = Employees /\ \A i \in Employees : loaded'[i] \in Rows(i) \union {None}
  BY DEF SkipLine, RollbackLine, NothingLoaded, tables, RegistryInv, TypeOK
<1>2. CASE SkipLine
  <2>1. Report("skipped") /\ broken' = broken /\ found = NotLookedUp
    BY <1>2 DEF SkipLine
  <2>2. ~broken /\ broken' \in BOOLEAN
    BY <2>1 DEF RegistryInv, LineInv, TypeOK
  <2>3. /\ SessionsInv' /\ LineInv' /\ Last(report') = "skipped"
        /\ TypeOK'
    BY <1>1, <2>1, <2>2, ReportStep DEF RegistryInv, TypeOK, tables
  <2>4. ~RollbackLine
    BY <2>2 DEF RollbackLine
  <2> QED BY <1>1, <2>3, <2>4 DEF RegistryInv
<1>3. CASE RollbackLine
  <2>1. Report("failed") /\ broken' = FALSE /\ broken
    BY <1>3 DEF RollbackLine
  <2>2. /\ SessionsInv' /\ LineInv' /\ Last(report') = "failed"
        /\ TypeOK'
    BY <1>1, <2>1, ReportStep DEF RegistryInv, TypeOK, tables
  <2>3. ~SkipLine
    BY <2>1 DEF SkipLine, RegistryInv, LineInv
  <2> QED BY <1>1, <2>2, <2>3 DEF RegistryInv
<1> QED BY <1>2, <1>3

LEMMA LookUpStep ==
  ASSUME RegistryInv, LookUp
  PROVE  RegistryInv' /\ rows' = rows /\ report' = report
<1>1. /\ line <= Len(file.lines) /\ found = NotLookedUp /\ ~Skipped /\ ~broken
      /\ UNCHANGED tables /\ rows' = rows
      /\ changes' = changes /\ UNCHANGED session /\ file' = file /\ line' = line /\ broken' = broken
      /\ loaded' = loaded /\ report' = report /\ raced' = raced
  BY DEF LookUp, tables
<1>2. TypeOK' /\ SessionsInv'
  BY <1>1 DEF RegistryInv, TypeOK, SessionsInv, tables, session
<1>3. Line' = Line /\ Skipped' = Skipped /\ get_by_key(Line.key)' = get_by_key(Line.key)
  BY <1>1 DEF Line, Skipped, get_by_key, Stored
<1>4. CASE get_by_key(Line.key) = {} /\ found' = [id |-> None, row |-> None, stale |-> FALSE]
  BY <1>1, <1>2, <1>3, <1>4 DEF RegistryInv, LineInv, Fresh
<1>5. CASE \E i \in get_by_key(Line.key) : \E copy \in SessionCopies(i) :
             found' = [id |-> i, row |-> copy, stale |-> copy # rows[i]]
  <2>1. PICK i \in get_by_key(Line.key) : \E copy \in SessionCopies(i) :
               found' = [id |-> i, row |-> copy, stale |-> copy # rows[i]]
    BY <1>5
  <2>2. PICK copy \in SessionCopies(i) : found' = [id |-> i, row |-> copy, stale |-> copy # rows[i]]
    BY <2>1
  <2>3. i \in Ids /\ rows[i] # None /\ rows[i].key = Line.key
    BY DEF get_by_key, Stored
  <2>4. i \in file.table /\ i # None
    BY <1>1, <2>3, LineTyped, KeysApart DEF RegistryInv
  <2>5. copy \in Rows(i)
    BY <2>3 DEF SessionCopies, RegistryInv, TypeOK
  <2>6. found'.id = i /\ found'.row = copy /\ (~found'.stale => copy = rows[i])
    BY <2>2
  <2>7. Fresh'
    BY <1>1, <1>3, <2>3, <2>4, <2>6 DEF Fresh
  <2> QED BY <1>1, <1>2, <1>3, <2>4, <2>5, <2>6, <2>7 DEF RegistryInv, LineInv
<1> QED BY <1>4, <1>5 DEF LookUp

LEMMA LineFailsStep ==
  ASSUME RegistryInv, LineFails
  PROVE  RegistryInv' /\ rows' = rows /\ report' = report
<1>1. /\ ~broken /\ broken' = TRUE /\ UNCHANGED tables /\ rows' = rows /\ changes' = changes
      /\ UNCHANGED session /\ file' = file /\ line' = line /\ found' = found /\ report' = report /\ raced' = raced
      /\ loaded' = loaded /\ found # NotLookedUp
  BY DEF LineFails, tables
<1>2. TypeOK' /\ SessionsInv'
  BY <1>1 DEF RegistryInv, TypeOK, SessionsInv, tables, session
<1>3. Line' = Line /\ Skipped' = Skipped /\ Fresh' = Fresh
  BY <1>1 DEF Line, Skipped, Fresh, get_by_key, Stored
<1>4. raced \/ ~Line.parsed \/ (found.id \in Employees /\ Line.auth_group = None)
  <2>1. SUFFICES ASSUME ~raced, Line.parsed PROVE found.id \in Employees /\ Line.auth_group = None
    OBVIOUS
  <2>2. Fresh
    BY <1>1, <2>1 DEF RegistryInv, LineInv
  <2>3. CASE found.id # None /\ ~CanUpdate
    BY <2>1, <2>2, <2>3 DEF CanUpdate, Fresh, Stored
  <2>4. CASE found.id = None /\ get_by_key(Line.key) # {}
    BY <2>2, <2>4 DEF Fresh
  <2> QED BY <2>1, <2>3, <2>4 DEF LineFails
<1> QED BY <1>1, <1>2, <1>3, <1>4 DEF RegistryInv, LineInv

LEMMA ImportedTyped ==
  ASSUME TypeOK, line <= Len(file.lines), NEW i \in file.table
  PROVE  i \in Ids /\ Imported(i, Line) \in Rows(i)
<1>1. i \in Ids /\ Line \in Lines(Keys(i)) /\ i \in Employees \union Companies
  BY LineTyped DEF Ids
<1>2. Line.key \in Keys(i) /\ Line.auth_group \in AUTH_GROUPS \union {None}
  BY <1>1 DEF Lines
<1>3. parse_csv_bool(Line.active) \in BOOLEAN
  BY DEF parse_csv_bool
<1> QED BY <1>1, <1>2, <1>3, KeysApart DEF Imported, Rows, AUTH_GROUPS

(* The columns a line assigns, whatever the session knows of the row. *)
LEMMA ImportChangesTyped ==
  ASSUME TypeOK, line <= Len(file.lines), NEW i \in file.table, NEW read \in Rows(i), NEW row \in Rows(i),
         i \in Employees => Line.auth_group # None
  PROVE  /\ ImportChanges(i, Line, read, row) \in Rows(i)
         /\ ImportChanges(i, Line, read, row).key = row.key
         /\ ImportChanges(i, Line, read, row).active \in {row.active, parse_csv_bool(Line.active)}
         /\ ImportChanges(i, Line, read, row).auth_group \in {row.auth_group, Line.auth_group}
         /\ row = read /\ row.key = Line.key => ImportChanges(i, Line, read, row) = Imported(i, Line)
<1> DEFINE r == ImportChanges(i, Line, read, row)
<1>1. Imported(i, Line) \in Rows(i) /\ Line \in Lines(Keys(i)) /\ i \in Ids
  BY ImportedTyped, LineTyped
<1>2. parse_csv_bool(Line.active) \in BOOLEAN /\ parse_csv_bool(Line.active) # None
  <2>1. parse_csv_bool(Line.active) \in BOOLEAN
    BY DEF parse_csv_bool
  <2> QED BY <2>1, RegistryAssumption
<1>3. Line.auth_group \in AUTH_GROUPS \union {None}
  BY <1>1 DEF Lines
<1>4. i \in Employees \/ (i \in Companies /\ i \notin Employees)
  BY <1>1, KeysApart DEF Ids
<1>5. /\ r.key = row.key /\ r.active \in {row.active, parse_csv_bool(Line.active)}
      /\ r.auth_group \in {row.auth_group, Line.auth_group}
      /\ r \in Rows(i)
  BY <1>2, <1>3, <1>4, KeysApart DEF ImportChanges, Column, Rows
<1>6. ASSUME row = read, row.key = Line.key PROVE r = Imported(i, Line)
  <2>1. r.key = Imported(i, Line).key /\ r.auth_group = Imported(i, Line).auth_group
    BY <1>4, <1>5, <1>6, KeysApart DEF ImportChanges, Imported, Rows
  <2>2. r.active = Imported(i, Line).active
    BY <1>2, <1>6 DEF ImportChanges, Imported, Rows, Column
  <2> QED BY <1>1, <1>5, <2>1, <2>2 DEF Rows
<1> QED BY <1>5, <1>6

(* A line that is stored writes one row, into which it puts only what it says, and says what
   the row is from then on unless the row was raced for. *)
LEMMA ImportLineStep ==
  ASSUME RegistryInv, ImportLine
  PROVE  /\ RegistryInv' /\ Last(report') = "ok"
         /\ \A j \in Ids : rows[j] # None =>
              /\ rows'[j] # None /\ rows'[j].key = rows[j].key
              /\ rows'[j].active \in {rows[j].active, parse_csv_bool(Line.active)}
              /\ rows'[j].auth_group \in {rows[j].auth_group, Line.auth_group}
         /\ \E i \in file.table : rows'[i] # None /\ (~raced /\ ~found.stale => rows'[i] = Imported(i, Line))
<1> DEFINE Says(i, row, new) ==
      row # None =>
        /\ new.key = row.key
        /\ new.active \in {row.active, parse_csv_bool(Line.active)}
        /\ new.auth_group \in {row.auth_group, Line.auth_group}
<1>1. /\ found # NotLookedUp /\ ~broken /\ Report("ok") /\ UNCHANGED <<changes, session, file>> /\ broken' = broken
      /\ broken' \in BOOLEAN
  BY DEF ImportLine, RegistryInv, TypeOK
<1>2. /\ line <= Len(file.lines) /\ found.id \in file.table \union {None} /\ (~raced => Fresh)
      /\ found.id # None => found.row \in Rows(found.id)
  BY <1>1 DEF RegistryInv, LineInv
<1>3. PICK i \in file.table : \E r \in Rows(i) :
        /\ rows' = [rows EXCEPT ![i] = r] /\ (~raced /\ ~found.stale => r = Imported(i, Line))
        /\ Says(i, rows[i], r)
        /\ \E l \in Rows(i) : loaded' = [j \in Employees |-> IF j = i THEN l ELSE loaded[j]]
        /\ UNCHANGED <<gone, slots, attendances, job_assignments>>
  <2>1. CASE found.id # None /\ ImportUpdate
    <3> DEFINE i == found.id
               r == ImportChanges(i, Line, found.row, rows[i])
               l == ImportChanges(i, Line, found.row, found.row)
    <3>1. /\ i \in file.table /\ i \in Ids /\ rows[i] # None /\ found.row \in Rows(i)
          /\ (i \in Employees => Line.auth_group # None)
      BY <1>2, <2>1, LineTyped DEF ImportUpdate, CanUpdate, Stored, RegistryInv
    <3>2. rows[i] \in Rows(i)
      BY <3>1 DEF RegistryInv, TypeOK
    <3>3. r \in Rows(i) /\ l \in Rows(i) /\ Says(i, rows[i], r)
      BY <1>2, <3>1, <3>2, ImportChangesTyped DEF RegistryInv
    <3>4. ASSUME ~raced, ~found.stale PROVE r = Imported(i, Line)
      <4>1. rows[i] = found.row /\ rows[i].key = Line.key
        BY <1>2, <2>1, <3>4 DEF Fresh
      <4> QED BY <1>2, <3>1, <3>2, <4>1, ImportChangesTyped DEF RegistryInv
    <3>5. /\ rows' = [rows EXCEPT ![i] = r] /\ UNCHANGED <<gone, slots, attendances, job_assignments>>
          /\ loaded' = [j \in Employees |-> IF j = i THEN l ELSE loaded[j]]
      BY <2>1 DEF ImportUpdate
    <3> HIDE DEF r, l, Says
    <3> QED BY <3>1, <3>3, <3>4, <3>5
  <2>2. CASE found.id = None /\ \E i \in file.table : ImportInsert(i)
    <3>1. PICK i \in file.table : ImportInsert(i)
      BY <2>2
    <3>2. Imported(i, Line) \in Rows(i) /\ Says(i, rows[i], Imported(i, Line))
      BY <1>2, <3>1, ImportedTyped DEF ImportInsert, Insert, Stored, RegistryInv
    <3> HIDE DEF Says
    <3> QED BY <3>1, <3>2 DEF ImportInsert, Insert
  <2> QED BY <2>1, <2>2 DEF ImportLine
<1>4. PICK r \in Rows(i) :
        /\ rows' = [rows EXCEPT ![i] = r] /\ (~raced /\ ~found.stale => r = Imported(i, Line))
        /\ Says(i, rows[i], r)
        /\ \E l \in Rows(i) : loaded' = [j \in Employees |-> IF j = i THEN l ELSE loaded[j]]
        /\ UNCHANGED <<gone, slots, attendances, job_assignments>>
  BY <1>3
<1>5. i \in Ids /\ r # None
  BY <1>2, <1>3, LineTyped, KeysApart DEF RegistryInv
<1>6. /\ rows' \in [Ids -> (UNION {Rows(j) : j \in Ids}) \union {None}]
      /\ \A j \in Ids : rows'[j] \in Rows(j) \union {None}
      /\ rows'[i] = r /\ \A j \in Ids \ {i} : rows'[j] = rows[j]
  BY <1>4, <1>5, RowsTyped DEF RegistryInv
<1>7. /\ SessionsInv' /\ LineInv' /\ Last(report') = "ok"
      /\ changes' \in 0 .. MaxChanges
      /\ req' \in [Threads -> Requests \union {NoRequest}] /\ DOMAIN seen' = Threads
      /\ file' \in Files /\ line' \in 1 .. Len(file'.lines) + 1 /\ raced' \in BOOLEAN
      /\ report' \in [1 .. line' - 1 -> {"skipped", "ok", "failed"}]
  BY <1>1, <1>2, ReportStep
<1>8. DOMAIN loaded' = Employees /\ \A j \in Employees : loaded'[j] \in Rows(j) \union {None}
  BY <1>4 DEF RegistryInv, TypeOK
<1>9. TypeOK'
  BY <1>1, <1>4, <1>6, <1>7, <1>8 DEF RegistryInv, TypeOK
<1>10. \A j \in Ids : rows[j] # None => rows'[j] # None /\ Says(j, rows[j], rows'[j])
  BY <1>4, <1>5, <1>6
<1> QED BY <1>3, <1>4, <1>5, <1>6, <1>7, <1>9, <1>10 DEF RegistryInv
-----------------------------------------------------------------------------
(* Every step *)

LEMMA RequestStep ==
  ASSUME RegistryInv, NEW t \in Threads, Request(t)
  PROVE  /\ RegistryInv' /\ report' = report
         /\ \A i \in Ids : Deleted(i) => CommitDelete(t) /\ i = req[t].id
<1>1. ASSUME NEW q \in Requests, q.op = "update" => q.key \in Keys(q.id) \union {None}, Begin(t, q)
      PROVE  RegistryInv' /\ report' = report /\ rows' = rows
  BY <1>1, BeginStep DEF Begin, import, tables
<1>2. ASSUME NEW i \in Ids, NEW k \in Keys(i) \union {None}, NEW act \in BOOLEAN \union {None}, Update(t, i, k, act)
      PROVE  RegistryInv' /\ report' = report /\ rows' = rows
  <2>1. k \in Numbers \union Names \union {None}
    BY DEF Keys
  <2> DEFINE q == [op |-> "update", id |-> i, key |-> k, active |-> act]
  <2>2. q \in Requests /\ q.key \in Keys(q.id) \union {None}
    BY <2>1 DEF Requests
  <2> QED BY <1>1, <1>2, <2>2 DEF Update
<1>3. ASSUME NEW v PROVE parse_bool_from_json(v) \in BOOLEAN \union {None} /\ bool(v) \in BOOLEAN \union {None}
  BY DEF parse_bool_from_json, bool
<1>4. CASE update_employee(t)
  BY <1>2, <1>3, <1>4, KeysApart DEF update_employee, Deleted
<1>5. CASE update_company(t)
  BY <1>2, <1>3, <1>5, KeysApart DEF update_company, Deleted
<1>6. CASE deactivate_employee(t)
  BY <1>2, <1>6, KeysApart DEF deactivate_employee, Deleted
<1>7. CASE hard_delete_employee(t) \/ delete_company(t)
  <2>1. PICK i \in Ids : Begin(t, [op |-> "delete", id |-> i])
    BY <1>7, KeysApart DEF hard_delete_employee, delete_company
  <2>2. [op |-> "delete", id |-> i] \in Requests
    BY DEF Requests
  <2> QED BY <1>1, <2>1, <2>2 DEF Deleted
<1>8. CASE CommitUpdate(t)
  BY <1>8, CommitUpdateStep DEF CommitUpdate, Deleted
<1>9. CASE CommitDelete(t)
  BY <1>9, CommitDeleteStep DEF CommitDelete, Deleted
<1>10. CASE Refuse(t)
  BY <1>10, RefuseStep DEF Refuse, import, Deleted
<1> QED BY <1>4, <1>5, <1>6, <1>7, <1>8, <1>9, <1>10 DEF Request

(* The only rows that go are those of a delete, and only the import reports. *)
LEMMA NextStep ==
  ASSUME RegistryInv, Next
  PROVE  /\ RegistryInv'
         /\ \A i \in Ids : Deleted(i) => \E t \in Threads : CommitDelete(t) /\ i = req[t].id
         /\ report' # report => SkipLine \/ ImportLine \/ RollbackLine
<1>1. CASE create_employee \/ create_company
  <2>1. PICK i \in Ids : \E r \in Rows(i) : Create(i, r)
    BY <1>1, CreatedRows
  <2>2. PICK r \in Rows(i) : Create(i, r)
    BY <2>1
  <2>3. RegistryInv' /\ report' = report
    BY <2>2, CreateStep DEF Create
  <2>4. rows' = [rows EXCEPT ![i] = r] /\ r # None
    BY <2>2, KeysApart DEF Create, Insert
  <2>5. \A j \in Ids : ~Deleted(j)
    BY <2>4, RowsTyped DEF Deleted, RegistryInv
  <2> QED BY <2>3, <2>5
<1>2. CASE \E t \in Threads : Request(t)
  BY <1>2, RequestStep
<1>3. CASE ReferringRows
  BY <1>3, ReferringStep DEF ReferringRows, import, Deleted
<1>4. CASE SkipLine \/ RollbackLine
  BY <1>4, NothingStep DEF Deleted
<1>5. CASE LookUp \/ LineFails
  BY <1>5, LookUpStep, LineFailsStep DEF Deleted
<1>6. CASE ImportLine
  BY <1>6, ImportLineStep DEF Deleted
<1> QED BY <1>1, <1>2, <1>3, <1>4, <1>5, <1>6 DEF Next, ImportStep

LEMMA Unchanged ==
  ASSUME RegistryInv, UNCHANGED vars
  PROVE  RegistryInv' /\ rows' = rows /\ report' = report
<1>1. /\ UNCHANGED tables /\ rows' = rows /\ changes' = changes /\ UNCHANGED session /\ UNCHANGED import
      /\ report' = report
  BY DEF vars, tables, import
<1>2. TypeOK'
  BY <1>1 DEF RegistryInv, TypeOK, tables, session, import
<1>3. SessionsInv'
  BY <1>1 DEF RegistryInv, SessionsInv, session
<1> QED BY <1>1, <1>2, <1>3, OtherStepsKeepLine DEF RegistryInv

LEMMA InitInv ==
  ASSUME Init
  PROVE  RegistryInv
<1>1. \A i \in Ids : rows[i] \in Rows(i) \union {None}
  BY DEF Init
<1>2. Len(file.lines) \in Nat
  <2>1. file.lines \in Seq(Lines(Numbers)) \/ file.lines \in Seq(Lines(Names))
    BY RegistryAssumption DEF Init
  <2> QED BY <2>1, LenProperties
<1>3. line \in 1 .. Len(file.lines) + 1 /\ report \in [1 .. line - 1 -> {"skipped", "ok", "failed"}]
  <2>1. line = 1 /\ report = <<>>
    BY DEF Init
  <2>2. 1 .. line - 1 = {}
    BY <2>1
  <2>3. report \in [{} -> {"skipped", "ok", "failed"}]
    BY <2>1
  <2> QED BY <1>2, <2>1, <2>2, <2>3
<1>4. TypeOK
  <2>1. rows \in [Ids -> (UNION {Rows(i) : i \in Ids}) \union {None}]
    BY DEF Init
  <2>2. /\ gone \subseteq Ids /\ slots \subseteq Ids /\ attendances \subseteq Employees
        /\ job_assignments \subseteq Employees \X Companies
        /\ changes \in 0 .. MaxChanges
    BY RegistryAssumption DEF Init
  <2>3. /\ req \in [Threads -> Requests \union {NoRequest}]
        /\ DOMAIN seen = Threads
    BY DEF Init
  <2>4. /\ file \in Files /\ broken \in BOOLEAN /\ raced \in BOOLEAN
        /\ DOMAIN loaded = Employees /\ \A i \in Employees : loaded[i] \in Rows(i) \union {None}
    BY DEF Init, NothingLoaded
  <2> QED BY <1>1, <1>3, <2>1, <2>2, <2>3, <2>4 DEF TypeOK
<1>5. SessionsInv /\ LineInv
  BY DEF Init, SessionsInv, LineInv, NoRequest
<1> QED BY <1>4, <1>5 DEF RegistryInv

-----------------------------------------------------------------------------
(* Theorems *)

(* Whatever requests and the import do, the import knows the row of its line, or was raced. *)
THEOREM RegistryInvariance == Spec => []RegistryInv
<1>1. RegistryInv /\ [Next]_vars => RegistryInv'
  BY NextStep, Unchanged
<1> QED BY <1>1, InitInv, PTL DEF Spec

(* The types of both tables, of every request and of the import. *)
THEOREM RegistryTyped == Spec => []TypeOK
<1>1. RegistryInv => TypeOK
  BY DEF RegistryInv
<1> QED BY <1>1, RegistryInvariance, PTL

(* No delete of a participant or a company takes a placement with it, or leaves one without. *)
THEOREM PlacementsSurvive == Spec => PlacementsOutliveDeletes
<1>1. ASSUME RegistryInv, [Next]_vars, NEW i \in Ids, Deleted(i)
      PROVE  Placements(i) = {} /\ Placements(i)' = {}
  <2>1. PICK t \in Threads : CommitDelete(t) /\ i = req[t].id
    BY <1>1, NextStep, Unchanged DEF Deleted
  <2>2. Placements(i) = {} /\ job_assignments' = job_assignments
    BY <1>1, <2>1, CommitDeleteStep
  <2> QED BY <2>2 DEF Placements
<1>2. RegistryInv /\ [Next]_vars
        => [\A i \in Ids : Deleted(i) => Placements(i) = {} /\ Placements(i)' = {}]_vars
  BY <1>1
<1> QED BY <1>2, RegistryInvariance, PTL DEF Spec, PlacementsOutliveDeletes

(* Two changes of one row that name different columns both stay. *)
THEOREM ChangesMerge == Spec => UpdatesMerge
<1>1. ASSUME RegistryInv, NEW t \in Threads, CommitUpdate(t)
      PROVE  /\ req[t].key = None => rows'[req[t].id].key = rows[req[t].id].key
             /\ req[t].active = None => rows'[req[t].id].active = rows[req[t].id].active
  <2> DEFINE q == req[t]
             new == Changed(q, seen[t].row, rows[q.id])
  <2>1. q.op = "update" /\ rows[q.id] # None /\ rows' = [rows EXCEPT ![q.id] = new]
    BY <1>1 DEF CommitUpdate
  <2>2. q.id \in Ids
    BY <1>1, CommitUpdateStep
  <2>3. rows'[q.id] = new /\ rows[q.id] \in Rows(q.id)
    BY <1>1, <2>1, <2>2 DEF RegistryInv, TypeOK
  <2> QED BY <2>3 DEF Changed, Column, Rows
<1>2. RegistryInv /\ [Next]_vars
        => [\A t \in Threads : CommitUpdate(t) =>
              LET q == req[t]
              IN  /\ q.key = None => rows'[q.id].key = rows[q.id].key
                  /\ q.active = None => rows'[q.id].active = rows[q.id].active]_vars
  BY <1>1
<1> QED BY <1>2, RegistryInvariance, PTL DEF Spec, UpdatesMerge

(* A line of an import is never failed by the lines before it, for any file. *)
THEOREM ImportLinesIndependent == Spec => LinesAreIndependent
<1>1. ASSUME RegistryInv, [Next]_vars, report' # report, Last(report') = "failed"
      PROVE  raced \/ ~Line.parsed \/ (found.id \in Employees /\ Line.auth_group = None)
  <2>1. SkipLine \/ ImportLine \/ RollbackLine
    BY <1>1, NextStep, Unchanged
  <2>2. RollbackLine
    BY <1>1, <2>1, NothingStep, ImportLineStep
  <2> QED BY <1>1, <2>2 DEF RollbackLine, RegistryInv, LineInv
<1>2. RegistryInv /\ [Next]_vars
        => [report' # report /\ Last(report') = "failed" =>
              raced \/ ~Line.parsed \/ (found.id \in Employees /\ Line.auth_group = None)]_vars
  BY <1>1
<1> QED BY <1>2, RegistryInvariance, PTL DEF Spec, LinesAreIndependent

(* What an import reports of a line is what it did, for any file, unless the row was changed
   by somebody since the session of the import knows it. *)
THEOREM ImportReportsTrue == Spec => ReportsAreTrue
<1>1. ASSUME RegistryInv, [Next]_vars, report' # report
      PROVE  IF Last(report') = "ok"
               THEN \E i \in file.table :
                      rows'[i] # None /\ (~raced /\ ~found.stale => rows'[i] = Imported(i, Line))
               ELSE rows' = rows
  <2>1. SkipLine \/ ImportLine \/ RollbackLine
    BY <1>1, NextStep, Unchanged
  <2> QED BY <1>1, <2>1, NothingStep, ImportLineStep
<1>2. RegistryInv /\ [Next]_vars
        => [report' # report =>
              IF Last(report') = "ok"
                THEN \E i \in file.table :
                       /\ rows'[i] # None
                       /\ ~raced /\ ~found.stale => rows'[i] = Imported(i, Line)
                ELSE rows' = rows]_vars
  BY <1>1
<1> QED BY <1>2, RegistryInvariance, PTL DEF Spec, ReportsAreTrue

(* Nothing the session remembers of a row is put back by a line. *)
THEOREM ImportKeepsTheRest == Spec => LinesWriteTheirCells
<1>1. ASSUME RegistryInv, [Next]_vars, report' # report, NEW i \in Ids, Stored(i)
      PROVE  /\ rows'[i].key = rows[i].key
             /\ rows'[i].active \in {rows[i].active, parse_csv_bool(Line.active)}
             /\ rows'[i].auth_group \in {rows[i].auth_group, Line.auth_group}
  <2>1. SkipLine \/ ImportLine \/ RollbackLine
    BY <1>1, NextStep, Unchanged
  <2>2. CASE SkipLine \/ RollbackLine
    <3>1. rows' = rows
      BY <1>1, <2>2, NothingStep
    <3> QED BY <3>1
  <2>3. CASE ImportLine
    BY <1>1, <2>3, ImportLineStep DEF Stored
  <2> QED BY <2>1, <2>2, <2>3
<1>2. RegistryInv /\ [Next]_vars
        => [report' # report => \A i \in Ids : Stored(i) =>
              /\ rows'[i].key = rows[i].key
              /\ rows'[i].active \in {rows[i].active, parse_csv_bool(Line.active)}
              /\ rows'[i].auth_group \in {rows[i].auth_group, Line.auth_group}]_vars
  BY <1>1
<1> QED BY <1>2, RegistryInvariance, PTL DEF Spec, LinesWriteTheirCells

-----------------------------------------------------------------------------
(* Placements *)

PlacementsStored == \A p \in job_assignments : Stored(p[1]) /\ Stored(p[2])

(* Only the other services place anybody or take a placement back. *)
LEMMA PlacementsOfOthers ==
  ASSUME [Next]_vars
  PROVE  ReferringRows \/ job_assignments' = job_assignments
<1>1. UNCHANGED tables => job_assignments' = job_assignments
  BY DEF tables
<1>2. ASSUME create_employee \/ create_company PROVE job_assignments' = job_assignments
  BY <1>2 DEF create_employee, create_company, Create, Insert
<1>3. ASSUME NEW t \in Threads, Request(t) PROVE job_assignments' = job_assignments
  <2>1. \A q : Begin(t, q) => job_assignments' = job_assignments
    BY <1>1 DEF Begin
  <2>2. CASE update_employee(t) \/ update_company(t) \/ deactivate_employee(t)
               \/ hard_delete_employee(t) \/ delete_company(t)
    BY <2>1, <2>2 DEF update_employee, update_company, deactivate_employee, Update,
                      hard_delete_employee, delete_company
  <2>3. CASE CommitUpdate(t) \/ CommitDelete(t) \/ Refuse(t)
    BY <1>1, <2>3 DEF CommitUpdate, CommitDelete, Refuse
  <2> QED BY <1>3, <2>2, <2>3 DEF Request
<1>4. ASSUME ImportStep PROVE job_assignments' = job_assignments
  <2>1. CASE SkipLine \/ LookUp \/ LineFails \/ RollbackLine
    BY <1>1, <2>1 DEF SkipLine, LookUp, LineFails, RollbackLine
  <2>2. CASE ImportLine
    BY <2>2 DEF ImportLine, ImportUpdate, ImportInsert, Insert
  <2> QED BY <1>4, <2>1, <2>2 DEF ImportStep
<1>5. CASE UNCHANGED vars
  BY <1>5 DEF vars, tables
<1> QED BY <1>2, <1>3, <1>4, <1>5 DEF Next

LEMMA PlacementsStoredStep ==
  ASSUME RegistryInv, PlacementsStored, [Next]_vars
  PROVE  PlacementsStored'
<1>1. ASSUME NEW i \in Ids, Stored(i), \E p \in job_assignments : i \in {p[1], p[2]}
      PROVE  rows'[i] # None
  <2>1. Placements(i) # {}
    BY <1>1 DEF Placements
  <2>2. ASSUME Deleted(i) PROVE FALSE
    <3>1. PICK t \in Threads : CommitDelete(t) /\ i = req[t].id
      BY <2>2, NextStep, Unchanged DEF Deleted
    <3> QED BY <2>1, <3>1, CommitDeleteStep
  <2> QED BY <1>1, <2>2 DEF Deleted, Stored
<1>2. \A p \in job_assignments : p[1] \in Ids /\ p[2] \in Ids
  BY DEF RegistryInv, TypeOK, Ids
<1>3. CASE job_assignments' = job_assignments
  BY <1>1, <1>2, <1>3 DEF PlacementsStored, Stored
<1>4. CASE ReferringRows
  <2>1. rows' = rows
    BY <1>4, ReferringStep
  <2>2. \A p \in job_assignments' \ job_assignments : Stored(p[1]) /\ Stored(p[2])
    <3>1. CASE job_assignments' = job_assignments
      BY <3>1
    <3>2. CASE \E i \in Employees, c \in Companies :
                 \/ Stored(i) /\ Stored(c) /\ job_assignments' = job_assignments \union {<<i, c>>}
                 \/ job_assignments' = job_assignments \ {<<i, c>>}
      <4>1. PICK i \in Employees, c \in Companies :
                 \/ Stored(i) /\ Stored(c) /\ job_assignments' = job_assignments \union {<<i, c>>}
                 \/ job_assignments' = job_assignments \ {<<i, c>>}
        BY <3>2
      <4> QED BY <4>1
    <3> QED BY <1>4, <3>1, <3>2 DEF ReferringRows
  <2> QED BY <2>1, <2>2 DEF PlacementsStored, Stored
<1> QED BY <1>3, <1>4, PlacementsOfOthers

(* Every placement is of a participant and a company that are stored. *)
THEOREM PlacementsReferToRows == Spec => []PlacementsStored
<1>1. Init => PlacementsStored
  BY DEF Init, PlacementsStored
<1>2. RegistryInv /\ PlacementsStored /\ [Next]_vars => PlacementsStored'
  BY PlacementsStoredStep
<1> QED BY <1>1, <1>2, RegistryInvariance, PTL DEF Spec

-----------------------------------------------------------------------------
(* The lists *)

Selected(q) == apply_list_filters(ListEmployeesQuery(q))

(* The entries of some participants. *)
Placed(e) == IF e[2] = None THEN Placements(e[1]) = {} ELSE e \in job_assignments

Entries(A) ==
  {EmployeeResponse(e[1], e[2]) : e \in {e \in A \X (Companies \union {None}) : Placed(e)}}

LEMMA ListOf ==
  ASSUME NEW q
  PROVE  list_employees(q).employees = Entries(Selected(q)) /\ list_employees(q).count = Cardinality(Selected(q))
  BY DEF list_employees, list_with_company, count, Entries, Selected, Placed

(* What a filter asks of a participant. *)
Asked(q, i) ==
  /\ Stored(i)
  /\ q.active = "true" => rows[i].active = TRUE
  /\ q.active = "other" => rows[i].active = FALSE
  /\ q.checked_in = "true" => i \in attendances
  /\ q.checked_in = "other" => i \notin attendances
  /\ q.auth_group # None => rows[i].auth_group = q.auth_group

LEMMA SelectedAsked ==
  ASSUME NEW q \in Queries
  PROVE  Selected(q) = {i \in Employees : Asked(q, i)}
<1> DEFINE f == ListEmployeesQuery(q)
<1>1. /\ q.active \in {"true", "other", None} /\ q.checked_in \in {"true", "other", None}
      /\ None # "true" /\ None # "other" /\ None # TRUE /\ None # FALSE
  BY RegistryAssumption DEF Queries
<1>2. /\ f.active = IF q.active = None THEN None ELSE q.active = "true"
      /\ f.checked_in = IF q.checked_in = None THEN None ELSE q.checked_in = "true"
      /\ f.auth_group = q.auth_group
  BY DEF ListEmployeesQuery, Queries
<1> HIDE DEF f
<1>3. /\ q.active = "true" => f.active = TRUE
      /\ q.active = "other" => f.active = FALSE
      /\ q.active = None => f.active = None
  BY <1>1, <1>2
<1>4. /\ q.checked_in = "true" => f.checked_in = TRUE
      /\ q.checked_in = "other" => f.checked_in = FALSE
      /\ q.checked_in = None => f.checked_in = None
  BY <1>1, <1>2
<1>5. ASSUME NEW i
      PROVE  (f.active # None => rows[i].active = f.active) <=>
               /\ q.active = "true" => rows[i].active = TRUE
               /\ q.active = "other" => rows[i].active = FALSE
  BY <1>1, <1>3
<1>6. ASSUME NEW i
      PROVE  (f.checked_in # None => (i \in attendances) = f.checked_in) <=>
               /\ q.checked_in = "true" => i \in attendances
               /\ q.checked_in = "other" => i \notin attendances
  <2>1. CASE q.checked_in = "true"
    BY <1>1, <1>4, <2>1
  <2>2. CASE q.checked_in = "other"
    <3>1. f.checked_in = FALSE /\ f.checked_in # None /\ q.checked_in # "true"
      BY <1>1, <1>4, <2>2
    <3>2. ((i \in attendances) = FALSE) <=> i \notin attendances
      OBVIOUS
    <3> QED BY <2>2, <3>1, <3>2
  <2>3. CASE q.checked_in = None
    BY <1>1, <1>4, <2>3
  <2> QED BY <1>1, <2>1, <2>2, <2>3
<1>7. \A i \in Employees :
        (/\ Stored(i)
         /\ f.active # None => rows[i].active = f.active
         /\ f.checked_in # None => (i \in attendances) = f.checked_in
         /\ f.auth_group # None => rows[i].auth_group = f.auth_group) <=> Asked(q, i)
  BY <1>2, <1>5, <1>6, Zenon DEF Asked
<1> QED BY <1>7 DEF Selected, apply_list_filters, f

(* A list that is divided *)
LEMMA Divided ==
  ASSUME NEW A \in SUBSET Employees, NEW B, NEW C, A = B \union C, B \intersect C = {}
  PROVE  Cardinality(A) = Cardinality(B) + Cardinality(C) /\ Entries(A) = Entries(B) \union Entries(C)
<1>1. IsFiniteSet(A) /\ IsFiniteSet(B) /\ IsFiniteSet(C)
  BY RegistryAssumption, FS_Subset
<1>2. Cardinality(A) = Cardinality(B) + Cardinality(C)
  <2>1. Cardinality(B \intersect C) = 0
    BY FS_EmptySet
  <2>2. Cardinality(A) = Cardinality(B) + Cardinality(C) - Cardinality(B \intersect C)
    BY <1>1, FS_Union
  <2>3. Cardinality(B) \in Nat /\ Cardinality(C) \in Nat
    BY <1>1, FS_CardinalityType
  <2> QED BY <2>1, <2>2, <2>3
<1>3. Entries(A) = Entries(B) \union Entries(C)
  BY DEF Entries
<1> QED BY <1>2, <1>3

(* Who has one placement at most has one entry. *)
LEMMA OneEntryEach ==
  ASSUME TypeOK, NEW A \in SUBSET Employees,
         \A i \in Employees : Cardinality(Placements(i)) <= 1
  PROVE  Cardinality(Entries(A)) = Cardinality(A)
<1>1. IsFiniteSet(A) /\ IsFiniteSet(job_assignments)
  <2>1. IsFiniteSet(Employees \X Companies)
    BY RegistryAssumption, FS_Product
  <2> QED BY <2>1, RegistryAssumption, FS_Subset DEF TypeOK
<1>2. None \notin Companies /\ Employees \intersect Companies = {}
  BY RegistryAssumption DEF Ids
<1>3. ASSUME NEW i \in Employees, NEW p \in Placements(i)
      PROVE  p \in job_assignments /\ p[1] = i /\ p[2] \in Companies /\ p = <<i, p[2]>>
  BY <1>2 DEF Placements, TypeOK
<1>4. ASSUME NEW i \in Employees, NEW p \in Placements(i), NEW r \in Placements(i)
      PROVE  p = r
  <2>1. IsFiniteSet(Placements(i))
    BY <1>1, FS_Subset DEF Placements
  <2>2. Cardinality({p, r}) <= Cardinality(Placements(i))
    BY <2>1, FS_Subset
  <2>3. Cardinality({p} \union {r}) = IF r \in {p} THEN Cardinality({p}) ELSE Cardinality({p}) + 1
    BY FS_Singleton, FS_AddElement
  <2>4. {p, r} = {p} \union {r} /\ Cardinality({p}) = 1
    BY FS_Singleton
  <2>5. Cardinality(Placements(i)) \in Nat /\ Cardinality(Placements(i)) <= 1
    BY <2>1, FS_CardinalityType
  <2> QED BY <2>2, <2>3, <2>4, <2>5
<1>5. ASSUME NEW i \in Employees
      PROVE  \E c \in Companies \union {None} : Placed(<<i, c>>)
  <2>1. CASE Placements(i) = {}
    BY <2>1 DEF Placed
  <2>2. CASE Placements(i) # {}
    <3>1. PICK p \in Placements(i) : TRUE
      BY <2>2
    <3>2. p[2] \in Companies /\ Placed(<<i, p[2]>>)
      BY <3>1, <1>2, <1>3 DEF Placed
    <3> QED BY <3>2
  <2> QED BY <2>1, <2>2
<1>6. ASSUME NEW i \in Employees, NEW c \in Companies \union {None}, NEW d \in Companies \union {None},
             Placed(<<i, c>>), Placed(<<i, d>>)
      PROVE  c = d
  <2>1. \A x \in Companies : Placed(<<i, x>>) => <<i, x>> \in Placements(i)
    BY <1>2 DEF Placed, Placements
  <2>2. Placed(<<i, None>>) => Placements(i) = {}
    BY DEF Placed
  <2>3. CASE c = None \/ d = None
    BY <2>1, <2>2, <2>3, <1>6
  <2>4. CASE c \in Companies /\ d \in Companies
    <3>1. <<i, c>> = <<i, d>>
      BY <2>1, <2>4, <1>4, <1>6
    <3> QED BY <3>1
  <2> QED BY <2>3, <2>4
<1> DEFINE at(i) == CHOOSE c \in Companies \union {None} : Placed(<<i, c>>)
           h == [i \in A |-> EmployeeResponse(i, at(i))]
<1>7. ASSUME NEW i \in A
      PROVE  at(i) \in Companies \union {None} /\ Placed(<<i, at(i)>>)
  BY <1>5
<1>8. ASSUME NEW i, NEW c
      PROVE  EmployeeResponse(i, c).id = i
  BY DEF EmployeeResponse
<1> HIDE DEF at
<1>9. \A i \in A : h[i] \in Entries(A)
  <2> SUFFICES ASSUME NEW i \in A
               PROVE  h[i] \in Entries(A)
    OBVIOUS
  <2>1. <<i, at(i)>> \in {e \in A \X (Companies \union {None}) : Placed(e)}
    BY <1>7
  <2>2. EmployeeResponse(<<i, at(i)>>[1], <<i, at(i)>>[2]) \in Entries(A)
    BY <2>1 DEF Entries
  <2> QED BY <2>2
<1>10. \A x \in Entries(A) : \E i \in A : h[i] = x
  <2> SUFFICES ASSUME NEW x \in Entries(A)
               PROVE  \E i \in A : h[i] = x
    OBVIOUS
  <2>1. PICK e \in A \X (Companies \union {None}) : Placed(e) /\ x = EmployeeResponse(e[1], e[2])
    BY DEF Entries
  <2>2. e = <<e[1], e[2]>> /\ e[1] \in A /\ e[2] \in Companies \union {None}
    BY <2>1
  <2>3. e[1] \in Employees /\ Placed(<<e[1], e[2]>>)
    BY <2>1, <2>2
  <2>4. at(e[1]) \in Companies \union {None} /\ Placed(<<e[1], at(e[1])>>)
    BY <2>2, <1>7
  <2>5. e[2] = at(e[1])
    BY <2>2, <2>3, <2>4, <1>6
  <2> QED BY <2>1, <2>2, <2>5
<1>11. \A i, j \in A : h[i] = h[j] => i = j
  BY <1>8
<1>12. h \in Bijection(A, Entries(A))
  <2>1. h \in [A -> Entries(A)]
    BY <1>9
  <2>2. h \in Surjection(A, Entries(A))
    <3> HIDE DEF h
    <3> QED BY <2>1, <1>10 DEF Surjection
  <2>3. h \in Injection(A, Entries(A))
    <3> HIDE DEF h
    <3> QED BY <2>1, <1>11 DEF Injection, IsInjective
  <2> QED BY <2>2, <2>3 DEF Bijection
<1>13. ExistsBijection(A, Entries(A))
  BY <1>12 DEF ExistsBijection
<1> QED BY <1>1, <1>13, FS_Bijection

(* An entry of a list is of somebody who is on it, with a placement of theirs or with none. *)
LEMMA EntryOf ==
  ASSUME NEW A, NEW x \in Entries(A)
  PROVE  /\ x.id \in A
         /\ x.active = rows[x.id].active
         /\ x.checked_in = (x.id \in attendances)
<1>1. PICK e \in A \X (Companies \union {None}) : x = EmployeeResponse(e[1], e[2])
  BY DEF Entries
<1>2. x.id = e[1] /\ x.active = rows[e[1]].active /\ x.checked_in = (e[1] \in attendances)
  BY <1>1 DEF EmployeeResponse
<1> QED BY <1>1, <1>2

(* Two lists that divide a third. *)
LEMMA TwoLists ==
  ASSUME NEW q, NEW a, NEW b, Selected(q) \subseteq Employees,
         Selected(q) = Selected(a) \union Selected(b), Selected(a) \intersect Selected(b) = {}
  PROVE  /\ list_employees(q).count = list_employees(a).count + list_employees(b).count
         /\ list_employees(q).employees = list_employees(a).employees \union list_employees(b).employees
<1>1. /\ Cardinality(Selected(q)) = Cardinality(Selected(a)) + Cardinality(Selected(b))
      /\ Entries(Selected(q)) = Entries(Selected(a)) \union Entries(Selected(b))
  BY Divided
<1> QED BY <1>1, ListOf

(* Participants are active or not, checked in or not, and of one group. *)
LEMMA FiltersDivide ==
  ASSUME TypeOK, NEW q \in Queries
  PROVE  /\ Selected(q) \subseteq Employees
         /\ q.active = None =>
              LET a == [q EXCEPT !.active = "true"] b == [q EXCEPT !.active = "other"]
              IN  Selected(q) = Selected(a) \union Selected(b) /\ Selected(a) \intersect Selected(b) = {}
         /\ q.checked_in = None =>
              LET a == [q EXCEPT !.checked_in = "true"] b == [q EXCEPT !.checked_in = "other"]
              IN  Selected(q) = Selected(a) \union Selected(b) /\ Selected(a) \intersect Selected(b) = {}
         /\ q.auth_group = None =>
              Selected(q) = UNION {Selected([q EXCEPT !.auth_group = g]) : g \in AUTH_GROUPS}
<1>1. None \notin {"true", "other"} \union AUTH_GROUPS
  BY RegistryAssumption
<1>2. ASSUME NEW i \in Employees, Stored(i)
      PROVE  rows[i].active \in BOOLEAN /\ rows[i].auth_group \in AUTH_GROUPS
  BY <1>2 DEF TypeOK, Rows, Ids, Stored
<1>3. Selected(q) = {i \in Employees : Asked(q, i)}
  BY SelectedAsked
<1>4. ASSUME q.active = None
      PROVE  LET a == [q EXCEPT !.active = "true"] b == [q EXCEPT !.active = "other"]
             IN  Selected(q) = Selected(a) \union Selected(b) /\ Selected(a) \intersect Selected(b) = {}
  <2> DEFINE a == [q EXCEPT !.active = "true"]
             b == [q EXCEPT !.active = "other"]
  <2>1. /\ a \in Queries /\ a.active = "true" /\ a.checked_in = q.checked_in /\ a.auth_group = q.auth_group
        /\ b \in Queries /\ b.active = "other" /\ b.checked_in = q.checked_in /\ b.auth_group = q.auth_group
    BY DEF Queries
  <2> HIDE DEF a, b
  <2>2. \A i \in Employees : Asked(q, i) <=> Asked(a, i) \/ Asked(b, i)
    BY <1>1, <1>2, <1>4, <2>1 DEF Asked
  <2>3. \A i \in Employees : ~(Asked(a, i) /\ Asked(b, i))
    BY <2>1 DEF Asked
  <2>4. Selected(a) = {i \in Employees : Asked(a, i)} /\ Selected(b) = {i \in Employees : Asked(b, i)}
    BY <2>1, SelectedAsked
  <2>5. Selected(q) = Selected(a) \union Selected(b) /\ Selected(a) \intersect Selected(b) = {}
    BY <1>3, <2>2, <2>3, <2>4
  <2> QED BY <2>5 DEF a, b
<1>5. ASSUME q.checked_in = None
      PROVE  LET a == [q EXCEPT !.checked_in = "true"] b == [q EXCEPT !.checked_in = "other"]
             IN  Selected(q) = Selected(a) \union Selected(b) /\ Selected(a) \intersect Selected(b) = {}
  <2> DEFINE a == [q EXCEPT !.checked_in = "true"]
             b == [q EXCEPT !.checked_in = "other"]
  <2>1. /\ a \in Queries /\ a.checked_in = "true" /\ a.active = q.active /\ a.auth_group = q.auth_group
        /\ b \in Queries /\ b.checked_in = "other" /\ b.active = q.active /\ b.auth_group = q.auth_group
    BY DEF Queries
  <2> HIDE DEF a, b
  <2>2. \A i \in Employees : Asked(q, i) <=> Asked(a, i) \/ Asked(b, i)
    BY <1>1, <1>5, <2>1 DEF Asked
  <2>3. \A i \in Employees : ~(Asked(a, i) /\ Asked(b, i))
    BY <2>1 DEF Asked
  <2>4. Selected(a) = {i \in Employees : Asked(a, i)} /\ Selected(b) = {i \in Employees : Asked(b, i)}
    BY <2>1, SelectedAsked
  <2>5. Selected(q) = Selected(a) \union Selected(b) /\ Selected(a) \intersect Selected(b) = {}
    BY <1>3, <2>2, <2>3, <2>4
  <2> QED BY <2>5 DEF a, b
<1>6. ASSUME q.auth_group = None
      PROVE  Selected(q) = UNION {Selected([q EXCEPT !.auth_group = g]) : g \in AUTH_GROUPS}
  <2> DEFINE of(g) == [q EXCEPT !.auth_group = g]
  <2>1. ASSUME NEW g \in AUTH_GROUPS
        PROVE  Selected(of(g)) = {i \in Employees : Asked(q, i) /\ rows[i].auth_group = g}
    <3>1. /\ of(g) \in Queries /\ of(g).auth_group = g
          /\ of(g).active = q.active /\ of(g).checked_in = q.checked_in
      BY DEF Queries
    <3> HIDE DEF of
    <3>2. \A i \in Employees : Asked(of(g), i) <=> Asked(q, i) /\ rows[i].auth_group = g
      BY <1>1, <1>6, <3>1 DEF Asked
    <3>3. Selected(of(g)) = {i \in Employees : Asked(of(g), i)}
      BY <3>1, SelectedAsked
    <3> QED BY <3>2, <3>3
  <2>2. \A i \in Employees : Asked(q, i) => rows[i].auth_group \in AUTH_GROUPS
    BY <1>2 DEF Asked
  <2> HIDE DEF of
  <2>3. ASSUME NEW i
        PROVE  i \in Selected(q) <=> \E g \in AUTH_GROUPS : i \in Selected(of(g))
    BY <1>3, <2>1, <2>2
  <2>4. Selected(q) = UNION {Selected(of(g)) : g \in AUTH_GROUPS}
    BY <2>3
  <2> QED BY <2>4 DEF of
<1> QED BY <1>3, <1>4, <1>5, <1>6

(* Induction over a finite set: a set of its subsets has a smallest member. *)
LEMMA MinimalSubset ==
  ASSUME NEW D, IsFiniteSet(D), NEW F \in SUBSET SUBSET D, F # {}
  PROVE  \E m \in F : \A s \in F : s \subseteq m => s = m
<1>1. F \subseteq FiniteSubsetsOf(D)
  <2>1. FiniteSubsetsOf(D) = SUBSET D
    BY FS_Subset DEF FiniteSubsetsOf
  <2> QED BY <2>1
<1>2. IsWellFoundedOn(StrictSubsetOrdering(D), FiniteSubsetsOf(D))
  BY FS_StrictSubsetOrderingWellFounded
<1>3. PICK m \in F : \A s \in F : ~(<<s, m>> \in StrictSubsetOrdering(D))
  BY <1>1, <1>2, WFMin
<1>4. ASSUME NEW s \in F, s \subseteq m
      PROVE  s = m
  <2>1. s \in SUBSET D /\ m \in SUBSET D
    OBVIOUS
  <2> QED BY <1>3, <1>4, <2>1 DEF StrictSubsetOrdering
<1> QED BY <1>4

(* The placements with some companies. *)
PlacedWith(s) == {p \in job_assignments : \E e \in s : e.id = p[2]}

(* The jobs of some companies add up to the placements with them. *)
LEMMA JobsAddUp ==
  ASSUME NEW T, IsFiniteSet(T), IsFiniteSet(job_assignments),
         \A e \in T : e.jobs = Cardinality(PlacedWith({e})),
         \A e, f \in T : e.id = f.id => e = f
  PROVE  FoldSet(LAMBDA e, n : e.jobs + n, 0, T) = Cardinality(PlacedWith(T))
<1> DEFINE pick(s) == CHOOSE x \in s : TRUE
           Sum(g) == [s \in SUBSET T |-> IF s = {} THEN 0 ELSE pick(s).jobs + g[s \ {pick(s)}]]
           sum == CHOOSE g : g = Sum(g)
           placed == [s \in SUBSET T |-> Cardinality(PlacedWith(s))]
<1>1. FoldSet(LAMBDA e, n : e.jobs + n, 0, T) = sum[T]
  BY DEF FoldSet, MapThenFoldSet
<1>2. ASSUME NEW s \in SUBSET T
      PROVE  IsFiniteSet(PlacedWith(s))
  BY FS_Subset DEF PlacedWith
<1>3. ASSUME NEW s \in SUBSET T, NEW e \in s
      PROVE  Cardinality(PlacedWith(s)) = e.jobs + Cardinality(PlacedWith(s \ {e}))
  <2> DEFINE one == PlacedWith({e})
             rest == PlacedWith(s \ {e})
  <2>1. IsFiniteSet(one) /\ IsFiniteSet(rest)
    <3>1. {e} \in SUBSET T /\ s \ {e} \in SUBSET T
      OBVIOUS
    <3> QED BY <3>1, <1>2
  <2>2. PlacedWith(s) = one \union rest
    BY DEF PlacedWith
  <2>3. one \intersect rest = {}
    BY DEF PlacedWith
  <2>4. e.jobs = Cardinality(one)
    OBVIOUS
  <2> HIDE DEF one, rest
  <2>5. Cardinality(one \union rest) = Cardinality(one) + Cardinality(rest) - Cardinality(one \intersect rest)
    BY <2>1, FS_Union
  <2>6. Cardinality(one \intersect rest) = 0 /\ Cardinality(one) \in Nat /\ Cardinality(rest) \in Nat
    BY <2>1, <2>3, FS_EmptySet, FS_CardinalityType
  <2>7. Cardinality(PlacedWith(s)) = e.jobs + Cardinality(rest)
    BY <2>2, <2>4, <2>5, <2>6
  <2> QED BY <2>7 DEF rest
<1>4. \A s \in SUBSET T : s # {} => pick(s) \in s
  OBVIOUS
<1> HIDE DEF pick
<1>5. placed = Sum(placed)
  <2>1. ASSUME NEW s \in SUBSET T
        PROVE  Cardinality(PlacedWith(s)) = IF s = {} THEN 0 ELSE pick(s).jobs + placed[s \ {pick(s)}]
    <3>1. CASE s = {}
      <4>1. PlacedWith(s) = {}
        BY <3>1 DEF PlacedWith
      <4> QED BY <3>1, <4>1, FS_EmptySet
    <3>2. CASE s # {}
      <4>1. placed[s \ {pick(s)}] = Cardinality(PlacedWith(s \ {pick(s)}))
        OBVIOUS
      <4> QED BY <1>3, <1>4, <3>2, <4>1
    <3> QED BY <3>1, <3>2
  <2> QED BY <2>1
<1>6. sum = Sum(sum)
  <2> HIDE DEF Sum, placed
  <2> QED BY <1>5
<1>7. \A s \in SUBSET T : sum[s] = IF s = {} THEN 0 ELSE pick(s).jobs + sum[s \ {pick(s)}]
  <2> HIDE DEF sum
  <2>1. ASSUME NEW s \in SUBSET T
        PROVE  Sum(sum)[s] = IF s = {} THEN 0 ELSE pick(s).jobs + sum[s \ {pick(s)}]
    OBVIOUS
  <2> HIDE DEF Sum
  <2> QED BY <1>6, <2>1
<1> HIDE DEF sum, Sum
<1> DEFINE Wrong == {s \in SUBSET T : sum[s] # Cardinality(PlacedWith(s))}
<1>8. Wrong = {}
  <2> SUFFICES ASSUME Wrong # {}
               PROVE  FALSE
    OBVIOUS
  <2>1. PICK m \in Wrong : \A s \in Wrong : s \subseteq m => s = m
    <3>1. Wrong \in SUBSET SUBSET T
      OBVIOUS
    <3> HIDE DEF Wrong
    <3> QED BY <3>1, MinimalSubset
  <2>2. CASE m = {}
    <3>1. PlacedWith(m) = {}
      BY <2>2 DEF PlacedWith
    <3> QED BY <1>7, <2>2, <3>1, FS_EmptySet
  <2>3. CASE m # {}
    <3>1. pick(m) \in m /\ m \ {pick(m)} \in SUBSET T /\ m \ {pick(m)} # m
      BY <1>4, <2>3
    <3>2. sum[m \ {pick(m)}] = Cardinality(PlacedWith(m \ {pick(m)}))
      BY <2>1, <3>1
    <3>3. sum[m] = pick(m).jobs + sum[m \ {pick(m)}]
      BY <1>7, <2>3
    <3> QED BY <1>3, <3>1, <3>2, <3>3
  <2> QED BY <2>2, <2>3
<1> QED BY <1>1, <1>8

(* GET /companies lists every company that is stored, active or not, once. *)
LEMMA JobsArePlacements ==
  ASSUME TypeOK, PlacementsStored
  PROVE  FoldSet(LAMBDA e, n : e.jobs + n, 0, list_with_job_counts(TRUE) \union list_with_job_counts(FALSE))
           = Cardinality(job_assignments)
<1> DEFINE T == list_with_job_counts(TRUE) \union list_with_job_counts(FALSE)
           entry(c) == [id |-> c, jobs |-> Cardinality(Placements(c))]
<1>1. TRUE # None /\ FALSE # None /\ Employees \intersect Companies = {}
  BY RegistryAssumption
<1>2. ASSUME NEW c \in Companies, Stored(c)
      PROVE  rows[c].active \in BOOLEAN
  BY <1>2 DEF TypeOK, Rows, Ids, Stored
<1>3. T = {entry(c) : c \in {c \in Companies : Stored(c)}}
  BY <1>1, <1>2 DEF list_with_job_counts
<1>4. IsFiniteSet(T)
  <2> DEFINE S == {c \in Companies : Stored(c)}
             h == [c \in S |-> entry(c)]
  <2>1. IsFiniteSet(S)
    BY RegistryAssumption, FS_Subset
  <2>2. h \in Surjection(S, T)
    BY <1>3 DEF Surjection
  <2> HIDE DEF h, S, T
  <2> QED BY <2>1, <2>2, FS_Surjection
<1>5. IsFiniteSet(job_assignments)
  <2>1. IsFiniteSet(Employees \X Companies)
    BY RegistryAssumption, FS_Product
  <2> QED BY <2>1, FS_Subset DEF TypeOK
<1>6. ASSUME NEW p \in job_assignments
      PROVE  p[1] \in Employees /\ p[2] \in Companies /\ Stored(p[2])
  BY DEF TypeOK, PlacementsStored
<1>7. ASSUME NEW e \in T
      PROVE  e.jobs = Cardinality(PlacedWith({e}))
  <2>1. PICK c \in Companies : e = entry(c)
    BY <1>3
  <2>2. Placements(c) = PlacedWith({e})
    <3>1. e.id = c
      BY <2>1
    <3>2. \A p \in job_assignments : c \in {p[1], p[2]} <=> p[2] = c
      BY <1>1, <1>6
    <3> QED BY <3>1, <3>2 DEF Placements, PlacedWith
  <2> QED BY <2>1, <2>2
<1>8. \A e, f \in T : e.id = f.id => e = f
  <2> SUFFICES ASSUME NEW e \in T, NEW f \in T, e.id = f.id
               PROVE  e = f
    OBVIOUS
  <2>1. PICK c \in Companies : e = entry(c)
    BY <1>3
  <2>2. PICK d \in Companies : f = entry(d)
    BY <1>3
  <2>3. e.id = c /\ f.id = d
    BY <2>1, <2>2
  <2> QED BY <2>1, <2>2, <2>3
<1>9. PlacedWith(T) = job_assignments
  <2>1. ASSUME NEW p \in job_assignments
        PROVE  \E e \in T : e.id = p[2]
    <3>1. entry(p[2]) \in T /\ entry(p[2]).id = p[2]
      BY <1>3, <1>6
    <3> QED BY <3>1
  <2> QED BY <2>1 DEF PlacedWith
<1> HIDE DEF T
<1>10. FoldSet(LAMBDA e, n : e.jobs + n, 0, T) = Cardinality(job_assignments)
  BY <1>4, <1>5, <1>7, <1>8, <1>9, JobsAddUp
<1> QED BY <1>10 DEF T

LEMMA ListsHold ==
  ASSUME TypeOK, PlacementsStored
  PROVE  ListsAgree
<1> DEFINE employees(q) == list_employees(q).employees
<1>1. ASSUME NEW q \in Queries, q.active = None
      PROVE  /\ list_employees(q).count = list_employees([q EXCEPT !.active = "true"]).count
                                           + list_employees([q EXCEPT !.active = "other"]).count
             /\ employees(q) = employees([q EXCEPT !.active = "true"]) \union employees([q EXCEPT !.active = "other"])
  <2> DEFINE a == [q EXCEPT !.active = "true"]
             b == [q EXCEPT !.active = "other"]
  <2>1. /\ Selected(q) \subseteq Employees
        /\ Selected(q) = Selected(a) \union Selected(b)
        /\ Selected(a) \intersect Selected(b) = {}
    BY <1>1, FiltersDivide
  <2> HIDE DEF a, b
  <2>2. /\ list_employees(q).count = list_employees(a).count + list_employees(b).count
        /\ employees(q) = employees(a) \union employees(b)
    BY <2>1, TwoLists
  <2> QED BY <2>2 DEF a, b
<1>2. ASSUME NEW q \in Queries, q.checked_in = None
      PROVE  /\ list_employees(q).count = list_employees([q EXCEPT !.checked_in = "true"]).count
                                           + list_employees([q EXCEPT !.checked_in = "other"]).count
             /\ employees(q) = employees([q EXCEPT !.checked_in = "true"])
                                \union employees([q EXCEPT !.checked_in = "other"])
  <2> DEFINE a == [q EXCEPT !.checked_in = "true"]
             b == [q EXCEPT !.checked_in = "other"]
  <2>1. /\ Selected(q) \subseteq Employees
        /\ Selected(q) = Selected(a) \union Selected(b)
        /\ Selected(a) \intersect Selected(b) = {}
    BY <1>2, FiltersDivide
  <2> HIDE DEF a, b
  <2>2. /\ list_employees(q).count = list_employees(a).count + list_employees(b).count
        /\ employees(q) = employees(a) \union employees(b)
    BY <2>1, TwoLists
  <2> QED BY <2>2 DEF a, b
<1>3. ASSUME NEW q \in Queries, q.auth_group = None
      PROVE  employees(q) = UNION {employees([q EXCEPT !.auth_group = g]) : g \in AUTH_GROUPS}
  <2> DEFINE of(g) == [q EXCEPT !.auth_group = g]
  <2>1. Selected(q) = UNION {Selected(of(g)) : g \in AUTH_GROUPS}
    BY <1>3, FiltersDivide
  <2>2. \A r : employees(r) = Entries(Selected(r))
    BY ListOf
  <2> HIDE DEF employees, of
  <2>3. ASSUME NEW x
        PROVE  x \in Entries(Selected(q)) <=> \E g \in AUTH_GROUPS : x \in Entries(Selected(of(g)))
    <3>1. \A i : i \in Selected(q) <=> \E g \in AUTH_GROUPS : i \in Selected(of(g))
      BY <2>1
    <3>2. ASSUME NEW A
          PROVE  x \in Entries(A) <=> \E i \in A : \E c \in Companies \union {None} :
                                        Placed(<<i, c>>) /\ x = EmployeeResponse(i, c)
      <4>1. ASSUME NEW i \in A, NEW c \in Companies \union {None}, Placed(<<i, c>>), x = EmployeeResponse(i, c)
            PROVE  x \in Entries(A)
        <5>1. <<i, c>> \in {e \in A \X (Companies \union {None}) : Placed(e)}
          BY <4>1
        <5>2. EmployeeResponse(<<i, c>>[1], <<i, c>>[2]) \in Entries(A)
          BY <5>1 DEF Entries
        <5> QED BY <4>1, <5>2
      <4>2. ASSUME x \in Entries(A)
            PROVE  \E i \in A : \E c \in Companies \union {None} : Placed(<<i, c>>) /\ x = EmployeeResponse(i, c)
        <5>1. PICK e \in A \X (Companies \union {None}) : Placed(e) /\ x = EmployeeResponse(e[1], e[2])
          BY <4>2 DEF Entries
        <5>2. e = <<e[1], e[2]>> /\ e[1] \in A /\ e[2] \in Companies \union {None}
          OBVIOUS
        <5>3. Placed(<<e[1], e[2]>>)
          BY <5>1, <5>2
        <5> QED BY <5>1, <5>2, <5>3
      <4> QED BY <4>1, <4>2
    <3> QED BY <3>1, <3>2
  <2>4. \A x : x \in employees(q) <=> \E g \in AUTH_GROUPS : x \in employees(of(g))
    BY <2>2, <2>3
  <2>5. employees(q) = UNION {employees(of(g)) : g \in AUTH_GROUPS}
    BY <2>4
  <2> QED BY <2>5 DEF employees, of
<1>4. ASSUME NEW q \in Queries, NEW e \in employees(q)
      PROVE  /\ q.active # None => e.active = (q.active = "true")
             /\ q.checked_in # None => e.checked_in = (q.checked_in = "true")
  <2>1. e \in Entries(Selected(q))
    BY <1>4, ListOf
  <2>2. /\ e.id \in Employees /\ Asked(q, e.id)
        /\ e.active = rows[e.id].active /\ e.checked_in = (e.id \in attendances)
    BY <2>1, EntryOf, SelectedAsked
  <2>3. q.active \in {"true", "other", None} /\ q.checked_in \in {"true", "other", None}
    BY DEF Queries
  <2>4. ASSUME q.active # None
        PROVE  e.active = (q.active = "true")
    <3>1. CASE q.active = "true"
      BY <2>2, <3>1 DEF Asked
    <3>2. CASE q.active = "other"
      BY <2>2, <3>2 DEF Asked
    <3> QED BY <2>3, <2>4, <3>1, <3>2
  <2>5. ASSUME q.checked_in # None
        PROVE  e.checked_in = (q.checked_in = "true")
    <3>1. e.id \in attendances <=> q.checked_in = "true"
      BY <2>2, <2>3, <2>5 DEF Asked
    <3> QED BY <2>2, <3>1
  <2> QED BY <2>4, <2>5
<1>5. ASSUME NEW q \in Queries, \A i \in Employees : Cardinality(Placements(i)) <= 1
      PROVE  Cardinality(employees(q)) = list_employees(q).count
  <2>1. Selected(q) \in SUBSET Employees
    BY SelectedAsked
  <2>2. Cardinality(Entries(Selected(q))) = Cardinality(Selected(q))
    BY <1>5, <2>1, OneEntryEach
  <2> QED BY <2>2, ListOf
<1> QED BY <1>1, <1>2, <1>3, <1>4, <1>5, JobsArePlacements DEF ListsAgree

(* The filters of the lists divide what is listed, "count" counts people, and the jobs of the
   companies add up, for any participants, companies and placements. *)
THEOREM ListsDivide == Spec => []ListsAgree
<1>1. RegistryInv /\ PlacementsStored => ListsAgree
  BY ListsHold DEF RegistryInv
<1> QED BY <1>1, RegistryInvariance, PlacementsReferToRows, PTL

=============================================================================
