-------------------------- MODULE Attendance_proofs --------------------------
(* Proofs about Attendance, for every number of threads and participants and    *)
(* for any lengths of the day and the week.                                     *)
EXTENDS Attendance, FiniteSetTheorems, TLAPS

(* A later instant is of the same camp day or of a later one. *)
LEMMA DaysAreMonotone ==
  ASSUME NEW i \in Nat, NEW j \in Nat, i <= j
  PROVE  DayOf(i) \in Nat /\ DayOf(i) <= DayOf(j)
  BY AttendanceAssumption, Z3 DEF DayOf

(* A step that leaves the table alone and one thread without an uncommitted row leaves
   the other uncommitted rows in order. *)
LEMMA WrittenFrame ==
  ASSUME WrittenInv, TypeOK, NEW t \in Threads, attendances' = attendances,
         pc'[t] # "written", written'[t] = {},
         \A u \in Threads \ {t} :
            /\ pc'[u] = pc[u] /\ req'[u] = req[u] /\ camp_date'[u] = camp_date[u]
            /\ stamp'[u] = stamp[u] /\ written'[u] = written[u]
  PROVE  WrittenInv'
<1>1. ASSUME NEW u \in Threads \ {t}, NEW w, Fits(u, w) PROVE Fits(u, w)'
  BY <1>1 DEF Fits, SameKey
<1>2. ASSUME NEW u \in Threads
      PROVE  /\ pc'[u] # "written" => written'[u] = {}
             /\ pc'[u] = "written" =>
                  \E w \in written'[u] : written'[u] = {w} /\ Fits(u, w)'
  BY <1>1 DEF WrittenInv
<1>3. ASSUME NEW u \in Threads, NEW x \in Threads \ {u},
             NEW v \in written'[u], NEW w \in written'[x]
      PROVE  ~SameKey(v, w)
  <2>1. u # t /\ x # t
    OBVIOUS
  <2> QED BY <2>1 DEF WrittenInv
<1> QED BY <1>2, <1>3 DEF WrittenInv, SameKey

(* A step in which one thread writes a row that fits, with a key of its own. *)
LEMMA WrittenByOne ==
  ASSUME WrittenInv, TypeOK, NEW t \in Threads, NEW w, Fits(t, w),
         pc[t] = "stamped",
         \A u \in Threads \ {t} : \A v \in written[u] : ~SameKey(v, w),
         pc' = [pc EXCEPT ![t] = "written"], written' = [written EXCEPT ![t] = {w}],
         UNCHANGED <<attendances, req, camp_date, stamp>>
  PROVE  WrittenInv'
<1>1. ASSUME NEW u \in Threads, NEW v, Fits(u, v) PROVE Fits(u, v)'
  BY <1>1 DEF Fits, SameKey
<1>2. ASSUME NEW u \in Threads
      PROVE  /\ pc'[u] # "written" => written'[u] = {}
             /\ pc'[u] = "written" =>
                  \E v \in written'[u] : written'[u] = {v} /\ Fits(u, v)'
  BY <1>1 DEF WrittenInv, TypeOK
<1>3. ASSUME NEW u \in Threads, NEW x \in Threads \ {u},
             NEW v \in written'[u], NEW y \in written'[x]
      PROVE  ~SameKey(v, y)
  BY <1>3 DEF WrittenInv, TypeOK, SameKey
<1> QED BY <1>2, <1>3 DEF WrittenInv, SameKey

(* The empty table satisfies the invariant. *)
LEMMA InitInv == Init => Inv
<1> SUFFICES ASSUME Init PROVE Inv
  OBVIOUS
<1>1. TypeOK
  BY AttendanceAssumption DEF Init, TypeOK
<1>2. OneRowPerDay /\ RowsInOrder /\ AnswersStay /\ OneSuccessPerScan
  BY DEF Init, OneRowPerDay, RowsInOrder, AnswersStay, OneSuccessPerScan
<1>3. ReadsInv /\ WrittenInv
  BY DEF Init, ReadsInv, WrittenInv
<1> QED BY <1>1, <1>2, <1>3 DEF Inv

(* A request that ends without a commit leaves the invariant. *)
LEMMA RefuseInv ==
  ASSUME Inv, NEW t \in Threads, Refuse(t)
  PROVE  Inv'
<1> USE DEF Inv
<1>1. TypeOK'
  BY DEF TypeOK, Refuse, Finish, rows, camp
<1>2. OneRowPerDay' /\ RowsInOrder' /\ AnswersStay' /\ OneSuccessPerScan'
  BY DEF OneRowPerDay, RowsInOrder, AnswersStay, OneSuccessPerScan, Refuse, rows, SameKey, DayOf
<1>3. ReadsInv'
  BY DEF ReadsInv, TypeOK, Refuse, Finish, rows, SameKey, camp_today, DayOf
<1>4. WrittenInv'
  BY WrittenFrame DEF TypeOK, Refuse, Finish, rows
<1> QED BY <1>1, <1>2, <1>3, <1>4

(* So does the first read of a request. *)
LEMMA BeginInv ==
  ASSUME Inv, NEW t \in Threads, NEW e \in Employees, BeginCheckIn(t, e) \/ BeginCheckOut(t, e)
  PROVE  Inv'
<1> USE DEF Inv
<1>0. UNCHANGED <<now, attendances, camp_date, stamp, written>>
  BY DEF BeginCheckIn, BeginCheckOut, rows
<1>1. TypeOK'
  <2>1. Of(attendances, e) \subseteq Rows
    BY DEF TypeOK, Of
  <2>2. \A op \in {"check_in", "check_out"} : [op |-> op, employee |-> e] \in Requests
    BY DEF Requests
  <2>3. pc' = [pc EXCEPT ![t] = "found"] /\ answer' = [answer EXCEPT ![t] = None]
    BY DEF BeginCheckIn, BeginCheckOut
  <2>4. req' \in [Threads -> Requests \union {NoRequest}]
    BY <2>2 DEF BeginCheckIn, BeginCheckOut, TypeOK
  <2>5. known' \in [Threads -> SUBSET Rows]
    BY <2>1 DEF BeginCheckIn, BeginCheckOut, TypeOK
  <2>6. UNCHANGED <<rows, camp>>
    BY DEF BeginCheckIn, BeginCheckOut
  <2> QED BY <1>0, <2>3, <2>4, <2>5, <2>6 DEF TypeOK, rows, camp
<1>2. OneRowPerDay' /\ RowsInOrder'
  BY <1>0 DEF OneRowPerDay, RowsInOrder, SameKey, DayOf
<1>3. AnswersStay' /\ OneSuccessPerScan'
  BY DEF AnswersStay, OneSuccessPerScan, BeginCheckIn, BeginCheckOut, rows, SameKey, TypeOK
<1>4. ReadsInv'
  <2>1. \A u \in Threads \ {t} : pc'[u] = pc[u] /\ req'[u] = req[u] /\ known'[u] = known[u]
    BY DEF BeginCheckIn, BeginCheckOut, TypeOK
  <2>2. pc'[t] = "found" /\ req'[t] \in Requests /\ req'[t].employee = e
    BY DEF BeginCheckIn, BeginCheckOut, TypeOK, Requests
  <2>3. pc[t] = "idle"
    BY DEF BeginCheckIn, BeginCheckOut
  <2>4. CASE BeginCheckIn(t, e)
    <3>1. known'[t] = {}
      BY <2>3, <2>4 DEF BeginCheckIn, ReadsInv
    <3> QED BY <1>0, <2>1, <2>2, <2>4, <3>1
        DEF ReadsInv, BeginCheckIn, SameKey, camp_today, DayOf
  <2>5. CASE BeginCheckOut(t, e)
    <3>1. known'[t] = Of(attendances, e)
      BY <2>5 DEF BeginCheckOut, TypeOK
    <3>2. \A r \in Of(attendances, e) : r \in attendances /\ r.employee = e /\ r.in <= now
      BY DEF Of, RowsInOrder
    <3> QED BY <1>0, <2>1, <2>2, <3>1, <3>2
        DEF ReadsInv, OneRowPerDay, SameKey, camp_today, DayOf
  <2> QED BY <2>4, <2>5
<1>5. WrittenInv'
  BY <1>0, WrittenFrame DEF WrittenInv, TypeOK, BeginCheckIn, BeginCheckOut
<1> QED BY <1>1, <1>2, <1>3, <1>4, <1>5

(* So do the two readings of the clock. *)
LEMMA ReadInv ==
  ASSUME Inv, NEW t \in Threads, ReadDate(t) \/ ReadStamp(t)
  PROVE  Inv'
<1> USE DEF Inv
<1>0. CASE Refuse(t)
  BY <1>0, RefuseInv
<1>1. CASE /\ pc[t] = "found" /\ pc' = [pc EXCEPT ![t] = "dated"]
           /\ ~(req[t].op = "check_out" /\ On(known[t], camp_today) = {})
           /\ camp_date' = [camp_date EXCEPT ![t] = camp_today]
           /\ known' = [known EXCEPT ![t] = On(known[t], camp_today)]
           /\ UNCHANGED <<rows, camp, req, stamp, written, answer>>
  <2>0. camp_today \in Nat
    BY DaysAreMonotone DEF TypeOK, camp_today
  <2>1. TypeOK'
    BY <1>1, <2>0 DEF TypeOK, rows, camp, On
  <2>2. OneRowPerDay' /\ RowsInOrder' /\ AnswersStay' /\ OneSuccessPerScan'
    BY <1>1 DEF OneRowPerDay, RowsInOrder, AnswersStay, OneSuccessPerScan, rows, SameKey, DayOf
  <2>3. ReadsInv'
    BY <1>1, <2>0 DEF ReadsInv, TypeOK, rows, SameKey, camp_today, DayOf, On
  <2>4. WrittenInv'
    BY <1>1, WrittenFrame DEF WrittenInv, TypeOK, rows
  <2> QED BY <2>1, <2>2, <2>3, <2>4
<1>2. CASE ReadStamp(t)
  <2>1. TypeOK'
    BY <1>2 DEF TypeOK, ReadStamp, rows, camp
  <2>2. OneRowPerDay' /\ RowsInOrder' /\ AnswersStay' /\ OneSuccessPerScan'
    BY <1>2 DEF OneRowPerDay, RowsInOrder, AnswersStay, OneSuccessPerScan, ReadStamp, rows,
       SameKey, DayOf
  <2>3. ReadsInv'
    BY <1>2 DEF ReadsInv, TypeOK, ReadStamp, rows, SameKey, camp_today, DayOf
  <2>4. WrittenInv'
    BY <1>2, WrittenFrame DEF WrittenInv, TypeOK, ReadStamp, rows
  <2> QED BY <2>1, <2>2, <2>3, <2>4
<1> QED BY <1>0, <1>1, <1>2 DEF ReadDate

(* So does the insert: its key is new, and no other transaction holds it. *)
LEMMA InsertInv ==
  ASSUME Inv, NEW t \in Threads, InsertRow(t)
  PROVE  Inv'
<1> USE DEF Inv
<1>0. CASE Refuse(t)
  BY <1>0, RefuseInv
<1>1. CASE Existing(t) = {} /\ ~Refuse(t)
  <2> DEFINE w == [employee |-> req[t].employee, day |-> camp_date[t],
                   in |-> stamp[t], out |-> None]
  <2>0. /\ pc[t] = "stamped" /\ req[t].op = "check_in" /\ ~RowLocked(t)
        /\ pc' = [pc EXCEPT ![t] = "written"] /\ written' = [written EXCEPT ![t] = {w}]
        /\ UNCHANGED <<rows, camp, req, camp_date, stamp, known, answer>>
    BY <1>1 DEF InsertRow
  <2>1. w \in Rows
    BY <2>0 DEF ReadsInv, Requests, Rows, TypeOK
  <2>2. TypeOK'
    BY <2>0, <2>1 DEF TypeOK, rows, camp
  <2>3. OneRowPerDay' /\ RowsInOrder' /\ AnswersStay' /\ OneSuccessPerScan'
    BY <2>0 DEF OneRowPerDay, RowsInOrder, AnswersStay, OneSuccessPerScan, rows, SameKey, DayOf
  <2>4. ReadsInv'
    BY <2>0 DEF ReadsInv, TypeOK, rows, SameKey, camp_today, DayOf
  <2>5. \A r \in attendances : ~SameKey(r, w)
    BY <1>1 DEF Existing, On, Of, SameKey
  <2>6. \A u \in Threads \ {t} : \A v \in written[u] : ~SameKey(v, w)
    BY <2>0 DEF RowLocked, On, Of, SameKey
  <2>7. WrittenInv'
    <3>1. Fits(t, w)
      BY <2>0, <2>5 DEF Fits
    <3> HIDE DEF w
    <3> QED BY <2>0, <2>6, <3>1, WrittenByOne DEF rows
  <2> QED BY <2>2, <2>3, <2>4, <2>7
<1> QED BY <1>0, <1>1 DEF InsertRow

(* So does the update: the row it finds is the only one of its key. *)
LEMMA UpdateInv ==
  ASSUME Inv, NEW t \in Threads, UpdateRow(t)
  PROVE  Inv'
<1> USE DEF Inv
<1>0. CASE Refuse(t)
  BY <1>0, RefuseInv
<1>1. CASE ~Refuse(t)
  <2>0. /\ pc[t] = "stamped" /\ req[t].op = "check_out" /\ ~RowLocked(t)
        /\ pc' = [pc EXCEPT ![t] = "written"]
        /\ written' = [written EXCEPT ![t] = {[r EXCEPT !.out = stamp[t]] : r \in Existing(t)}]
        /\ UNCHANGED <<rows, camp, req, camp_date, stamp, known, answer>>
        /\ \E r \in Existing(t) : r.out = None
    BY <1>1 DEF UpdateRow
  <2>1. PICK r \in Existing(t) : r.out = None
    BY <2>0
  <2> DEFINE w == [r EXCEPT !.out = stamp[t]]
  <2>2. r \in attendances /\ r \in Rows /\ r.employee = req[t].employee /\ r.day = camp_date[t]
    BY <2>1 DEF Existing, On, Of, TypeOK
  <2>3. Existing(t) = {r}
    BY <2>1, <2>2 DEF Existing, On, Of, OneRowPerDay, SameKey
  <2>4. /\ w \in Rows /\ w.employee = r.employee /\ w.day = r.day
    BY <2>2 DEF Rows, TypeOK
  <2>5. written' = [written EXCEPT ![t] = {w}]
    BY <2>0, <2>3
  <2> HIDE DEF w
  <2>6. TypeOK'
    BY <2>0, <2>4, <2>5 DEF TypeOK, rows, camp
  <2>7. OneRowPerDay' /\ RowsInOrder' /\ AnswersStay' /\ OneSuccessPerScan'
    BY <2>0 DEF OneRowPerDay, RowsInOrder, AnswersStay, OneSuccessPerScan, rows, SameKey, DayOf
  <2>8. ReadsInv'
    BY <2>0 DEF ReadsInv, TypeOK, rows, SameKey, camp_today, DayOf
  <2>9. \A u \in Threads \ {t} : \A v \in written[u] : ~SameKey(v, w)
    BY <2>0, <2>2, <2>4 DEF RowLocked, On, Of, SameKey
  <2>10. WrittenInv'
    <3>1. Fits(t, w)
      BY <2>0, <2>1, <2>2, <2>4 DEF Fits, w
    <3> QED BY <2>0, <2>5, <2>9, <3>1, WrittenByOne DEF rows
  <2> QED BY <2>6, <2>7, <2>8, <2>10
<1> QED BY <1>0, <1>1

(* What a commit stores, replaces and answers. *)
LEMMA CommitFacts ==
  ASSUME Inv, NEW t \in Threads, Commit(t)
  PROVE  \E w \in Rows :
           /\ written[t] = {w} /\ w.employee = req[t].employee /\ w.day = camp_date[t]
           /\ attendances' = {r \in attendances : ~SameKey(r, w)} \union {w}
           /\ answer' = [answer EXCEPT ![t] = w]
           /\ w.day <= DayOf(w.in) /\ w.in <= now
           /\ \/ /\ w.out = None
                 /\ \A r \in attendances : ~SameKey(r, w)
              \/ /\ w.out # None /\ w.in <= w.out
                 /\ \E r \in attendances :
                      /\ r.out = None /\ SameKey(r, w) /\ w = [r EXCEPT !.out = w.out]
<1> USE DEF Inv
<1>1. /\ pc[t] = "written" /\ req[t] \in Requests
      /\ camp_date[t] <= DayOf(stamp[t]) /\ stamp[t] <= now /\ stamp[t] \in Nat
  BY DEF Commit, ReadsInv, TypeOK
<1>2. PICK w \in written[t] :
           /\ written[t] = {w} /\ w.employee = req[t].employee /\ w.day = camp_date[t]
           /\ req[t].op = "check_in" =>
                /\ w.in = stamp[t] /\ w.out = None
                /\ \A r \in attendances : ~SameKey(r, w)
           /\ req[t].op = "check_out" =>
                \E r \in attendances : r.out = None /\ w = [r EXCEPT !.out = stamp[t]]
  BY <1>1 DEF WrittenInv, Fits
<1>3. w \in Rows
  BY <1>2 DEF TypeOK
<1>4. attendances' = {r \in attendances : ~SameKey(r, w)} \union {w}
  BY <1>2 DEF Commit, SameKey
<1>5. CASE req[t].op = "check_in"
  <2>1. Answer(t) = w
    BY <1>2, <1>5 DEF Answer
  <2>2. answer' = [answer EXCEPT ![t] = w]
    BY <2>1 DEF Commit
  <2> QED BY <1>1, <1>2, <1>3, <1>4, <1>5, <2>2
<1>6. CASE req[t].op = "check_out"
  <2>1. PICK r \in attendances : r.out = None /\ w = [r EXCEPT !.out = stamp[t]]
    BY <1>2, <1>6
  <2>2. r \in Rows /\ w.employee = r.employee /\ w.day = r.day /\ w.in = r.in /\ w.out = stamp[t]
    BY <2>1 DEF TypeOK, Rows
  <2>3. known[t] # {} /\ \A k \in known[t] : k.day = camp_date[t]
    BY <1>1, <1>6 DEF ReadsInv
  <2> DEFINE k == CHOOSE s \in known[t] : TRUE
  <2>4. k \in known[t]
    BY <2>3
  <2> HIDE DEF k
  <2>5. k \in Rows /\ k.employee = req[t].employee /\ k.day = camp_date[t] /\ k.in <= stamp[t]
    BY <2>3, <2>4, <1>1 DEF ReadsInv, TypeOK
  <2>6. PICK s \in attendances : SameKey(k, s) /\ k.in = s.in
    BY <2>4 DEF ReadsInv
  <2>7. s = r
    BY <2>2, <2>5, <2>6, <1>2 DEF OneRowPerDay, SameKey
  <2>8. [k EXCEPT !.out = stamp[t]] = w
    BY <2>1, <2>2, <2>5, <2>6, <2>7 DEF Rows, SameKey
  <2>9. Answer(t) = w
    BY <2>8, <1>6 DEF Answer, k
  <2>10. answer' = [answer EXCEPT ![t] = w]
    BY <2>9 DEF Commit
  <2>11. w.day <= DayOf(w.in) /\ w.in <= now /\ w.in <= w.out /\ w.out # None
    BY <2>1, <2>2, <2>5, <2>6, <2>7, <1>1, AttendanceAssumption DEF RowsInOrder
  <2>12. SameKey(r, w) /\ w = [r EXCEPT !.out = w.out]
    BY <2>1, <2>2 DEF SameKey
  <2> QED BY <1>2, <1>3, <1>4, <2>1, <2>10, <2>11, <2>12
<1> QED BY <1>1, <1>5, <1>6 DEF Requests

(* So does the commit, which adds the row or fills in its departure. *)
LEMMA CommitInv ==
  ASSUME Inv, NEW t \in Threads, Commit(t)
  PROVE  Inv'
<1> USE DEF Inv
<1>1. PICK w \in Rows :
           /\ written[t] = {w} /\ w.employee = req[t].employee /\ w.day = camp_date[t]
           /\ attendances' = {r \in attendances : ~SameKey(r, w)} \union {w}
           /\ answer' = [answer EXCEPT ![t] = w]
           /\ w.day <= DayOf(w.in) /\ w.in <= now
           /\ \/ /\ w.out = None
                 /\ \A r \in attendances : ~SameKey(r, w)
              \/ /\ w.out # None /\ w.in <= w.out
                 /\ \E r \in attendances :
                      /\ r.out = None /\ SameKey(r, w) /\ w = [r EXCEPT !.out = w.out]
  BY CommitFacts
<1>2. Finish(t) /\ UNCHANGED <<now, camp>> /\ now \in Nat
  BY DEF Commit, TypeOK
<1>3. TypeOK'
  BY <1>1, <1>2 DEF TypeOK, Finish, camp
<1>4. OneRowPerDay'
  BY <1>1 DEF OneRowPerDay, SameKey
<1>5. RowsInOrder'
  BY <1>1, <1>2 DEF RowsInOrder, DayOf
<1>6. \A r \in attendances : \E s \in attendances' :
        SameKey(r, s) /\ r.in = s.in /\ (r.out # None => s.out # None)
  <2> TAKE r \in attendances
  <2>1. CASE ~SameKey(r, w)
    BY <2>1, <1>1 DEF SameKey
  <2>2. CASE SameKey(r, w)
    <3>1. PICK q \in attendances : q.out = None /\ SameKey(q, w) /\ w = [q EXCEPT !.out = w.out]
      BY <2>2, <1>1
    <3>2. q = r
      BY <2>2, <3>1 DEF OneRowPerDay, SameKey
    <3>3. r \in Rows
      BY DEF TypeOK
    <3>4. w.in = r.in
      BY <3>1, <3>2, <3>3 DEF Rows
    <3> QED BY <1>1, <2>2, <3>1, <3>2, <3>4
  <2> QED BY <2>1, <2>2
<1>7. ReadsInv'
  <2>1. ASSUME NEW u \in Threads PROVE
           (known'[u] \subseteq known[u] /\ req'[u] = req[u]) \/ known'[u] = {}
    BY <1>2 DEF Finish, TypeOK
  <2> QED BY <1>2, <1>6, <2>1 DEF ReadsInv, TypeOK, Finish, SameKey, camp_today, DayOf
<1>8. ASSUME NEW u \in Threads \ {t} PROVE \A v \in written[u] : ~SameKey(v, w)
  BY <1>1 DEF WrittenInv, SameKey
<1>9. WrittenInv'
  <2>1. \A x \in Threads : written'[x] = IF x = t THEN {} ELSE written[x]
    BY <1>2 DEF Finish, TypeOK
  <2>2. ASSUME NEW u \in Threads, NEW x \in Threads \ {u},
               NEW y \in written'[u], NEW z \in written'[x]
        PROVE  ~SameKey(y, z)
    BY <2>1 DEF WrittenInv
  <2>3. pc'[t] # "written" /\ written'[t] = {}
    BY <1>2 DEF Finish, TypeOK
  <2>4. ASSUME NEW u \in Threads \ {t}, NEW v \in written[u], Fits(u, v)
        PROVE  Fits(u, v)'
    <3>1. req'[u] = req[u] /\ camp_date'[u] = camp_date[u] /\ stamp'[u] = stamp[u]
      BY <1>2 DEF Finish, TypeOK
    <3>2. ~SameKey(v, w)
      BY <1>8
    <3>3. req[u].op = "check_in" => \A r \in attendances' : ~SameKey(r, v)
      BY <1>1, <2>4, <3>2 DEF SameKey, Fits
    <3>4. ASSUME req[u].op = "check_out"
          PROVE  \E r \in attendances' : r.out = None /\ v = [r EXCEPT !.out = stamp[u]]
      <4>1. PICK r \in attendances : r.out = None /\ v = [r EXCEPT !.out = stamp[u]]
        BY <2>4, <3>4 DEF Fits
      <4>2. r \in Rows
        BY DEF TypeOK
      <4>3. v.employee = r.employee /\ v.day = r.day
        BY <4>1, <4>2 DEF Rows
      <4> QED BY <1>1, <3>2, <4>1, <4>3 DEF SameKey
    <3> QED BY <2>4, <3>1, <3>3, <3>4 DEF Fits, SameKey
  <2>5. ASSUME NEW u \in Threads \ {t}
        PROVE  /\ pc'[u] # "written" => written'[u] = {}
               /\ pc'[u] = "written" =>
                    \E v \in written'[u] : written'[u] = {v} /\ Fits(u, v)'
    <3>1. pc'[u] = pc[u] /\ written'[u] = written[u]
      BY <1>2 DEF Finish, TypeOK
    <3> QED BY <2>4, <3>1 DEF WrittenInv
  <2> QED BY <2>2, <2>3, <2>5 DEF WrittenInv, SameKey
<1>10. AnswersStay'
  <2> SUFFICES ASSUME NEW u \in Threads, answer'[u] # None
               PROVE \E r \in attendances' :
                       SameKey(r, answer'[u]) /\ (answer'[u].out # None => r.out # None)
    BY DEF AnswersStay, SameKey
  <2>1. CASE u = t
    BY <1>1, <2>1 DEF TypeOK, SameKey
  <2>2. CASE u # t
    <3>1. answer'[u] = answer[u]
      BY <1>1, <2>2 DEF TypeOK
    <3>2. PICK r \in attendances :
            SameKey(r, answer[u]) /\ (answer[u].out # None => r.out # None)
      BY <3>1 DEF AnswersStay
    <3> QED BY <1>6, <3>1, <3>2 DEF SameKey
  <2> QED BY <2>1, <2>2
<1>11. ASSUME NEW u \in Threads \ {t}, answer[u] # None, SameKey(answer[u], w)
       PROVE (answer[u].out = None) # (w.out = None)
  <2>1. PICK r \in attendances : SameKey(r, answer[u]) /\ (answer[u].out # None => r.out # None)
    BY <1>11 DEF AnswersStay
  <2>2. SameKey(r, w)
    BY <1>11, <2>1 DEF SameKey
  <2>3. w.out # None
    BY <1>1, <2>2
  <2>4. r.out = None
    BY <1>1, <2>2, <2>3 DEF OneRowPerDay, SameKey
  <2> QED BY <2>1, <2>3, <2>4
<1>12. OneSuccessPerScan'
  <2> SUFFICES ASSUME NEW u \in Threads, NEW v \in Threads, u # v,
                      answer'[u] # None, answer'[v] # None,
                      answer'[u].employee = answer'[v].employee, answer'[u].day = answer'[v].day
               PROVE (answer'[u].out = None) # (answer'[v].out = None)
    BY DEF OneSuccessPerScan
  <2>1. \A x \in Threads : answer'[x] = IF x = t THEN w ELSE answer[x]
    BY <1>1 DEF TypeOK
  <2>2. CASE u # t /\ v # t
    BY <2>1, <2>2 DEF OneSuccessPerScan
  <2>3. CASE u = t
    BY <1>11, <2>1, <2>3 DEF SameKey
  <2>4. CASE v = t
    BY <1>11, <2>1, <2>4 DEF SameKey
  <2> QED BY <2>2, <2>3, <2>4
<1> QED BY <1>3, <1>4, <1>5, <1>7, <1>9, <1>10, <1>12

(* So do the clock and the changes of participants and switches. *)
LEMMA EnvironmentInv ==
  ASSUME Inv, Environment
  PROVE  Inv'
<1> USE DEF Inv
<1>0. /\ UNCHANGED <<attendances, session, answer>>
      /\ now' \in Nat /\ now <= now' /\ now \in Nat
  BY DEF Environment, Tick, UpdateEmployee, SetGroup, EditSwitches, Change, rows, TypeOK
<1>1. DayOf(now) <= DayOf(now') /\ DayOf(now) \in Nat /\ DayOf(now') \in Nat
  BY <1>0, DaysAreMonotone
<1>2. TypeOK'
  <2>1. /\ active' \subseteq Employees
        /\ group' \in [Employees -> {"employee", "staff", "admin", None}]
        /\ required' \subseteq {"kids", "staff"} /\ changes' \in Nat
    <3>1. CASE Tick
      BY <3>1 DEF Tick, TypeOK, camp
    <3>2. CASE \E e \in Employees : UpdateEmployee(e)
      BY <3>2 DEF UpdateEmployee, Change, TypeOK
    <3>3. CASE \E e \in Employees, g \in {"employee", "staff"} : SetGroup(e, g)
      BY <3>3 DEF SetGroup, Change, TypeOK
    <3>4. CASE \E S \in SUBSET {"kids", "staff"} : EditSwitches(S)
      BY <3>4 DEF EditSwitches, Change, TypeOK
    <3> QED BY <3>1, <3>2, <3>3, <3>4 DEF Environment
  <2>2. UNCHANGED <<pc, req, camp_date, stamp, known, written>>
    BY <1>0 DEF session
  <2> QED BY <1>0, <2>1, <2>2 DEF TypeOK
<1>3. OneRowPerDay' /\ AnswersStay' /\ OneSuccessPerScan'
  BY <1>0 DEF OneRowPerDay, AnswersStay, OneSuccessPerScan, SameKey
<1>4. RowsInOrder'
  BY <1>0 DEF RowsInOrder, TypeOK, Rows, DayOf
<1>5. WrittenInv'
  BY <1>0 DEF WrittenInv, Fits, session, SameKey
<1>6. ReadsInv'
  <2>1. \A t \in Threads : camp_date[t] \in Nat /\ stamp[t] \in Nat
    BY DEF TypeOK
  <2>2. \A t \in Threads : \A r \in known[t] : r.in \in Nat
    BY DEF TypeOK, Rows
  <2>3. \A t \in Threads :
          /\ camp_date[t] <= DayOf(now) => camp_date[t] <= DayOf(now')
          /\ stamp[t] <= now => stamp[t] <= now'
    BY <1>0, <1>1, <2>1
  <2>4. \A t \in Threads : \A r \in known[t] : r.in <= now => r.in <= now'
    BY <1>0, <2>2
  <2>5. UNCHANGED <<pc, req, camp_date, stamp, known>> /\ camp_today = DayOf(now)
        /\ camp_today' = DayOf(now')
    BY <1>0 DEF session, camp_today, DayOf
  <2> QED BY <1>0, <2>3, <2>4, <2>5 DEF ReadsInv, SameKey, DayOf
<1> QED BY <1>2, <1>3, <1>4, <1>5, <1>6

(* The invariant is inductive. *)
LEMMA NextInv == Inv /\ [Next]_vars => Inv'
<1> SUFFICES ASSUME Inv, [Next]_vars PROVE Inv'
  OBVIOUS
<1>1. ASSUME NEW t \in Threads, Request(t) PROVE Inv'
  BY <1>1, BeginInv, ReadInv, InsertInv, UpdateInv, CommitInv, RefuseInv DEF Request, Rollback
<1>2. CASE Environment
  BY <1>2, EnvironmentInv
<1>3. CASE UNCHANGED vars
  <2>1. UNCHANGED <<now, attendances, active, group, required, changes>>
    BY <1>3 DEF vars, rows, camp
  <2>2. UNCHANGED <<pc, req, camp_date, stamp, known, written, answer>>
    BY <1>3 DEF vars, session
  <2>3. TypeOK' /\ OneRowPerDay' /\ RowsInOrder' /\ AnswersStay' /\ OneSuccessPerScan'
    BY <2>1, <2>2 DEF Inv, TypeOK, OneRowPerDay, RowsInOrder, AnswersStay, OneSuccessPerScan,
       SameKey, DayOf
  <2>4. ReadsInv'
    BY <2>1, <2>2 DEF Inv, ReadsInv, SameKey, DayOf, camp_today
  <2>5. WrittenInv'
    BY <2>1, <2>2 DEF Inv, WrittenInv, Fits, SameKey
  <2> QED BY <2>3, <2>4, <2>5 DEF Inv
<1> QED BY <1>1, <1>2, <1>3 DEF Next
-----------------------------------------------------------------------------
(* The inductive invariant holds in every behaviour of the attendance service. *)
THEOREM AttendanceInvariance == Spec => []Inv
  BY InitInv, NextInv, PTL DEF Spec

(* The types of rows, transactions and camp. *)
THEOREM AttendanceTyped == Spec => []TypeOK
<1>1. Inv => TypeOK
  BY DEF Inv
<1> QED BY <1>1, AttendanceInvariance, PTL

(* However scans of one badge race, at most one arrival and one departure is answered
   with success. *)
THEOREM OneSuccess == Spec => []OneSuccessPerScan
<1>1. Inv => OneSuccessPerScan
  BY DEF Inv
<1> QED BY <1>1, AttendanceInvariance, PTL

(* What a step does to answers and rows: nothing, or what a commit does. *)
LEMMA OnlyCommitsWrite ==
  ASSUME [Next]_vars, TypeOK
  PROVE  \/ /\ attendances' = attendances
            /\ \A t \in Threads : answer'[t] = answer[t] \/ answer'[t] = None
         \/ \E t \in Threads : Commit(t)
  BY DEF Next, Request, Environment, BeginCheckIn, BeginCheckOut, ReadDate, ReadStamp, InsertRow,
     UpdateRow, Rollback, Refuse, Tick, UpdateEmployee, SetGroup, EditSwitches, Change,
     vars, rows, TypeOK

(* An open gate stays open for the camp day, whoever checks out. *)
THEOREM GateStaysOpen == Spec => GateOutlivesCheckOut
<1>1. ASSUME Inv, [Next]_vars
      PROVE  [\A e \in Employees :
                GateOpen(e) /\ ~GateOpen(e)' =>
                  camp_today' # camp_today \/ group'[e] # group[e] \/ required' # required]_vars
  <2> SUFFICES ASSUME NEW e \in Employees, GateOpen(e), camp_today' = camp_today,
                      group'[e] = group[e], required' = required
               PROVE  GateOpen(e)'
    OBVIOUS
  <2>1. \A r \in attendances : \E s \in attendances' : SameKey(r, s)
    <3>1. CASE attendances' = attendances
      BY <3>1 DEF SameKey
    <3>2. ASSUME NEW t \in Threads, Commit(t)
          PROVE  \A r \in attendances : \E s \in attendances' : SameKey(r, s)
      <4>1. PICK w \in Rows : attendances' = {r \in attendances : ~SameKey(r, w)} \union {w}
        BY <1>1, <3>2, CommitFacts
      <4> QED BY <4>1 DEF SameKey
    <3> QED BY <1>1, <3>1, <3>2, OnlyCommitsWrite DEF Inv
  <2>2. participant_requires_attendance(e)' = participant_requires_attendance(e)
    BY DEF participant_requires_attendance, auth_group_for
  <2>3. has_checkin_for_date(e, camp_today) => has_checkin_for_date(e, camp_today)'
    BY <2>1 DEF has_checkin_for_date, On, Of, SameKey
  <2> QED BY <2>2, <2>3 DEF GateOpen
<1> QED BY <1>1, AttendanceInvariance, PTL DEF Spec, GateOutlivesCheckOut

(* A success is answered with the row as it was stored. *)
THEOREM AnswersMatchRows == Spec => AnswersAreStored
<1>1. ASSUME Inv, [Next]_vars
      PROVE  [\A t \in Threads : answer'[t] # answer[t] /\ answer'[t] # None =>
                 answer'[t] \in attendances']_vars
  <2> SUFFICES ASSUME NEW t \in Threads, answer'[t] # answer[t], answer'[t] # None
               PROVE answer'[t] \in attendances'
    OBVIOUS
  <2>1. PICK u \in Threads : Commit(u)
    BY <1>1, OnlyCommitsWrite DEF Inv
  <2>2. PICK w \in Rows :
          /\ attendances' = {r \in attendances : ~SameKey(r, w)} \union {w}
          /\ answer' = [answer EXCEPT ![u] = w]
    BY <1>1, <2>1, CommitFacts
  <2> QED BY <1>1, <2>2 DEF Inv, TypeOK
<1> QED BY <1>1, AttendanceInvariance, PTL DEF Spec, AnswersAreStored

(* The service implements the attendance book: each commit is one arrival or one
   departure of it, and everything else stutters. *)
THEOREM BookImplementation == Spec => ImplementsBook
<1>1. Init => Book!Init
  BY DEF Init, Book!Init, arrivals, departures
<1>2. ASSUME Inv, [Next]_vars
      PROVE  [Book!Next]_<<arrivals, departures>>
  <2>1. CASE attendances' = attendances
    BY <2>1 DEF arrivals, departures
  <2>2. ASSUME NEW t \in Threads, Commit(t)
        PROVE  [Book!Next]_<<arrivals, departures>>
    <3>1. PICK w \in Rows :
           /\ attendances' = {r \in attendances : ~SameKey(r, w)} \union {w}
           /\ w.day <= DayOf(w.in) /\ w.in <= now
           /\ \/ /\ w.out = None
                 /\ \A r \in attendances : ~SameKey(r, w)
              \/ /\ w.out # None /\ w.in <= w.out
                 /\ \E r \in attendances :
                      /\ r.out = None /\ SameKey(r, w) /\ w = [r EXCEPT !.out = w.out]
      BY <1>2, <2>2, CommitFacts
    <3> DEFINE a == [employee |-> w.employee, day |-> w.day, at |-> w.in]
               d == [employee |-> w.employee, day |-> w.day, at |-> w.out]
    <3>2. CASE w.out = None
      <4>0. attendances' = attendances \union {w} /\ \A r \in attendances : ~SameKey(r, w)
        BY <3>1, <3>2
      <4>1. arrivals' = arrivals \union {a} /\ departures' = departures
        BY <3>2, <4>0 DEF arrivals, departures
      <4>2. \A b \in arrivals : ~(b.employee = a.employee /\ b.day = a.day)
        BY <4>0 DEF arrivals, SameKey
      <4>3. Book!Arrive(a)
        BY <3>1, <4>1, <4>2 DEF Book!Arrive
      <4>4. a \in arrivals' \ arrivals
        BY <4>1, <4>2
      <4> QED BY <4>3, <4>4 DEF Book!Next
    <3>3. CASE w.out # None
      <4>1. PICK r \in attendances :
              r.out = None /\ SameKey(r, w) /\ w = [r EXCEPT !.out = w.out]
        BY <3>1, <3>3
      <4>2. r \in Rows /\ \A s \in attendances : SameKey(s, w) => s = r
        BY <1>2, <4>1 DEF Inv, TypeOK, OneRowPerDay, SameKey
      <4>3. r.in = w.in /\ r.employee = w.employee /\ r.day = w.day
        BY <4>1, <4>2 DEF Rows, SameKey
      <4>4. attendances' = (attendances \ {r}) \union {w}
        BY <3>1, <4>1, <4>2
      <4>5. arrivals' = arrivals
        BY <4>1, <4>3, <4>4 DEF arrivals
      <4>6. departures' = departures \union {d}
        BY <3>3, <4>1, <4>4 DEF departures
      <4>7. \A b \in departures : ~(b.employee = d.employee /\ b.day = d.day)
        BY <4>1, <4>2 DEF departures, SameKey
      <4>8. \E b \in arrivals : b.employee = d.employee /\ b.day = d.day /\ b.at <= d.at
        <5>1. [employee |-> r.employee, day |-> r.day, at |-> r.in] \in arrivals
          BY DEF arrivals
        <5> QED BY <3>1, <3>3, <4>3, <5>1
      <4>9. Book!Leave(d) /\ d \in departures' \ departures
        BY <4>5, <4>6, <4>7, <4>8 DEF Book!Leave
      <4> QED BY <4>9 DEF Book!Next
    <3> QED BY <3>2, <3>3
  <2> QED BY <1>2, <2>1, <2>2, OnlyCommitsWrite DEF Inv
<1> QED BY <1>1, <1>2, AttendanceInvariance, PTL DEF Spec, ImplementsBook, Book!Spec

-----------------------------------------------------------------------------
(* The lists *)

(* Division with remainder *)
LEMMA DivMod ==
  ASSUME NEW n \in Nat, NEW w \in Nat \ {0}
  PROVE  /\ n \div w \in Nat /\ (n % w) \in 0 .. w - 1
         /\ n = w * (n \div w) + (n % w)
<1>1. w \in Int /\ w > 0 /\ n \in Int
  OBVIOUS
<1>2. (n % w) \in 0 .. w - 1
  BY <1>1
<1>3. n \div w \in Int
  BY <1>1
<1>4. n = w * (n \div w) + (n % w)
  BY <1>1
<1>5. n \div w >= 0
  BY <1>1, Z3
<1> QED BY <1>2, <1>3, <1>4, <1>5

(* A greater multiple is greater by the factor, at least. *)
LEMMA Multiples ==
  ASSUME NEW a \in Int, NEW b \in Int, NEW w \in Nat \ {0}, a < b
  PROVE  w * a + w <= w * b
<1>1. PICK k \in Nat : b = a + 1 + k
  <2>1. b - a - 1 \in Nat /\ b = a + 1 + (b - a - 1)
    OBVIOUS
  <2> QED BY <2>1
<1>2. w * b = w * a + w + w * k
  BY <1>1
<1>3. w * k >= 0
  OBVIOUS
<1>4. w * a \in Int /\ w * b \in Int /\ w * k \in Int
  OBVIOUS
<1> QED BY <1>2, <1>3, <1>4

(* A day is in the week that begins with its first day, and in no other. *)
LEMMA WeekOfDay ==
  ASSUME NEW q \in Nat, NEW n \in Nat, NEW w \in Nat \ {0}
  PROVE  (n \div w) = q <=> \E d \in 0 .. w - 1 : n = w * q + d
<1>1. /\ n \div w \in Nat /\ (n % w) \in 0 .. w - 1
      /\ n = w * (n \div w) + (n % w)
  BY DivMod
<1>2. ASSUME NEW p \in Nat, NEW x \in 0 .. w - 1, NEW d \in 0 .. w - 1, w * p + x = w * q + d
      PROVE  p = q
  <2>1. w * p \in Int /\ w * q \in Int
    OBVIOUS
  <2>2. ~(p < q)
    <3>1. p < q => w * p + w <= w * q
      BY Multiples
    <3> QED BY <3>1, <2>1, <1>2
  <2>3. ~(q < p)
    <3>1. q < p => w * q + w <= w * p
      BY Multiples
    <3> QED BY <3>1, <2>1, <1>2
  <2> QED BY <2>2, <2>3
<1>3. (n \div w) = q => \E d \in 0 .. w - 1 : n = w * q + d
  BY <1>1
<1>4. (\E d \in 0 .. w - 1 : n = w * q + d) => (n \div w) = q
  BY <1>1, <1>2
<1> QED BY <1>3, <1>4
(* The weekdays are those of the week of camp today, from its first day on. *)
LEMMA Workdays ==
  ASSUME TypeOK
  PROVE  /\ \A n \in Nat : WeekOf(n) = WeekOf(camp_today) <=>
                            \E d \in Weekdays : n = resolve_attendance_workday(d)
         /\ \E d \in Weekdays : camp_today = resolve_attendance_workday(d)
         /\ \A c, d \in Weekdays :
              resolve_attendance_workday(c) = resolve_attendance_workday(d) => c = d
<1> DEFINE W == WeekLength
           T == camp_today
           q == T \div W
<1>1. T \in Nat /\ W \in Nat \ {0}
  BY AttendanceAssumption, DivMod DEF camp_today, DayOf, TypeOK
<1> HIDE DEF T, W
<1>2. q \in Nat /\ (T % W) \in 0 .. W - 1 /\ T = W * q + (T % W)
  BY <1>1, DivMod
<1>3. W * q \in Int
  BY <1>1, <1>2
<1>4. \A d \in 0 .. W - 1 : resolve_attendance_workday(d) = W * q + d
  <2> SUFFICES ASSUME NEW d \in 0 .. W - 1
               PROVE  resolve_attendance_workday(d) = W * q + d
    OBVIOUS
  <2>1. resolve_attendance_workday(d) = T - (T % W) + d
    BY DEF resolve_attendance_workday, T, W
  <2> HIDE DEF q
  <2> QED BY <2>1, <1>2, <1>3
<1>5. Weekdays = 0 .. W - 1
  BY DEF Weekdays, W
<1>6. \A n \in Nat : WeekOf(n) = WeekOf(camp_today) <=> (n \div W) = q
  BY DEF WeekOf, T, W
<1> HIDE DEF q
<1>7. \A n \in Nat : (n \div W) = q <=> \E d \in 0 .. W - 1 : n = W * q + d
  BY <1>1, <1>2, WeekOfDay
<1>8. \E d \in Weekdays : camp_today = resolve_attendance_workday(d)
  BY <1>2, <1>4, <1>5 DEF T
<1>9. \A c, d \in Weekdays :
        resolve_attendance_workday(c) = resolve_attendance_workday(d) => c = d
  BY <1>3, <1>4, <1>5
<1> QED BY <1>4, <1>5, <1>6, <1>7, <1>8, <1>9

(* The lists show any table of rows alike. *)
LEMMA ListsOfRowsAgree ==
  ASSUME TypeOK
  PROVE  ListsAgree
<1> DEFINE Listed(r) == {d \in Weekdays : /\ list_check_ins(d).camp_date = r.day
                                         /\ ListEntry(r) \in list_check_ins(d).entries}
<1>1. ASSUME NEW d
      PROVE  /\ list_check_ins(d).camp_date = resolve_attendance_workday(d)
             /\ list_check_ins(d).entries =
                  {ListEntry(r) : r \in {r \in attendances : r.day = resolve_attendance_workday(d)}}
             /\ list_check_outs(d).entries =
                  {ListEntry(r) : r \in {r \in attendances : /\ r.day = resolve_attendance_workday(d)
                                                            /\ r.out # None}}
  <2>1. /\ On(attendances, resolve_attendance_workday(d))
             = {r \in attendances : r.day = resolve_attendance_workday(d)}
        /\ list_checkouts_by_camp_date(resolve_attendance_workday(d))
             = {r \in attendances : r.day = resolve_attendance_workday(d) /\ r.out # None}
    BY DEF On, list_checkouts_by_camp_date
  <2> QED BY <2>1 DEF list_check_ins, list_check_outs
<1>2. ASSUME NEW r \in attendances
      PROVE  Cardinality(Listed(r)) = IF WeekOf(r.day) = WeekOf(camp_today) THEN 1 ELSE 0
  <2>1. r.day \in Nat
    BY DEF TypeOK, Rows
  <2>2. Listed(r) = {d \in Weekdays : resolve_attendance_workday(d) = r.day}
    <3>1. \A d : resolve_attendance_workday(d) = r.day => ListEntry(r) \in list_check_ins(d).entries
      BY <1>1
    <3> QED BY <1>1, <3>1
  <2> HIDE DEF Listed
  <2>3. CASE WeekOf(r.day) = WeekOf(camp_today)
    <3>1. PICK d \in Weekdays : r.day = resolve_attendance_workday(d)
      BY <2>1, <2>3, Workdays
    <3>2. Listed(r) = {d}
      BY <2>2, <3>1, Workdays
    <3>3. Cardinality(Listed(r)) = 1
      BY <3>2, FS_Singleton
    <3> QED BY <2>3, <3>3
  <2>4. CASE WeekOf(r.day) # WeekOf(camp_today)
    <3>1. Listed(r) = {}
      BY <2>1, <2>2, <2>4, Workdays
    <3>2. Cardinality(Listed(r)) = 0
      BY <3>1, FS_EmptySet
    <3> QED BY <2>4, <3>2
  <2> QED BY <2>3, <2>4
<1>3. ASSUME NEW r
      PROVE  /\ ListEntry(r).employee = r.employee /\ ListEntry(r).in = r.in /\ ListEntry(r).out = r.out
             /\ RowResponse(r) = [camp_date |-> r.day, in |-> r.in, out |-> r.out]
  BY DEF ListEntry, RowResponse
<1>4. ASSUME NEW e
      PROVE  /\ list_attendance(e, {}) = {RowResponse(r) : r \in {r \in attendances : r.employee = e}}
             /\ \A d : list_attendance(e, {d}) =
                        {RowResponse(r) : r \in {r \in attendances : /\ r.employee = e
                                                                    /\ r.day = resolve_attendance_workday(d)}}
  <2>1. Of(attendances, e) = {r \in attendances : r.employee = e}
    BY DEF Of
  <2>2. list_attendance(e, {}) = {RowResponse(r) : r \in Of(attendances, e)}
    BY DEF list_attendance
  <2>3. ASSUME NEW d
        PROVE  list_attendance(e, {d}) =
                 {RowResponse(r) : r \in {r \in attendances : /\ r.employee = e
                                                             /\ r.day = resolve_attendance_workday(d)}}
    <3>1. {s \in Of(attendances, e) : \E x \in {d} : s.day = resolve_attendance_workday(x)}
            = {r \in attendances : r.employee = e /\ r.day = resolve_attendance_workday(d)}
      BY <2>1
    <3>2. {d} # {}
      OBVIOUS
    <3> QED BY <3>1, <3>2 DEF list_attendance
  <2> QED BY <2>1, <2>2, <2>3
<1>5. ASSUME NEW d \in Weekdays, NEW e \in Employees
      PROVE  list_attendance(e, {d}) =
               {[camp_date |-> list_check_ins(d).camp_date, in |-> x.in, out |-> x.out] :
                   x \in {y \in list_check_ins(d).entries : y.employee = e}}
  <2> DEFINE day == resolve_attendance_workday(d)
             Said(x) == [camp_date |-> day, in |-> x.in, out |-> x.out]
             Mine == {y \in list_check_ins(d).entries : y.employee = e}
             His == {r \in attendances : r.employee = e /\ r.day = day}
  <2> HIDE DEF day
  <2>1. Mine = {ListEntry(r) : r \in His}
    <3>1. list_check_ins(d).entries = {ListEntry(r) : r \in {r \in attendances : r.day = day}}
      BY <1>1 DEF day
    <3>2. \A r : ListEntry(r).employee = r.employee
      BY <1>3
    <3>3. ASSUME NEW y \in Mine
          PROVE  \E r \in His : y = ListEntry(r)
      BY <3>1, <3>2
    <3>4. ASSUME NEW r \in His
          PROVE  ListEntry(r) \in Mine
      BY <3>1, <3>2
    <3> HIDE DEF Mine, His
    <3> QED BY <3>3, <3>4
  <2>2. \A r \in His : RowResponse(r) = Said(ListEntry(r))
    BY <1>3
  <2>3. list_attendance(e, {d}) = {RowResponse(r) : r \in His}
    BY <1>4 DEF day
  <2> HIDE DEF His, Mine, Said
  <2>4. {RowResponse(r) : r \in His} = {Said(x) : x \in Mine}
    BY <2>1, <2>2
  <2>5. list_attendance(e, {d}) = {Said(x) : x \in Mine}
    BY <2>3, <2>4
  <2> QED BY <2>5, <1>1 DEF Said, Mine, day
<1>6. ASSUME NEW d \in Weekdays
      PROVE  list_check_outs(d).entries = {x \in list_check_ins(d).entries : x.out # None}
  <2> DEFINE ins == list_check_ins(d).entries
             outs == list_check_outs(d).entries
             day == resolve_attendance_workday(d)
  <2>1. /\ ins = {ListEntry(r) : r \in {r \in attendances : r.day = day}}
        /\ outs = {ListEntry(r) : r \in {r \in attendances : r.day = day /\ r.out # None}}
        /\ \A r : ListEntry(r).out = r.out
    BY <1>1, <1>3
  <2> HIDE DEF ins, outs, day
  <2>2. ASSUME NEW x \in outs
        PROVE  x \in ins /\ x.out # None
    BY <2>1
  <2>3. ASSUME NEW x \in ins, x.out # None
        PROVE  x \in outs
    BY <2>1, <2>3
  <2>4. outs = {x \in ins : x.out # None}
    BY <2>2, <2>3
  <2> QED BY <2>4 DEF ins, outs
<1>7. ASSUME NEW e \in Employees, has_checkin_for_date(e, camp_today)
      PROVE  \E d \in Weekdays : list_attendance(e, {d}) \intersect list_attendance(e, {}) # {}
  <2>1. PICK r \in attendances : r.employee = e /\ r.day = camp_today
    BY <1>7 DEF has_checkin_for_date, On, Of
  <2>2. PICK d \in Weekdays : camp_today = resolve_attendance_workday(d)
    BY Workdays
  <2>3. RowResponse(r) \in list_attendance(e, {d}) /\ RowResponse(r) \in list_attendance(e, {})
    BY <2>1, <2>2, <1>4
  <2> QED BY <2>3
<1> QED BY <1>2, <1>5, <1>6, <1>7 DEF ListsAgree

(* The lists are three views of one table: of whatever length the week is. *)
THEOREM ListsAreViews == Spec => []ListsAgree
<1>1. TypeOK => ListsAgree
  BY ListsOfRowsAgree
<1> QED BY <1>1, AttendanceTyped, PTL
=============================================================================
