---------------------------- MODULE PartTimes_proofs ----------------------------
(***************************************************************************)
(* For every calendar, not only the two days of the run: the SQL form of   *)
(* the slot rule and its Python form agree, so the list and its entries    *)
(* do, and a write says nothing of the days it does not name.              *)
(***************************************************************************)
EXTENDS PartTimes, TLAPS

(* One shift: the EXISTS sub-queries hold exactly when the resolver finds a row, and the
   row it finds is a stored one. *)
LEMMA TierIsForShift ==
  ASSUME NEW table \in SUBSET Slots, NEW day \in CalendarDays, NEW shift \in Shifts
  PROVE  /\ TierMatches(table, day, shift) <=> ForShift(table, day, shift) # NoSlot
         /\ ForShift(table, day, shift) \in table \union {NoSlot}
<1>1. {Slot(day, shift), Slot(Weekdays, shift), Slot(AllWeek, shift)} \subseteq Slots
  BY DEF Slot, Slots, Aggregates
<1>2. NoSlot \notin {Slot(day, shift), Slot(Weekdays, shift), Slot(AllWeek, shift)}
  BY <1>1, NoSlotAssumption
<1>3. QED
  BY <1>2 DEF TierMatches, ForShift

(* With the fallback of a half day to the whole day on both sides. *)
LEMMA MatchIsResolve ==
  ASSUME NEW table \in SUBSET Slots, NEW day \in CalendarDays, NEW shift \in Shifts
  PROVE  /\ ShiftMatches(table, day, shift) <=> Resolve(table, day, shift) # NoSlot
         /\ Resolve(table, day, shift) \in table \union {NoSlot}
<1>1. AllDay \in Shifts
  BY DEF Shifts
<1>2. QED
  BY <1>1, TierIsForShift DEF ShiftMatches, Resolve

(* A table without rows matches nothing. *)
LEMMA NoRowsNoMatch ==
  ASSUME NEW day, NEW shift
  PROVE  ~ShiftMatches({}, day, shift)
BY DEF ShiftMatches, TierMatches

(* The sub-queries for a day ask for no row of a workday that does not stand for it. *)
LEMMA OtherDaysMatchAlike ==
  ASSUME NEW table, NEW other, NEW workday, NEW day, NEW shift, ~Covers(workday, day),
         \A row : row.workday # workday => (row \in table <=> row \in other)
  PROVE  ShiftMatches(table, day, shift) <=> ShiftMatches(other, day, shift)
<1>1. ASSUME NEW s
      PROVE  TierMatches(table, day, s) <=> TierMatches(other, day, s)
  <2>1. Slot(day, s) \in table <=> Slot(day, s) \in other
    BY DEF Slot, Covers
  <2>2. Slot(AllWeek, s) \in table <=> Slot(AllWeek, s) \in other
    BY DEF Slot, Covers
  <2>3. day \in WorkingDays => (Slot(Weekdays, s) \in table <=> Slot(Weekdays, s) \in other)
    BY DEF Slot, Covers
  <2>4. QED
    BY <2>1, <2>2, <2>3 DEF TierMatches
<1>2. QED
  BY <1>1 DEF ShiftMatches
-----------------------------------------------------------------------------
(* No write, the import's move of a row included, stores anything but a slot of the
   calendar, and never the aggregate for the whole day. *)
THEOREM RowsAreStorable == Spec => []TypeOK
<1>1. Init => TypeOK
  BY DEF Init, TypeOK
<1>2. TypeOK /\ [Next]_rows => TypeOK'
  <2> SUFFICES ASSUME TypeOK, [Next]_rows
               PROVE  TypeOK'
    OBVIOUS
  <2>1. ASSUME NEW slot \in Slots, Create(slot)
        PROVE  TypeOK'
    BY <2>1 DEF TypeOK, Create, Storable
  <2>2. ASSUME NEW slot \in Slots, Update(slot)
        PROVE  TypeOK'
    BY <2>2 DEF TypeOK, Update
  <2>3. ASSUME NEW slot \in Slots, DeleteOne(slot)
        PROVE  TypeOK'
    BY <2>3 DEF TypeOK, DeleteOne
  <2>4. ASSUME NEW slot \in Slots, Import(slot)
        PROVE  TypeOK'
    <3>1. slot \in Storable
      BY <2>4 DEF Import, Storable
    <3>2. rows' \subseteq rows \union {slot}
      BY <2>4 DEF Import
    <3>3. QED
      BY <3>1, <3>2 DEF TypeOK
  <2>5. CASE DeleteAll
    BY <2>5 DEF TypeOK, DeleteAll
  <2>6. CASE UNCHANGED rows
    BY <2>6 DEF TypeOK
  <2>7. QED
    BY <2>1, <2>2, <2>3, <2>4, <2>5, <2>6 DEF Next
<1>3. QED
  BY <1>1, <1>2, PTL DEF Spec
-----------------------------------------------------------------------------
(* The entry of a part-timer for the shifts tried: null iff none of them resolves. *)
LEMMA ProjectionIsResolve ==
  ASSUME rows \in SUBSET Slots, ~FullTime, NEW day \in CalendarDays,
         NEW shift \in Shifts \union {Anyhow}, NEW today \in BOOLEAN,
         NEW now \in {Morning, Afternoon}
  PROVE  Projection(day, shift, today, now) # NoSlot
           <=> \E s \in IF shift = Anyhow THEN {Morning, Afternoon} ELSE {shift} :
                  Resolve(rows, day, s) # NoSlot
<1> DEFINE tried    == IF shift = Anyhow THEN Candidates(today, now) ELSE {shift}
           resolved == {s \in tried : Resolve(rows, day, s) # NoSlot}
<1>1. tried = IF shift = Anyhow THEN {Morning, Afternoon} ELSE {shift}
  BY DEF Candidates
<1>2. tried \subseteq Shifts
  BY <1>1 DEF Shifts
<1>3. ASSUME NEW s \in resolved
      PROVE  Resolve(rows, day, s).shift # NoSlot
  <2>1. Resolve(rows, day, s) \in Slots
    BY <1>2, <1>3, MatchIsResolve
  <2>2. Resolve(rows, day, s).shift \in Shifts
    BY <2>1 DEF Slots
  <2>3. QED
    BY <2>2, NoSlotAssumption
<1>4. CASE resolved = {}
  BY <1>1, <1>4 DEF Projection
<1>5. CASE resolved # {}
  <2>1. (CHOOSE s \in resolved : TRUE) \in resolved
    BY <1>5
  <2>2. Projection(day, shift, today, now)
          = IF today /\ now \in resolved THEN Resolve(rows, day, now).shift
            ELSE IF Morning \in resolved THEN Resolve(rows, day, Morning).shift
            ELSE Resolve(rows, day, CHOOSE s \in resolved : TRUE).shift
    BY <1>5 DEF Projection
  <2>3. Projection(day, shift, today, now) # NoSlot
    <3> HIDE DEF resolved
    <3>1. QED
      BY <1>3, <2>1, <2>2
  <2>4. QED
    BY <1>1, <1>5, <2>3
<1>6. QED
  BY <1>4, <1>5

(* The participant list and the entries in it agree, in every reachable table. *)
THEOREM ListAgreesWithEntries == Spec => []ListedIffProjected
<1>1. TypeOK => ListedIffProjected
  <2> SUFFICES ASSUME TypeOK, NEW day \in CalendarDays, NEW shift \in Shifts \union {Anyhow},
                      NEW today \in BOOLEAN, NEW now \in {Morning, Afternoon}
               PROVE  Listed(day, shift)
                        <=> ~FullTime /\ Projection(day, shift, today, now) # NoSlot
    BY DEF ListedIffProjected
  <2>1. rows \in SUBSET Slots
    BY DEF TypeOK, Storable
  <2>2. CASE FullTime
    BY <2>2, NoRowsNoMatch DEF FullTime, Listed
  <2>3. CASE ~FullTime
    <3>1. Listed(day, shift)
            <=> \E s \in IF shift = Anyhow THEN {Morning, Afternoon} ELSE {shift} :
                   Resolve(rows, day, s) # NoSlot
      BY <2>1, MatchIsResolve DEF Listed, Shifts
    <3>2. QED
      BY <2>1, <2>3, <3>1, ProjectionIsResolve
  <2>4. QED
    BY <2>2, <2>3
<1>2. QED
  BY <1>1, RowsAreStorable, PTL

(* A write changes the lists of the days its workday stands for and no others. *)
THEOREM WritesKeepOtherDays == Spec => WritesStayOnTheirDays
<1>1. ASSUME NEW slot \in Slots, Create(slot) \/ Update(slot) \/ DeleteOne(slot) \/ Import(slot),
             NEW day \in CalendarDays, ~Covers(slot.workday, day), NEW shift \in Shifts \union {Anyhow}
      PROVE  Listed(day, shift)' = Listed(day, shift)
  <2>1. \A row : row.workday # slot.workday => (row \in rows <=> row \in rows')
    BY <1>1 DEF Create, Update, DeleteOne, Import
  <2>2. \A s : ShiftMatches(rows, day, s) <=> ShiftMatches(rows', day, s)
    BY <1>1, <2>1, OtherDaysMatchAlike
  <2>3. /\ Listed(day, shift) \in BOOLEAN
        /\ Listed(day, shift)' \in BOOLEAN
        /\ Listed(day, shift)' <=> Listed(day, shift)
    BY <2>2 DEF Listed, ShiftMatches
  <2>4. QED
    BY <2>3
<1>2. \A slot \in Slots :
        Create(slot) \/ Update(slot) \/ DeleteOne(slot) \/ Import(slot) =>
          \A day \in CalendarDays : Covers(slot.workday, day) \/
            \A shift \in Shifts \union {Anyhow} : Listed(day, shift)' = Listed(day, shift)
  BY <1>1
<1>3. QED
  BY <1>2, PTL DEF WritesStayOnTheirDays
==============================================================================
