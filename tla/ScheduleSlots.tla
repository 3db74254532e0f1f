---------------------------- MODULE ScheduleSlots ----------------------------
(***************************************************************************)
(* Which stored schedule row applies on a day and in a shift.  part_times  *)
(* and company_jobs_max share the rule; the server has it twice, as Python *)
(* over the rows of one owner and as SQL in the participant list.  A row   *)
(* is its key: (owner, workday, shift) is unique in both tables.           *)
(***************************************************************************)

CONSTANTS
  CalendarDays,   \* monday ... sunday
  WorkingDays,    \* monday ... friday
  Weekdays,       \* the stored workday "weekdays"
  AllWeek,        \* the stored workday "all-week"
  Morning, Afternoon, AllDay,
  NoSlot          \* None: no row applies

ASSUME SlotAssumption ==
  /\ WorkingDays \subseteq CalendarDays
  /\ Weekdays \notin CalendarDays /\ AllWeek \notin CalendarDays /\ Weekdays # AllWeek
  /\ Morning # Afternoon /\ Morning # AllDay /\ Afternoon # AllDay

Aggregates == {Weekdays, AllWeek}

Shifts == {Morning, Afternoon, AllDay}

Slots == [workday : CalendarDays \union Aggregates, shift : Shifts]

ASSUME NoSlotAssumption == NoSlot \notin Slots \union Shifts

Slot(workday, shift) == [workday |-> workday, shift |-> shift]

(* An aggregate workday cannot be combined with "all-day": full time is no row at all. *)
Combination(slot) == ~(slot.workday \in Aggregates /\ slot.shift = AllDay)

Storable == {slot \in Slots : Combination(slot)}
-----------------------------------------------------------------------------
(* Slip: a "weekdays" row applies at the weekend, too. *)
ForShiftAnyDay(rows, day, shift) ==
  IF Slot(day, shift) \in rows THEN Slot(day, shift)
  ELSE IF Slot(Weekdays, shift) \in rows THEN Slot(Weekdays, shift)
  ELSE IF Slot(AllWeek, shift) \in rows THEN Slot(AllWeek, shift)
  ELSE NoSlot

(* Calendar day before "weekdays" before "all-week". *)
ForShift(rows, day, shift) ==
  IF Slot(day, shift) \in rows THEN Slot(day, shift)
  ELSE IF day \in WorkingDays /\ Slot(Weekdays, shift) \in rows THEN Slot(Weekdays, shift)
  ELSE IF Slot(AllWeek, shift) \in rows THEN Slot(AllWeek, shift)
  ELSE NoSlot

(* A half day without a row of its own falls back to an "all-day" row. *)
Resolve(rows, day, shift) ==
  LET exact == ForShift(rows, day, shift)
  IN  IF exact # NoSlot \/ shift = AllDay THEN exact ELSE ForShift(rows, day, AllDay)
-----------------------------------------------------------------------------
(* The same rule as EXISTS sub-queries. *)
TierMatches(rows, day, shift) ==
  LET calendar == Slot(day, shift) \in rows
      weekdays == Slot(Weekdays, shift) \in rows
      allWeek  == Slot(AllWeek, shift) \in rows
  IN  \/ calendar
      \/ day \in WorkingDays /\ weekdays /\ ~calendar
      \/ allWeek /\ ~calendar /\ (day \notin WorkingDays \/ ~weekdays)

(* Slip: the fallback to "all-day" rows is left out of the query. *)
ShiftMatchesExactly(rows, day, shift) == TierMatches(rows, day, shift)

ShiftMatches(rows, day, shift) ==
  \/ TierMatches(rows, day, shift)
  \/ shift # AllDay /\ TierMatches(rows, day, AllDay) /\ ~TierMatches(rows, day, shift)
==============================================================================
