------------------------------ MODULE PartTimes ------------------------------
(***************************************************************************)
(* The part-time rows of one participant: what the API and the CSV import  *)
(* do to them, which participants GET /api/employees lists for a workday   *)
(* and a shift, and what the listed entry says about them.  Each write is  *)
(* one row of one table under a unique key, so it is one action.           *)
(***************************************************************************)
EXTENDS ScheduleSlots

CONSTANT Anyhow   \* the list is not restricted to a shift

ASSUME AnyhowAssumption == Anyhow \notin Shifts

VARIABLE rows   \* part_times of the participant

(* No row means full time, and only that does: an aggregate row for the whole day, which
   would say the same a second time, is in no table the program can produce. *)
TypeOK == rows \subseteq Storable

FullTime == rows = {}
-----------------------------------------------------------------------------
(* Slip: the combination is checked by the import only. *)
CreateAny(slot) ==
  /\ slot \notin rows
  /\ rows' = rows \union {slot}

(* POST: a duplicate key is refused by the database. *)
Create(slot) ==
  /\ Combination(slot)
  /\ slot \notin rows
  /\ rows' = rows \union {slot}

(* PUT changes the notes of the row it names and nothing the model tells apart. *)
Update(slot) == slot \in rows /\ UNCHANGED rows

DeleteOne(slot) ==
  /\ slot \in rows
  /\ rows' = rows \ {slot}

DeleteAll == rows' = {}

(* Slip: the row is looked up by the participant alone. *)
ImportByParticipant(slot) ==
  /\ Combination(slot)
  /\ \/ rows = {} /\ rows' = rows \union {slot}
     \/ \E existing \in rows :
          /\ slot \notin rows \ {existing}
          /\ rows' = (rows \ {existing}) \union {slot}

(* The CSV import keys on the workday alone: it moves any one row of that workday to
   the shift of the CSV line, unless a row with that shift is there as well. *)
Import(slot) ==
  /\ Combination(slot)
  /\ LET sameWorkday == {row \in rows : row.workday = slot.workday}
     IN  \/ sameWorkday = {} /\ rows' = rows \union {slot}
         \/ \E existing \in sameWorkday :
              /\ slot \notin rows \ {existing}
              /\ rows' = (rows \ {existing}) \union {slot}

Init == rows = {}

Next ==
  \/ \E slot \in Slots :
       Create(slot) \/ Update(slot) \/ DeleteOne(slot) \/ Import(slot)
  \/ DeleteAll

Spec == Init /\ [][Next]_rows
-----------------------------------------------------------------------------
(* The WHERE clause of the participant list for ?workday=day and ?shift=shift. *)
Listed(day, shift) ==
  IF shift = Anyhow
    THEN ShiftMatches(rows, day, Morning) \/ ShiftMatches(rows, day, Afternoon)
    ELSE ShiftMatches(rows, day, shift)

(* Shifts the projection tries when the list has no ?shift=, the current one first. *)
Candidates(today, now) == (IF today THEN {now} ELSE {}) \union {Morning, Afternoon}

(* "shift" of the entry for a workday: NoSlot is null, and "workday" is null with it. *)
Projection(day, shift, today, now) ==
  LET tried    == IF shift = Anyhow THEN Candidates(today, now) ELSE {shift}
      resolved == {s \in tried : Resolve(rows, day, s) # NoSlot}
  IN  IF FullTime THEN AllDay
      ELSE IF resolved = {} THEN NoSlot
      ELSE IF today /\ now \in resolved THEN Resolve(rows, day, now).shift
      ELSE IF Morning \in resolved THEN Resolve(rows, day, Morning).shift
      ELSE Resolve(rows, day, CHOOSE s \in resolved : TRUE).shift

(* The query and the projection agree: a participant is listed for a day and a shift
   exactly when part time and the entry has a workday and a shift, and never with nulls.
   The rule is written twice, in SQL and in Python, for every possible table of rows. *)
ListedIffProjected ==
  \A day \in CalendarDays, shift \in Shifts \union {Anyhow},
     today \in BOOLEAN, now \in {Morning, Afternoon} :
        Listed(day, shift) <=> ~FullTime /\ Projection(day, shift, today, now) # NoSlot

(* The days a stored workday stands for. *)
Covers(workday, day) ==
  workday \in {day, AllWeek} \/ (workday = Weekdays /\ day \in WorkingDays)

(* A write, an import line that moves some other row of its workday included, changes no list
   of a day its workday does not stand for: not at the weekend what is said of "weekdays", and
   nothing of one day what is said of another, whatever rows there are for the tiers to hide. *)
WritesStayOnTheirDays ==
  [][\A slot \in Slots :
       Create(slot) \/ Update(slot) \/ DeleteOne(slot) \/ Import(slot) =>
         \A day \in CalendarDays : Covers(slot.workday, day) \/
           \A shift \in Shifts \union {Anyhow} : Listed(day, shift)' = Listed(day, shift)]_rows
==============================================================================
