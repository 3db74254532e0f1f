----------------------------- MODULE CompanyCaps -----------------------------
(***************************************************************************)
(* The job cap of one company: its default, the schedule rows that         *)
(* override it, and a request that answers with the cap of "camp now".     *)
(* The database reads of a request share one snapshot; the clock is read   *)
(* twice, first the day and then the shift, and ticks in between.          *)
(***************************************************************************)
EXTENDS ScheduleSlots, Integers, FiniteSets

CONSTANTS
  Caps,        \* values of jobs_max
  NextDay,     \* the day after a calendar day
  MaxWrites    \* bound: writes of the default or of the schedule

ASSUME CapsAssumption ==
  /\ Caps \subseteq Nat
  /\ NextDay \in [CalendarDays -> CalendarDays]
  /\ MaxWrites \in Nat

VARIABLES
  company,   \* jobs_max and the override of each schedule row
  writes,    \* number of writes so far (see MaxWrites)
  now,       \* camp clock: calendar day and half of the day
  phase,     \* where the request is
  view,      \* local: the company as the request's snapshot has it
  day,       \* local: camp_day()
  shift,     \* local: camp_shift()
  answer,    \* CompanyResponse
  instants   \* history: readings of the clock from the first read to the second

request == <<phase, view, day, shift, answer, instants>>
vars == <<company, writes, now, request>>

HalfDays == {Morning, Afternoon}
Instants == [day : CalendarDays, shift : HalfDays]

Rows(c) == DOMAIN c.overrides

IsCompany(c) ==
  /\ c = [jobs_max |-> c.jobs_max, overrides |-> c.overrides]
  /\ c.jobs_max \in Caps
  /\ Rows(c) \subseteq Storable /\ c.overrides \in [Rows(c) -> Caps]

TypeOK ==
  /\ IsCompany(company) /\ writes \in Nat /\ now \in Instants
  /\ phase \in {"idle", "loaded", "day", "shift", "answered"}
  /\ phase # "idle" => IsCompany(view)
  /\ phase \in {"day", "shift", "answered"} => day \in CalendarDays
  /\ phase \in {"shift", "answered"} => shift \in HalfDays
  /\ instants \subseteq Instants
-----------------------------------------------------------------------------
(* effective_jobs_max: the row that resolves, else the default. *)
EffectiveMax(c, d, s) ==
  LET slot == Resolve(Rows(c), d, s)
  IN  IF slot = NoSlot THEN c.jobs_max ELSE c.overrides[slot]

(* "shift" of the response; NoSlot is null, and "workday" is null with it. *)
ContextShift(c, d, s) ==
  LET slot == Resolve(Rows(c), d, s)
  IN  IF Rows(c) = {} THEN AllDay ELSE IF slot = NoSlot THEN NoSlot ELSE slot.shift

Response(c, d, s, max) ==
  [default_jobs_max |-> Rows(c) = {},
   shift            |-> ContextShift(c, d, s),
   max              |-> max]
-----------------------------------------------------------------------------
Write ==
  /\ writes < MaxWrites
  /\ writes' = writes + 1
  /\ UNCHANGED <<now, request>>

Override(slot, cap) ==
  company' = [company EXCEPT !.overrides =
                [row \in Rows(company) \union {slot} |-> IF row = slot THEN cap ELSE @[row]]]

Remove(slots) ==
  company' = [company EXCEPT !.overrides = [row \in Rows(company) \ slots |-> @[row]]]

(* Slip: the combination is checked by the import only. *)
CreateAny(slot, cap) == Write /\ slot \notin Rows(company) /\ Override(slot, cap)

(* POST: a duplicate key is refused by the database. *)
Create(slot, cap) ==
  /\ Write
  /\ Combination(slot)
  /\ slot \notin Rows(company)
  /\ Override(slot, cap)

Update(slot, cap) == Write /\ slot \in Rows(company) /\ Override(slot, cap)

DeleteOne(slot) == Write /\ slot \in Rows(company) /\ Remove({slot})

DeleteAll == Write /\ Remove(Rows(company))

(* The CSV import creates or updates by the whole key. *)
Import(slot, cap) == Write /\ Combination(slot) /\ Override(slot, cap)

(* 13:00, or midnight. *)
Tick ==
  /\ now' = IF now.shift = Morning THEN [now EXCEPT !.shift = Afternoon]
            ELSE [day |-> NextDay[now.day], shift |-> Morning]
  /\ instants' = IF phase = "day" THEN instants \union {now'} ELSE instants
  /\ UNCHANGED <<company, writes, phase, view, day, shift, answer>>
-----------------------------------------------------------------------------
(* GET: the company and its schedule come from one snapshot. *)
Load ==
  /\ phase = "idle"
  /\ phase' = "loaded" /\ view' = company
  /\ UNCHANGED <<company, writes, now, day, shift, answer, instants>>

(* PUT changes the default and answers with the row it has just written. *)
UpdateCompany(cap) ==
  /\ phase = "idle"
  /\ writes < MaxWrites /\ writes' = writes + 1
  /\ company' = [company EXCEPT !.jobs_max = cap]
  /\ phase' = "loaded" /\ view' = company'
  /\ UNCHANGED <<now, day, shift, answer, instants>>

ReadDay ==
  /\ phase = "loaded"
  /\ phase' = "day" /\ day' = now.day /\ instants' = {now}
  /\ UNCHANGED <<company, writes, now, view, shift, answer>>

(* Slip: the half day of the server's own time zone. *)
ReadServerShift ==
  /\ phase = "day"
  /\ phase' = "shift" /\ shift' \in HalfDays
  /\ UNCHANGED <<company, writes, now, view, day, answer, instants>>

ReadShift ==
  /\ phase = "day"
  /\ phase' = "shift" /\ shift' = now.shift
  /\ UNCHANGED <<company, writes, now, view, day, answer, instants>>

(* Slip: effective_jobs_max is not given the context and reads the clock again. *)
RespondReadingAgain ==
  /\ phase = "shift"
  /\ phase' = "answered"
  /\ answer' = Response(view, day, shift, EffectiveMax(view, now.day, now.shift))
  /\ UNCHANGED <<company, writes, now, view, day, shift, instants>>

Respond ==
  /\ phase = "shift"
  /\ phase' = "answered"
  /\ answer' = Response(view, day, shift, EffectiveMax(view, day, shift))
  /\ UNCHANGED <<company, writes, now, view, day, shift, instants>>

(* The response is sent and everything local to the request is gone. *)
Sent ==
  /\ phase = "answered"
  /\ phase' = "idle" /\ instants' = {}
  /\ view' = NoSlot /\ day' = NoSlot /\ shift' = NoSlot /\ answer' = NoSlot
  /\ UNCHANGED <<company, writes, now>>
-----------------------------------------------------------------------------
Init ==
  /\ company \in [jobs_max : Caps, overrides : [{} -> Caps]]
  /\ writes = 0 /\ now \in Instants
  /\ phase = "idle" /\ instants = {}
  /\ view = NoSlot /\ day = NoSlot /\ shift = NoSlot /\ answer = NoSlot

Next ==
  \/ \E slot \in Slots, cap \in Caps :
       Create(slot, cap) \/ Update(slot, cap) \/ Import(slot, cap)
  \/ \E slot \in Slots : DeleteOne(slot)
  \/ DeleteAll \/ Tick
  \/ Load \/ (\E cap \in Caps : UpdateCompany(cap))
  \/ ReadDay \/ ReadShift \/ Respond \/ Sent

Spec == Init /\ [][Next]_vars
-----------------------------------------------------------------------------
(* Rows that speak about a half day, and which of two is the more specific: the numbered
   precedence rules, stated as an order instead of as a search. *)
Applicable(rows, d, s) ==
  {row \in rows : /\ row.shift \in {s, AllDay}
                  /\ \/ row.workday \in {d, AllWeek}
                     \/ row.workday = Weekdays /\ d \in WorkingDays}

Rank(workday) == IF workday = AllWeek THEN 3 ELSE IF workday = Weekdays THEN 2 ELSE 1

MoreSpecific(a, b) ==
  \/ a.shift # AllDay /\ b.shift = AllDay
  \/ a.shift = b.shift /\ Rank(a.workday) < Rank(b.workday)

(* The cap of a half day is that of the most specific row that applies, and there is
   exactly one; the default counts only where no row applies. *)
MostSpecificRowCounts ==
  \A d \in CalendarDays, s \in HalfDays :
    LET applicable == Applicable(Rows(company), d, s)
        cap        == EffectiveMax(company, d, s)
    IN  IF applicable = {} THEN cap = company.jobs_max
        ELSE \E best \in applicable :
               /\ \A other \in applicable \ {best} : MoreSpecific(best, other)
               /\ cap = company.overrides[best]

(* "workday", "shift" and jobs.max of one response come from two look-ups, yet they speak
   of one row: nulls go with the default, a shift with a stored row of that shift and cap. *)
ContextExplainsCap ==
  phase = "answered" =>
    IF answer.default_jobs_max \/ answer.shift = NoSlot
      THEN answer.max = view.jobs_max
      ELSE \E row \in Rows(view) : row.shift = answer.shift /\ view.overrides[row] = answer.max

(* Some moment while the request read the clock had exactly this cap. *)
CapOfAnInstant ==
  phase = "answered" => \E i \in instants : answer.max = EffectiveMax(view, i.day, i.shift)

(* ... which is certain as long as midnight does not pass between the two reads. *)
CapOfAnInstantOfTheDay ==
  (\A i, j \in instants : i.day = j.day) => CapOfAnInstant
==============================================================================
