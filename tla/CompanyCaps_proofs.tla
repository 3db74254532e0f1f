--------------------------- MODULE CompanyCaps_proofs ---------------------------
(***************************************************************************)
(* For every calendar, every set of caps and any number of writes: the cap *)
(* of a half day is that of the most specific row, and a response explains *)
(* its cap, which is that of an instant if midnight did not pass.          *)
(***************************************************************************)
EXTENDS CompanyCaps, TLAPS

(* The resolver finds the one applicable row that is more specific than all others. *)
LEMMA ResolveIsMostSpecific ==
  ASSUME NEW rows \in SUBSET Storable, NEW d \in CalendarDays, NEW s \in HalfDays
  PROVE  /\ Applicable(rows, d, s) = {} => Resolve(rows, d, s) = NoSlot
         /\ Applicable(rows, d, s) # {} =>
              /\ Resolve(rows, d, s) \in Applicable(rows, d, s)
              /\ \A other \in Applicable(rows, d, s) \ {Resolve(rows, d, s)} :
                    MoreSpecific(Resolve(rows, d, s), other)
<1> DEFINE tiers == {d, Weekdays, AllWeek}
<1> USE SlotAssumption
<1>1. rows \subseteq Slots
  BY DEF Storable
<1>2. \A row \in rows : row = Slot(row.workday, row.shift)
  BY <1>1 DEF Slots, Slot
<1>3. \A w \in tiers, h \in {s, AllDay} :
        /\ Slot(w, h) \in Slots /\ Slot(w, h) # NoSlot
        /\ Slot(w, h).workday = w /\ Slot(w, h).shift = h
  BY NoSlotAssumption DEF Slots, Slot, Shifts, HalfDays, Aggregates
<1>4. /\ d # Weekdays /\ d # AllWeek /\ Weekdays # AllWeek /\ s # AllDay
      /\ Rank(d) = 1 /\ Rank(Weekdays) = 2 /\ Rank(AllWeek) = 3
  BY DEF HalfDays, Rank
<1>5. \A row : row \in Applicable(rows, d, s) <=>
        /\ row \in rows
        /\ \E w \in tiers, h \in {s, AllDay} :
             row = Slot(w, h) /\ (w = Weekdays => d \in WorkingDays)
  BY <1>2, <1>3, <1>4 DEF Applicable
<1>6. ASSUME NEW h \in {s, AllDay}
      PROVE  LET found == ForShift(rows, d, h) IN
             /\ found = NoSlot =>
                  \A w \in tiers : Slot(w, h) \in rows => w = Weekdays /\ d \notin WorkingDays
             /\ found # NoSlot =>
                  /\ found \in Applicable(rows, d, s) /\ found.shift = h
                  /\ \A w \in tiers :
                       Slot(w, h) \in Applicable(rows, d, s) \ {found} =>
                         Rank(found.workday) < Rank(w)
  <2>1. CASE Slot(d, h) \in rows
    BY <1>3, <1>4, <1>5, <2>1 DEF ForShift
  <2>2. CASE Slot(d, h) \notin rows /\ d \in WorkingDays /\ Slot(Weekdays, h) \in rows
    BY <1>3, <1>4, <1>5, <2>2 DEF ForShift
  <2>3. CASE /\ Slot(d, h) \notin rows /\ ~(d \in WorkingDays /\ Slot(Weekdays, h) \in rows)
             /\ Slot(AllWeek, h) \in rows
    <3>1. ForShift(rows, d, h) = Slot(AllWeek, h)
      BY <2>3 DEF ForShift
    <3>2. Slot(AllWeek, h) \in Applicable(rows, d, s)
      BY <1>4, <1>5, <2>3
    <3>3. \A w \in tiers : Slot(w, h) \in Applicable(rows, d, s) => w = AllWeek
      BY <1>3, <1>4, <1>5, <2>3
    <3>4. QED
      BY <1>3, <3>1, <3>2, <3>3
  <2>4. CASE /\ Slot(d, h) \notin rows /\ ~(d \in WorkingDays /\ Slot(Weekdays, h) \in rows)
             /\ Slot(AllWeek, h) \notin rows
    BY <2>4 DEF ForShift
  <2>5. QED
    BY <2>1, <2>2, <2>3, <2>4
<1>7. CASE ForShift(rows, d, s) # NoSlot
  <2>1. Resolve(rows, d, s) = ForShift(rows, d, s)
    BY <1>7 DEF Resolve
  <2>2. ASSUME NEW other \in Applicable(rows, d, s) \ {Resolve(rows, d, s)}
        PROVE  MoreSpecific(Resolve(rows, d, s), other)
    <3>1. PICK w \in tiers, h \in {s, AllDay} : other = Slot(w, h)
      BY <1>5
    <3>2. other.workday = w /\ other.shift = h
      BY <1>3, <3>1
    <3>3. CASE h = s
      BY <1>4, <1>6, <1>7, <2>1, <2>2, <3>1, <3>2, <3>3 DEF MoreSpecific
    <3>4. CASE h = AllDay
      BY <1>4, <1>6, <1>7, <2>1, <3>2, <3>4 DEF MoreSpecific
    <3>5. QED
      BY <3>3, <3>4
  <2>3. QED
    BY <1>6, <1>7, <2>1, <2>2
<1>8. CASE ForShift(rows, d, s) = NoSlot
  <2>1. Resolve(rows, d, s) = ForShift(rows, d, AllDay)
    BY <1>4, <1>8 DEF Resolve
  <2>2. \A row \in Applicable(rows, d, s) : \E w \in tiers : row = Slot(w, AllDay)
    BY <1>4, <1>5, <1>6, <1>8
  <2>3. ASSUME ForShift(rows, d, AllDay) # NoSlot,
               NEW other \in Applicable(rows, d, s) \ {Resolve(rows, d, s)}
        PROVE  MoreSpecific(Resolve(rows, d, s), other)
    <3>1. PICK w \in tiers : other = Slot(w, AllDay)
      BY <2>2, <2>3
    <3>2. other.workday = w /\ other.shift = AllDay
      BY <1>3, <3>1
    <3>3. QED
      BY <1>6, <2>1, <2>3, <3>1, <3>2 DEF MoreSpecific
  <2>4. ASSUME ForShift(rows, d, AllDay) = NoSlot
        PROVE  Applicable(rows, d, s) = {}
    BY <1>3, <1>4, <1>5, <1>6, <1>8, <2>2, <2>4
  <2>5. QED
    BY <1>6, <2>1, <2>3, <2>4
<1>9. QED
  BY <1>7, <1>8
-----------------------------------------------------------------------------
(* A row of the schedule given a cap, or rows taken away, leave a well-typed company. *)
LEMMA ScheduleTypes ==
  ASSUME IsCompany(company)
  PROVE  /\ \A slot \in Storable, cap \in Caps : Override(slot, cap) => IsCompany(company')
         /\ \A slots : Remove(slots) => IsCompany(company')
<1>1. ASSUME NEW slot \in Storable, NEW cap \in Caps, Override(slot, cap)
      PROVE  IsCompany(company')
  BY <1>1 DEF IsCompany, Override, Rows
<1>2. ASSUME NEW slots, Remove(slots)
      PROVE  IsCompany(company')
  BY <1>2 DEF IsCompany, Remove, Rows
<1>3. QED
  BY <1>1, <1>2

(* The clock shows a day and a half of it, before and after it ticks. *)
LEMMA TickTypes ==
  ASSUME now \in Instants, Tick
  PROVE  now' \in Instants
<1>1. now = [day |-> now.day, shift |-> now.shift] /\ now.day \in CalendarDays
  BY DEF Instants
<1>2. NextDay[now.day] \in CalendarDays
  BY <1>1, CapsAssumption
<1>3. CASE now.shift = Morning
  BY <1>1, <1>3 DEF Tick, Instants, HalfDays
<1>4. CASE now.shift # Morning
  BY <1>2, <1>4 DEF Tick, Instants, HalfDays
<1>5. QED
  BY <1>3, <1>4

(* The company, its schedule and the request stay within their types. *)
THEOREM CapsTypeCorrect == Spec => []TypeOK
<1>1. Init => TypeOK
  <2> SUFFICES ASSUME Init
               PROVE  TypeOK
    OBVIOUS
  <2>1. IsCompany(company)
    BY DEF Init, IsCompany, Rows
  <2>2. QED
    BY <2>1 DEF Init, TypeOK
<1>2. TypeOK /\ [Next]_vars => TypeOK'
  <2> SUFFICES ASSUME TypeOK, [Next]_vars
               PROVE  TypeOK'
    OBVIOUS
  <2>1. IsCompany(company')
    <3>1. ASSUME NEW slot \in Slots, NEW cap \in Caps,
                 Create(slot, cap) \/ Update(slot, cap) \/ Import(slot, cap)
          PROVE  IsCompany(company')
      <4>1. slot \in Storable
        BY <3>1 DEF Create, Update, Import, Storable, TypeOK, IsCompany
      <4>2. QED
        BY <3>1, <4>1, ScheduleTypes DEF Create, Update, Import, TypeOK
    <3>2. ASSUME (\E slot \in Slots : DeleteOne(slot)) \/ DeleteAll
          PROVE  IsCompany(company')
      BY <3>2, ScheduleTypes DEF DeleteOne, DeleteAll, TypeOK
    <3>3. ASSUME NEW cap \in Caps, UpdateCompany(cap)
          PROVE  IsCompany(company')
      BY <3>3 DEF UpdateCompany, TypeOK, IsCompany, Rows
    <3>4. CASE UNCHANGED company
      BY <3>4 DEF TypeOK
    <3>5. QED
      BY <3>1, <3>2, <3>3, <3>4
      DEF Next, Tick, Load, ReadDay, ReadShift, Respond, Sent, vars
  <2>2. /\ writes' \in Nat /\ now' \in Instants
        /\ phase' \in {"idle", "loaded", "day", "shift", "answered"}
        /\ phase' \in {"day", "shift", "answered"} => day' \in CalendarDays
        /\ phase' \in {"shift", "answered"} => shift' \in HalfDays
        /\ instants' \subseteq Instants
        /\ phase' # "idle" => (view' = view /\ phase # "idle") \/ IsCompany(view')
    <3>1. CASE \/ \E slot \in Slots, cap \in Caps :
                    Create(slot, cap) \/ Update(slot, cap) \/ Import(slot, cap)
               \/ (\E slot \in Slots : DeleteOne(slot)) \/ DeleteAll
      <4>1. UNCHANGED <<now, request>> /\ writes' \in Nat
        <5>1. ASSUME Write
              PROVE  UNCHANGED <<now, request>> /\ writes' \in Nat
          BY <5>1 DEF Write, TypeOK
        <5>2. QED
          BY <3>1, <5>1 DEF Create, Update, Import, DeleteOne, DeleteAll
      <4>2. QED
        BY <4>1 DEF TypeOK, request
    <3>2. CASE Tick
      BY <3>2, TickTypes DEF Tick, TypeOK
    <3>3. CASE Load \/ \E cap \in Caps : UpdateCompany(cap)
      BY <2>1, <3>3 DEF Load, UpdateCompany, TypeOK
    <3>4. CASE ReadDay
      BY <3>4 DEF ReadDay, TypeOK, Instants
    <3>5. CASE ReadShift
      BY <3>5 DEF ReadShift, TypeOK, Instants
    <3>6. CASE Respond
      BY <3>6 DEF Respond, TypeOK
    <3>7. CASE Sent
      BY <3>7 DEF Sent, TypeOK
    <3>8. CASE UNCHANGED vars
      BY <3>8 DEF TypeOK, vars, request
    <3>9. QED
      BY <3>1, <3>2, <3>3, <3>4, <3>5, <3>6, <3>7, <3>8 DEF Next
  <2>3. IsCompany(view) /\ view' = view => IsCompany(view')
    OBVIOUS
  <2>4. QED
    BY <2>1, <2>2, <2>3 DEF TypeOK
<1>3. QED
  BY <1>1, <1>2, PTL DEF Spec
-----------------------------------------------------------------------------
(* effective_jobs_max follows the precedence rules in every reachable schedule. *)
THEOREM PrecedenceHolds == Spec => []MostSpecificRowCounts
<1>1. TypeOK => MostSpecificRowCounts
  <2> SUFFICES ASSUME TypeOK, NEW d \in CalendarDays, NEW s \in HalfDays
               PROVE  LET applicable == Applicable(Rows(company), d, s)
                          cap        == EffectiveMax(company, d, s)
                      IN  IF applicable = {} THEN cap = company.jobs_max
                          ELSE \E best \in applicable :
                                 /\ \A other \in applicable \ {best} : MoreSpecific(best, other)
                                 /\ cap = company.overrides[best]
    BY DEF MostSpecificRowCounts
  <2>1. Rows(company) \in SUBSET Storable
    BY DEF TypeOK, IsCompany
  <2>2. NoSlot \notin Applicable(Rows(company), d, s)
    BY <2>1, NoSlotAssumption DEF Applicable, Storable
  <2>3. QED
    BY <2>1, <2>2, ResolveIsMostSpecific DEF EffectiveMax
<1>2. QED
  BY <1>1, CapsTypeCorrect, PTL

(* What a request knows at each phase: the clock readings it may have seen include the day
   it took and the shift it took, and the answer is made of nothing else. *)
RequestInv ==
  /\ phase = "day" => now \in instants
  /\ phase \in {"day", "shift", "answered"} => \E i \in instants : i.day = day
  /\ phase \in {"shift", "answered"} => \E i \in instants : i.shift = shift
  /\ phase = "answered" =>
       answer = Response(view, day, shift, EffectiveMax(view, day, shift))

(* ... whatever is written to the company meanwhile. *)
LEMMA RequestInvariance == Spec => []RequestInv
<1>1. Init => RequestInv
  BY DEF Init, RequestInv
<1>2. RequestInv /\ [Next]_vars => RequestInv'
  <2> SUFFICES ASSUME RequestInv, [Next]_vars
               PROVE  RequestInv'
    OBVIOUS
  <2>1. CASE UNCHANGED <<now, request>>
    BY <2>1 DEF RequestInv, request
  <2>2. CASE Tick
    BY <2>2 DEF RequestInv, Tick
  <2>3. CASE Load \/ \E cap \in Caps : UpdateCompany(cap)
    BY <2>3 DEF RequestInv, Load, UpdateCompany
  <2>4. CASE ReadDay
    BY <2>4 DEF RequestInv, ReadDay
  <2>5. CASE ReadShift
    BY <2>5 DEF RequestInv, ReadShift
  <2>6. CASE Respond
    BY <2>6 DEF RequestInv, Respond
  <2>7. CASE Sent
    BY <2>7 DEF RequestInv, Sent
  <2>8. QED
    BY <2>1, <2>2, <2>3, <2>4, <2>5, <2>6, <2>7
    DEF Next, vars, Create, Update, Import, DeleteOne, DeleteAll, Write
<1>3. QED
  BY <1>1, <1>2, PTL DEF Spec

(* The two look-ups behind one response speak of one row. *)
THEOREM ResponseExplainsCap == Spec => []ContextExplainsCap
<1>1. TypeOK /\ RequestInv => ContextExplainsCap
  <2> SUFFICES ASSUME TypeOK, RequestInv, phase = "answered"
               PROVE  IF answer.default_jobs_max \/ answer.shift = NoSlot
                        THEN answer.max = view.jobs_max
                        ELSE \E row \in Rows(view) :
                               row.shift = answer.shift /\ view.overrides[row] = answer.max
    BY DEF ContextExplainsCap
  <2> DEFINE slot == Resolve(Rows(view), day, shift)
  <2>1. /\ answer.default_jobs_max = (Rows(view) = {})
        /\ answer.shift = ContextShift(view, day, shift)
        /\ answer.max = EffectiveMax(view, day, shift)
    BY DEF RequestInv, Response
  <2>2. Rows(view) \in SUBSET Storable /\ day \in CalendarDays /\ shift \in HalfDays
    BY DEF TypeOK, IsCompany
  <2>3. slot = NoSlot \/ slot \in Rows(view)
    BY <2>2, ResolveIsMostSpecific DEF Applicable
  <2>4. slot \in Rows(view) => slot.shift # NoSlot
    <3>1. \A row \in Rows(view) : row.shift \in Shifts
      BY <2>2 DEF Storable, Slots
    <3>2. QED
      BY <3>1, NoSlotAssumption
  <2>5. NoSlot \notin Rows(view)
    BY <2>2, NoSlotAssumption DEF Storable
  <2>6. QED
    BY <2>1, <2>3, <2>4, <2>5 DEF ContextShift, EffectiveMax
<1>2. QED
  BY <1>1, CapsTypeCorrect, RequestInvariance, PTL

(* A response whose request saw no midnight carries the cap of one instant. *)
THEOREM CapIsOfAnInstant == Spec => []CapOfAnInstantOfTheDay
<1>1. RequestInv => CapOfAnInstantOfTheDay
  <2> SUFFICES ASSUME RequestInv, \A i, j \in instants : i.day = j.day, phase = "answered"
               PROVE  \E i \in instants : answer.max = EffectiveMax(view, i.day, i.shift)
    BY DEF CapOfAnInstantOfTheDay, CapOfAnInstant
  <2>1. PICK i \in instants : i.shift = shift
    BY DEF RequestInv
  <2>2. i.day = day
    BY DEF RequestInv
  <2>3. answer.max = EffectiveMax(view, day, shift)
    BY DEF RequestInv, Response
  <2>4. QED
    BY <2>1, <2>2, <2>3
<1>2. QED
  BY <1>1, RequestInvariance, PTL
==============================================================================
