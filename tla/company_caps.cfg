CONSTANTS
  monday = monday
  saturday = saturday
  CalendarDays = {monday, saturday}
  WorkingDays = {monday}
  Weekdays = weekdays
  AllWeek = all_week
  Morning = morning
  Afternoon = afternoon
  AllDay = all_day
  NoSlot = NoSlot
  Caps = {0, 1, 2}
  NextDay <- MCNextDay
  MaxWrites = 2
SPECIFICATION Spec
INVARIANTS TypeOK MostSpecificRowCounts ContextExplainsCap CapOfAnInstantOfTheDay
