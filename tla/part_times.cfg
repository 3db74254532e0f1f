CONSTANTS
  CalendarDays = {monday, saturday}
  WorkingDays = {monday}
  Weekdays = weekdays
  AllWeek = all_week
  Morning = morning
  Afternoon = afternoon
  AllDay = all_day
  NoSlot = NoSlot
  Anyhow = Anyhow
SPECIFICATION Spec
INVARIANTS TypeOK ListedIffProjected
PROPERTY WritesStayOnTheirDays
