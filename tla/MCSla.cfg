CONSTANTS
  DayLength = 4
  Ticks = {1, 2, 3}
  Primed = Primed
  Gone = Gone
  MaxFaults = 2
  Calendars <- MCCalendars
  Calendar <- Office
  Warning = 50
  Policies <- MCPolicies
  PauseStates = {"snoozed"}
  States = {"open", "snoozed", "resolved"}
  BatchLimit = 1
  None = None
  MaxTime = 3
  MaxSteps = 2
SPECIFICATION Spec
INVARIANTS SlaTypeOK CalendarExact AnnouncedOnce PauseFollowsState OneSchedule
PROPERTIES BreachIsEarned DueTimersSettle
CHECK_DEADLOCK FALSE
