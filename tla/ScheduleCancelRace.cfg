CONSTANTS
  Hosts = {h1}
  Callers = {c1}
  Requests = {r1}
  Timers = {t1, t2}
  Leads = {1}
  MaxCrashes = 0
  RearmAtStartup = {TRUE}
  StoreMayFail = FALSE
  None = None
SPECIFICATION Spec
SYMMETRY ScheduleSymmetry
PROPERTIES
  CancelIsSafe
