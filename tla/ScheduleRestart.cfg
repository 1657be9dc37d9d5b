CONSTANTS
  Hosts = {h1, h2}
  Callers = {c1}
  Requests = {r1, r2}
  Timers = {t1, t2}
  Leads = {1, 2}
  MaxCrashes = 1
  RearmAtStartup = {FALSE}
  StoreMayFail = FALSE
  None = None
SPECIFICATION FairSpec
PROPERTIES
  EveryRequestResolved
