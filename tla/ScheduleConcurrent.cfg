CONSTANTS
  Hosts = {h1}
  Callers = {c1, c2}
  Requests = {r1, r2}
  Timers = {t1, t2, t3}
  Leads = {1, 2}
  MaxCrashes = 1
  RearmAtStartup = {TRUE, FALSE}
  StoreMayFail = TRUE
  None = None
SPECIFICATION FairSpec
INVARIANTS
  TypeOK
  NoLeakedTimer
  ArmedIsAlive
PROPERTIES
  NoResurrection
  ArmedResolved
  KeepsPromise
  StoredIsResolved
