------------------------------ MODULE ScheduleMC ------------------------------
(* Small instances of Schedule for TLC: see the .cfg files.                  *)
EXTENDS Schedule, TLC

ScheduleSymmetry ==
  Permutations(Callers) \cup Permutations(Requests) \cup Permutations(Timers)

===============================================================================
