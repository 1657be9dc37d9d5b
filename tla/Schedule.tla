------------------------------- MODULE Schedule -------------------------------
(***************************************************************************)
(* The countdown-shutdown manager of dunemgr (pkg/domain/schedule) with    *)
(* the store bucket it persists to (pkg/domain/store/schedules.go).        *)
(*                                                                         *)
(* Operator calls, time.AfterFunc timers and the goroutines they start run *)
(* concurrently in one process; every step below is one access to shared   *)
(* state: a store transaction, a critical section of Manager.mu, or the    *)
(* remote lifecycle verb.  The process may end between any two steps.      *)
(*                                                                         *)
(* Time is counted down: the distance to a record's AtUnix, to a timer's   *)
(* expiry and to the deadline an operator call has computed shrink         *)
(* together in Tick, so no absolute clock has to be bounded.               *)
(***************************************************************************)
EXTENDS Naturals, FiniteSets

CONSTANTS
  Hosts,           \* host profile names
  Callers,         \* goroutines that serve operator calls
  Requests,        \* identities of countdown requests
  Timers,          \* identities of runtime timers and of their goroutines
  Leads,           \* lead times an operator may ask for
  MaxCrashes,      \* how often the process may end
  RearmAtStartup,  \* whether a starting process calls Rearm: FALSE for core.Open,
                   \* TRUE for one that does what the package comment says
  StoreMayFail,    \* may a store transaction return an I/O error?
  None             \* no request, no timer, no host

ASSUME NoneAssumption ==
  /\ None \notin Hosts
  /\ None \notin Requests
  /\ None \notin Timers

ASSUME LeadsAssumption == Leads \subseteq Nat \ {0}

ASSUME BoundAssumption ==
  /\ MaxCrashes \in Nat
  /\ RearmAtStartup \subseteq BOOLEAN /\ RearmAtStartup # {}
  /\ StoreMayFail \in BOOLEAN

VARIABLES
  up,         \* is the process running?
  crashes,    \* how often it has ended
  record,     \* the "schedules" bucket: at most one record per host
  slot,       \* Manager.timers: the timer the manager knows for a host
  timer,      \* runtime timers, and the executeShutdown goroutine of each
  call,       \* operator calls in progress
  todo,       \* the records Rearm has listed and not handled yet
  inline,     \* the executeShutdown that Rearm is waiting for, or None
  persisted,  \* every request that was ever stored (history)
  cancelled,  \* requests whose record a successful Cancel removed (history)
  crossed,    \* hosts whose calls and executions met (history)
  failed      \* hosts whose record could not be read or deleted (history)

vars == <<up, crashes, record, slot, timer, call, todo, inline,
          persisted, cancelled, crossed, failed>>

past == <<persisted, cancelled, crossed, failed>>

-------------------------------------------------------------------------------
(* Shapes of the state.                                                      *)

NoRecord == [req |-> None, left |-> 0]

IdleTimer == [st |-> "idle", host |-> None, left |-> 0, req |-> None]

IdleCall == [pc |-> "idle", host |-> None, req |-> None, lead |-> 0, left |-> 0]

(* "live": running down.  "fired": its goroutine is in executeShutdown,      *)
(* before GetSchedule.  "running": it has read a record and runs the verb.   *)
(* "delete", "disarm": the two cleanups that follow.                         *)
TimerStates == {"idle", "live", "fired", "running", "delete", "disarm"}

(* Schedule goes through "put" and "arm", Cancel through "disarm" and        *)
(* "delete".                                                                 *)
CallStates == {"idle", "put", "arm", "disarm", "delete"}

TimerRecords ==
  [st : TimerStates, host : Hosts \cup {None}, left : Nat,
   req : Requests \cup {None}]

CallRecords ==
  [pc : CallStates, host : Hosts \cup {None}, req : Requests \cup {None},
   lead : Nat, left : Nat]

TypeOK ==
  /\ up \in BOOLEAN
  /\ crashes \in Nat
  /\ record \in [Hosts -> [req : Requests \cup {None}, left : Nat]]
  /\ slot \in [Hosts -> Timers \cup {None}]
  /\ timer \in [Timers -> TimerRecords]
  /\ call \in [Callers -> CallRecords]
  /\ todo \subseteq Hosts \X Nat
  /\ inline \in Timers \cup {None}
  /\ persisted \subseteq Requests
  /\ cancelled \subseteq Requests
  /\ crossed \subseteq Hosts
  /\ failed \subseteq Hosts

Init ==
  /\ up = TRUE
  /\ crashes = 0
  /\ record = [h \in Hosts |-> NoRecord]
  /\ slot = [h \in Hosts |-> None]
  /\ timer = [t \in Timers |-> IdleTimer]
  /\ call = [c \in Callers |-> IdleCall]
  /\ todo = {}
  /\ inline = None
  /\ persisted = {}
  /\ cancelled = {}
  /\ crossed = {}
  /\ failed = {}

Less(n) == IF n > 0 THEN n - 1 ELSE 0

Executing(t) == timer[t].st \in {"fired", "running", "delete", "disarm"}

(* Another call, an execution or Rearm is at work on host h.                 *)
OthersAt(c, h) ==
  \/ \E d \in Callers \ {c} : call[d].host = h
  \/ \E t \in Timers : timer[t].host = h /\ Executing(t)
  \/ \E e \in todo : e[1] = h

-------------------------------------------------------------------------------
(* A definition with a suffix as in ArmNoStop or ExecRunOnly is a            *)
(* deliberately broken variant of the one without it.  No action uses these; *)
(* they stand for plausible bugs and show that a property would notice them. *)

(* The two critical sections of Manager.mu, as functions of the timers.      *)

(* time.Timer.Stop: a timer that has already fired is not stopped.           *)
Stopped(tm, h) ==
  IF slot[h] # None /\ tm[slot[h]].st = "live"
  THEN [tm EXCEPT ![slot[h]] = IdleTimer]
  ELSE tm

ArmNoStop(h, n, t) ==
  /\ timer[t] = IdleTimer
  /\ timer' = [timer EXCEPT ![t] =
                 [st |-> "live", host |-> h, left |-> n, req |-> None]]
  /\ slot' = [slot EXCEPT ![h] = t]

(* arm: stop the host's timer and install a new one, t, that expires in n.   *)
Arm(h, n, t) ==
  /\ timer[t] = IdleTimer
  /\ timer' = [Stopped(timer, h) EXCEPT ![t] =
                 [st |-> "live", host |-> h, left |-> n, req |-> None]]
  /\ slot' = [slot EXCEPT ![h] = t]

(* disarm: stop and forget the host's timer.                                 *)
Disarm(h, tm) ==
  /\ timer' = Stopped(tm, h)
  /\ slot' = [slot EXCEPT ![h] = None]

-------------------------------------------------------------------------------
(* Schedule: announce, then persist, then arm.                               *)

(* Two calls at once on a host have met.                                     *)
Meets(h) ==
  crossed' = IF \E d \in Callers : call[d].host = h THEN crossed \cup {h} ELSE crossed

(* The deadline is computed before the announcement is published.  An        *)
(* announcement that fails ends the call with nothing changed; one that the  *)
(* broker does not confirm counts as published.                              *)
ScheduleAnnounce(c, h, r, n) ==
  /\ up
  /\ call[c] = IdleCall
  /\ r \notin persisted
  /\ \A d \in Callers : call[d].req # r
  /\ call' = [call EXCEPT ![c] =
                [pc |-> "put", host |-> h, req |-> r, lead |-> n, left |-> n]]
  /\ Meets(h)
  /\ UNCHANGED <<up, crashes, record, slot, timer, todo, inline, persisted, cancelled, failed>>

(* A record with nobody else at work on its host makes a new start.          *)
SchedulePut(c) ==
  LET h == call[c].host IN
  /\ call[c].pc = "put"
  /\ \/ /\ record' = [record EXCEPT ![h] = [req |-> call[c].req, left |-> call[c].left]]
        /\ persisted' = persisted \cup {call[c].req}
        /\ call' = [call EXCEPT ![c].pc = "arm"]
        /\ crossed' = IF OthersAt(c, h) THEN crossed \cup {h} ELSE crossed \ {h}
        /\ failed' = failed \ {h}
     \/ /\ StoreMayFail
        /\ call' = [call EXCEPT ![c] = IdleCall]
        /\ UNCHANGED <<record, persisted, crossed, failed>>
  /\ UNCHANGED <<up, crashes, slot, timer, todo, inline, cancelled>>

(* Takes off the time since the announcement, and a second for good measure. *)
ScheduleArmShort(c) ==
  /\ call[c].pc = "arm"
  /\ \E t \in Timers : Arm(call[c].host, call[c].left - 1, t)
  /\ call' = [call EXCEPT ![c] = IdleCall]
  /\ UNCHANGED <<up, crashes, record, todo, inline, past>>

(* The timer gets the full lead time, counted from now.                      *)
ScheduleArm(c) ==
  /\ call[c].pc = "arm"
  /\ \E t \in Timers : Arm(call[c].host, call[c].lead, t)
  /\ call' = [call EXCEPT ![c] = IdleCall]
  /\ UNCHANGED <<up, crashes, record, todo, inline, past>>

-------------------------------------------------------------------------------
(* Cancel: publish the cancellation, then disarm, then delete the record.    *)

CancelAnnounce(c, h) ==
  /\ up
  /\ call[c] = IdleCall
  /\ call' = [call EXCEPT ![c] = [IdleCall EXCEPT !.pc = "disarm", !.host = h]]
  /\ Meets(h)
  /\ UNCHANGED <<up, crashes, record, slot, timer, todo, inline, persisted, cancelled, failed>>

CancelDisarm(c) ==
  /\ call[c].pc = "disarm"
  /\ Disarm(call[c].host, timer)
  /\ call' = [call EXCEPT ![c].pc = "delete"]
  /\ UNCHANGED <<up, crashes, record, todo, inline, past>>

CancelDelete(c) ==
  LET h == call[c].host IN
  /\ call[c].pc = "delete"
  /\ \/ /\ record' = [record EXCEPT ![h] = NoRecord]
        /\ cancelled' = cancelled \cup ({record[h].req} \ {None})
        /\ UNCHANGED failed
     \/ /\ StoreMayFail
        /\ failed' = failed \cup {h}
        /\ UNCHANGED <<record, cancelled>>
  /\ call' = [call EXCEPT ![c] = IdleCall]
  /\ UNCHANGED <<up, crashes, slot, timer, todo, inline, persisted, crossed>>

-------------------------------------------------------------------------------
(* executeShutdown, in the goroutine of a timer that fired or called inline  *)
(* by Rearm.                                                                 *)

(* Between the record and the new timer of a Schedule, the old one meets it.  *)
Fire(t) ==
  LET h == timer[t].host IN
  /\ timer[t].st = "live"
  /\ timer[t].left = 0
  /\ timer' = [timer EXCEPT ![t].st = "fired"]
  /\ crossed' = IF \E c \in Callers : call[c].host = h /\ call[c].pc = "arm"
                THEN crossed \cup {h} ELSE crossed
  /\ UNCHANGED <<up, crashes, record, slot, call, todo, inline, persisted, cancelled, failed>>

(* Runs the request of some earlier record when there is none any more.      *)
ExecGetCached(t) ==
  /\ timer[t].st = "fired"
  /\ \E r \in persisted :
       timer' = [timer EXCEPT ![t].st = "running", ![t].req = r]
  /\ UNCHANGED <<up, crashes, record, slot, call, todo, inline, past>>

ExecGetNoDisarm(t) ==
  /\ timer[t].st = "fired"
  /\ \/ /\ record[timer[t].host].req # None
        /\ timer' = [timer EXCEPT ![t].st = "running",
                                  ![t].req = record[timer[t].host].req]
     \/ /\ record[timer[t].host].req = None \/ StoreMayFail
        /\ timer' = [timer EXCEPT ![t] = IdleTimer]
  /\ inline' = IF inline = t /\ timer'[t] = IdleTimer THEN None ELSE inline
  /\ UNCHANGED <<up, crashes, record, slot, call, todo,
                 past>>

(* The record is read again by host: it need not be the one the timer was    *)
(* armed for.  No record, or a store error, leads straight to the disarm.    *)
ExecGet(t) ==
  /\ timer[t].st = "fired"
  /\ \/ /\ record[timer[t].host].req # None
        /\ timer' = [timer EXCEPT ![t].st = "running",
                                  ![t].req = record[timer[t].host].req]
        /\ UNCHANGED failed
     \/ /\ record[timer[t].host].req = None \/ StoreMayFail
        /\ timer' = [timer EXCEPT ![t].st = "disarm"]
        /\ failed' = IF record[timer[t].host].req = None THEN failed
                     ELSE failed \cup {timer[t].host}
  /\ UNCHANGED <<up, crashes, record, slot, call, todo, inline, persisted, cancelled, crossed>>

ExecRunOnly(t) ==
  /\ timer[t].st = "running"
  /\ timer' = [timer EXCEPT ![t].st = "disarm", ![t].req = None]
  /\ UNCHANGED <<up, crashes, record, slot, call, todo, inline, past>>

(* lifecycle.Runner.Run returns, whatever its result: the error is dropped.  *)
ExecRun(t) ==
  /\ timer[t].st = "running"
  /\ timer' = [timer EXCEPT ![t].st = "delete"]
  /\ UNCHANGED <<up, crashes, record, slot, call, todo, inline, past>>

(* Deletes whatever record the host has by now.                              *)
ExecDelete(t) ==
  /\ timer[t].st = "delete"
  /\ timer' = [timer EXCEPT ![t].st = "disarm", ![t].req = None]
  /\ \/ /\ record' = [record EXCEPT ![timer[t].host] = NoRecord]
        /\ UNCHANGED failed
     \/ /\ StoreMayFail
        /\ failed' = failed \cup {timer[t].host}
        /\ UNCHANGED record
  /\ UNCHANGED <<up, crashes, slot, call, todo, inline, persisted, cancelled, crossed>>

ExecDisarm(t) ==
  /\ timer[t].st = "disarm"
  /\ Disarm(timer[t].host, [timer EXCEPT ![t] = IdleTimer])
  /\ inline' = IF inline = t THEN None ELSE inline
  /\ UNCHANGED <<up, crashes, record, call, todo, past>>

-------------------------------------------------------------------------------
(* The process: it ends (a crash, or a one-shot dunemgr command that         *)
(* returns) and starts again; only the store survives.                       *)

Crash ==
  /\ up
  /\ crashes < MaxCrashes
  /\ up' = FALSE
  /\ crashes' = crashes + 1
  /\ slot' = [h \in Hosts |-> None]
  /\ timer' = [t \in Timers |-> IdleTimer]
  /\ call' = [c \in Callers |-> IdleCall]
  /\ todo' = {}
  /\ inline' = None
  /\ UNCHANGED <<record, past>>

(* Rearm reads the clock and the bucket once, then handles record by record; *)
(* a bucket that cannot be read leaves it nothing to do.                     *)
Start ==
  /\ ~up
  /\ up' = TRUE
  /\ \/ /\ TRUE \in RearmAtStartup
        /\ todo' = {<<h, record[h].left>> : h \in {g \in Hosts : record[g].req # None}}
     \/ /\ FALSE \in RearmAtStartup \/ StoreMayFail
        /\ todo' = {}
  /\ UNCHANGED <<crashes, record, slot, timer, call, inline, past>>

(* A future deadline gets a timer.                                           *)
RearmArm(e) ==
  /\ inline = None
  /\ e \in todo
  /\ e[2] > 0
  /\ \E t \in Timers : Arm(e[1], e[2], t)
  /\ todo' = todo \ {e}
  /\ UNCHANGED <<up, crashes, record, call, inline, past>>

(* A deadline that has passed is executed inline, before the next record.    *)
RearmExec(e) ==
  /\ inline = None
  /\ e \in todo
  /\ e[2] = 0
  /\ \E t \in Timers :
       /\ timer[t] = IdleTimer
       /\ timer' = [timer EXCEPT ![t] =
                      [st |-> "fired", host |-> e[1], left |-> 0, req |-> None]]
       /\ inline' = t
  /\ todo' = todo \ {e}
  /\ UNCHANGED <<up, crashes, record, slot, call, past>>

(* One second passes; it is a step only while something counts down.         *)
Tick ==
  /\ \/ \E h \in Hosts : record[h].left > 0
     \/ \E t \in Timers : timer[t].left > 0
     \/ \E c \in Callers : call[c].left > 0
  /\ record' = [h \in Hosts |-> [record[h] EXCEPT !.left = Less(@)]]
  /\ timer' = [t \in Timers |-> [timer[t] EXCEPT !.left = Less(@)]]
  /\ call' = [c \in Callers |-> [call[c] EXCEPT !.left = Less(@)]]
  /\ UNCHANGED <<up, crashes, slot, todo, inline, past>>

-------------------------------------------------------------------------------
ScheduleCall(c) ==
  \E h \in Hosts, r \in Requests, n \in Leads : ScheduleAnnounce(c, h, r, n)

CancelCall(c) == \E h \in Hosts : CancelAnnounce(c, h)

CallStep(c) ==
  \/ SchedulePut(c)
  \/ ScheduleArm(c)
  \/ CancelDisarm(c)
  \/ CancelDelete(c)

TimerStep(t) ==
  \/ Fire(t)
  \/ ExecGet(t)
  \/ ExecRun(t)
  \/ ExecDelete(t)
  \/ ExecDisarm(t)

RearmStep == \E e \in todo : RearmArm(e) \/ RearmExec(e)

Next ==
  \/ \E c \in Callers : ScheduleCall(c) \/ CancelCall(c) \/ CallStep(c)
  \/ \E t \in Timers : TimerStep(t)
  \/ Crash
  \/ Start
  \/ RearmStep
  \/ Tick

Spec == Init /\ [][Next]_vars

(* Goroutines are scheduled, timers expire, time passes, and the process is  *)
(* started again; operators are free never to call.                          *)
Fairness ==
  /\ \A c \in Callers : WF_vars(CallStep(c))
  /\ \A t \in Timers : WF_vars(TimerStep(t))
  /\ WF_vars(RearmStep)
  /\ WF_vars(Start)
  /\ WF_vars(Tick)

FairSpec == Spec /\ Fairness

-------------------------------------------------------------------------------
(* Safety, whatever operators do.                                            *)

(* No timer is leaked: one that can still fire is the one the manager knows  *)
(* for its host, so arm (a reschedule) and disarm (a cancel) always reach it *)
(* (schedule.go arm, disarm).                                                *)
NoLeakedTimer ==
  \A t \in Timers : timer[t].st = "live" => /\ timer[t].host # None
                                            /\ slot[timer[t].host] = t

(* A host the manager reports as armed (Pending) has a timer of its own that *)
(* will fire, or whose goroutine is on its way to disarm it: the map never   *)
(* keeps a dead or foreign timer, whichever cleanups and reschedules overlap.*)
ArmedIsAlive ==
  \A h \in Hosts : slot[h] # None =>
    /\ timer[slot[h]].host = h
    /\ timer[slot[h]].st = "live" \/ Executing(slot[h])

(* The request is stored nowhere and no goroutine has read it.               *)
Gone(r) ==
  /\ r \in persisted
  /\ \A h \in Hosts : record[h].req # r
  /\ \A t \in Timers : timer[t].req # r

(* A request whose record is gone, by a cancel, a replacement or its own     *)
(* execution, is never run afterwards unless a goroutine had read it before: *)
(* timers carry the host only and executeShutdown reads the store again.     *)
NoResurrection == [][\A r \in Requests : Gone(r) => Gone(r)']_vars

(* The comment on Cancel: when a cancel and an execution race, the loser     *)
(* no-ops, so a cancelled request's verb is not run after the cancel.        *)
CancelIsSafe ==
  [][\A t \in Timers : ExecRun(t) => timer[t].req \notin cancelled]_vars

-------------------------------------------------------------------------------
(* What operators get, whichever calls they make.                            *)

Promise == INSTANCE Countdown WITH
  accepted <- persisted,
  pending  <- [h \in Hosts |-> record[h].req],
  left     <- [h \in Hosts |-> record[h].left],
  running  <- {<<timer[t].host, timer[t].req>> :
                 t \in {u \in Timers : timer[u].req # None}}

(* The manager implements the countdown service: accepted once, replaced at  *)
(* any time, run only while it is the host's, and where calls and executions *)
(* have not met since it was accepted never begun early, by one execution at *)
(* a time, and finishing one never discards another (schedule.go).           *)
KeepsPromise == Promise!Spec

-------------------------------------------------------------------------------
(* Liveness.                                                                 *)

(* An armed countdown does not stay armed for ever: it is executed or        *)
(* cancelled, even when operators and executions overlap.                    *)
ArmedResolved == \A h \in Hosts : slot[h] # None ~> slot[h] = None

(* A stored request does not stay stored in a process that lives: it is      *)
(* executed, cancelled or replaced, unless calls and executions meet or the  *)
(* store fails.  A process that ends and starts again arms nothing of what   *)
(* it finds, unless it calls Rearm.                                          *)
Held(h, r) ==
  /\ record[h].req = r
  /\ slot[h] # None \/ \E c \in Callers : call[c].host = h /\ call[c].pc = "arm"

StoredIsResolved ==
  \A h \in Hosts, r \in Requests :
    Held(h, r) ~> record[h].req # r \/ ~up \/ h \in crossed \/ h \in failed

(* The package comment: pending shutdowns persist and are re-armed on        *)
(* startup.  Every stored request is in the end executed, cancelled or       *)
(* replaced, also when the process ends in between.                          *)
EveryRequestResolved == \A r \in Requests : r \in persisted ~> Gone(r)

===============================================================================
