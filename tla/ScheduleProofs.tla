---------------------------- MODULE ScheduleProofs ----------------------------
(* Proofs about Schedule for any hosts, callers, requests, timers and leads. *)
EXTENDS Schedule, TLAPS

USE DEF past

(* The map and the runtime timers describe each other, and a free timer      *)
(* carries nothing.                                                          *)
TimerInv ==
  /\ timer \in [Timers -> TimerRecords]
  /\ slot \in [Hosts -> Timers \cup {None}]
  /\ \A t \in Timers : timer[t].st = "idle" => timer[t] = IdleTimer
  /\ \A t \in Timers : timer[t].st # "idle" => timer[t].host \in Hosts
  /\ NoLeakedTimer
  /\ ArmedIsAlive

(* Types of the other variables; a call in progress is about a host.         *)
OtherInv ==
  /\ up \in BOOLEAN
  /\ crashes \in Nat
  /\ record \in [Hosts -> [req : Requests \cup {None}, left : Nat]]
  /\ call \in [Callers -> CallRecords]
  /\ todo \subseteq Hosts \X Nat
  /\ inline \in Timers \cup {None}
  /\ persisted \subseteq Requests
  /\ cancelled \subseteq Requests
  /\ crossed \subseteq Hosts
  /\ failed \subseteq Hosts
  /\ \A c \in Callers : call[c].pc # "idle" => call[c].host \in Hosts
  /\ \A c \in Callers : call[c].pc = "put" => call[c].req \in Requests

(* The inductive invariant.                                                  *)
IInv == TimerInv /\ OtherInv

LEMMA InitIInv == Init => IInv
BY NoneAssumption, BoundAssumption
   DEF Init, IInv, TimerInv, OtherInv, NoLeakedTimer, ArmedIsAlive, NoRecord,
       IdleTimer, IdleCall, TimerRecords, CallRecords, TimerStates, CallStates,
       Executing

LEMMA IdleTimerType == IdleTimer \in TimerRecords
BY DEF IdleTimer, TimerRecords, TimerStates

(* Stop turns the host's timer into a free one when it is still live, and    *)
(* touches no other.                                                         *)
LEMMA StoppedAt ==
  ASSUME NEW tm \in [Timers -> TimerRecords], NEW h \in Hosts,
         slot \in [Hosts -> Timers \cup {None}]
  PROVE  /\ Stopped(tm, h) \in [Timers -> TimerRecords]
         /\ \A u \in Timers : Stopped(tm, h)[u] =
              IF u = slot[h] /\ tm[u].st = "live" THEN IdleTimer ELSE tm[u]
<1>1. CASE slot[h] # None /\ tm[slot[h]].st = "live"
  BY <1>1, IdleTimerType DEF Stopped
<1>2. CASE ~(slot[h] # None /\ tm[slot[h]].st = "live")
  BY <1>2, NoneAssumption DEF Stopped
<1> QED
  BY <1>1, <1>2

(* Arming a free timer for a host keeps the map and the timers in step.      *)
LEMMA ArmKeeps ==
  ASSUME TimerInv, NEW h \in Hosts, NEW n \in Nat, NEW t \in Timers, Arm(h, n, t)
  PROVE  TimerInv'
<1> DEFINE new == [st |-> "live", host |-> h, left |-> n, req |-> None]
<1>1. new \in TimerRecords
  BY DEF TimerRecords, TimerStates
<1>2. /\ timer' \in [Timers -> TimerRecords]
      /\ \A u \in Timers : timer'[u] =
           IF u = t THEN new
           ELSE IF u = slot[h] /\ timer[u].st = "live" THEN IdleTimer
           ELSE timer[u]
  BY <1>1, StoppedAt DEF TimerInv, Arm
<1>3. slot' = [slot EXCEPT ![h] = t] /\ slot' \in [Hosts -> Timers \cup {None}]
  BY DEF TimerInv, Arm
<1>4. timer[t] = IdleTimer
  BY DEF Arm
<1>5. /\ \A u \in Timers : timer'[u].st = "idle" => timer'[u] = IdleTimer
      /\ \A u \in Timers : timer'[u].st # "idle" => timer'[u].host \in Hosts
  BY <1>2 DEF TimerInv, IdleTimer
<1>6. NoLeakedTimer'
  BY <1>2, <1>3, <1>4, NoneAssumption DEF TimerInv, NoLeakedTimer, IdleTimer
<1>7. ArmedIsAlive'
  BY <1>2, <1>3, <1>4, NoneAssumption
     DEF TimerInv, ArmedIsAlive, Executing, IdleTimer
<1> QED
  BY <1>2, <1>3, <1>5, <1>6, <1>7 DEF TimerInv

(* Disarming a host does, whether or not another timer is freed with it.     *)
LEMMA DisarmKeeps ==
  ASSUME TimerInv, NEW h \in Hosts, Disarm(h, timer)
  PROVE  TimerInv'
<1>1. /\ timer' \in [Timers -> TimerRecords]
      /\ \A u \in Timers : timer'[u] =
           IF u = slot[h] /\ timer[u].st = "live" THEN IdleTimer ELSE timer[u]
  BY StoppedAt DEF TimerInv, Disarm
<1>2. slot' = [slot EXCEPT ![h] = None] /\ slot' \in [Hosts -> Timers \cup {None}]
  BY DEF TimerInv, Disarm
<1>3. /\ \A u \in Timers : timer'[u].st = "idle" => timer'[u] = IdleTimer
      /\ \A u \in Timers : timer'[u].st # "idle" => timer'[u].host \in Hosts
  BY <1>1 DEF TimerInv, IdleTimer
<1>4. NoLeakedTimer'
  BY <1>1, <1>2, NoneAssumption DEF TimerInv, NoLeakedTimer, IdleTimer
<1>5. ArmedIsAlive'
  BY <1>1, <1>2, NoneAssumption
     DEF TimerInv, ArmedIsAlive, Executing, IdleTimer
<1> QED
  BY <1>1, <1>2, <1>3, <1>4, <1>5 DEF TimerInv

(* So does the disarm that ends an execution and frees its own timer.        *)
LEMMA ExecDisarmKeeps ==
  ASSUME TimerInv, NEW t \in Timers, timer[t].st = "disarm",
         Disarm(timer[t].host, [timer EXCEPT ![t] = IdleTimer])
  PROVE  TimerInv'
<1> DEFINE h == timer[t].host
           tm == [timer EXCEPT ![t] = IdleTimer]
<1>1. h \in Hosts /\ tm \in [Timers -> TimerRecords]
  BY IdleTimerType DEF TimerInv
<1>2. /\ timer' \in [Timers -> TimerRecords]
      /\ \A u \in Timers : timer'[u] =
           IF u = slot[h] /\ tm[u].st = "live" THEN IdleTimer ELSE tm[u]
  BY <1>1, StoppedAt DEF TimerInv, Disarm
<1>3. \A u \in Timers : timer'[u] =
        IF u = t \/ (u = slot[h] /\ timer[u].st = "live") THEN IdleTimer ELSE timer[u]
  BY <1>2 DEF TimerInv, IdleTimer
<1>4. slot' = [slot EXCEPT ![h] = None] /\ slot' \in [Hosts -> Timers \cup {None}]
  BY <1>1 DEF TimerInv, Disarm
<1>5. /\ \A u \in Timers : timer'[u].st = "idle" => timer'[u] = IdleTimer
      /\ \A u \in Timers : timer'[u].st # "idle" => timer'[u].host \in Hosts
  BY <1>3 DEF TimerInv, IdleTimer
<1>6. NoLeakedTimer'
  BY <1>3, <1>4, NoneAssumption DEF TimerInv, NoLeakedTimer, IdleTimer
<1>7. ArmedIsAlive'
  BY <1>1, <1>3, <1>4, NoneAssumption
     DEF TimerInv, ArmedIsAlive, Executing, IdleTimer
<1> QED
  BY <1>2, <1>4, <1>5, <1>6, <1>7 DEF TimerInv

(* A step that keeps the map and moves one timer along, without freeing it,  *)
(* moving it to another host or bringing it back to life.                    *)
LEMMA MoveKeeps ==
  ASSUME TimerInv, NEW t \in Timers, timer[t].st # "idle", slot' = slot,
         timer' \in [Timers -> TimerRecords],
         \A u \in Timers \ {t} : timer'[u] = timer[u],
         timer'[t].host = timer[t].host,
         timer'[t].st \in TimerStates \ {"idle", "live"}
  PROVE  TimerInv'
<1>1. /\ \A u \in Timers : timer'[u].st = "idle" => timer'[u] = IdleTimer
      /\ \A u \in Timers : timer'[u].st # "idle" => timer'[u].host \in Hosts
  BY DEF TimerInv
<1>2. NoLeakedTimer'
  BY DEF TimerInv, NoLeakedTimer
<1>3. ArmedIsAlive'
  BY NoneAssumption DEF TimerInv, ArmedIsAlive, Executing, TimerStates
<1> QED
  BY <1>1, <1>2, <1>3 DEF TimerInv

LEMMA IdleCallType == IdleCall \in CallRecords
BY DEF IdleCall, CallRecords, CallStates

LEMMA StepIInv == IInv /\ [Next]_vars => IInv'
<1> SUFFICES ASSUME IInv, [Next]_vars PROVE IInv'
  OBVIOUS
<1> USE DEF IInv
<1>1. ASSUME NEW c \in Callers, ScheduleCall(c) PROVE IInv'
  <2>1. PICK h \in Hosts, r \in Requests, n \in Leads : ScheduleAnnounce(c, h, r, n)
    BY <1>1 DEF ScheduleCall
  <2>2. TimerInv'
    BY <2>1 DEF ScheduleAnnounce, TimerInv, NoLeakedTimer, ArmedIsAlive, Executing
  <2>3. OtherInv'
    BY <2>1, LeadsAssumption
       DEF ScheduleAnnounce, Meets, OtherInv, CallRecords, CallStates
  <2> QED BY <2>2, <2>3
<1>2. ASSUME NEW c \in Callers, CancelCall(c) PROVE IInv'
  <2>1. PICK h \in Hosts : CancelAnnounce(c, h)
    BY <1>2 DEF CancelCall
  <2>2. TimerInv'
    BY <2>1 DEF CancelAnnounce, TimerInv, NoLeakedTimer, ArmedIsAlive, Executing
  <2>3. OtherInv'
    BY <2>1 DEF CancelAnnounce, Meets, OtherInv, IdleCall, CallRecords, CallStates
  <2> QED BY <2>2, <2>3
<1>3. ASSUME NEW c \in Callers, SchedulePut(c) PROVE IInv'
  <2>1. TimerInv'
    BY <1>3 DEF SchedulePut, TimerInv, NoLeakedTimer, ArmedIsAlive, Executing
  <2>2. OtherInv'
    <3>1. call[c].host \in Hosts /\ call[c].req \in Requests /\ call[c].left \in Nat
      BY <1>3 DEF SchedulePut, OtherInv, CallRecords
    <3>2. CASE call' = [call EXCEPT ![c].pc = "arm"]
      <4>1. call' \in [Callers -> CallRecords]
        BY <3>2 DEF OtherInv, CallRecords, CallStates
      <4>2. \A d \in Callers : /\ call'[d].host = call[d].host
                               /\ call'[d].pc = IF d = c THEN "arm" ELSE call[d].pc
                               /\ call'[d].req = call[d].req
        BY <3>2 DEF OtherInv, CallRecords
      <4>3. record' \in [Hosts -> [req : Requests \cup {None}, left : Nat]]
        BY <1>3, <3>1 DEF SchedulePut, OtherInv
      <4>4. persisted' \subseteq Requests /\ crossed' \subseteq Hosts /\ failed' \subseteq Hosts
        BY <1>3, <3>1 DEF SchedulePut, OtherInv
      <4>5. UNCHANGED <<up, crashes, todo, inline, cancelled>>
        BY <1>3 DEF SchedulePut
      <4>6. /\ \A d \in Callers : call'[d].pc # "idle" => call'[d].host \in Hosts
            /\ \A d \in Callers : call'[d].pc = "put" => call'[d].req \in Requests
        BY <3>1, <4>2 DEF OtherInv
      <4> QED BY <4>1, <4>3, <4>4, <4>5, <4>6 DEF OtherInv
    <3>3. CASE /\ call' = [call EXCEPT ![c] = IdleCall]
               /\ UNCHANGED <<record, persisted, crossed, failed>>
      <4>1. UNCHANGED <<up, crashes, todo, inline, cancelled>>
            /\ crossed' \subseteq Hosts /\ failed' \subseteq Hosts
        BY <1>3, <3>1 DEF SchedulePut, OtherInv
      <4> QED BY <3>3, <4>1, IdleCallType DEF OtherInv, IdleCall
    <3> QED BY <1>3, <3>2, <3>3 DEF SchedulePut
  <2> QED BY <2>1, <2>2
<1>4. ASSUME NEW c \in Callers, ScheduleArm(c) PROVE IInv'
  <2>1. PICK t \in Timers : Arm(call[c].host, call[c].lead, t)
    BY <1>4 DEF ScheduleArm
  <2>2. call[c].host \in Hosts /\ call[c].lead \in Nat
    BY <1>4 DEF ScheduleArm, OtherInv, CallRecords
  <2>3. TimerInv'
    BY <2>1, <2>2, ArmKeeps
  <2>4. OtherInv'
    BY <1>4, IdleCallType DEF ScheduleArm, OtherInv, IdleCall
  <2> QED BY <2>3, <2>4
<1>5. ASSUME NEW c \in Callers, CancelDisarm(c) PROVE IInv'
  <2>1. call[c].host \in Hosts
    BY <1>5 DEF CancelDisarm, OtherInv
  <2>2. TimerInv'
    BY <1>5, <2>1, DisarmKeeps DEF CancelDisarm
  <2>3. OtherInv'
    BY <1>5 DEF CancelDisarm, OtherInv, CallRecords, CallStates
  <2> QED BY <2>2, <2>3
<1>6. ASSUME NEW c \in Callers, CancelDelete(c) PROVE IInv'
  <2>1. TimerInv'
    BY <1>6 DEF CancelDelete, TimerInv, NoLeakedTimer, ArmedIsAlive, Executing
  <2>2. call[c].host \in Hosts
    BY <1>6 DEF CancelDelete, OtherInv
  <2>3. /\ record' \in [Hosts -> [req : Requests \cup {None}, left : Nat]]
        /\ cancelled' \subseteq Requests /\ failed' \subseteq Hosts
    BY <1>6, <2>2 DEF CancelDelete, OtherInv, NoRecord
  <2>4. call' = [call EXCEPT ![c] = IdleCall]
        /\ UNCHANGED <<up, crashes, todo, inline, persisted, crossed>>
    BY <1>6 DEF CancelDelete
  <2>5. OtherInv'
    BY <2>3, <2>4, IdleCallType DEF OtherInv, IdleCall
  <2> QED BY <2>1, <2>5
<1>7. ASSUME NEW t \in Timers, Fire(t) PROVE IInv'
  <2>1. TimerInv'
    BY <1>7, MoveKeeps DEF Fire, TimerInv, TimerRecords, TimerStates
  <2>2. OtherInv'
    <3>1. timer[t].host \in Hosts
      BY <1>7 DEF Fire, TimerInv
    <3>2. crossed' \subseteq Hosts
      BY <1>7, <3>1 DEF Fire, OtherInv
    <3> QED BY <1>7, <3>2 DEF Fire, OtherInv
  <2> QED BY <2>1, <2>2
<1>8. ASSUME NEW t \in Timers, ExecGet(t) PROVE IInv'
  <2>1. timer[t].host \in Hosts
    BY <1>8 DEF ExecGet, TimerInv
  <2>2. TimerInv'
    <3>1. record[timer[t].host].req \in Requests \cup {None}
      BY <2>1 DEF OtherInv
    <3>2. /\ timer' \in [Timers -> TimerRecords] /\ slot' = slot
          /\ \A u \in Timers \ {t} : timer'[u] = timer[u]
          /\ timer'[t].host = timer[t].host
          /\ timer'[t].st \in TimerStates \ {"idle", "live"}
      BY <1>8, <3>1 DEF ExecGet, TimerInv, TimerRecords, TimerStates
    <3> QED BY <1>8, <3>2, MoveKeeps DEF ExecGet
  <2>3. OtherInv'
    BY <1>8, <2>1 DEF ExecGet, OtherInv
  <2> QED BY <2>2, <2>3
<1>9. ASSUME NEW t \in Timers, ExecRun(t) PROVE IInv'
  <2>1. TimerInv'
    BY <1>9, MoveKeeps DEF ExecRun, TimerInv, TimerRecords, TimerStates
  <2>2. OtherInv'
    BY <1>9 DEF ExecRun, OtherInv
  <2> QED BY <2>1, <2>2
<1>10. ASSUME NEW t \in Timers, ExecDelete(t) PROVE IInv'
  <2>1. TimerInv'
    BY ZenonT(60), <1>10, MoveKeeps DEF ExecDelete, TimerInv, TimerRecords, TimerStates
  <2>2. OtherInv'
    <3>1. timer[t].host \in Hosts
      BY <1>10 DEF ExecDelete, TimerInv
    <3>2. /\ record' \in [Hosts -> [req : Requests \cup {None}, left : Nat]]
          /\ failed' \subseteq Hosts
      BY <1>10, <3>1 DEF ExecDelete, OtherInv, NoRecord
    <3> QED BY <1>10, <3>2 DEF ExecDelete, OtherInv
  <2> QED BY <2>1, <2>2
<1>11. ASSUME NEW t \in Timers, ExecDisarm(t) PROVE IInv'
  <2>1. TimerInv'
    BY <1>11, ExecDisarmKeeps DEF ExecDisarm
  <2>2. OtherInv'
    BY <1>11 DEF ExecDisarm, OtherInv
  <2> QED BY <2>1, <2>2
<1>12. ASSUME Crash PROVE IInv'
  <2>1. TimerInv'
    BY <1>12, IdleTimerType, NoneAssumption
       DEF Crash, TimerInv, NoLeakedTimer, ArmedIsAlive, IdleTimer
  <2>2. OtherInv'
    <3>1. call' \in [Callers -> CallRecords] /\ \A c \in Callers : call'[c].pc = "idle"
      BY <1>12, IdleCallType DEF Crash, IdleCall
    <3>2. up' \in BOOLEAN
      BY <1>12 DEF Crash
    <3>3. crashes' \in Nat
      BY <1>12 DEF Crash, OtherInv
    <3>4. UNCHANGED <<record, past>> /\ todo' = {} /\ inline' = None
      BY <1>12 DEF Crash
    <3> QED BY <3>1, <3>2, <3>3, <3>4 DEF OtherInv
  <2> QED BY <2>1, <2>2
<1>13. ASSUME Start PROVE IInv'
  <2>1. TimerInv'
    BY <1>13 DEF Start, TimerInv, NoLeakedTimer, ArmedIsAlive, Executing
  <2>2. \A h \in Hosts : record[h].left \in Nat
    BY DEF OtherInv
  <2>3. todo' \subseteq Hosts \X Nat
    <3>1. \A e \in todo' : \E h \in Hosts : e = <<h, record[h].left>>
      BY <1>13 DEF Start
    <3> QED BY <2>2, <3>1
  <2>4. OtherInv'
    BY <1>13, <2>3 DEF Start, OtherInv
  <2> QED BY <2>1, <2>4
<1>14. ASSUME RearmStep PROVE IInv'
  <2>1. PICK e \in todo : RearmArm(e) \/ RearmExec(e)
    BY <1>14 DEF RearmStep
  <2>2. e[1] \in Hosts /\ e[2] \in Nat
    BY <2>1 DEF OtherInv
  <2>3. CASE RearmArm(e)
    <3>1. TimerInv'
      BY <2>2, <2>3, ArmKeeps DEF RearmArm
    <3>2. OtherInv'
      BY <2>3 DEF RearmArm, OtherInv
    <3> QED BY <3>1, <3>2
  <2>4. CASE RearmExec(e)
    <3>1. PICK t \in Timers :
            /\ timer[t] = IdleTimer
            /\ timer' = [timer EXCEPT ![t] =
                 [st |-> "fired", host |-> e[1], left |-> 0, req |-> None]]
            /\ inline' = t
      BY <2>4 DEF RearmExec
    <3>2. timer' \in [Timers -> TimerRecords] /\ slot' = slot
      BY <2>2, <2>4, <3>1 DEF RearmExec, TimerInv, TimerRecords, TimerStates
    <3>3. NoLeakedTimer'
      BY <3>1, <3>2 DEF TimerInv, NoLeakedTimer
    <3>4. ArmedIsAlive'
      BY <3>1, <3>2, NoneAssumption
         DEF TimerInv, ArmedIsAlive, Executing, IdleTimer
    <3>5. TimerInv'
      BY <2>2, <3>1, <3>2, <3>3, <3>4 DEF TimerInv
    <3>6. OtherInv'
      BY <2>4, <3>1 DEF RearmExec, OtherInv
    <3> QED BY <3>5, <3>6
  <2> QED BY <2>1, <2>3, <2>4
<1>15. ASSUME Tick PROVE IInv'
  <2>1. \A n \in Nat : Less(n) \in Nat
    BY DEF Less
  <2>2. /\ timer' \in [Timers -> TimerRecords]
        /\ \A u \in Timers : /\ timer'[u].st = timer[u].st
                             /\ timer'[u].host = timer[u].host
                             /\ timer'[u].req = timer[u].req
                             /\ timer'[u].left = Less(timer[u].left)
    BY <1>15, <2>1 DEF Tick, TimerInv, TimerRecords
  <2>3. \A u \in Timers : timer'[u].st = "idle" => timer'[u] = IdleTimer
    <3> SUFFICES ASSUME NEW u \in Timers, timer'[u].st = "idle"
                 PROVE  timer'[u] = IdleTimer
      OBVIOUS
    <3>1. timer[u] = IdleTimer
      BY <2>2 DEF TimerInv
    <3>2. timer'[u] = [timer[u] EXCEPT !.left = Less(@)]
      BY <1>15 DEF Tick
    <3> QED BY <3>1, <3>2 DEF IdleTimer, Less
  <2>4. TimerInv'
    <3>1. slot' = slot
      BY <1>15 DEF Tick
    <3>2. NoLeakedTimer'
      BY <2>2, <3>1 DEF TimerInv, NoLeakedTimer
    <3>3. ArmedIsAlive'
      BY <2>2, <3>1, NoneAssumption DEF TimerInv, ArmedIsAlive, Executing
    <3>4. \A u \in Timers : timer'[u].st # "idle" => timer'[u].host \in Hosts
      BY <2>2 DEF TimerInv
    <3> QED BY <2>2, <2>3, <3>1, <3>2, <3>3, <3>4 DEF TimerInv
  <2>5. OtherInv'
    BY ZenonT(60), <1>15, <2>1 DEF Tick, OtherInv, CallRecords
  <2> QED BY <2>4, <2>5
<1>16. CASE UNCHANGED vars
  BY <1>16
     DEF vars, TimerInv, OtherInv, NoLeakedTimer, ArmedIsAlive, Executing
<1> QED
  BY <1>1, <1>2, <1>3, <1>4, <1>5, <1>6, <1>7, <1>8, <1>9, <1>10, <1>11,
     <1>12, <1>13, <1>14, <1>15, <1>16
     DEF Next, CallStep, TimerStep

LEMMA Invariance == Spec => []IInv
BY InitIInv, StepIInv, PTL DEF Spec

(* Every variable keeps its type (Manager and the schedules bucket).         *)
THEOREM TypeCorrect == Spec => []TypeOK
<1>1. IInv => TypeOK
  BY DEF IInv, TimerInv, OtherInv, TypeOK
<1> QED
  BY <1>1, Invariance, PTL

(* arm and disarm never leave a timer behind that can fire and that the      *)
(* manager no longer knows, however operator calls, executions and Rearm     *)
(* overlap.                                                                  *)
THEOREM TimersNotLeaked == Spec => []NoLeakedTimer
<1>1. IInv => NoLeakedTimer
  BY DEF IInv, TimerInv
<1> QED
  BY <1>1, Invariance, PTL

(* The manager's map never keeps a timer that is dead or of another host.    *)
THEOREM ArmedTimersLive == Spec => []ArmedIsAlive
<1>1. IInv => ArmedIsAlive
  BY DEF IInv, TimerInv
<1> QED
  BY <1>1, Invariance, PTL

(* A request about to be stored has never been stored, and no other call     *)
(* carries it.                                                               *)
PutFresh ==
  \A c \in Callers : call[c].pc = "put" =>
    /\ call[c].req \notin persisted
    /\ \A d \in Callers \ {c} : call[d].req # call[c].req

LEMMA StepPutFresh == IInv /\ PutFresh /\ [Next]_vars => PutFresh'
<1> SUFFICES ASSUME IInv, PutFresh, [Next]_vars PROVE PutFresh'
  OBVIOUS
<1> USE DEF PutFresh
<1>1. ASSUME NEW c \in Callers, ScheduleCall(c) PROVE PutFresh'
  BY <1>1 DEF IInv, OtherInv, CallRecords, ScheduleCall, ScheduleAnnounce
<1>2. ASSUME NEW c \in Callers, CancelCall(c) PROVE PutFresh'
  BY <1>2, NoneAssumption
     DEF IInv, OtherInv, CallRecords, CancelCall, CancelAnnounce, IdleCall
<1>3. ASSUME NEW c \in Callers, CallStep(c) PROVE PutFresh'
  <2>1. CASE SchedulePut(c)
    BY <2>1, NoneAssumption DEF IInv, OtherInv, CallRecords, SchedulePut, IdleCall
  <2>2. CASE ScheduleArm(c)
    BY <2>2, NoneAssumption DEF IInv, OtherInv, CallRecords, ScheduleArm, IdleCall
  <2>3. CASE CancelDisarm(c)
    BY <2>3 DEF IInv, OtherInv, CallRecords, CancelDisarm
  <2>4. CASE CancelDelete(c)
    BY <2>4, NoneAssumption DEF IInv, OtherInv, CallRecords, CancelDelete, IdleCall
  <2> QED BY <1>3, <2>1, <2>2, <2>3, <2>4 DEF CallStep
<1>4. ASSUME NEW t \in Timers, TimerStep(t) PROVE PutFresh'
  BY <1>4 DEF TimerStep, Fire, ExecGet, ExecRun, ExecDelete, ExecDisarm
<1>5. ASSUME Crash PROVE PutFresh'
  BY <1>5 DEF Crash, IdleCall
<1>6. ASSUME Start \/ RearmStep PROVE PutFresh'
  BY <1>6 DEF Start, RearmStep, RearmArm, RearmExec
<1>7. ASSUME Tick PROVE PutFresh'
  BY ZenonT(60), <1>7 DEF IInv, OtherInv, CallRecords, Tick
<1>8. CASE UNCHANGED vars
  BY <1>8 DEF vars
<1> QED
  BY <1>1, <1>2, <1>3, <1>4, <1>5, <1>6, <1>7, <1>8 DEF Next

(* A step stores only fresh requests, and a goroutine takes a request only   *)
(* from the store.                                                           *)
LEMMA StepGone ==
  IInv /\ PutFresh /\ [Next]_vars => \A r \in Requests : Gone(r) => Gone(r)'
<1> SUFFICES ASSUME IInv, PutFresh, [Next]_vars, NEW r \in Requests, Gone(r)
             PROVE  Gone(r)'
  OBVIOUS
<1>1. r # None
  BY NoneAssumption
<1>2. ASSUME NEW h \in Hosts PROVE record'[h].req # r
  <2> USE DEF IInv, OtherInv, Gone
  <2>1. ASSUME NEW c \in Callers, CallStep(c) PROVE record'[h].req # r
    <3>1. CASE SchedulePut(c)
      BY <3>1 DEF SchedulePut, PutFresh
    <3>2. CASE CancelDelete(c)
      BY <1>1, <3>2 DEF CancelDelete, NoRecord
    <3> QED BY <2>1, <3>1, <3>2 DEF CallStep, ScheduleArm, CancelDisarm
  <2>2. ASSUME NEW t \in Timers, TimerStep(t) PROVE record'[h].req # r
    BY <1>1, <2>2
       DEF TimerStep, Fire, ExecGet, ExecRun, ExecDelete, ExecDisarm, NoRecord
  <2>3. ASSUME NEW c \in Callers, ScheduleCall(c) \/ CancelCall(c)
        PROVE  record'[h].req # r
    BY <2>3 DEF ScheduleCall, ScheduleAnnounce, CancelCall, CancelAnnounce
  <2>4. ASSUME Crash \/ Start \/ RearmStep PROVE record'[h].req # r
    BY <2>4 DEF Crash, Start, RearmStep, RearmArm, RearmExec
  <2>5. ASSUME Tick PROVE record'[h].req # r
    BY <2>5 DEF Tick
  <2>6. CASE UNCHANGED vars
    BY <2>6 DEF vars
  <2> QED BY <2>1, <2>2, <2>3, <2>4, <2>5, <2>6 DEF Next
<1>3. ASSUME NEW u \in Timers PROVE timer'[u].req # r
  <2> USE DEF IInv, TimerInv, OtherInv, Gone
  <2>1. IdleTimer.req # r
    BY <1>1 DEF IdleTimer
  <2>2. ASSUME NEW h \in Hosts, NEW n \in Nat, NEW t \in Timers, Arm(h, n, t)
        PROVE  timer'[u].req # r
    BY <1>1, <2>1, <2>2, StoppedAt DEF Arm
  <2>3. ASSUME NEW h \in Hosts, Disarm(h, timer) PROVE timer'[u].req # r
    BY <2>1, <2>3, StoppedAt DEF Disarm
  <2>4. ASSUME NEW c \in Callers, CallStep(c) PROVE timer'[u].req # r
    <3>1. CASE ScheduleArm(c)
      BY <2>2, <3>1 DEF ScheduleArm, CallRecords
    <3>2. CASE CancelDisarm(c)
      BY <2>3, <3>2 DEF CancelDisarm
    <3> QED BY <2>4, <3>1, <3>2 DEF CallStep, SchedulePut, CancelDelete
  <2>5. ASSUME NEW t \in Timers, TimerStep(t) PROVE timer'[u].req # r
    <3>1. CASE ExecGet(t)
      BY <3>1 DEF ExecGet, TimerRecords
    <3>2. CASE ExecDisarm(t)
      <4> DEFINE h == timer[t].host
                 tm == [timer EXCEPT ![t] = IdleTimer]
      <4>1. h \in Hosts /\ tm \in [Timers -> TimerRecords]
        BY <3>2, IdleTimerType DEF ExecDisarm
      <4>2. timer' = Stopped(tm, h)
        BY <3>2 DEF ExecDisarm, Disarm
      <4>3. timer'[u] = IdleTimer \/ timer'[u] = tm[u]
        BY <4>1, <4>2, StoppedAt
      <4> QED BY <2>1, <4>3
    <3>3. CASE Fire(t) \/ ExecRun(t) \/ ExecDelete(t)
      BY <1>1, <3>3 DEF Fire, ExecRun, ExecDelete, TimerRecords
    <3> QED BY <2>5, <3>1, <3>2, <3>3 DEF TimerStep
  <2>6. ASSUME NEW e \in todo, RearmArm(e) \/ RearmExec(e)
        PROVE  timer'[u].req # r
    <3>1. CASE RearmArm(e)
      BY <2>2, <3>1 DEF RearmArm
    <3>2. CASE RearmExec(e)
      BY <1>1, <3>2 DEF RearmExec
    <3> QED BY <2>6, <3>1, <3>2
  <2>7. ASSUME NEW c \in Callers, ScheduleCall(c) \/ CancelCall(c)
        PROVE  timer'[u].req # r
    BY <2>7 DEF ScheduleCall, ScheduleAnnounce, CancelCall, CancelAnnounce
  <2>8. ASSUME Crash PROVE timer'[u].req # r
    BY <2>1, <2>8 DEF Crash
  <2>9. ASSUME Start PROVE timer'[u].req # r
    BY <2>9 DEF Start
  <2>10. ASSUME Tick PROVE timer'[u].req # r
    BY <2>10 DEF Tick, TimerRecords
  <2>11. CASE UNCHANGED vars
    BY <2>11 DEF vars
  <2> QED
    BY <2>4, <2>5, <2>6, <2>7, <2>8, <2>9, <2>10, <2>11 DEF Next, RearmStep
<1>4. r \in persisted'
  <2>1. persisted \subseteq persisted'
    BY DEF Next, vars, ScheduleCall, ScheduleAnnounce, CancelCall, CancelAnnounce,
           CallStep, SchedulePut, ScheduleArm, CancelDisarm, CancelDelete,
           TimerStep, Fire, ExecGet, ExecRun, ExecDelete, ExecDisarm,
           Crash, Start, RearmStep, RearmArm, RearmExec, Tick
  <2> QED BY <2>1 DEF Gone
<1> QED
  BY <1>2, <1>3, <1>4 DEF Gone

(* A request that was cancelled, replaced or executed is never run later by  *)
(* a goroutine that had not read it before (executeShutdown reads the store  *)
(* again instead of keeping what its timer was armed for).                   *)
THEOREM NeverResurrected == Spec => NoResurrection
<1>1. Init => PutFresh
  BY DEF Init, PutFresh, IdleCall
<1>2. Spec => []PutFresh
  BY <1>1, StepPutFresh, Invariance, PTL DEF Spec
<1>3. IInv /\ PutFresh /\ [Next]_vars
        => [\A r \in Requests : Gone(r) => Gone(r)']_vars
  BY StepGone
<1> QED
  BY <1>2, <1>3, Invariance, PTL DEF Spec, NoResurrection

-------------------------------------------------------------------------------
(* The refinement: Schedule implements Countdown, whatever operators call,   *)
(* for any hosts, callers, requests, timers and leads, with or without Rearm *)
(* and with a store that may fail.                                           *)

(* What holds of every host: a host without a request has an empty record, a *)
(* countdown is not longer than the lead asked for, a goroutine has a        *)
(* request exactly between reading it and clearing it.                       *)
CleanInv ==
  /\ \A h \in Hosts : record[h].req = None => record[h] = NoRecord
  /\ \A c \in Callers : call[c].pc = "idle" => call[c] = IdleCall
  /\ \A c \in Callers : call[c].pc = "put" => call[c].left <= call[c].lead
  /\ \A t \in Timers : timer[t].req # None <=> timer[t].st \in {"running", "delete"}

(* The parts of what holds of a host where calls and executions have not     *)
(* met.  An execution is the only thing that happens to the timers of the    *)
(* host, its time is up, and what it has read is stored or gone.             *)
ExecAlone(h) ==
  \A t \in Timers : timer[t].host = h /\ Executing(t) =>
    /\ \A u \in Timers : timer[u].host = h => u = t
    /\ record[h].left = 0
    /\ timer[t].req # None => record[h].req \in {timer[t].req, None}

(* One call is at work on the host.                                          *)
CallAlone(h) ==
  \A c, d \in Callers : call[c].host = h /\ call[d].host = h => c = d

(* A call about to arm meets no execution and no Rearm, and arms for long    *)
(* enough.                                                                   *)
ArmAlone(h) ==
  \A c \in Callers : call[c].host = h /\ call[c].pc = "arm" =>
    /\ \A t \in Timers : timer[t].host = h => ~Executing(t)
    /\ \A e \in todo : e[1] # h
    /\ record[h].left <= call[c].lead

(* What Rearm has listed is alone and not early.                             *)
RearmAlone(h) ==
  \A e \in todo : e[1] = h =>
    /\ \A t \in Timers : timer[t].host # h
    /\ \A f \in todo : f[1] = h => f = e
    /\ record[h].left <= e[2]

(* No timer expires ahead of the stored deadline, but one that a call is     *)
(* about to replace.                                                         *)
NotEarly(h) ==
  \/ \E c \in Callers : call[c].host = h /\ call[c].pc = "arm"
  \/ \A t \in Timers : timer[t].host = h /\ timer[t].st = "live" =>
       record[h].left <= timer[t].left

ApartOn(h) ==
  ExecAlone(h) /\ CallAlone(h) /\ ArmAlone(h) /\ RearmAlone(h) /\ NotEarly(h)

ApartInv == CleanInv /\ \A h \in Hosts \ crossed : ApartOn(h)

LEMMA InitApart == Init => ApartInv
BY NoneAssumption
   DEF Init, ApartInv, ApartOn, ExecAlone, CallAlone, ArmAlone, RearmAlone, NotEarly,
       CleanInv, NoRecord, IdleTimer, IdleCall, Executing

(* The record of h counts down, is deleted or stays.                         *)
Shrinks(h) ==
  /\ record'[h].left <= record[h].left
  /\ record'[h].req \in {record[h].req, None}

(* Timers of h are freed or stay; calls of h end, or go on without arming.   *)
TimersLeave(h) ==
  \A t \in Timers : timer'[t].host = h => timer'[t] = timer[t]

CallsLeave(h) ==
  \A c \in Callers :
    /\ call[c].host = h /\ call[c].pc = "arm" => call'[c] = call[c]
    /\ call'[c].host = h =>
         call[c].host = h /\ (call'[c] = call[c] \/ call'[c].pc # "arm")

TodoLeaves(h) == \A e \in todo' : e[1] = h => e \in todo

(* A step that only takes away from a host keeps it apart.                   *)
LEMMA LeavesApart ==
  ASSUME IInv, NEW h \in Hosts, ApartOn(h), Shrinks(h), record'[h].left \in Nat,
         TimersLeave(h), CallsLeave(h), TodoLeaves(h)
  PROVE  ApartOn(h)'
<1>1. record[h].left \in Nat
  BY DEF IInv, OtherInv
<1>2. ExecAlone(h)'
  BY <1>1 DEF ApartOn, ExecAlone, Shrinks, TimersLeave, Executing
<1>3. CallAlone(h)'
  BY DEF ApartOn, CallAlone, CallsLeave
<1>4. ArmAlone(h)'
  <2>1. \A c \in Callers : call[c].lead \in Nat
    BY DEF IInv, OtherInv, CallRecords
  <2> QED
    BY <1>1, <2>1
       DEF ApartOn, ArmAlone, Shrinks, TimersLeave, CallsLeave, TodoLeaves, Executing
<1>5. RearmAlone(h)'
  <2>1. \A e \in todo : e[2] \in Nat
    BY DEF IInv, OtherInv
  <2> QED
    BY <1>1, <2>1 DEF ApartOn, RearmAlone, Shrinks, TimersLeave, TodoLeaves
<1>6. NotEarly(h)'
  <2>1. \A t \in Timers : timer[t].left \in Nat
    BY DEF IInv, TimerInv, TimerRecords
  <2> QED
    BY <1>1, <2>1 DEF ApartOn, NotEarly, Shrinks, TimersLeave, CallsLeave
<1> QED BY <1>2, <1>3, <1>4, <1>5, <1>6 DEF ApartOn

(* In particular one that leaves the host alone.                             *)
LEMMA SameApart ==
  ASSUME IInv, NEW h \in Hosts, ApartOn(h), record'[h] = record[h],
         \A t \in Timers : timer'[t].host = h => timer'[t] = timer[t],
         \A c \in Callers : call[c].host = h \/ call'[c].host = h => call'[c] = call[c],
         \A e \in todo' : e[1] = h => e \in todo
  PROVE  ApartOn(h)'
<1>1. record'[h].left \in Nat /\ record'[h].left = record[h].left
  BY DEF IInv, OtherInv
<1>2. Shrinks(h)
  BY <1>1 DEF Shrinks
<1>3. TimersLeave(h) /\ CallsLeave(h) /\ TodoLeaves(h)
  BY DEF TimersLeave, CallsLeave, TodoLeaves
<1> QED BY <1>1, <1>2, <1>3, LeavesApart

(* A disarm frees timers and does nothing else to them.                      *)
LEMMA DisarmsSome ==
  ASSUME IInv, NEW h \in Hosts, NEW tm \in [Timers -> TimerRecords], Disarm(h, tm)
  PROVE  \A u \in Timers :
           \/ timer'[u] = tm[u]
           \/ timer'[u] = IdleTimer /\ tm[u].st = "live"
BY StoppedAt DEF Disarm, IInv, TimerInv

(* A process that has ended has left nothing but the store.                  *)
DownInv ==
  ~up => /\ \A t \in Timers : timer[t] = IdleTimer
         /\ \A c \in Callers : call[c] = IdleCall
         /\ todo = {}

LEMMA StepDown == IInv /\ DownInv /\ [Next]_vars => DownInv'
<1> SUFFICES ASSUME IInv, DownInv, [Next]_vars, ~up' PROVE DownInv'
  BY DEF DownInv
<1>1. CASE Crash
  BY <1>1 DEF Crash, DownInv
<1>2. CASE ~Crash
  <2>1. ~up
    BY <1>2 DEF Next, vars, ScheduleCall, ScheduleAnnounce, CancelCall, CancelAnnounce,
       CallStep, SchedulePut, ScheduleArm, CancelDisarm, CancelDelete, TimerStep, Fire, ExecGet,
       ExecRun, ExecDelete, ExecDisarm, Start, RearmStep, RearmArm, RearmExec, Tick
  <2>2. /\ \A t \in Timers : timer[t] = IdleTimer /\ timer[t].st = "idle"
        /\ \A c \in Callers : call[c] = IdleCall /\ call[c].pc = "idle"
        /\ todo = {}
    BY <2>1 DEF DownInv, IdleTimer, IdleCall
  <2>3. Tick \/ UNCHANGED vars
    BY <1>2, <2>1, <2>2
       DEF Next, ScheduleCall, ScheduleAnnounce, CancelCall, CancelAnnounce, CallStep,
           SchedulePut, ScheduleArm, CancelDisarm, CancelDelete, TimerStep, Fire, ExecGet,
           ExecRun, ExecDelete, ExecDisarm, Start, RearmStep
  <2>4. CASE Tick
    <3>1. [IdleTimer EXCEPT !.left = Less(@)] = IdleTimer
      BY DEF IdleTimer, Less
    <3>2. [IdleCall EXCEPT !.left = Less(@)] = IdleCall
      BY DEF IdleCall, Less
    <3>3. \A t \in Timers : timer'[t] = [timer[t] EXCEPT !.left = Less(@)]
      BY <2>4 DEF Tick
    <3>4. \A c \in Callers : call'[c] = [call[c] EXCEPT !.left = Less(@)]
      BY <2>4 DEF Tick
    <3>5. todo' = {}
      BY <2>2, <2>4 DEF Tick
    <3> QED BY <2>2, <3>1, <3>2, <3>3, <3>4, <3>5 DEF DownInv
  <2>5. CASE UNCHANGED vars
    BY <2>5 DEF vars, DownInv
  <2> QED BY <2>3, <2>4, <2>5
<1> QED BY <1>1, <1>2

(* The parts of CleanInv, step by step.                                      *)
LEMMA StepClean == IInv /\ CleanInv /\ [Next]_vars => CleanInv'
<1> SUFFICES ASSUME IInv, CleanInv, [Next]_vars PROVE CleanInv'
  OBVIOUS
<1>1. IdleTimer.req = None /\ IdleTimer.st = "idle" /\ IdleCall.pc = "idle"
  BY DEF IdleTimer, IdleCall
<1>2. ASSUME NEW c \in Callers, ScheduleCall(c) \/ CancelCall(c) PROVE CleanInv'
  <2>1. /\ UNCHANGED <<record, timer>>
        /\ \A d \in Callers \ {c} : call'[d] = call[d]
        /\ \/ call'[c].pc = "put" /\ call'[c].left <= call'[c].lead
           \/ call'[c].pc = "disarm"
    <3>1. CASE ScheduleCall(c)
      <4>1. PICK h \in Hosts, r \in Requests, n \in Leads : ScheduleAnnounce(c, h, r, n)
        BY <3>1 DEF ScheduleCall
      <4>2. n <= n
        BY LeadsAssumption
      <4> QED BY <4>1, <4>2 DEF ScheduleAnnounce, IInv, OtherInv
    <3>2. CASE CancelCall(c)
      BY <3>2 DEF CancelCall, CancelAnnounce, IInv, OtherInv, IdleCall
    <3> QED BY <1>2, <3>1, <3>2
  <2> QED BY <2>1 DEF CleanInv
<1>3. ASSUME NEW c \in Callers, CallStep(c) PROVE CleanInv'
  <2>1. \A h \in Hosts : record'[h].req = None => record'[h] = NoRecord
    <3>1. CASE SchedulePut(c)
      BY <3>1, NoneAssumption DEF SchedulePut, IInv, OtherInv, CleanInv
    <3>2. CASE CancelDelete(c)
      BY <3>2 DEF CancelDelete, IInv, OtherInv, CleanInv
    <3> QED BY <1>3, <3>1, <3>2 DEF CallStep, ScheduleArm, CancelDisarm, CleanInv
  <2>2. /\ \A d \in Callers \ {c} : call'[d] = call[d]
        /\ call'[c] = IdleCall \/ call'[c].pc \in {"arm", "delete"}
    BY <1>3 DEF CallStep, SchedulePut, ScheduleArm, CancelDisarm, CancelDelete, IInv, OtherInv,
                CallRecords
  <2>3. \A t \in Timers : timer'[t].req # None <=> timer'[t].st \in {"running", "delete"}
    <3>1. CASE ScheduleArm(c)
      <4>1. PICK t \in Timers : Arm(call[c].host, call[c].lead, t)
        BY <3>1 DEF ScheduleArm
      <4>2. call[c].host \in Hosts /\ call[c].lead \in Nat
        BY <3>1 DEF ScheduleArm, IInv, OtherInv, CallRecords
      <4>3. \A u \in Timers \ {t} : timer'[u] = timer[u] \/ timer'[u] = IdleTimer
        BY <4>1, <4>2, StoppedAt DEF Arm, IInv, TimerInv
      <4>4. timer'[t].req = None /\ timer'[t].st = "live"
        BY <4>1, <4>2, StoppedAt DEF Arm, IInv, TimerInv
      <4> QED BY <1>1, <4>3, <4>4 DEF CleanInv
    <3>2. CASE CancelDisarm(c)
      <4>1. call[c].host \in Hosts /\ timer \in [Timers -> TimerRecords]
        BY <3>2 DEF CancelDisarm, IInv, TimerInv, OtherInv
      <4>2. \A u \in Timers : timer'[u] = timer[u] \/ timer'[u] = IdleTimer
        BY <3>2, <4>1, DisarmsSome DEF CancelDisarm
      <4> QED BY <1>1, <4>2 DEF CleanInv
    <3>3. CASE SchedulePut(c) \/ CancelDelete(c)
      BY <3>3 DEF SchedulePut, CancelDelete, CleanInv
    <3> QED BY <1>3, <3>1, <3>2, <3>3 DEF CallStep
  <2> QED BY <1>1, <2>1, <2>2, <2>3 DEF CleanInv
<1>4. ASSUME NEW t \in Timers, TimerStep(t) PROVE CleanInv'
  <2>1. /\ call' = call
        /\ \A h \in Hosts : record'[h] = record[h] \/ record'[h] = NoRecord
    BY <1>4 DEF TimerStep, Fire, ExecGet, ExecRun, ExecDelete, ExecDisarm, IInv, OtherInv
  <2>2. \A u \in Timers : timer'[u].req # None <=> timer'[u].st \in {"running", "delete"}
    <3>1. CASE ExecDisarm(t)
      <4> DEFINE tm == [timer EXCEPT ![t] = IdleTimer]
      <4>1. timer[t].host \in Hosts /\ tm \in [Timers -> TimerRecords]
        BY <3>1, IdleTimerType DEF ExecDisarm, IInv, TimerInv
      <4>2. \A u \in Timers : timer'[u] = tm[u] \/ timer'[u] = IdleTimer
        BY <3>1, <4>1, DisarmsSome DEF ExecDisarm
      <4>3. \A u \in Timers : tm[u] = timer[u] \/ tm[u] = IdleTimer
        BY DEF IInv, TimerInv
      <4> QED BY <1>1, <4>2, <4>3 DEF CleanInv
    <3>2. CASE Fire(t)
      BY <3>2 DEF Fire, CleanInv, IInv, TimerInv, TimerRecords
    <3>3. CASE ExecGet(t)
      BY <3>3 DEF ExecGet, CleanInv, IInv, TimerInv, TimerRecords
    <3>4. CASE ExecRun(t)
      BY <3>4 DEF ExecRun, CleanInv, IInv, TimerInv, TimerRecords
    <3>5. CASE ExecDelete(t)
      BY <3>5 DEF ExecDelete, CleanInv, IInv, TimerInv, TimerRecords
    <3> QED BY <1>4, <3>1, <3>2, <3>3, <3>4, <3>5 DEF TimerStep
  <2> QED BY <2>1, <2>2 DEF CleanInv, NoRecord
<1>5. ASSUME Crash PROVE CleanInv'
  BY <1>1, <1>5 DEF Crash, CleanInv
<1>6. ASSUME Start PROVE CleanInv'
  BY <1>6 DEF Start, CleanInv
<1>7. ASSUME RearmStep PROVE CleanInv'
  <2>1. PICK e \in todo : RearmArm(e) \/ RearmExec(e)
    BY <1>7 DEF RearmStep
  <2>2. e[1] \in Hosts /\ e[2] \in Nat /\ UNCHANGED <<record, call>>
    BY <2>1 DEF RearmArm, RearmExec, IInv, OtherInv
  <2>3. CASE RearmArm(e)
    <3>1. PICK t \in Timers : Arm(e[1], e[2], t)
      BY <2>3 DEF RearmArm
    <3>2. \A u \in Timers \ {t} : timer'[u] = timer[u] \/ timer'[u] = IdleTimer
      BY <2>2, <3>1, StoppedAt DEF Arm, IInv, TimerInv
    <3>3. timer'[t].req = None /\ timer'[t].st = "live"
      BY <2>2, <3>1, StoppedAt DEF Arm, IInv, TimerInv
    <3> QED BY <1>1, <2>2, <3>2, <3>3 DEF CleanInv
  <2>4. CASE RearmExec(e)
    <3>1. PICK t \in Timers :
            timer' = [timer EXCEPT ![t] =
                        [st |-> "fired", host |-> e[1], left |-> 0, req |-> None]]
      BY <2>4 DEF RearmExec
    <3>2. /\ timer'[t].req = None /\ timer'[t].st = "fired"
          /\ \A u \in Timers \ {t} : timer'[u] = timer[u]
      BY <3>1 DEF IInv, TimerInv
    <3> QED BY <2>2, <3>2 DEF CleanInv
  <2> QED BY <2>1, <2>3, <2>4
<1>8. ASSUME Tick PROVE CleanInv'
  <2>1. \A n \in Nat : Less(n) \in Nat /\ Less(n) <= n
    BY DEF Less
  <2>2. [NoRecord EXCEPT !.left = Less(@)] = NoRecord
    BY DEF NoRecord, Less
  <2>3. [IdleCall EXCEPT !.left = Less(@)] = IdleCall
    BY DEF IdleCall, Less
  <2>4. \A h \in Hosts : record'[h] = [record[h] EXCEPT !.left = Less(@)]
    BY <1>8 DEF Tick
  <2>5. \A c \in Callers : call'[c] = [call[c] EXCEPT !.left = Less(@)]
    BY <1>8 DEF Tick
  <2>6. \A h \in Hosts : record'[h].req = record[h].req
    BY <2>4 DEF IInv, OtherInv
  <2>7. \A c \in Callers : /\ call'[c].pc = call[c].pc /\ call'[c].lead = call[c].lead
                           /\ call[c].lead \in Nat /\ call[c].left \in Nat
                           /\ call'[c].left = Less(call[c].left)
    <3> SUFFICES ASSUME NEW c \in Callers
                 PROVE  /\ call'[c].pc = call[c].pc /\ call'[c].lead = call[c].lead
                        /\ call[c].lead \in Nat /\ call[c].left \in Nat
                        /\ call'[c].left = Less(call[c].left)
      OBVIOUS
    <3>1. call[c] \in CallRecords /\ call'[c] = [call[c] EXCEPT !.left = Less(@)]
      BY <2>5 DEF IInv, OtherInv
    <3> QED BY <3>1 DEF CallRecords
  <2>8. \A t \in Timers : timer'[t].req = timer[t].req /\ timer'[t].st = timer[t].st
    BY <1>8 DEF Tick, IInv, TimerInv, TimerRecords
  <2>9. \A h \in Hosts : record'[h].req = None => record'[h] = NoRecord
    BY <2>2, <2>4, <2>6 DEF CleanInv
  <2>10. \A c \in Callers : call'[c].pc = "idle" => call'[c] = IdleCall
    BY <2>3, <2>5, <2>7 DEF CleanInv
  <2>11. \A c \in Callers : call'[c].pc = "put" => call'[c].left <= call'[c].lead
    <3> SUFFICES ASSUME NEW c \in Callers, call'[c].pc = "put"
                 PROVE  call'[c].left <= call'[c].lead
      OBVIOUS
    <3>1. call[c].left <= call[c].lead
      BY <2>7 DEF CleanInv
    <3>2. Less(call[c].left) <= call[c].left /\ Less(call[c].left) \in Nat
      BY <2>1, <2>7
    <3> QED BY <2>7, <3>1, <3>2
  <2>12. \A t \in Timers : timer'[t].req # None <=> timer'[t].st \in {"running", "delete"}
    BY <2>8 DEF CleanInv
  <2> QED BY <2>9, <2>10, <2>11, <2>12 DEF CleanInv
<1>9. CASE UNCHANGED vars
  BY <1>9 DEF vars, CleanInv
<1> QED
  BY <1>2, <1>3, <1>4, <1>5, <1>6, <1>7, <1>8, <1>9 DEF Next

(* A call that begins meets the calls that are at work on its host.          *)
LEMMA AnnounceApart ==
  ASSUME IInv, CleanInv, NEW c \in Callers, ScheduleCall(c) \/ CancelCall(c),
         NEW g \in Hosts, g \notin crossed', g \notin crossed => ApartOn(g)
  PROVE  ApartOn(g)'
<1>1. PICK h \in Hosts :
        /\ UNCHANGED <<record, timer, todo>>
        /\ Meets(h)
        /\ call[c] = IdleCall
        /\ \A d \in Callers \ {c} : call'[d] = call[d]
        /\ call'[c].host = h /\ call'[c].pc \in {"put", "disarm"}
  <2>1. CASE ScheduleCall(c)
    BY <2>1 DEF ScheduleCall, ScheduleAnnounce, IInv, OtherInv
  <2>2. CASE CancelCall(c)
    BY <2>2 DEF CancelCall, CancelAnnounce, IInv, OtherInv, IdleCall
  <2> QED BY <2>1, <2>2
<1>2. ApartOn(g)
  BY <1>1 DEF Meets
<1>3. CASE g # h
  <2>1. call[c].host # g
    BY <1>1, NoneAssumption DEF IdleCall
  <2> QED BY <1>1, <1>2, <1>3, <2>1, SameApart
<1>4. CASE g = h
  <2>1. \A d \in Callers : call[d].host # g
    BY <1>1, <1>4 DEF Meets
  <2>2. CallAlone(g)'
    BY <1>1, <2>1 DEF CallAlone
  <2>3. ArmAlone(g)'
    BY <1>1, <2>1 DEF ArmAlone
  <2>4. NotEarly(g)'
    BY <1>1, <1>2, <2>1 DEF ApartOn, NotEarly
  <2>5. ExecAlone(g)' /\ RearmAlone(g)'
    BY <1>1, <1>2 DEF ApartOn, ExecAlone, RearmAlone, Executing
  <2> QED BY <2>2, <2>3, <2>4, <2>5 DEF ApartOn
<1> QED BY <1>3, <1>4

(* The new record of a host with nobody else at work on it.                  *)
LEMMA PutApart ==
  ASSUME IInv, CleanInv, NEW c \in Callers, SchedulePut(c),
         NEW g \in Hosts, g \notin crossed', g \notin crossed => ApartOn(g)
  PROVE  ApartOn(g)'
<1> DEFINE h == call[c].host
<1>1. /\ UNCHANGED <<timer, todo>> /\ h \in Hosts /\ call[c].pc = "put"
      /\ call[c].left \in Nat /\ call[c].lead \in Nat
      /\ \A d \in Callers \ {c} : call'[d] = call[d]
  BY DEF SchedulePut, IInv, OtherInv, CallRecords
<1>2. CASE UNCHANGED <<record, crossed>> /\ call'[c] = IdleCall
  <2>1. ApartOn(g)
    BY <1>2
  <2>2. Shrinks(g) /\ record'[g].left \in Nat
    BY <1>2 DEF Shrinks, IInv, OtherInv
  <2>3. CallsLeave(g)
    BY <1>1, <1>2, NoneAssumption DEF CallsLeave, IdleCall
  <2>4. TimersLeave(g) /\ TodoLeaves(g)
    BY <1>1 DEF TimersLeave, TodoLeaves
  <2> QED BY <2>1, <2>2, <2>3, <2>4, LeavesApart
<1>3. CASE /\ record' = [record EXCEPT ![h] = [req |-> call[c].req, left |-> call[c].left]]
           /\ call' = [call EXCEPT ![c].pc = "arm"]
           /\ crossed' = IF OthersAt(c, h) THEN crossed \cup {h} ELSE crossed \ {h}
  <2>1. /\ record'[h].left = call[c].left
        /\ \A k \in Hosts \ {h} : record'[k] = record[k]
        /\ call'[c].pc = "arm" /\ call'[c].host = h /\ call'[c].lead = call[c].lead
    BY <1>1, <1>3 DEF IInv, OtherInv, CallRecords
  <2> HIDE DEF h
  <2>2. CASE g # h
    <3>1. ApartOn(g) /\ record'[g] = record[g]
      BY <1>3, <2>1, <2>2
    <3>2. call[c].host # g /\ call'[c].host # g
      BY <2>1, <2>2 DEF h
    <3> QED BY <1>1, <3>1, <3>2, SameApart
  <2>3. CASE g = h
    <3>1. ~OthersAt(c, h)
      BY <1>3, <2>3
    <3>2. /\ \A d \in Callers \ {c} : call[d].host # g
          /\ \A t \in Timers : timer[t].host = g => ~Executing(t)
          /\ \A e \in todo : e[1] # g
      BY <2>3, <3>1 DEF OthersAt
    <3>3. ExecAlone(g)' /\ RearmAlone(g)'
      BY <1>1, <3>2 DEF ExecAlone, RearmAlone, Executing
    <3>4. CallAlone(g)'
      BY <1>1, <3>2 DEF CallAlone
    <3>5. call[c].left <= call[c].lead
      BY <1>1 DEF CleanInv
    <3>6. ArmAlone(g)'
      BY <1>1, <2>1, <2>3, <3>2, <3>5 DEF ArmAlone, Executing
    <3>7. NotEarly(g)'
      BY <2>1, <2>3 DEF NotEarly
    <3> QED BY <3>3, <3>4, <3>6, <3>7 DEF ApartOn
  <2> QED BY <2>2, <2>3
<1> QED BY <1>2, <1>3 DEF SchedulePut, IInv, OtherInv

(* A new timer that is not early, for a host where nothing executes.         *)
LEMMA ArmApart ==
  ASSUME IInv, NEW g \in Hosts, ApartOn(g), NEW n \in Nat, NEW t \in Timers, Arm(g, n, t),
         record' = record, record[g].left <= n,
         \A u \in Timers : timer[u].host = g => ~Executing(u),
         \A c \in Callers : call'[c].host = g =>
           call'[c] = call[c] /\ call[c].pc # "arm",
         \A e \in todo' : e[1] # g
  PROVE  ApartOn(g)'
<1>1. /\ timer'[t] = [st |-> "live", host |-> g, left |-> n, req |-> None]
      /\ \A u \in Timers \ {t} : timer'[u] = timer[u] \/ timer'[u] = IdleTimer
      /\ slot[g] # None /\ timer[slot[g]].st = "live" /\ slot[g] # t =>
           timer'[slot[g]] = IdleTimer
  BY StoppedAt DEF Arm, IInv, TimerInv
<1>2. IdleTimer.host = None /\ IdleTimer.st = "idle" /\ g # None
  BY NoneAssumption DEF IdleTimer
<1>3. \A u \in Timers \ {t} : timer'[u].host # g \/ timer'[u].st # "live"
  <2> SUFFICES ASSUME NEW u \in Timers \ {t}, timer'[u].host = g, timer'[u].st = "live"
               PROVE  FALSE
    OBVIOUS
  <2>1. timer'[u] = timer[u]
    BY <1>1, <1>2
  <2>2. slot[g] = u
    BY <2>1 DEF IInv, TimerInv, NoLeakedTimer
  <2> QED BY <1>1, <1>2, <2>1, <2>2, NoneAssumption
<1>4. \A u \in Timers : timer'[u].host = g =>
        timer'[u].st \notin {"fired", "running", "delete", "disarm"}
  BY <1>1, <1>2 DEF Executing
<1>5. ExecAlone(g)'
  BY <1>4 DEF ExecAlone, Executing
<1>6. CallAlone(g)'
  BY DEF ApartOn, CallAlone
<1>7. ArmAlone(g)' /\ RearmAlone(g)'
  BY DEF ArmAlone, RearmAlone
<1>8. NotEarly(g)'
  BY <1>1, <1>3 DEF NotEarly
<1> QED BY <1>5, <1>6, <1>7, <1>8 DEF ApartOn

(* Elsewhere the arming of a timer changes nothing.                          *)
LEMMA ArmElsewhere ==
  ASSUME IInv, NEW h \in Hosts, NEW n \in Nat, NEW t \in Timers, Arm(h, n, t),
         NEW g \in Hosts \ {h}
  PROVE  \A u \in Timers : timer'[u].host = g => timer'[u] = timer[u]
<1>1. /\ timer'[t].host = h
      /\ \A u \in Timers \ {t} : timer'[u] = timer[u] \/ timer'[u] = IdleTimer
  BY StoppedAt DEF Arm, IInv, TimerInv
<1> QED BY <1>1, NoneAssumption DEF IdleTimer

(* The goroutine of an execution goes on, on its host.                       *)
LEMMA MovesApart ==
  ASSUME IInv, NEW g \in Hosts, ApartOn(g), NEW t \in Timers, timer[t].host = g,
         Executing(t), UNCHANGED <<call, todo>>, Shrinks(g), record'[g].left \in Nat,
         \A u \in Timers \ {t} : timer'[u] = timer[u], timer'[t].host = g,
         timer'[t].st \in {"fired", "running", "delete", "disarm"},
         timer'[t].req # None => record'[g].req \in {timer'[t].req, None}
  PROVE  ApartOn(g)'
<1>1. record[g].left \in Nat /\ record[g].left = 0 /\ record'[g].left = 0
  BY DEF IInv, OtherInv, ApartOn, ExecAlone, Shrinks
<1>2. \A u \in Timers : timer[u].host = g => u = t
  BY DEF ApartOn, ExecAlone
<1>3. ExecAlone(g)'
  BY <1>1, <1>2 DEF ExecAlone
<1>4. CallAlone(g)'
  BY DEF ApartOn, CallAlone
<1>5. ArmAlone(g)'
  BY DEF ApartOn, ArmAlone
<1>6. RearmAlone(g)'
  BY DEF ApartOn, RearmAlone
<1>7. NotEarly(g)'
  BY <1>2 DEF NotEarly
<1> QED BY <1>3, <1>4, <1>5, <1>6, <1>7 DEF ApartOn

(* A timer expires: nothing else is on its host, or a call is about to arm.  *)
LEMMA FireApart ==
  ASSUME IInv, CleanInv, NEW t \in Timers, Fire(t),
         NEW g \in Hosts, g \notin crossed', g \notin crossed => ApartOn(g)
  PROVE  ApartOn(g)'
<1>1. /\ UNCHANGED <<record, call, todo>>
      /\ \A u \in Timers \ {t} : timer'[u] = timer[u]
      /\ timer'[t].host = timer[t].host /\ timer'[t].req = timer[t].req
      /\ timer'[t].st = "fired" /\ timer[t].st = "live" /\ timer[t].left = 0
  BY DEF Fire, IInv, TimerInv, TimerRecords
<1>2. ApartOn(g) /\ record[g].left \in Nat
  BY DEF Fire, IInv, OtherInv
<1>3. CASE timer[t].host # g
  BY <1>1, <1>2, <1>3, SameApart
<1>4. CASE timer[t].host = g
  <2>1. \A c \in Callers : ~(call[c].host = g /\ call[c].pc = "arm")
    BY <1>4 DEF Fire
  <2>2. record[g].left = 0
    BY <1>1, <1>2, <1>4, <2>1 DEF ApartOn, NotEarly
  <2>3. timer[t].req = None
    BY <1>1 DEF CleanInv
  <2>4. \A u \in Timers \ {t} : timer[u].host # g
    <3> SUFFICES ASSUME NEW u \in Timers \ {t}, timer[u].host = g PROVE FALSE
      OBVIOUS
    <3>1. timer[u].st # "idle"
      BY NoneAssumption DEF IInv, TimerInv, IdleTimer
    <3>2. CASE timer[u].st = "live"
      BY <1>1, <1>4, <3>2 DEF IInv, TimerInv, NoLeakedTimer
    <3>3. CASE Executing(u)
      BY <1>2, <1>4, <3>3 DEF ApartOn, ExecAlone
    <3> QED BY <3>1, <3>2, <3>3 DEF Executing, IInv, TimerInv, TimerRecords, TimerStates
  <2>5. ExecAlone(g)'
    BY <1>1, <2>2, <2>3, <2>4 DEF ExecAlone, Executing
  <2>6. CallAlone(g)'
    BY <1>1, <1>2 DEF ApartOn, CallAlone
  <2>7. ArmAlone(g)'
    BY <1>1, <2>1 DEF ArmAlone
  <2>8. RearmAlone(g)'
    BY <1>1, <1>2, <1>4 DEF ApartOn, RearmAlone
  <2>9. NotEarly(g)'
    BY <1>1, <2>4 DEF NotEarly
  <2> QED BY <2>5, <2>6, <2>7, <2>8, <2>9 DEF ApartOn
<1> QED BY <1>3, <1>4

(* Time passes for the record, its timer and its call together.              *)
LEMMA TickApart ==
  ASSUME IInv, Tick, NEW g \in Hosts, ApartOn(g)
  PROVE  ApartOn(g)'
<1>1. \A n \in Nat : Less(n) \in Nat /\ Less(n) <= n
  BY DEF Less
<1>2. \A m, n \in Nat : m <= n => Less(m) <= n /\ Less(m) <= Less(n)
  BY DEF Less
<1>3. Less(0) = 0 /\ todo' = todo
  BY DEF Less, Tick
<1>4. \A u \in Timers : /\ timer'[u].st = timer[u].st /\ timer'[u].host = timer[u].host
                        /\ timer'[u].req = timer[u].req
                        /\ timer'[u].left = Less(timer[u].left) /\ timer[u].left \in Nat
  BY DEF Tick, IInv, TimerInv, TimerRecords
<1>5. /\ record'[g].req = record[g].req
      /\ record'[g].left = Less(record[g].left) /\ record[g].left \in Nat
  BY DEF Tick, IInv, OtherInv
<1>6. \A c \in Callers : /\ call'[c].pc = call[c].pc /\ call'[c].host = call[c].host
                         /\ call'[c].lead = call[c].lead /\ call[c].lead \in Nat
  BY DEF Tick, IInv, OtherInv, CallRecords
<1>7. \A e \in todo : e[2] \in Nat
  BY DEF IInv, OtherInv
<1>8. ExecAlone(g)'
  BY <1>3, <1>4, <1>5 DEF ApartOn, ExecAlone, Executing
<1>9. CallAlone(g)'
  BY <1>6 DEF ApartOn, CallAlone
<1>10. ArmAlone(g)'
  BY <1>2, <1>3, <1>4, <1>5, <1>6 DEF ApartOn, ArmAlone, Executing
<1>11. RearmAlone(g)'
  BY <1>2, <1>3, <1>4, <1>5, <1>7 DEF ApartOn, RearmAlone
<1>12. NotEarly(g)'
  BY <1>2, <1>4, <1>5, <1>6 DEF ApartOn, NotEarly
<1> QED BY <1>8, <1>9, <1>10, <1>11, <1>12 DEF ApartOn

LEMMA StepApart == IInv /\ DownInv /\ ApartInv /\ [Next]_vars => ApartInv'
<1> SUFFICES ASSUME IInv, DownInv, ApartInv, [Next]_vars,
                    NEW g \in Hosts, g \notin crossed'
             PROVE  ApartOn(g)'
  BY StepClean DEF ApartInv
<1>0. CleanInv /\ (g \notin crossed => ApartOn(g)) /\ g # None
  BY NoneAssumption DEF ApartInv
<1>1. ASSUME NEW c \in Callers, ScheduleCall(c) \/ CancelCall(c) PROVE ApartOn(g)'
  BY <1>0, <1>1, AnnounceApart
<1>2. ASSUME NEW c \in Callers, SchedulePut(c) PROVE ApartOn(g)'
  BY <1>0, <1>2, PutApart
<1>3. ASSUME NEW c \in Callers, ScheduleArm(c) PROVE ApartOn(g)'
  <2>1. PICK t \in Timers : Arm(call[c].host, call[c].lead, t)
    BY <1>3 DEF ScheduleArm
  <2>2. PICK h \in Hosts : h = call[c].host
    BY <1>3 DEF ScheduleArm, IInv, OtherInv
  <2>3. /\ call[c].pc = "arm" /\ call[c].lead \in Nat /\ UNCHANGED <<record, todo, crossed>>
        /\ \A d \in Callers \ {c} : call'[d] = call[d]
        /\ call'[c].host = None
    BY <1>3 DEF ScheduleArm, IInv, OtherInv, CallRecords, IdleCall
  <2>4. ApartOn(g)
    BY <1>0, <2>3
  <2>5. CASE g = h
    <3>1. /\ record[g].left <= call[c].lead
          /\ \A u \in Timers : timer[u].host = g => ~Executing(u)
          /\ \A e \in todo' : e[1] # g
      BY <2>2, <2>3, <2>4, <2>5 DEF ApartOn, ArmAlone
    <3>2. \A d \in Callers : call'[d].host = g => call'[d] = call[d] /\ call[d].pc # "arm"
      BY <1>0, <2>2, <2>3, <2>4, <2>5 DEF ApartOn, CallAlone
    <3> QED BY <2>1, <2>2, <2>3, <2>4, <2>5, <3>1, <3>2, ArmApart
  <2>6. CASE g # h
    <3>1. \A u \in Timers : timer'[u].host = g => timer'[u] = timer[u]
      BY <2>1, <2>2, <2>3, <2>6, ArmElsewhere
    <3> QED BY <1>0, <2>2, <2>3, <2>4, <2>6, <3>1, SameApart
  <2> QED BY <2>5, <2>6
<1>4. ASSUME NEW c \in Callers, CancelDisarm(c) PROVE ApartOn(g)'
  <2>1. /\ call[c].host \in Hosts /\ timer \in [Timers -> TimerRecords]
        /\ UNCHANGED <<record, todo, crossed>>
        /\ \A d \in Callers \ {c} : call'[d] = call[d]
        /\ call[c].pc = "disarm" /\ call'[c].pc = "delete" /\ call'[c].host = call[c].host
    BY <1>4 DEF CancelDisarm, IInv, TimerInv, OtherInv, CallRecords
  <2>2. \A u \in Timers : timer'[u] = timer[u] \/ timer'[u] = IdleTimer
    BY <1>4, <2>1, DisarmsSome DEF CancelDisarm
  <2>3. TimersLeave(g) /\ TodoLeaves(g) /\ CallsLeave(g)
    BY <1>0, <2>1, <2>2 DEF TimersLeave, TodoLeaves, CallsLeave, IdleTimer
  <2>4. Shrinks(g) /\ record'[g].left \in Nat
    BY <2>1 DEF Shrinks, IInv, OtherInv
  <2> QED BY <1>0, <2>1, <2>3, <2>4, LeavesApart
<1>5. ASSUME NEW c \in Callers, CancelDelete(c) PROVE ApartOn(g)'
  <2>1. /\ UNCHANGED <<timer, todo, crossed>> /\ call[c].pc = "delete"
        /\ call'[c] = IdleCall /\ \A d \in Callers \ {c} : call'[d] = call[d]
        /\ record'[g] = record[g] \/ record'[g] = NoRecord
    BY <1>5 DEF CancelDelete, IInv, OtherInv
  <2>2. TimersLeave(g) /\ TodoLeaves(g) /\ CallsLeave(g)
    BY <1>0, <2>1 DEF TimersLeave, TodoLeaves, CallsLeave, IdleCall
  <2>3. Shrinks(g) /\ record'[g].left \in Nat
    BY <2>1 DEF Shrinks, IInv, OtherInv, NoRecord
  <2> QED BY <1>0, <2>1, <2>2, <2>3, LeavesApart
<1>6. ASSUME NEW t \in Timers, Fire(t) PROVE ApartOn(g)'
  BY <1>0, <1>6, FireApart
<1>7. ASSUME NEW t \in Timers, ExecGet(t) \/ ExecRun(t) \/ ExecDelete(t) PROVE ApartOn(g)'
  <2> DEFINE h == timer[t].host
  <2>1. /\ UNCHANGED <<call, todo, crossed>> /\ h \in Hosts /\ Executing(t)
        /\ \A u \in Timers \ {t} : timer'[u] = timer[u]
        /\ timer'[t].host = h
        /\ timer'[t].st \in {"fired", "running", "delete", "disarm"}
    BY <1>7 DEF ExecGet, ExecRun, ExecDelete, IInv, TimerInv, TimerRecords, Executing
  <2>2. \A k \in Hosts : record'[k] = record[k] \/ (k = h /\ record'[k] = NoRecord)
    BY <1>7 DEF ExecGet, ExecRun, ExecDelete, IInv, OtherInv
  <2>3. /\ timer[t].req # None \/ ExecGet(t)
        /\ \/ timer'[t].req \in {timer[t].req, None}
           \/ ExecGet(t) /\ timer'[t].req = record[h].req /\ record' = record
    BY <1>7 DEF ExecGet, ExecRun, ExecDelete, IInv, TimerInv, TimerRecords, CleanInv, ApartInv
  <2> HIDE DEF h
  <2>4. CASE g # h
    BY <1>0, <2>1, <2>2, <2>4, SameApart DEF h
  <2>5. CASE g = h
    <3>1. Shrinks(g) /\ record'[g].left \in Nat
      BY <2>2 DEF Shrinks, IInv, OtherInv, NoRecord
    <3>2. timer'[t].req # None => record'[g].req \in {timer'[t].req, None}
      BY <1>0, <2>1, <2>2, <2>3, <2>5 DEF ApartOn, ExecAlone, NoRecord, h
    <3> QED BY <1>0, <2>1, <2>5, <3>1, <3>2, MovesApart DEF h
  <2> QED BY <2>4, <2>5
<1>8. ASSUME NEW t \in Timers, ExecDisarm(t) PROVE ApartOn(g)'
  <2> DEFINE tm == [timer EXCEPT ![t] = IdleTimer]
  <2>1. timer[t].host \in Hosts /\ tm \in [Timers -> TimerRecords]
        /\ UNCHANGED <<record, call, todo, crossed>>
    BY <1>8, IdleTimerType DEF ExecDisarm, IInv, TimerInv
  <2>2. \A u \in Timers : timer'[u] = tm[u] \/ timer'[u] = IdleTimer
    BY <1>8, <2>1, DisarmsSome DEF ExecDisarm
  <2>3. \A u \in Timers : timer'[u] = timer[u] \/ timer'[u] = IdleTimer
    BY <2>1, <2>2 DEF IInv, TimerInv
  <2>4. \A u \in Timers : timer'[u].host = g => timer'[u] = timer[u]
    BY <1>0, <2>3 DEF IdleTimer
  <2> QED BY <1>0, <2>1, <2>4, SameApart
<1>9. ASSUME Crash PROVE ApartOn(g)'
  <2>1. /\ \A t \in Timers : timer'[t] = IdleTimer
        /\ \A c \in Callers : call'[c] = IdleCall
        /\ todo' = {}
    BY <1>9 DEF Crash
  <2> QED
    BY <1>0, <2>1 DEF ApartOn, ExecAlone, CallAlone, ArmAlone, RearmAlone, NotEarly, IdleTimer,
                      IdleCall
<1>10. ASSUME Start PROVE ApartOn(g)'
  <2>1. UNCHANGED <<record, timer, call, crossed>>
    BY <1>10 DEF Start
  <2>2. \A e \in todo' : \E h \in Hosts : e = <<h, record[h].left>> /\ record[h].left \in Nat
    <3>1. \A e \in todo' : \E h \in Hosts : e = <<h, record[h].left>>
      BY <1>10 DEF Start
    <3> QED BY <3>1 DEF IInv, OtherInv
  <2>3. \A t \in Timers : timer[t].host # g
    BY <1>0, <1>10 DEF Start, DownInv, IdleTimer
  <2>4. \A c \in Callers : call[c].host # g
    BY <1>0, <1>10 DEF Start, DownInv, IdleCall
  <2>5. ExecAlone(g)' /\ CallAlone(g)' /\ ArmAlone(g)' /\ NotEarly(g)'
    BY <2>1, <2>3, <2>4 DEF ExecAlone, CallAlone, ArmAlone, NotEarly
  <2>6. RearmAlone(g)'
    BY <2>1, <2>2, <2>3 DEF RearmAlone
  <2> QED BY <2>5, <2>6 DEF ApartOn
<1>11. ASSUME RearmStep PROVE ApartOn(g)'
  <2>1. PICK e \in todo : RearmArm(e) \/ RearmExec(e)
    BY <1>11 DEF RearmStep
  <2>2. PICK h \in Hosts, n \in Nat : h = e[1] /\ n = e[2]
    BY DEF IInv, OtherInv
  <2>3. todo' = todo \ {e} /\ UNCHANGED <<record, call, crossed>>
    BY <2>1 DEF RearmArm, RearmExec
  <2>4. ApartOn(g)
    BY <1>0, <2>3
  <2>5. CASE RearmArm(e)
    <3>1. PICK t \in Timers : Arm(h, n, t)
      BY <2>2, <2>5 DEF RearmArm
    <3>2. CASE g # h
      <4>1. \A u \in Timers : timer'[u].host = g => timer'[u] = timer[u]
        BY <3>1, <3>2, ArmElsewhere
      <4> QED BY <2>3, <2>4, <4>1, SameApart
    <3>3. CASE g = h
      <4>1. /\ record[g].left <= n
            /\ \A u \in Timers : timer[u].host # g
            /\ \A f \in todo' : f[1] # g
            /\ \A c \in Callers : call[c].host = g => call[c].pc # "arm"
        BY <2>2, <2>3, <2>4, <3>3 DEF ApartOn, RearmAlone, ArmAlone
      <4> QED BY <2>3, <2>4, <3>1, <3>3, <4>1, ArmApart
    <3> QED BY <3>2, <3>3
  <2>6. CASE RearmExec(e)
    <3>1. PICK t \in Timers :
            /\ timer[t] = IdleTimer
            /\ timer' = [timer EXCEPT ![t] =
                          [st |-> "fired", host |-> h, left |-> 0, req |-> None]]
      BY <2>2, <2>6 DEF RearmExec
    <3>2. /\ timer'[t].host = h /\ timer'[t].st = "fired" /\ timer'[t].req = None
          /\ \A u \in Timers \ {t} : timer'[u] = timer[u]
      BY <3>1 DEF IInv, TimerInv
    <3>3. CASE g # h
      BY <2>3, <2>4, <3>2, <3>3, SameApart
    <3>4. CASE g = h
      <4>1. /\ record[g].left = 0
            /\ \A u \in Timers : timer[u].host # g
            /\ \A f \in todo' : f[1] # g
            /\ \A c \in Callers : call[c].host = g => call[c].pc # "arm"
        BY <2>2, <2>3, <2>4, <2>6, <3>4
           DEF ApartOn, RearmAlone, ArmAlone, RearmExec, IInv, OtherInv
      <4>2. ExecAlone(g)'
        BY <2>3, <3>2, <4>1 DEF ExecAlone
      <4>3. CallAlone(g)' /\ ArmAlone(g)' /\ RearmAlone(g)'
        BY <2>3, <2>4, <4>1 DEF ApartOn, CallAlone, ArmAlone, RearmAlone
      <4>4. NotEarly(g)'
        BY <3>2, <4>1 DEF NotEarly
      <4> QED BY <4>2, <4>3, <4>4 DEF ApartOn
    <3> QED BY <3>3, <3>4
  <2> QED BY <2>1, <2>5, <2>6
<1>12. ASSUME Tick PROVE ApartOn(g)'
  BY <1>0, <1>12, TickApart DEF Tick
<1>13. CASE UNCHANGED vars
  BY <1>0, <1>13, SameApart DEF vars
<1> QED
  BY <1>1, <1>2, <1>3, <1>4, <1>5, <1>6, <1>7, <1>8, <1>9, <1>10, <1>11, <1>12, <1>13
     DEF Next, CallStep, TimerStep

(* On every host where calls and executions have not met since its request   *)
(* was stored: an execution is alone, nothing expires ahead of the stored    *)
(* deadline, and what runs is what is stored or was withdrawn.               *)
LEMMA ApartHolds == Spec => [](IInv /\ DownInv /\ PutFresh /\ ApartInv)
<1>1. Init => IInv /\ DownInv /\ PutFresh /\ ApartInv
  BY InitIInv, InitApart DEF Init, DownInv, PutFresh, IdleCall
<1>2. IInv /\ DownInv /\ PutFresh /\ ApartInv /\ [Next]_vars
        => (IInv /\ DownInv /\ PutFresh /\ ApartInv)'
  BY StepIInv, StepDown, StepPutFresh, StepApart
<1> QED BY <1>1, <1>2, PTL DEF Spec

-------------------------------------------------------------------------------
(* The variables of Countdown, as the mapping reads them off the store and   *)
(* the timers.                                                               *)
Pending == [h \in Hosts |-> record[h].req]
Left == [h \in Hosts |-> record[h].left]
Running ==
  {<<timer[t].host, timer[t].req>> : t \in {u \in Timers : timer[u].req # None}}

(* Whatever happens to timers that have read no request, nothing else runs.  *)
LEMMA SameRunning ==
  ASSUME \A t \in Timers :
           timer[t].req # None \/ timer'[t].req # None =>
             timer'[t].host = timer[t].host /\ timer'[t].req = timer[t].req
  PROVE  Running' = Running
BY DEF Running

(* A step that no operator sees; calls may meet in it.                       *)
LEMMA Stutters ==
  ASSUME UNCHANGED <<record, persisted, crossed>>, Running' = Running
  PROVE  [Promise!Next]_(Promise!cvars)
BY DEF Promise!cvars, Running

LEMMA Crosses ==
  ASSUME UNCHANGED <<record, persisted>>, Running' = Running,
         NEW h \in Hosts, crossed' = crossed \cup {h}
  PROVE  [Promise!Next]_(Promise!cvars)
<1>1. Promise!Cross(h)
  BY DEF Promise!Cross, Running
<1> QED BY <1>1 DEF Promise!Next

LEMMA InitPromise == Init => Promise!Init
BY NoneAssumption DEF Init, Promise!Init, NoRecord, IdleTimer

(* The record of one host, and what it becomes under the mapping.            *)
LEMMA OneRecord ==
  ASSUME IInv, NEW h \in Hosts, NEW r, NEW n,
         record' = [record EXCEPT ![h] = [req |-> r, left |-> n]]
  PROVE  /\ Pending' = [Pending EXCEPT ![h] = r]
         /\ Left' = [Left EXCEPT ![h] = n]
BY DEF IInv, OtherInv, Pending, Left

(* The store takes a request: Accept.                                        *)
LEMMA PutAccepts ==
  ASSUME IInv, PutFresh, ApartInv, NEW c \in Callers, SchedulePut(c)
  PROVE  [Promise!Next]_(Promise!cvars)
<1>0. PICK h \in Hosts, r \in Requests, n \in Nat :
        h = call[c].host /\ r = call[c].req /\ n = call[c].left
  BY NoneAssumption DEF SchedulePut, IInv, OtherInv, CallRecords
<1>1. r \notin persisted /\ Running' = Running
  BY <1>0 DEF SchedulePut, PutFresh, Running
<1>2. CASE UNCHANGED <<record, persisted, crossed>>
  BY <1>1, <1>2, Stutters
<1>3. CASE /\ record' = [record EXCEPT ![h] = [req |-> r, left |-> n]]
           /\ persisted' = persisted \cup {r}
           /\ crossed' = IF OthersAt(c, h) THEN crossed \cup {h} ELSE crossed \ {h}
  <2>1. /\ Pending' = [Pending EXCEPT ![h] = r]
        /\ Left' = [Left EXCEPT ![h] = n]
    BY <1>3, OneRecord
  <2>2. Left'[h] = n
    BY <2>1 DEF Left
  <2>3. OthersAt(c, h) \/ {run \in Running : run[1] = h} = {}
    <3> SUFFICES ASSUME NEW t \in Timers, timer[t].req # None, timer[t].host = h
                 PROVE  OthersAt(c, h)
      BY DEF Running
    <3>1. timer[t].st \in {"running", "delete"}
      BY DEF ApartInv, CleanInv
    <3> QED BY <3>1 DEF OthersAt, Executing
  <2>4. Promise!Accept(h, r)
    BY <1>1, <1>3, <2>1, <2>2, <2>3
       DEF Promise!Accept, Promise!RunningOn, Pending, Left, Running
  <2> QED BY <2>4 DEF Promise!Next
<1> QED BY <1>0, <1>2, <1>3 DEF SchedulePut

(* The cancel deletes the record: Withdraw.                                  *)
LEMMA CancelWithdraws ==
  ASSUME IInv, NEW c \in Callers, CancelDelete(c)
  PROVE  [Promise!Next]_(Promise!cvars)
<1>1. PICK h \in Hosts : h = call[c].host
  BY DEF CancelDelete, IInv, OtherInv
<1>2. Running' = Running /\ UNCHANGED <<persisted, crossed>>
  BY DEF CancelDelete, Running
<1>3. CASE UNCHANGED record
  BY <1>2, <1>3, Stutters
<1>4. CASE record' = [record EXCEPT ![h] = NoRecord]
  <2>1. /\ Pending' = [Pending EXCEPT ![h] = None]
        /\ Left' = [Left EXCEPT ![h] = 0]
    <3>1. record' = [record EXCEPT ![h] = [req |-> None, left |-> 0]]
      BY <1>4 DEF NoRecord
    <3> QED BY <3>1, OneRecord
  <2>2. Promise!Withdraw(h)
    BY <1>2, <2>1 DEF Promise!Withdraw, Pending, Left, Running
  <2> QED BY <2>2 DEF Promise!Next
<1> QED BY <1>1, <1>3, <1>4 DEF CancelDelete

(* The goroutine of a timer reads the record: Begin.  Where nothing has met, *)
(* its time is up and no other goroutine is on this host.                    *)
LEMMA GetBegins ==
  ASSUME IInv, ApartInv, NEW t \in Timers, ExecGet(t)
  PROVE  [Promise!Next]_(Promise!cvars)
<1>0. PICK h \in Hosts : h = timer[t].host
  BY DEF ExecGet, IInv, TimerInv
<1>1. timer[t].req = None /\ UNCHANGED <<record, persisted, crossed>>
  BY DEF ExecGet, ApartInv, CleanInv
<1>2. CASE timer' = [timer EXCEPT ![t].st = "disarm"]
  <2>1. \A u \in Timers : timer'[u].host = timer[u].host /\ timer'[u].req = timer[u].req
    BY <1>2 DEF IInv, TimerInv, TimerRecords
  <2> QED BY <1>1, <2>1, SameRunning, Stutters
<1>3. CASE /\ record[h].req # None
           /\ timer' = [timer EXCEPT ![t].st = "running", ![t].req = record[h].req]
  <2> DEFINE r == record[h].req
  <2>1. /\ timer'[t].host = h /\ timer'[t].req = r /\ r # None
        /\ \A u \in Timers \ {t} : timer'[u] = timer[u]
    BY <1>0, <1>3 DEF IInv, TimerInv, TimerRecords
  <2> HIDE DEF r
  <2>2. Running' = Running \cup {<<h, r>>}
    BY <1>1, <2>1 DEF Running
  <2>3. h \notin crossed => record[h].left = 0 /\ {run \in Running : run[1] = h} = {}
    <3> SUFFICES ASSUME h \notin crossed
                 PROVE  record[h].left = 0 /\ {run \in Running : run[1] = h} = {}
      OBVIOUS
    <3>1. record[h].left = 0 /\ \A u \in Timers : timer[u].host = h => u = t
      BY <1>0 DEF ExecGet, ApartInv, ApartOn, ExecAlone, Executing
    <3> QED BY <1>1, <3>1 DEF Running
  <2>4. Pending[h] = r /\ Left[h] = record[h].left
    BY DEF Pending, Left, r
  <2>5. Pending' = Pending /\ Left' = Left
    BY <1>1 DEF Pending, Left
  <2>6. Promise!Begin(h)
    BY <1>1, <2>1, <2>2, <2>3, <2>4, <2>5
       DEF Promise!Begin, Promise!RunningOn, Pending, Left, Running
  <2> QED BY <2>6 DEF Promise!Next
<1> QED BY <1>0, <1>2, <1>3 DEF ExecGet

(* The execution ends and clears the record: Finish.                         *)
LEMMA DeleteFinishes ==
  ASSUME IInv, ApartInv, NEW t \in Timers, ExecDelete(t)
  PROVE  [Promise!Next]_(Promise!cvars)
<1>0. PICK h \in Hosts, r \in Requests : h = timer[t].host /\ r = timer[t].req
  BY DEF ExecDelete, IInv, TimerInv, TimerRecords, ApartInv, CleanInv
<1>1. /\ r # None /\ timer'[t].req = None /\ UNCHANGED <<persisted, crossed>>
      /\ \A u \in Timers \ {t} : timer'[u] = timer[u]
  BY <1>0, NoneAssumption DEF ExecDelete, IInv, TimerInv, TimerRecords
<1>2. h \notin crossed => /\ record[h].req \in {r, None}
                          /\ \A u \in Timers \ {t} : timer[u].host # h
  BY <1>0, <1>1 DEF ExecDelete, ApartInv, ApartOn, ExecAlone, Executing
<1>3. CASE UNCHANGED record \/ record' = [record EXCEPT ![h] = NoRecord]
  <2>1. <<h, r>> \in Running
    BY <1>0, <1>1 DEF Running
  <2>2. Running' = Running \ {<<h, r>>} \/ (h \in crossed /\ Running' = Running)
    <3>1. CASE \E u \in Timers \ {t} : timer[u].host = h /\ timer[u].req = r
      BY <1>0, <1>1, <1>2, <3>1 DEF Running
    <3>2. CASE ~\E u \in Timers \ {t} : timer[u].host = h /\ timer[u].req = r
      BY <1>0, <1>1, <3>2 DEF Running
    <3> QED BY <3>1, <3>2
  <2>3. h \notin crossed => Pending[h] \in {r, None}
    BY <1>2 DEF Pending
  <2>4. \/ Pending' = [Pending EXCEPT ![h] = None] /\ Left' = [Left EXCEPT ![h] = 0]
        \/ Pending' = Pending /\ Left' = Left
    <3>1. CASE UNCHANGED record
      BY <3>1 DEF Pending, Left
    <3>2. CASE record' = [record EXCEPT ![h] = NoRecord]
      <4>1. record' = [record EXCEPT ![h] = [req |-> None, left |-> 0]]
        BY <3>2 DEF NoRecord
      <4> QED BY <4>1, OneRecord
    <3> QED BY <1>3, <3>1, <3>2
  <2>5. Promise!Finish(h, r)
    BY <1>1, <2>1, <2>2, <2>3, <2>4 DEF Promise!Finish, Pending, Left, Running
  <2> QED BY <2>5 DEF Promise!Next
<1> QED BY <1>0, <1>3 DEF ExecDelete

(* Time passes: Elapse.                                                      *)
LEMMA TickElapses ==
  ASSUME IInv, Tick
  PROVE  [Promise!Next]_(Promise!cvars)
<1>1. \A h \in Hosts : /\ record'[h].req = record[h].req
                       /\ record'[h].left = Less(record[h].left)
  BY DEF Tick, IInv, OtherInv
<1>2. \A t \in Timers : timer'[t].req = timer[t].req /\ timer'[t].host = timer[t].host
  BY DEF Tick, IInv, TimerInv, TimerRecords
<1>3. Running' = Running
  BY <1>2, SameRunning
<1>4. Pending' = Pending
  BY <1>1 DEF Pending
<1>5. Left' = [h \in Hosts |-> IF Left[h] > 0 THEN Left[h] - 1 ELSE 0]
  BY <1>1 DEF Left, Less
<1>6. Promise!Elapse
  BY <1>3, <1>4, <1>5 DEF Promise!Elapse, Pending, Left, Running, Tick
<1> QED BY <1>6 DEF Promise!Next

(* The process ends: Halt.                                                   *)
LEMMA CrashHalts ==
  ASSUME Crash
  PROVE  [Promise!Next]_(Promise!cvars)
<1>1. Running' = {}
  BY DEF Crash, Running, IdleTimer
<1>2. Promise!Halt
  BY <1>1 DEF Promise!Halt, Crash, Running
<1> QED BY <1>2 DEF Promise!Next

(* An armed timer has read no request, nor has one that it replaces.         *)
LEMMA ArmRuns ==
  ASSUME IInv, CleanInv, NEW h \in Hosts, NEW n \in Nat, NEW t \in Timers, Arm(h, n, t)
  PROVE  Running' = Running
<1>1. /\ timer[t] = IdleTimer /\ timer'[t].req = None
      /\ \A u \in Timers \ {t} :
           timer'[u] = timer[u] \/ (timer'[u] = IdleTimer /\ timer[u].st = "live")
  BY StoppedAt DEF Arm, IInv, TimerInv
<1>2. IdleTimer.req = None
  BY DEF IdleTimer
<1> QED BY <1>1, <1>2, SameRunning DEF CleanInv

(* Each step of the manager is a step of Countdown or none.                  *)
LEMMA StepPromise ==
  IInv /\ PutFresh /\ ApartInv /\ [Next]_vars => [Promise!Next]_(Promise!cvars)
<1> SUFFICES ASSUME IInv, PutFresh, ApartInv, [Next]_vars
             PROVE  [Promise!Next]_(Promise!cvars)
  OBVIOUS
<1>0. CleanInv
  BY DEF ApartInv
<1>1. ASSUME NEW c \in Callers, ScheduleCall(c) \/ CancelCall(c)
      PROVE  [Promise!Next]_(Promise!cvars)
  <2>1. PICK h \in Hosts : UNCHANGED <<record, persisted, timer>> /\ Meets(h)
    BY <1>1 DEF ScheduleCall, ScheduleAnnounce, CancelCall, CancelAnnounce
  <2>2. Running' = Running
    BY <2>1 DEF Running
  <2> QED BY <2>1, <2>2, Stutters, Crosses DEF Meets
<1>2. ASSUME NEW c \in Callers, ScheduleArm(c) PROVE [Promise!Next]_(Promise!cvars)
  <2>1. PICK t \in Timers : Arm(call[c].host, call[c].lead, t)
    BY <1>2 DEF ScheduleArm
  <2>2. call[c].host \in Hosts /\ call[c].lead \in Nat
    BY <1>2 DEF ScheduleArm, IInv, OtherInv, CallRecords
  <2> QED BY <1>0, <1>2, <2>1, <2>2, ArmRuns, Stutters DEF ScheduleArm
<1>3. ASSUME NEW c \in Callers, CancelDisarm(c) PROVE [Promise!Next]_(Promise!cvars)
  <2>1. call[c].host \in Hosts /\ timer \in [Timers -> TimerRecords]
    BY <1>3 DEF CancelDisarm, IInv, TimerInv, OtherInv
  <2>2. \A u \in Timers : timer'[u] = timer[u] \/ (timer'[u] = IdleTimer /\ timer[u].st = "live")
    BY <1>3, <2>1, DisarmsSome DEF CancelDisarm
  <2>3. Running' = Running
    BY <1>0, <2>2, SameRunning DEF CleanInv, IdleTimer
  <2> QED BY <1>3, <2>3, Stutters DEF CancelDisarm
<1>4. ASSUME NEW t \in Timers, Fire(t) PROVE [Promise!Next]_(Promise!cvars)
  <2>1. /\ UNCHANGED <<record, persisted>> /\ timer[t].host \in Hosts
        /\ \/ crossed' = crossed
           \/ crossed' = crossed \cup {timer[t].host}
    BY <1>4 DEF Fire, IInv, TimerInv
  <2>2. \A u \in Timers : timer'[u].host = timer[u].host /\ timer'[u].req = timer[u].req
    BY <1>4 DEF Fire, IInv, TimerInv, TimerRecords
  <2>3. Running' = Running
    BY <2>2, SameRunning
  <2> QED BY <2>1, <2>3, Stutters, Crosses
<1>5. ASSUME NEW t \in Timers, ExecRun(t) PROVE [Promise!Next]_(Promise!cvars)
  <2>1. \A u \in Timers : timer'[u].host = timer[u].host /\ timer'[u].req = timer[u].req
    BY <1>5 DEF ExecRun, IInv, TimerInv, TimerRecords
  <2> QED BY <1>5, <2>1, SameRunning, Stutters DEF ExecRun
<1>6. ASSUME NEW t \in Timers, ExecDisarm(t) PROVE [Promise!Next]_(Promise!cvars)
  <2> DEFINE tm == [timer EXCEPT ![t] = IdleTimer]
  <2>1. timer[t].host \in Hosts /\ tm \in [Timers -> TimerRecords] /\ timer[t].req = None
    BY <1>0, <1>6, IdleTimerType DEF ExecDisarm, IInv, TimerInv, CleanInv
  <2>2. \A u \in Timers : timer'[u] = tm[u] \/ (timer'[u] = IdleTimer /\ tm[u].st = "live")
    BY <1>6, <2>1, DisarmsSome DEF ExecDisarm
  <2>3. \A u \in Timers : timer'[u] = timer[u] \/ (timer'[u] = IdleTimer /\ timer[u].req = None)
    BY <1>0, <2>1, <2>2 DEF CleanInv, IInv, TimerInv
  <2>4. Running' = Running
    BY <2>3, SameRunning DEF IdleTimer
  <2> QED BY <1>6, <2>4, Stutters DEF ExecDisarm
<1>7. ASSUME Start PROVE [Promise!Next]_(Promise!cvars)
  BY <1>7, Stutters DEF Start, Running
<1>8. ASSUME RearmStep PROVE [Promise!Next]_(Promise!cvars)
  <2>1. PICK e \in todo : RearmArm(e) \/ RearmExec(e)
    BY <1>8 DEF RearmStep
  <2>2. UNCHANGED <<record, persisted, crossed>> /\ e[1] \in Hosts /\ e[2] \in Nat
    BY <2>1 DEF RearmArm, RearmExec, IInv, OtherInv
  <2>3. Running' = Running
    <3>1. CASE RearmArm(e)
      BY <1>0, <2>2, <3>1, ArmRuns DEF RearmArm
    <3>2. CASE RearmExec(e)
      <4>1. \A u \in Timers : timer'[u] = timer[u] \/ (timer[u].req = None /\ timer'[u].req = None)
        BY <3>2 DEF RearmExec, IInv, TimerInv, IdleTimer
      <4> QED BY <4>1, SameRunning
    <3> QED BY <2>1, <3>1, <3>2
  <2> QED BY <2>2, <2>3, Stutters
<1>9. CASE UNCHANGED vars
  BY <1>9, Stutters DEF vars, Running
<1> QED
  BY <1>1, <1>2, <1>3, <1>4, <1>5, <1>6, <1>7, <1>8, <1>9, PutAccepts, CancelWithdraws,
     GetBegins, DeleteFinishes, TickElapses, CrashHalts
     DEF Next, CallStep, TimerStep

(* The countdown service of pkg/domain/schedule keeps its promise whatever   *)
(* operators call and whenever the process ends: a request is accepted once, *)
(* what is begun is the host's pending request, and where calls and          *)
(* executions have not met since it was accepted it begins when its time is  *)
(* up and never before, by one execution at a time, and finishing it         *)
(* discards no other.                                                        *)
THEOREM PromiseKept == Spec => KeepsPromise
<1>1. IInv /\ PutFresh /\ ApartInv /\ [Next]_vars => [Promise!Next]_(Promise!cvars)
  BY StepPromise
<1> QED BY <1>1, InitPromise, ApartHolds, PTL DEF Spec, KeepsPromise, Promise!Spec

=============================================================================
