--------------------------- MODULE LifecycleProofs ---------------------------
(* Proofs about Lifecycle for any calls and servers, and any number of       *)
(* faults and crashes.                                                       *)
EXTENDS Lifecycle, TLAPS

(* The shape of the variables, which the updates of the actions rely on.     *)
Fields == {"verb", "pc", "announced", "interrupted", "alone", "steady", "excused", "seen"}

ShapeInv ==
  /\ DOMAIN cr = {"stop", "tag"} /\ DOMAIN cr.tag = Servers
  /\ DOMAIN pod = Servers /\ \A s \in Servers : DOMAIN pod[s] = {"st", "image"}
  /\ DOMAIN report = Servers
  /\ DOMAIN call = Calls /\ \A c \in Calls : DOMAIN call[c] = Fields

(* The verb of a call decides which round trips it makes.                    *)
VerbInv ==
  \A c \in Calls :
    /\ call[c].pc = "idle" => call[c].verb = "none"
    /\ call[c].pc \notin {"idle", "ok", "error"} => call[c].verb \in Verbs
    /\ call[c].pc = "stop" => call[c].verb \in {"stop", "restart", "upgrade"}
    /\ call[c].pc \in {"vendor_stop", "phase", "pods"} => call[c].verb = "pre-shutdown"
    /\ call[c].pc \in {"gate_stopped", "gate_ready"} => call[c].verb = "upgrade"
    /\ call[c].pc = "start" => call[c].verb \in {"start", "restart", "upgrade"}
    /\ call[c].pc \in {"get", "retag"} => call[c].verb \in {"update", "upgrade"}
    /\ call[c].pc \in {"vendor_update", "vendor_defaults", "vendor_restart", "vendor_start"} =>
         call[c].verb = "vendor-update"
    /\ call[c].pc \in {"list", "delete"} => call[c].verb = "heal"

USE DEF ShapeInv, Fields

LEMMA InitShape == Init => ShapeInv /\ VerbInv
BY DEF Init, Idle, VerbInv

(* What listing the pods does to its call, and to no other.                  *)
LEMMA ListPodsCall ==
  ASSUME ShapeInv, NEW c \in Calls, ListPods(c)
  PROVE  /\ DOMAIN call' = Calls /\ \A d \in Calls : DOMAIN call'[d] = Fields
         /\ \A d \in Calls : d # c => call'[d] = call[d]
         /\ call'[c].verb = call[c].verb /\ call'[c].pc \in {"ok", "error", "delete"}
         /\ call'[c].announced = call[c].announced /\ call'[c].alone = call[c].alone
<1>1. CASE Breaks(c) /\ Fail(c)
  BY <1>1 DEF Fail
<1>2. ASSUME NEW stuck,
             call' = [call EXCEPT ![c].seen = stuck,
                                  ![c].pc = IF stuck = {} THEN "ok" ELSE "delete"]
      PROVE  /\ DOMAIN call' = Calls /\ \A d \in Calls : DOMAIN call'[d] = Fields
             /\ \A d \in Calls : d # c => call'[d] = call[d]
             /\ call'[c].verb = call[c].verb /\ call'[c].pc \in {"ok", "error", "delete"}
             /\ call'[c].announced = call[c].announced /\ call'[c].alone = call[c].alone
  <2>1. CASE stuck = {}
    BY <1>2, <2>1
  <2>2. CASE stuck # {}
    BY <1>2, <2>2
  <2> QED BY <2>1, <2>2
<1> QED
  BY <1>1, <1>2 DEF ListPods

(* A call that begins is met by every other.                                 *)
LEMMA CallMeets ==
  ASSUME ShapeInv, NEW c \in Calls, NEW verb \in Verbs, NEW announced \in BOOLEAN,
         Call(c, verb, announced), NEW d \in Calls, d # c
  PROVE  ~call'[d].alone
BY DEF Call

(* A server that comes back unsettles a call that is past its stop.          *)
LEMMA UnsettleCalls ==
  ASSUME ShapeInv, Unsettle, NEW c \in Calls
  PROVE  /\ call'[c].verb = call[c].verb /\ call'[c].pc = call[c].pc
         /\ call'[c].alone = call[c].alone /\ call'[c].seen = call[c].seen
         /\ call'[c].steady => call[c].steady /\ call[c].pc \notin {"gate_stopped", "get", "retag"}
<1>1. call'[c] = [call[c] EXCEPT !.steady = @ /\ call[c].pc \notin {"gate_stopped", "get", "retag"}]
  BY DEF Unsettle
<1>2. call'[c].steady = (call[c].steady /\ call[c].pc \notin {"gate_stopped", "get", "retag"})
  BY <1>1
<1> QED
  BY <1>1, <1>2

LEMMA StepShape == ShapeInv /\ VerbInv /\ [Next]_vars => ShapeInv' /\ VerbInv'
<1> SUFFICES ASSUME ShapeInv, VerbInv, [Next]_vars PROVE ShapeInv' /\ VerbInv'
  OBVIOUS
<1> USE DEF VerbInv, Verbs, Cluster, At, Go, Works, Breaks, Fail, Return, Patch
<1>1. ASSUME NEW c \in Calls, PublishShutdownAnnounce(c) PROVE ShapeInv' /\ VerbInv'
  BY <1>1 DEF PublishShutdownAnnounce
<1>2. ASSUME NEW c \in Calls, Announce(c) PROVE ShapeInv' /\ VerbInv'
  BY <1>2 DEF Announce, Body
<1>3. ASSUME NEW c \in Calls, Interrupt(c) PROVE ShapeInv' /\ VerbInv'
  BY <1>3 DEF Interrupt, Active, Ended
<1>4. ASSUME NEW c \in Calls, Stop(c) PROVE ShapeInv' /\ VerbInv'
  BY <1>4 DEF Stop, AfterStop
<1>5. ASSUME NEW c \in Calls, Start(c) PROVE ShapeInv' /\ VerbInv'
  BY <1>5 DEF Start, AfterStart
<1>6. ASSUME NEW c \in Calls, WaitForPhase(c) PROVE ShapeInv' /\ VerbInv'
  BY <1>6 DEF WaitForPhase
<1>7. ASSUME NEW c \in Calls, UpdateGet(c) PROVE ShapeInv' /\ VerbInv'
  BY <1>7 DEF UpdateGet, AfterUpdate
<1>8. ASSUME NEW c \in Calls, Update(c) PROVE ShapeInv' /\ VerbInv'
  BY <1>8 DEF Update, Retagged, AfterUpdate
<1>9. ASSUME NEW c \in Calls, PreShutdownStop(c) PROVE ShapeInv' /\ VerbInv'
  BY <1>9 DEF PreShutdownStop
<1>10. ASSUME NEW c \in Calls, PreShutdownPhase(c) PROVE ShapeInv' /\ VerbInv'
  BY <1>10 DEF PreShutdownPhase
<1>11. ASSUME NEW c \in Calls, PreShutdownPods(c) PROVE ShapeInv' /\ VerbInv'
  BY <1>11 DEF PreShutdownPods
<1>12. ASSUME NEW c \in Calls, VendorUpdate(c) PROVE ShapeInv' /\ VerbInv'
  BY <1>12 DEF VendorUpdate
<1>13. ASSUME NEW c \in Calls, VendorDefaults(c) PROVE ShapeInv' /\ VerbInv'
  BY <1>13 DEF VendorDefaults
<1>14. ASSUME NEW c \in Calls, VendorRestart(c) PROVE ShapeInv' /\ VerbInv'
  BY <1>14 DEF VendorRestart
<1>21. ASSUME NEW c \in Calls, VendorStart(c) PROVE ShapeInv' /\ VerbInv'
  BY <1>21 DEF VendorStart
<1>15. ASSUME NEW c \in Calls, ListPods(c) PROVE ShapeInv' /\ VerbInv'
  <2>1. /\ DOMAIN call' = Calls /\ \A d \in Calls : DOMAIN call'[d] = Fields
        /\ \A d \in Calls : d # c => call'[d] = call[d]
        /\ call'[c].verb = call[c].verb /\ call'[c].pc \in {"ok", "error", "delete"}
    BY <1>15, ListPodsCall
  <2>2. UNCHANGED <<cr, pod, report>>
    BY <1>15 DEF ListPods
  <2>3. VerbInv'
    BY <1>15, <2>1 DEF ListPods
  <2> QED BY <2>1, <2>2, <2>3
<1>16. ASSUME NEW c \in Calls, HealStuckPods(c) PROVE ShapeInv' /\ VerbInv'
  BY <1>16 DEF HealStuckPods
<1>17. ASSUME NEW c \in Calls, NEW verb \in Verbs, NEW announced \in BOOLEAN,
              Call(c, verb, announced)
       PROVE  ShapeInv' /\ VerbInv'
  <2>1. /\ DOMAIN call' = Calls /\ DOMAIN call'[c] = Fields
        /\ call'[c].verb = verb
        /\ call'[c].pc = IF announced THEN "publish" ELSE Body(verb)
    BY <1>17 DEF Call, Idle
  <2>2. \A d \in Calls : d # c => /\ DOMAIN call'[d] = Fields
                                  /\ call'[d].verb = call[d].verb /\ call'[d].pc = call[d].pc
    BY <1>17 DEF Call
  <2>3. UNCHANGED <<cr, pod, report>>
    BY <1>17 DEF Call
  <2>4. VerbInv'
    BY <2>1, <2>2 DEF Body
  <2> QED BY <2>1, <2>2, <2>3, <2>4
<1>18. ASSUME Operator PROVE ShapeInv' /\ VerbInv'
  BY <1>18 DEF Operator, StartServer, BecomeReady, StopServer, Crash, Report, ReportPhase, Unsettle
<1>19. CASE UNCHANGED vars
  BY <1>19 DEF vars
<1>20. ASSUME NEW c \in Calls, Step(c) PROVE ShapeInv' /\ VerbInv'
  BY <1>1, <1>2, <1>3, <1>4, <1>5, <1>6, <1>7, <1>8, <1>9, <1>10, <1>11, <1>12,
     <1>13, <1>14, <1>15, <1>16, <1>20, <1>21 DEF Step
<1> QED
  BY <1>17, <1>18, <1>19, <1>20 DEF Next

LEMMA Shape == Spec => [](ShapeInv /\ VerbInv)
BY InitShape, StepShape, PTL DEF Spec

-----------------------------------------------------------------------------
(* A call that was to leave the group stopped, that failed on the way, or    *)
(* that has stopped it and will start it again.                              *)
Answers(c) ==
  \/ call[c].verb \in {"stop", "pre-shutdown"}
  \/ call[c].verb \in {"restart", "upgrade"} /\ call[c].pc \in {"start", "error"}
  \/ call[c].verb = "upgrade" /\ call[c].pc \in {"gate_stopped", "get", "retag"}
  \/ call[c].verb = "vendor-update" /\ call[c].pc \in {"vendor_start", "error"}

StopInv == cr.stop => \E c \in Calls : Answers(c)

LEMMA StepStop == ShapeInv /\ VerbInv /\ StopInv /\ [Next]_vars => StopInv'
<1> SUFFICES ASSUME ShapeInv, VerbInv, StopInv, [Next]_vars PROVE StopInv'
  OBVIOUS
<1> USE DEF StopInv, Answers, VerbInv, Verbs, Cluster, At, Go, Works, Breaks, Fail, Return, Patch
<1>1. ASSUME NEW c \in Calls, PublishShutdownAnnounce(c) PROVE StopInv'
  BY <1>1 DEF PublishShutdownAnnounce
<1>2. ASSUME NEW c \in Calls, Announce(c) PROVE StopInv'
  BY <1>2 DEF Announce, Body
<1>3. ASSUME NEW c \in Calls, Interrupt(c) PROVE StopInv'
  BY <1>3 DEF Interrupt, Active, Ended
<1>4. ASSUME NEW c \in Calls, Stop(c) PROVE StopInv'
  BY <1>4 DEF Stop, AfterStop
<1>5. ASSUME NEW c \in Calls, Start(c) PROVE StopInv'
  BY <1>5 DEF Start, AfterStart
<1>6. ASSUME NEW c \in Calls, WaitForPhase(c) PROVE StopInv'
  BY <1>6 DEF WaitForPhase
<1>7. ASSUME NEW c \in Calls, UpdateGet(c) PROVE StopInv'
  BY <1>7 DEF UpdateGet, AfterUpdate
<1>8. ASSUME NEW c \in Calls, Update(c) PROVE StopInv'
  BY <1>8 DEF Update, Retagged, AfterUpdate
<1>9. ASSUME NEW c \in Calls, PreShutdownStop(c) PROVE StopInv'
  BY <1>9 DEF PreShutdownStop
<1>10. ASSUME NEW c \in Calls, PreShutdownPhase(c) PROVE StopInv'
  BY <1>10 DEF PreShutdownPhase
<1>11. ASSUME NEW c \in Calls, PreShutdownPods(c) PROVE StopInv'
  BY <1>11 DEF PreShutdownPods
<1>12. ASSUME NEW c \in Calls, VendorUpdate(c) PROVE StopInv'
  BY <1>12 DEF VendorUpdate
<1>13. ASSUME NEW c \in Calls, VendorDefaults(c) PROVE StopInv'
  BY <1>13 DEF VendorDefaults
<1>14. ASSUME NEW c \in Calls, VendorRestart(c) PROVE StopInv'
  BY <1>14 DEF VendorRestart
<1>21. ASSUME NEW c \in Calls, VendorStart(c) PROVE StopInv'
  BY <1>21 DEF VendorStart
<1>15. ASSUME NEW c \in Calls, ListPods(c) PROVE StopInv'
  <2>1. /\ DOMAIN call' = Calls /\ \A d \in Calls : DOMAIN call'[d] = Fields
        /\ \A d \in Calls : d # c => call'[d] = call[d]
        /\ call'[c].verb = call[c].verb /\ call'[c].pc \in {"ok", "error", "delete"}
    BY <1>15, ListPodsCall
  <2>2. UNCHANGED <<cr, pod, report>>
    BY <1>15 DEF ListPods
  <2>3. \A d \in Calls : Answers(d) => Answers(d)'
    BY <1>15, <2>1 DEF ListPods
  <2> QED BY <2>2, <2>3
<1>16. ASSUME NEW c \in Calls, HealStuckPods(c) PROVE StopInv'
  BY <1>16 DEF HealStuckPods
<1>17. ASSUME NEW c \in Calls, NEW verb \in Verbs, NEW announced \in BOOLEAN,
              Call(c, verb, announced)
       PROVE  StopInv'
  <2>1. /\ DOMAIN call' = Calls /\ DOMAIN call'[c] = Fields
        /\ call'[c].verb = verb
        /\ call'[c].pc = IF announced THEN "publish" ELSE Body(verb)
    BY <1>17 DEF Call, Idle
  <2>2. \A d \in Calls : d # c => /\ DOMAIN call'[d] = Fields
                                  /\ call'[d].verb = call[d].verb /\ call'[d].pc = call[d].pc
    BY ZenonT(60), <1>17 DEF Call
  <2>3. UNCHANGED <<cr, pod, report>>
    BY <1>17 DEF Call
  <2>4. \A d \in Calls : Answers(d) => Answers(d)'
    BY ZenonT(60), <1>17, <2>1, <2>2 DEF Call
  <2> QED BY <2>3, <2>4
<1>18. ASSUME Operator PROVE StopInv'
  BY <1>18 DEF Operator, StartServer, BecomeReady, StopServer, Crash, Report, ReportPhase, Unsettle
<1>19. CASE UNCHANGED vars
  BY <1>19 DEF vars
<1>20. ASSUME NEW c \in Calls, Step(c) PROVE StopInv'
  BY <1>1, <1>2, <1>3, <1>4, <1>5, <1>6, <1>7, <1>8, <1>9, <1>10, <1>11, <1>12,
     <1>13, <1>14, <1>15, <1>16, <1>20, <1>21 DEF Step
<1> QED
  BY <1>17, <1>18, <1>19, <1>20 DEF Next

(* However restarts, upgrades and stops overlap and fail, a group that is    *)
(* told to stop when all calls are over was meant to be, or a call failed    *)
(* between its stop and its start, the vendor's restart among them.          *)
THEOREM StopIsAlwaysAsked == Spec => []StopIsAsked
<1>1. Init => StopInv
  BY DEF Init, StopInv
<1>2. StopInv => StopIsAsked
  BY DEF StopInv, Answers, StopIsAsked, Active, Ended, At
<1> QED
  BY <1>1, <1>2, Shape, StepStop, PTL DEF Spec
-----------------------------------------------------------------------------
(* A step of a call is one of a running call, it leaves all others alone and *)
(* some of its own fields.                                                   *)
Framed(c) ==
  /\ Active(c)
  /\ \A d \in Calls : d # c => call'[d] = call[d]
  /\ call'[c].verb = call[c].verb
  /\ call'[c].announced = call[c].announced
  /\ call'[c].alone = call[c].alone

LEMMA StepFrames == ASSUME ShapeInv, NEW c \in Calls, Step(c) PROVE Framed(c)
<1> USE DEF Framed, Active, Ended, At, Go, Works, Breaks, Fail, Return, Patch
<1>1. ASSUME PublishShutdownAnnounce(c) PROVE Framed(c)
  BY <1>1 DEF PublishShutdownAnnounce
<1>2. ASSUME Announce(c) PROVE Framed(c)
  BY <1>2 DEF Announce
<1>3. ASSUME Interrupt(c) PROVE Framed(c)
  BY <1>3 DEF Interrupt
<1>4. ASSUME Stop(c) PROVE Framed(c)
  BY <1>4 DEF Stop
<1>5. ASSUME Start(c) PROVE Framed(c)
  BY <1>5 DEF Start
<1>6. ASSUME WaitForPhase(c) PROVE Framed(c)
  BY <1>6 DEF WaitForPhase
<1>7. ASSUME UpdateGet(c) PROVE Framed(c)
  BY <1>7 DEF UpdateGet
<1>8. ASSUME Update(c) PROVE Framed(c)
  BY <1>8 DEF Update
<1>9. ASSUME PreShutdownStop(c) PROVE Framed(c)
  BY <1>9 DEF PreShutdownStop
<1>10. ASSUME PreShutdownPhase(c) PROVE Framed(c)
  BY <1>10 DEF PreShutdownPhase
<1>11. ASSUME PreShutdownPods(c) PROVE Framed(c)
  BY <1>11 DEF PreShutdownPods
<1>12. ASSUME VendorUpdate(c) PROVE Framed(c)
  BY <1>12 DEF VendorUpdate
<1>13. ASSUME VendorDefaults(c) PROVE Framed(c)
  BY <1>13 DEF VendorDefaults
<1>14. ASSUME VendorRestart(c) PROVE Framed(c)
  BY <1>14 DEF VendorRestart
<1>17. ASSUME VendorStart(c) PROVE Framed(c)
  BY <1>17 DEF VendorStart
<1>15. ASSUME ListPods(c) PROVE Framed(c)
  BY <1>15, ListPodsCall DEF ListPods
<1>16. ASSUME HealStuckPods(c) PROVE Framed(c)
  BY <1>16 DEF HealStuckPods
<1> QED
  BY <1>1, <1>2, <1>3, <1>4, <1>5, <1>6, <1>7, <1>8, <1>9, <1>10, <1>11, <1>12, <1>13, <1>14, <1>15, <1>16, <1>17 DEF Step

(* While a call is alone no other runs.                                      *)
AloneInv ==
  \A c \in Calls : call[c].alone => \A d \in Calls : d # c => ~Active(d)

LEMMA StepAlone == ShapeInv /\ AloneInv /\ [Next]_vars => AloneInv'
<1> SUFFICES ASSUME ShapeInv, AloneInv, [Next]_vars PROVE AloneInv'
  OBVIOUS
<1> USE DEF AloneInv, Active, Ended
<1>1. ASSUME NEW c \in Calls, Step(c) PROVE AloneInv'
  <2>1. Framed(c)
    BY <1>1, StepFrames
  <2> QED BY <2>1 DEF Framed
<1>2. ASSUME NEW c \in Calls, NEW verb \in Verbs, NEW announced \in BOOLEAN,
             Call(c, verb, announced)
      PROVE  AloneInv'
  <2>1. call'[c].alone => \A d \in Calls : d # c => ~Active(d)
    BY <1>2 DEF Call, Idle
  <2>2. \A d \in Calls : d # c => ~call'[d].alone /\ call'[d].pc = call[d].pc
    BY <1>2 DEF Call
  <2> QED BY <2>1, <2>2
<1>3. ASSUME Operator PROVE AloneInv'
  BY <1>3 DEF Operator, StartServer, BecomeReady, StopServer, Crash, Report, ReportPhase, Unsettle
<1>4. CASE UNCHANGED vars
  BY <1>4 DEF vars
<1> QED
  BY <1>1, <1>2, <1>3, <1>4 DEF Next

LEMMA Alone == Spec => []AloneInv
<1>1. Init => AloneInv
  BY DEF Init, Idle, AloneInv
<1> QED
  BY <1>1, Shape, StepAlone, PTL DEF Spec
-----------------------------------------------------------------------------
(* What the players are told, of one call.                                   *)
Told(c) ==
  call[c].announced /\ call[c].alone /\ ~call[c].excused =>
    /\ Active(c) /\ call[c].pc # "publish" => board = "countdown"
    /\ call[c].pc = "error" /\ ~call[c].interrupted => board # "countdown"

ToldInv == \A c \in Calls : Told(c)

(* A failed action takes its countdown back.                                 *)
LEMMA FailTold == ASSUME ShapeInv, NEW c \in Calls, Fail(c), Framed(c) PROVE Told(c)'
<1>1. PICK lost \in BOOLEAN :
        /\ board' = IF call[c].announced /\ ~call[c].interrupted /\ ~lost
                    THEN "cancelled" ELSE board
        /\ call' = [call EXCEPT ![c].pc = "error", ![c].excused = @ \/ lost]
  BY DEF Fail, ShutdownCancelPayload
<1>2. call'[c].pc = "error" /\ (~call'[c].excused => ~lost)
      /\ call'[c].interrupted = call[c].interrupted
  BY <1>1
<1> QED
  BY <1>1, <1>2 DEF Framed, Told, Active, Ended

LEMMA StepTold == ShapeInv /\ VerbInv /\ AloneInv /\ ToldInv /\ [Next]_vars => ToldInv'
<1> SUFFICES ASSUME ShapeInv, VerbInv, AloneInv, ToldInv, [Next]_vars, NEW e \in Calls
             PROVE  Told(e)'
  BY DEF ToldInv
<1> USE DEF ToldInv
<1> USE DEF Told, Active, Ended, Cluster, At, Go, Works, Breaks, Fail, Return, Patch,
            ShutdownAnnouncePayload, ShutdownCancelPayload
<1>1. ASSUME NEW c \in Calls, Step(c) PROVE Told(e)'
  <2>0. Framed(c)
    BY <1>1, StepFrames
  <2>17. CASE e # c
    BY <2>0, <2>17 DEF Framed, AloneInv
  <2>18. CASE e = c
    <3>1. ASSUME PublishShutdownAnnounce(c) PROVE Told(c)'
      <4>1. call'[c].pc = "wait" \/ call'[c].pc = "error"
        BY <3>1 DEF PublishShutdownAnnounce
      <4>2. CASE call'[c].pc = "wait"
        <5>1. call' = [call EXCEPT ![c].pc = "wait", ![c].excused = board' # "countdown"]
          BY <3>1, <4>2 DEF PublishShutdownAnnounce
        <5>2. ~call'[c].excused => board' = "countdown"
          BY <5>1
        <5> QED BY <4>2, <5>2
      <4>3. CASE call'[c].pc = "error"
        <5>1. call' = [call EXCEPT ![c].pc = "error", ![c].excused = board' = "countdown"]
          BY <3>1, <4>3 DEF PublishShutdownAnnounce
        <5>2. ~call'[c].excused => board' # "countdown"
          BY <5>1
        <5> QED BY <4>3, <5>2
      <4> QED BY <4>1, <4>2, <4>3
    <3>2. ASSUME Announce(c) PROVE Told(c)'
      <4>1. CASE Works(c) /\ Go(c, Body(call[c].verb)) /\ UNCHANGED board
        <5>1. Body(call[c].verb) # "error"
          BY <3>2 DEF Announce, Body, VerbInv, Verbs
        <5>2. call[c].announced' = call[c].announced /\ call[c].alone' = call[c].alone
              /\ call[c].excused' = call[c].excused /\ call'[c].pc # "error"
          BY <4>1, <5>1
        <5> QED BY <3>2, <4>1, <5>2 DEF Announce
      <4>2. CASE call[c].interrupted /\ Fail(c)
        <5>1. call'[c].pc = "error" /\ call'[c].interrupted
          BY <4>2
        <5> QED BY <5>1
      <4> QED BY <3>2, <4>1, <4>2 DEF Announce
    <3>3. ASSUME Interrupt(c) PROVE Told(c)'
      BY <3>3, <2>0 DEF Interrupt, Framed
    <3>4. ASSUME Stop(c) PROVE Told(c)'
      <4>1. CASE Breaks(c) /\ Fail(c)
        BY <4>1, <2>0, FailTold
      <4>2. CASE call' = [call EXCEPT ![c].pc = AfterStop(call[c].verb), ![c].steady = Settled]
                 /\ UNCHANGED board
        <5>1. AfterStop(call[c].verb) # "error"
          BY <3>4 DEF Stop, AfterStop, VerbInv
        <5>2. call'[c].excused = call[c].excused /\ call'[c].pc # "error"
          BY <4>2, <5>1
        <5> QED BY <3>4, <4>2, <5>2, <2>0 DEF Stop, Framed
      <4> QED BY <3>4, <4>1, <4>2 DEF Stop
    <3>5. ASSUME Start(c) PROVE Told(c)'
      BY <3>5, <2>0 DEF Start, Framed, AfterStart
    <3>6. ASSUME WaitForPhase(c) PROVE Told(c)'
      BY <3>6, <2>0 DEF WaitForPhase, Framed
    <3>7. ASSUME UpdateGet(c) PROVE Told(c)'
      BY <3>7, <2>0 DEF UpdateGet, Framed, AfterUpdate
    <3>8. ASSUME Update(c) PROVE Told(c)'
      BY <3>8, <2>0 DEF Update, Framed, AfterUpdate
    <3>9. ASSUME PreShutdownStop(c) PROVE Told(c)'
      BY <3>9, <2>0 DEF PreShutdownStop, Framed
    <3>10. ASSUME PreShutdownPhase(c) PROVE Told(c)'
      BY <3>10, <2>0 DEF PreShutdownPhase, Framed
    <3>11. ASSUME PreShutdownPods(c) PROVE Told(c)'
      BY <3>11, <2>0 DEF PreShutdownPods, Framed
    <3>12. ASSUME VendorUpdate(c) PROVE Told(c)'
      BY <3>12, <2>0 DEF VendorUpdate, Framed
    <3>13. ASSUME VendorDefaults(c) PROVE Told(c)'
      BY <3>13, <2>0 DEF VendorDefaults, Framed
    <3>14. ASSUME VendorRestart(c) PROVE Told(c)'
      BY <3>14, <2>0 DEF VendorRestart, Framed
    <3>17. ASSUME VendorStart(c) PROVE Told(c)'
      BY <3>17, <2>0 DEF VendorStart, Framed
    <3>15. ASSUME ListPods(c) PROVE Told(c)'
      <4>1. CASE Breaks(c) /\ Fail(c)
        BY <4>1, <2>0, FailTold
      <4>2. ASSUME NEW stuck, UNCHANGED board,
                   call' = [call EXCEPT ![c].seen = stuck,
                                        ![c].pc = IF stuck = {} THEN "ok" ELSE "delete"]
            PROVE  Told(c)'
        <5>1. call'[c].excused = call[c].excused /\ call'[c].pc # "error"
          BY <4>2
        <5> QED BY <3>15, <4>2, <5>1, <2>0 DEF ListPods, Framed
      <4> QED BY <3>15, <4>1, <4>2 DEF ListPods
    <3>16. ASSUME HealStuckPods(c) PROVE Told(c)'
      BY <3>16, <2>0 DEF HealStuckPods, Framed
    <3> QED
      BY <1>1, <2>18, <3>1, <3>2, <3>3, <3>4, <3>5, <3>6, <3>7, <3>8, <3>9, <3>10, <3>11, <3>12, <3>13, <3>14, <3>15, <3>16, <3>17 DEF Step
  <2> QED BY <2>17, <2>18
<1>2. ASSUME NEW c \in Calls, NEW verb \in Verbs, NEW announced \in BOOLEAN,
             Call(c, verb, announced)
      PROVE  Told(e)'
  <2>1. CASE e = c
    BY <1>2, <2>1 DEF Call, Idle
  <2>2. CASE e # c
    BY <1>2, <2>2 DEF Call
  <2> QED BY <2>1, <2>2
<1>3. ASSUME Operator PROVE Told(e)'
  BY <1>3 DEF Operator, StartServer, BecomeReady, StopServer, Crash, Report, ReportPhase, Unsettle
<1>4. CASE UNCHANGED vars
  BY <1>4 DEF vars
<1> QED
  BY <1>1, <1>2, <1>3, <1>4 DEF Next

(* Of an announced call that met no other and lost no message: the countdown *)
(* is on the screens while its action runs, and not after the action failed, *)
(* unless an interrupt ended it (announce.go:45-91).                         *)
THEOREM PlayersAreAlwaysTold == Spec => []PlayersAreTold
<1>1. Init => ToldInv
  BY DEF Init, Idle, Told, ToldInv
<1>2. ToldInv => PlayersAreTold
  BY DEF ToldInv, Told, PlayersAreTold, At
<1> QED
  BY <1>1, <1>2, Shape, Alone, StepTold, PTL DEF Spec
-----------------------------------------------------------------------------
(* An upgrade that met no other call, and no server on its way up, at each   *)
(* of its round trips: drained past the first gate, retagged before the      *)
(* start, and past it only pods of the tag it set can be ready or reported.  *)
UpgradeOf(c) ==
  call[c].verb = "upgrade" /\ call[c].alone /\ call[c].steady =>
    /\ call[c].pc \in {"gate_stopped", "get", "retag", "start"} =>
         cr.stop /\ \A s \in Servers : pod[s].st = "starting" => pod[s].image = "placeholder"
    /\ call[c].pc = "gate_stopped" => \A s \in Servers : pod[s].st = "ready" => report[s]
    /\ call[c].pc \in {"get", "retag", "start"} =>
         \A s \in Servers : pod[s].st # "ready" /\ ~report[s]
    /\ call[c].pc = "retag" => \A s \in Servers : cr.tag[s] = "placeholder" => s \in call[c].seen
    /\ call[c].pc \in {"start", "gate_ready"} =>
         \A s \in Servers : /\ cr.tag[s] # "placeholder"
                            /\ s \in call[c].seen => cr.tag[s] = "new"
    /\ call[c].pc = "gate_ready" =>
         \A s \in Servers :
           /\ pod[s].st = "starting" => pod[s].image \in {"placeholder", cr.tag[s]}
           /\ pod[s].st = "ready" \/ report[s] => pod[s].image = cr.tag[s]

UpgradeInv == \A c \in Calls : UpgradeOf(c)

LEMMA StepUpgrade == ShapeInv /\ VerbInv /\ AloneInv /\ UpgradeInv /\ [Next]_vars => UpgradeInv'
<1> SUFFICES ASSUME ShapeInv, VerbInv, AloneInv, UpgradeInv, [Next]_vars, NEW e \in Calls
             PROVE  UpgradeOf(e)'
  BY DEF UpgradeInv
<1> USE DEF UpgradeInv, UpgradeOf, Active, Ended, Cluster, At, Go, Works, Breaks, Fail, Return, Patch
<1>1. ASSUME NEW c \in Calls, Step(c) PROVE UpgradeOf(e)'
  <2>0. Framed(c)
    BY <1>1, StepFrames
  <2>17. CASE e # c
    BY <2>0, <2>17 DEF Framed, AloneInv
  <2>18. CASE e = c
    <3>1. ASSUME PublishShutdownAnnounce(c) PROVE UpgradeOf(c)'
      BY <3>1, <2>0 DEF PublishShutdownAnnounce, Framed
    <3>2. ASSUME Announce(c) PROVE UpgradeOf(c)'
      BY <3>2, <2>0 DEF Announce, Framed, Body
    <3>4. ASSUME Stop(c) PROVE UpgradeOf(c)'
      <4>1. CASE Breaks(c) /\ Fail(c)
        <5>1. call'[c].pc = "error"
          BY <4>1
        <5> QED BY <5>1
      <4>2. CASE /\ cr' = [cr EXCEPT !.stop = TRUE]
                 /\ call' = [call EXCEPT ![c].pc = AfterStop(call[c].verb), ![c].steady = Settled]
        <5>1. call'[c].pc = AfterStop(call[c].verb) /\ call'[c].steady = Settled
          BY <4>2
        <5>2. CASE call[c].verb # "upgrade"
          BY <5>2, <2>0 DEF Framed
        <5>3. CASE call[c].verb = "upgrade" /\ Settled
          <6>1. call'[c].pc = "gate_stopped"
            BY <5>1, <5>3 DEF AfterStop
          <6>2. cr'.stop /\ UNCHANGED <<pod, report>>
            BY <3>4, <4>2 DEF Stop
          <6> QED BY <5>3, <6>1, <6>2 DEF Settled
        <5>4. CASE ~Settled
          BY <5>1, <5>4
        <5> QED BY <5>2, <5>3, <5>4
      <4> QED BY <3>4, <4>1, <4>2 DEF Stop
    <3>15. ASSUME ListPods(c) PROVE UpgradeOf(c)'
      BY <3>15, <2>0, ListPodsCall
    <3>20. ASSUME Interrupt(c) PROVE UpgradeOf(c)'
      BY <3>20, <2>0 DEF Interrupt, Framed
    <3>21. ASSUME Start(c) PROVE UpgradeOf(c)'
      BY <3>21, <2>0 DEF Start, Framed, AfterStart
    <3>22. ASSUME WaitForPhase(c) PROVE UpgradeOf(c)'
      BY <3>22, <2>0 DEF WaitForPhase, Framed, Stopped
    <3>23. ASSUME UpdateGet(c) PROVE UpgradeOf(c)'
      BY <3>23, <2>0 DEF UpdateGet, Framed, AfterUpdate, BuildImageTagPatches
    <3>24. ASSUME Update(c) PROVE UpgradeOf(c)'
      BY <3>24, <2>0 DEF Update, Framed, AfterUpdate, Retagged
    <3>25. ASSUME PreShutdownStop(c) PROVE UpgradeOf(c)'
      BY <3>25, <2>0 DEF PreShutdownStop, Framed
    <3>26. ASSUME PreShutdownPhase(c) PROVE UpgradeOf(c)'
      BY <3>26, <2>0 DEF PreShutdownPhase, Framed
    <3>27. ASSUME PreShutdownPods(c) PROVE UpgradeOf(c)'
      BY <3>27, <2>0 DEF PreShutdownPods, Framed
    <3>28. ASSUME VendorUpdate(c) PROVE UpgradeOf(c)'
      BY <3>28, <2>0 DEF VendorUpdate, Framed
    <3>29. ASSUME VendorDefaults(c) PROVE UpgradeOf(c)'
      BY <3>29, <2>0 DEF VendorDefaults, Framed
    <3>30. ASSUME VendorRestart(c) PROVE UpgradeOf(c)'
      BY <3>30, <2>0 DEF VendorRestart, Framed
    <3>32. ASSUME VendorStart(c) PROVE UpgradeOf(c)'
      BY <3>32, <2>0 DEF VendorStart, Framed
    <3>31. ASSUME HealStuckPods(c) PROVE UpgradeOf(c)'
      BY <3>31, <2>0 DEF HealStuckPods, Framed
    <3> QED
      BY <1>1, <2>18, <3>1, <3>2, <3>4, <3>15, <3>20, <3>21, <3>22, <3>23, <3>24, <3>25, <3>26, <3>27, <3>28, <3>29, <3>30, <3>31, <3>32 DEF Step
  <2> QED BY <2>17, <2>18
<1>2. ASSUME NEW c \in Calls, NEW verb \in Verbs, NEW announced \in BOOLEAN,
             Call(c, verb, announced)
      PROVE  UpgradeOf(e)'
  <2>1. CASE e = c
    BY <1>2, <2>1 DEF Call, Idle
  <2>2. CASE e # c
    <3>1. ~call'[e].alone
      BY <1>2, <2>2, CallMeets
    <3> QED BY <3>1
  <2> QED BY <2>1, <2>2
<1>3. ASSUME NEW s \in Servers, StartServer(s) PROVE UpgradeOf(e)'
  BY <1>3 DEF StartServer
<1>4. ASSUME NEW s \in Servers, BecomeReady(s) PROVE UpgradeOf(e)'
  <2>1. Unsettle
    BY <1>4 DEF BecomeReady
  <2>2. /\ call'[e].verb = call[e].verb /\ call'[e].pc = call[e].pc
        /\ call'[e].alone = call[e].alone /\ call'[e].seen = call[e].seen
        /\ call'[e].steady =>
             call[e].steady /\ call[e].pc \notin {"gate_stopped", "get", "retag"}
    BY <2>1, UnsettleCalls
  <2>3. /\ UNCHANGED <<cr, report>> /\ pod[s].st = "starting" /\ pod[s].image # "placeholder"
        /\ pod' = [pod EXCEPT ![s].st = "ready"]
    BY <1>4 DEF BecomeReady
  <2>4. \A r \in Servers : /\ pod'[r].image = pod[r].image
                           /\ pod'[r].st = IF r = s THEN "ready" ELSE pod[r].st
    BY <2>3
  <2>5. CASE ~(call[e].verb = "upgrade" /\ call[e].alone /\ call'[e].steady)
    BY <2>2, <2>5
  <2>6. CASE call[e].verb = "upgrade" /\ call[e].alone /\ call'[e].steady
    BY <2>2, <2>3, <2>4, <2>6
  <2> QED BY <2>5, <2>6
<1>5. ASSUME NEW s \in Servers, StopServer(s) PROVE UpgradeOf(e)'
  BY <1>5 DEF StopServer
<1>6. ASSUME NEW s \in Servers, Crash(s) PROVE UpgradeOf(e)'
  <2>1. Unsettle
    BY <1>6 DEF Crash
  <2>2. /\ call'[e].verb = call[e].verb /\ call'[e].pc = call[e].pc
        /\ call'[e].alone = call[e].alone /\ call'[e].seen = call[e].seen
        /\ call'[e].steady =>
             call[e].steady /\ call[e].pc \notin {"gate_stopped", "get", "retag"}
    BY <2>1, UnsettleCalls
  <2>3. /\ UNCHANGED <<cr, report>> /\ pod[s].st = "ready"
        /\ pod' = [pod EXCEPT ![s].st = "starting"]
    BY <1>6 DEF Crash
  <2>4. \A r \in Servers : /\ pod'[r].image = pod[r].image
                           /\ pod'[r].st = IF r = s THEN "starting" ELSE pod[r].st
    BY <2>3
  <2>5. SUFFICES ASSUME call[e].verb = "upgrade", call[e].alone, call[e].steady,
                        call[e].pc \notin {"gate_stopped", "get", "retag"}
                 PROVE  UpgradeOf(e)'
    BY <2>2
  <2>6. UpgradeOf(e)
    OBVIOUS
  <2>7. call[e].pc # "start"
    BY <2>3, <2>5, <2>6
  <2>8. CASE call[e].pc # "gate_ready"
    BY <2>2, <2>5, <2>7, <2>8
  <2>9. CASE call[e].pc = "gate_ready"
    <3>1. \A r \in Servers :
            /\ cr.tag[r] # "placeholder"
            /\ r \in call[e].seen => cr.tag[r] = "new"
            /\ pod[r].st = "starting" => pod[r].image \in {"placeholder", cr.tag[r]}
            /\ pod[r].st = "ready" \/ report[r] => pod[r].image = cr.tag[r]
      BY <2>5, <2>6, <2>9
    <3>2. \A r \in Servers :
            /\ pod'[r].st = "starting" => pod'[r].image \in {"placeholder", cr.tag[r]}
            /\ pod'[r].st = "ready" \/ report[r] => pod'[r].image = cr.tag[r]
      BY <3>1, <2>3, <2>4
    <3> QED BY <2>2, <2>3, <2>9, <3>1, <3>2
  <2> QED BY <2>8, <2>9
<1>7. ASSUME NEW s \in Servers, Report(s) PROVE UpgradeOf(e)'
  BY ZenonT(60), <1>7 DEF Report
<1>9. ASSUME ReportPhase PROVE UpgradeOf(e)'
  BY <1>9 DEF ReportPhase
<1>8. CASE UNCHANGED vars
  BY <1>8 DEF vars
<1> QED
  BY <1>1, <1>2, <1>3, <1>4, <1>5, <1>6, <1>7, <1>8, <1>9 DEF Next, Operator

LEMMA Upgrade == Spec => []UpgradeInv
<1>1. Init => UpgradeInv
  BY DEF Init, Idle, UpgradeInv, UpgradeOf
<1> QED
  BY <1>1, Shape, Alone, StepUpgrade, PTL DEF Spec

(* The gate is why an upgrade that met no other call and no server on its    *)
(* way up retags no running server (upgrade.go:42).                          *)
THEOREM TagsAlwaysMoveDrained == Spec => TagsMoveDrained
<1>1. UpgradeInv /\ [Next]_vars =>
        [\A c \in Calls :
           At(c, "retag") /\ cr'.tag # cr.tag /\ call[c].verb = "upgrade"
             /\ call[c].alone /\ call[c].steady
           => \A s \in Servers : pod[s].st # "ready"]_vars
  BY DEF UpgradeInv, UpgradeOf, At
<1> QED
  BY <1>1, Upgrade, PTL DEF Spec, TagsMoveDrained

(* A call at its second gate that returns without an error read a status in  *)
(* which every server was ready.                                             *)
LEMMA GateIsRead ==
  ASSUME ShapeInv, NEW c \in Calls, At(c, "gate_ready"), call'[c].pc = "ok", [Next]_vars
  PROVE  Ready(report)
<1> USE DEF At
<1>1. ASSUME NEW d \in Calls, d # c, Step(d) PROVE FALSE
  BY <1>1, StepFrames DEF Framed
<1>2. ASSUME Step(c) PROVE Ready(report)
  BY <1>2 DEF Step, PublishShutdownAnnounce, Announce, Interrupt, Stop, Start, WaitForPhase,
     UpdateGet, Update, PreShutdownStop, PreShutdownPhase, PreShutdownPods, VendorUpdate,
     VendorDefaults, VendorRestart, VendorStart, ListPods, HealStuckPods, Go, Works, Breaks, Fail, Return
<1>3. ASSUME NEW d \in Calls, NEW verb \in Verbs, NEW announced \in BOOLEAN,
             Call(d, verb, announced)
      PROVE  FALSE
  BY <1>3 DEF Call
<1>4. ASSUME Operator PROVE FALSE
  BY <1>4 DEF Operator, StartServer, BecomeReady, StopServer, Crash, Report, ReportPhase, Unsettle
<1>5. CASE UNCHANGED vars
  BY <1>5 DEF vars
<1> QED
  BY <1>1, <1>2, <1>3, <1>4, <1>5 DEF Next

(* An upgrade that met no other call and no server on its way up, and that   *)
(* returns without an error, has restarted every server from the tag of its  *)
(* map, and the maps it found at the placeholder at the new revision         *)
(* (upgrade.go:57).                                                          *)
THEOREM UpgradedAlwaysRestarted == Spec => UpgradedMeansRestarted
<1>1. ShapeInv /\ UpgradeInv /\ VerbInv /\ [Next]_vars =>
        [\A c \in Calls :
           At(c, "gate_ready") /\ call'[c].pc = "ok" /\ call[c].alone /\ call[c].steady
           => \A s \in Servers :
                /\ pod[s].image = cr.tag[s] /\ cr.tag[s] # "placeholder"
                /\ s \in call[c].seen => pod[s].image = "new"]_vars
  <2> SUFFICES ASSUME ShapeInv, UpgradeInv, VerbInv, [Next]_vars, NEW c \in Calls,
                      At(c, "gate_ready"), call'[c].pc = "ok", call[c].alone, call[c].steady,
                      NEW s \in Servers
               PROVE  /\ pod[s].image = cr.tag[s] /\ cr.tag[s] # "placeholder"
                      /\ s \in call[c].seen => pod[s].image = "new"
    OBVIOUS
  <2>1. Ready(report)
    BY GateIsRead
  <2> QED BY <2>1 DEF UpgradeInv, UpgradeOf, VerbInv, Ready, At
<1> QED
  BY <1>1, Shape, Upgrade, PTL DEF Spec, UpgradedMeansRestarted

-----------------------------------------------------------------------------
(* A pre-shutdown has stopped the group before it waits, and nothing starts  *)
(* it again while no other call runs.                                        *)
DrainOf(c) ==
  call[c].verb = "pre-shutdown" /\ call[c].alone =>
    /\ call[c].pc \in {"phase", "pods"} => cr.stop
    /\ call[c].pc = "ok" /\ ~call[c].excused /\ ~call[c].interrupted =>
         cr.stop /\ \A s \in Servers : pod[s].st = "down"

DrainInv == \A c \in Calls : DrainOf(c)

LEMMA StepDrain == ShapeInv /\ VerbInv /\ AloneInv /\ DrainInv /\ [Next]_vars => DrainInv'
<1> SUFFICES ASSUME ShapeInv, VerbInv, AloneInv, DrainInv, [Next]_vars, NEW e \in Calls
             PROVE  DrainOf(e)'
  BY DEF DrainInv
<1> USE DEF DrainInv, DrainOf, VerbInv, Active, Ended, Cluster, At, Go, Works, Breaks, Fail,
            Return, Patch
<1>1. ASSUME NEW c \in Calls, Step(c) PROVE DrainOf(e)'
  <2>0. Framed(c)
    BY <1>1, StepFrames
  <2>17. CASE e # c
    BY <2>0, <2>17 DEF Framed, AloneInv
  <2>18. CASE e = c /\ call[c].verb # "pre-shutdown"
    BY <2>0, <2>18 DEF Framed
  <2>19. CASE e = c /\ call[c].verb = "pre-shutdown"
    <3>1. ASSUME PublishShutdownAnnounce(c) PROVE DrainOf(c)'
      BY <3>1, <2>0 DEF PublishShutdownAnnounce, Framed
    <3>2. ASSUME Announce(c) PROVE DrainOf(c)'
      BY <3>2, <2>0, <2>19 DEF Announce, Framed, Body
    <3>3. ASSUME PreShutdownPhase(c) PROVE DrainOf(c)'
      BY <3>3, <2>0 DEF PreShutdownPhase, Framed
    <3>4. ASSUME Stop(c) \/ ListPods(c) PROVE DrainOf(c)'
      BY <3>4, <2>19 DEF Stop, ListPods
    <3>20. ASSUME Interrupt(c) PROVE DrainOf(c)'
      BY <3>20, <2>0, <2>19 DEF Interrupt, Framed
    <3>21. ASSUME Start(c) PROVE DrainOf(c)'
      BY <3>21, <2>0, <2>19 DEF Start, Framed
    <3>22. ASSUME WaitForPhase(c) PROVE DrainOf(c)'
      BY <3>22, <2>0, <2>19 DEF WaitForPhase, Framed
    <3>23. ASSUME UpdateGet(c) PROVE DrainOf(c)'
      BY <3>23, <2>0, <2>19 DEF UpdateGet, Framed
    <3>24. ASSUME Update(c) PROVE DrainOf(c)'
      BY <3>24, <2>0, <2>19 DEF Update, Framed
    <3>25. ASSUME PreShutdownStop(c) PROVE DrainOf(c)'
      BY <3>25, <2>0, <2>19 DEF PreShutdownStop, Framed
    <3>26. ASSUME PreShutdownPods(c) PROVE DrainOf(c)'
      BY <3>26, <2>0, <2>19 DEF PreShutdownPods, Framed, PastPods
    <3>27. ASSUME VendorUpdate(c) PROVE DrainOf(c)'
      BY <3>27, <2>0, <2>19 DEF VendorUpdate, Framed
    <3>28. ASSUME VendorDefaults(c) PROVE DrainOf(c)'
      BY <3>28, <2>0, <2>19 DEF VendorDefaults, Framed
    <3>29. ASSUME VendorRestart(c) PROVE DrainOf(c)'
      BY <3>29, <2>0, <2>19 DEF VendorRestart, Framed
    <3>31. ASSUME VendorStart(c) PROVE DrainOf(c)'
      BY <3>31, <2>0, <2>19 DEF VendorStart, Framed
    <3>30. ASSUME HealStuckPods(c) PROVE DrainOf(c)'
      BY <3>30, <2>0, <2>19 DEF HealStuckPods, Framed
    <3> QED
      BY <1>1, <2>19, <3>1, <3>2, <3>3, <3>4, <3>20, <3>21, <3>22, <3>23, <3>24, <3>25, <3>26, <3>27, <3>28, <3>29, <3>30, <3>31 DEF Step
  <2> QED BY <2>17, <2>18, <2>19
<1>2. ASSUME NEW c \in Calls, NEW verb \in Verbs, NEW announced \in BOOLEAN,
             Call(c, verb, announced)
      PROVE  DrainOf(e)'
  <2>1. CASE e = c
    BY ZenonT(60), <1>2, <2>1 DEF Call, Idle, Body, Verbs
  <2>2. CASE e # c
    BY ZenonT(60), <1>2, <2>2 DEF Call
  <2> QED BY <2>1, <2>2
<1>3. ASSUME NEW s \in Servers, StartServer(s) PROVE DrainOf(e)'
  BY <1>3 DEF StartServer
<1>4. ASSUME NEW s \in Servers, BecomeReady(s) PROVE DrainOf(e)'
  BY <1>4 DEF BecomeReady, Unsettle
<1>5. ASSUME NEW s \in Servers, StopServer(s) PROVE DrainOf(e)'
  BY <1>5 DEF StopServer
<1>6. ASSUME NEW s \in Servers, Crash(s) PROVE DrainOf(e)'
  BY <1>6 DEF Crash, Unsettle
<1>7. ASSUME NEW s \in Servers, Report(s) PROVE DrainOf(e)'
  BY <1>7 DEF Report
<1>9. ASSUME ReportPhase PROVE DrainOf(e)'
  BY <1>9 DEF ReportPhase
<1>8. CASE UNCHANGED vars
  BY <1>8 DEF vars
<1> QED
  BY <1>1, <1>2, <1>3, <1>4, <1>5, <1>6, <1>7, <1>8, <1>9 DEF Next, Operator

(* A pre-shutdown that read both answers returns over a drained group, which *)
(* stays drained until another call begins (preshutdown.go:64-122).          *)
THEOREM ShutdownIsAlwaysDrained == Spec => []ShutdownIsDrained
<1>1. Init => DrainInv
  BY DEF Init, Idle, DrainInv, DrainOf
<1>2. DrainInv => ShutdownIsDrained
  BY DEF DrainInv, DrainOf, ShutdownIsDrained, At
<1> QED
  BY <1>1, <1>2, Shape, Alone, StepDrain, PTL DEF Spec

=============================================================================
