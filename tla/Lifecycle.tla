------------------------------ MODULE Lifecycle ------------------------------
(***************************************************************************)
(* The verbs of ds-bashar that stop, start and retag a BattleGroup, run by *)
(* hand on a node (internal/pkg/dsbashar/cli), the upgrade cycle with its  *)
(* two gates (pkg/domain/bgorchestrator), the primitives they patch the    *)
(* custom resource with (pkg/domain/battlegroup) and the countdown they    *)
(* may show the players first (pkg/domain/broadcast).                      *)
(*                                                                         *)
(* Each call is one invocation; calls of several administrators overlap,   *)
(* and nothing in the code keeps them apart.  The operator that drains and *)
(* starts the servers, the reports it writes into the resource, and the    *)
(* vendor's own wrapper are external: they act in their own time.          *)
(***************************************************************************)
EXTENDS Naturals, FiniteSets

CONSTANTS Calls,         \* the invocations
          Servers,       \* the maps of the BattleGroup
          MaxFaults      \* bound: failures, losses, interrupts, servers that restart
                         \* by themselves

ASSUME LifecycleAssumption ==
  /\ IsFiniteSet(Servers) /\ Servers # {}
  /\ MaxFaults \in Nat

VARIABLES
  cr,       \* the resource: spec.stop and the image tag of each map
  pod,      \* the pod of each map, and the image it was started from
  report,   \* .status.servers[].ready, as the operator last wrote it
  phase,    \* whether .status.phase is Stopped, as the operator last wrote it
  call,     \* each invocation
  board,    \* what the players were last shown of a shutdown
  faults

vars == <<cr, pod, report, phase, call, board, faults>>

\* What a flag set and the code's local variables are between two round
\* trips.  alone and steady are history: no other call ran during this one;
\* no server was coming up when it patched stop, and none came up until it patches start.
Idle == [verb |-> "none", pc |-> "idle", announced |-> FALSE, interrupted |-> FALSE,
         alone |-> FALSE, steady |-> FALSE, excused |-> FALSE, seen |-> {}]

Verbs == {"start", "stop", "restart", "update", "upgrade",
          "pre-shutdown", "vendor-update", "heal"}

\* The verbs whose --announce has a kind to show.
Kinds == {"restart", "stop", "update", "pre-shutdown", "vendor-update"}

Ended == {"ok", "error"}
Active(c) == call[c].pc \notin Ended \cup {"idle"}

\* The first round trip of a verb once its countdown is over.
Body(verb) ==
  CASE verb = "start" -> "start"
    [] verb \in {"stop", "restart", "upgrade"} -> "stop"
    [] verb = "update" -> "get"
    [] verb = "pre-shutdown" -> "vendor_stop"
    [] verb = "vendor-update" -> "vendor_update"
    [] verb = "heal" -> "list"

Init ==
  /\ cr \in [stop : {FALSE}, tag : [Servers -> {"placeholder", "old"}]]
  /\ pod = [s \in Servers |->
              [st |-> IF cr.tag[s] = "old" THEN "ready" ELSE "starting",
               image |-> cr.tag[s]]]
  /\ report = [s \in Servers |-> pod[s].st = "ready"] /\ phase = FALSE
  /\ call = [c \in Calls |-> Idle]
  /\ board = "none" /\ faults = 0

-----------------------------------------------------------------------------
(* The operator. *)

\* A server that comes up, or comes back, unsettles the upgrades that stop.
Unsettle ==
  call' = [c \in Calls |->
    [call[c] EXCEPT !.steady = @ /\ call[c].pc \notin {"gate_stopped", "get", "retag"}]]

\* It creates the pod of a map that is to run, from the tag of the moment.
StartServer(s) ==
  /\ ~cr.stop /\ pod[s].st = "down"
  /\ pod' = [pod EXCEPT ![s] = [st |-> "starting", image |-> cr.tag[s]]]
  /\ UNCHANGED <<cr, report, phase, call, board, faults>>

\* An image that exists comes up; the placeholder's never does.
BecomeReady(s) ==
  /\ pod[s].st = "starting" /\ pod[s].image # "placeholder"
  /\ pod' = [pod EXCEPT ![s].st = "ready"]
  /\ Unsettle
  /\ UNCHANGED <<cr, report, phase, board, faults>>

\* It drains a map that is to stop, or that runs another image than its tag.
StopServer(s) ==
  /\ pod[s].st # "down" /\ (cr.stop \/ pod[s].image # cr.tag[s])
  /\ pod' = [pod EXCEPT ![s].st = "down"]
  /\ UNCHANGED <<cr, report, phase, call, board, faults>>

\* A server exits by itself and its pod restarts.
Crash(s) ==
  /\ pod[s].st = "ready" /\ faults < MaxFaults
  /\ pod' = [pod EXCEPT ![s].st = "starting"]
  /\ faults' = faults + 1
  /\ Unsettle
  /\ UNCHANGED <<cr, report, phase, board>>

\* The operator writes what it sees of a map into the status.
Report(s) ==
  /\ report[s] # (pod[s].st = "ready")
  /\ report' = [report EXCEPT ![s] = (pod[s].st = "ready")]
  /\ UNCHANGED <<cr, pod, phase, call, board, faults>>

\* It writes the phase of the whole group: stopped once it is told to stop and
\* no server runs.
ReportPhase ==
  /\ phase # (cr.stop /\ \A s \in Servers : pod[s].st # "ready")
  /\ phase' = ~phase
  /\ UNCHANGED <<cr, pod, report, call, board, faults>>

-----------------------------------------------------------------------------
(* What the players' clients make of the two shutdown broadcasts. *)

ShutdownAnnouncePayload == "countdown"
ShutdownCancelPayload   == "cancelled"

(* How a call goes on.  A round trip answers, or fails: by a fault, or since
   the context is cancelled, and what it asked for may be done all the same. *)

At(c, pc) == call[c].pc = pc
Go(c, pc) == call' = [call EXCEPT ![c].pc = pc]
Works(c)  == ~call[c].interrupted /\ UNCHANGED faults

Breaks(c) ==
  IF call[c].interrupted THEN UNCHANGED faults
                         ELSE faults < MaxFaults /\ faults' = faults + 1

Return(c) == Go(c, "ok") /\ UNCHANGED board

\* Mutation: nothing is cancelled when the action fails.
FailSilently(c) == Go(c, "error") /\ UNCHANGED board

\* The action returned an error.  Under a countdown the cancel goes out, best
\* effort: with the context cancelled it does not even reach the broker, and
\* that it reached nobody is no error.
Fail(c) ==
  \E lost \in BOOLEAN :
    /\ board' = IF call[c].announced /\ ~call[c].interrupted /\ ~lost
                THEN ShutdownCancelPayload ELSE board
    /\ lost => call[c].announced
    /\ call' = [call EXCEPT ![c].pc = "error", ![c].excused = @ \/ lost]

\* A patch, and what follows it.
Patch(c, new, next) ==
  \/ Works(c)  /\ cr' = new          /\ Go(c, next) /\ UNCHANGED board
  \/ Breaks(c) /\ cr' \in {cr, new}  /\ Fail(c)

\* What no call moves by itself.
Cluster == <<pod, report, phase>>

-----------------------------------------------------------------------------
(* A call begins: its flags are parsed, and under --announce the countdown is
   published and waited out before the action. *)

Call(c, verb, announced) ==
  /\ At(c, "idle")
  /\ announced => verb \in Kinds
  /\ call' = [d \in Calls |->
       IF d = c
       THEN [Idle EXCEPT !.verb = verb, !.announced = announced,
                         !.alone = \A e \in Calls \ {c} : ~Active(e),
                         !.pc = IF announced THEN "publish" ELSE Body(verb)]
       ELSE [call[d] EXCEPT !.alone = FALSE]]
  /\ UNCHANGED <<cr, board, faults, Cluster>>

\* The publish is at most once: that nobody received it is no error, and that
\* it failed does not say that nobody did.  A failure ends the call there.
PublishShutdownAnnounce(c) ==
  /\ At(c, "publish")
  /\ board' \in {ShutdownAnnouncePayload, board}
  /\ \/ /\ Works(c)
        /\ call' = [call EXCEPT ![c].pc = "wait", ![c].excused = board' # ShutdownAnnouncePayload]
     \/ /\ Breaks(c)
        /\ call' = [call EXCEPT ![c].pc = "error", ![c].excused = board' = ShutdownAnnouncePayload]
  /\ UNCHANGED <<cr, Cluster>>

\* The delay is over, or Ctrl-C ends it: then the action is not run.
Announce(c) ==
  /\ At(c, "wait")
  /\ \/ Works(c)            /\ Go(c, Body(call[c].verb)) /\ UNCHANGED board
     \/ call[c].interrupted /\ Fail(c) /\ UNCHANGED faults
  /\ UNCHANGED <<cr, Cluster>>

\* Ctrl-C, or a SIGTERM, cancels the context of the whole invocation.
Interrupt(c) ==
  /\ Active(c) /\ ~call[c].interrupted /\ faults < MaxFaults
  /\ call' = [call EXCEPT ![c].interrupted = TRUE]
  /\ faults' = faults + 1
  /\ UNCHANGED <<cr, board, Cluster>>

-----------------------------------------------------------------------------
(* The primitives on the resource, and the upgrade made of them. *)

\* Mutation: a restart that ends with the stop.
StopLast(verb) ==
  CASE verb \in {"stop", "restart"} -> "ok" [] verb = "upgrade" -> "gate_stopped"

AfterStop(verb) ==
  CASE verb = "stop" -> "ok" [] verb = "restart" -> "start" [] verb = "upgrade" -> "gate_stopped"

AfterStart(verb) == IF verb = "upgrade" THEN "gate_ready" ELSE "ok"

Settled ==
  \A s \in Servers : /\ report[s] = (pod[s].st = "ready")
                     /\ pod[s].st = "starting" => pod[s].image = "placeholder"

Stop(c) ==
  /\ At(c, "stop")
  /\ \/ /\ Works(c)
        /\ cr' = [cr EXCEPT !.stop = TRUE]
        /\ call' = [call EXCEPT ![c].pc = AfterStop(call[c].verb), ![c].steady = Settled]
        /\ UNCHANGED board
     \/ /\ Breaks(c) /\ cr' \in {cr, [cr EXCEPT !.stop = TRUE]} /\ Fail(c)
  /\ UNCHANGED Cluster

Start(c) ==
  /\ At(c, "start")
  /\ Patch(c, [cr EXCEPT !.stop = FALSE], AfterStart(call[c].verb))
  /\ UNCHANGED Cluster

\* Mutations: the predicates that one server satisfies.
SomeStopped(status) == \E s \in Servers : ~status[s]
SomeReady(status)   == \E s \in Servers : status[s]

\* The predicates of the two gates, on the status that was read.
Stopped(status) == \A s \in Servers : ~status[s]
Ready(status)   == Servers # {} /\ \A s \in Servers : status[s]

\* A gate reads the status until it holds, the reading fails, or the time is
\* over; a reading that does not hold changes nothing.
WaitForPhase(c) ==
  /\ \/ /\ At(c, "gate_stopped")
        /\ Stopped(report) /\ Works(c) /\ Go(c, "get") /\ UNCHANGED board
     \/ /\ At(c, "gate_ready")
        /\ Ready(report) /\ Works(c) /\ Return(c)
     \/ /\ At(c, "gate_stopped") \/ At(c, "gate_ready")
        /\ Breaks(c) \/ UNCHANGED faults          \* a failed reading; the timeout
        /\ Fail(c)
  /\ UNCHANGED <<cr, Cluster>>

\* What an update rewrites: the tags still at the placeholder.
BuildImageTagPatches(tag) == {s \in Servers : tag[s] = "placeholder"}

AfterUpdate(verb) == IF verb = "upgrade" THEN "start" ELSE "ok"

\* It reads the resource, and with nothing to rewrite it is done.
UpdateGet(c) ==
  /\ At(c, "get")
  /\ \/ /\ Works(c)
        /\ LET ops == BuildImageTagPatches(cr.tag) IN
             call' = [call EXCEPT ![c].seen = ops,
                        ![c].pc = IF ops = {} THEN AfterUpdate(call[c].verb) ELSE "retag"]
        /\ UNCHANGED board
     \/ Breaks(c) /\ Fail(c)
  /\ UNCHANGED <<cr, Cluster>>

\* The patch replaces the tags it read, whatever they are by now.
Retagged(c) == [cr EXCEPT !.tag = [s \in Servers |-> IF s \in call[c].seen THEN "new" ELSE @[s]]]

Update(c) ==
  /\ At(c, "retag")
  /\ Patch(c, Retagged(c), AfterUpdate(call[c].verb))
  /\ UNCHANGED Cluster

-----------------------------------------------------------------------------
(* pre-shutdown: the vendor's stop, then two waits that end well however they
   end, so that systemd does not escalate. *)

PreShutdownStop(c) ==
  /\ At(c, "vendor_stop")
  /\ Patch(c, [cr EXCEPT !.stop = TRUE], "phase")
  /\ UNCHANGED Cluster

\* A wait is over: on what was read, on time, or cancelled.
PastPhase(c) == phase
\* Mutation: the pods are not waited for once the status says stopped.
PastReport(c) == Stopped(report)

PastPods(c)  == \A s \in Servers : pod[s].st = "down"

PreShutdownPhase(c) ==
  /\ At(c, "phase")
  /\ \/ Works(c) /\ PastPhase(c) /\ Go(c, "pods")
     \/ ~call[c].interrupted /\ UNCHANGED faults                 \* the timeout
          /\ call' = [call EXCEPT ![c].pc = "pods", ![c].excused = TRUE]
     \/ call[c].interrupted /\ UNCHANGED faults /\ Go(c, "ok")
  /\ UNCHANGED <<cr, board, Cluster>>

\* A listing that fails is an empty one: the pods count as drained.
PreShutdownPods(c) ==
  /\ At(c, "pods")
  /\ \/ Works(c) /\ PastPods(c) /\ Go(c, "ok")
     \/ /\ Breaks(c) \/ UNCHANGED faults          \* a failed listing; the timeout
        /\ call' = [call EXCEPT ![c].pc = "ok", ![c].excused = TRUE]
  /\ UNCHANGED <<cr, board, Cluster>>

-----------------------------------------------------------------------------
(* The update of a single node: three calls of the vendor's wrapper, the last
   of them optional, and none after one that failed. *)

VendorUpdate(c) ==
  /\ At(c, "vendor_update")
  /\ Patch(c, [cr EXCEPT !.tag = [s \in Servers |-> "new"]], "vendor_defaults")
  /\ UNCHANGED Cluster

VendorDefaults(c) ==
  /\ At(c, "vendor_defaults")
  /\ \E next \in {"vendor_restart", "ok"} : Patch(c, cr, next)
  /\ UNCHANGED Cluster

\* The wrapper's restart stops the group, waits in its own way, and starts it;
\* one that is killed in between leaves the group told to stop.
VendorRestart(c) ==
  /\ At(c, "vendor_restart")
  /\ Patch(c, [cr EXCEPT !.stop = TRUE], "vendor_start")
  /\ UNCHANGED Cluster

VendorStart(c) ==
  /\ At(c, "vendor_start")
  /\ Patch(c, [cr EXCEPT !.stop = FALSE], "ok")
  /\ UNCHANGED Cluster

-----------------------------------------------------------------------------
(* heal-stuck-pods --apply: it lists the pods once and takes the servers that
   were not ready for too long, one by one. *)

NotReady == {s \in Servers : pod[s].st = "starting"}

ListPods(c) ==
  /\ At(c, "list")
  /\ \/ /\ Works(c)
        /\ \E stuck \in SUBSET NotReady :            \* those past the threshold
             call' = [call EXCEPT ![c].seen = stuck,
                                  ![c].pc = IF stuck = {} THEN "ok" ELSE "delete"]
        /\ UNCHANGED board
     \/ Breaks(c) /\ Fail(c)
  /\ UNCHANGED <<cr, Cluster>>

\* The delete is run inside a pod (healpods.go:100), and the pod's name is the
\* empty one (kube/runner.go:99): it always fails, is noted, and the next is tried.
HealStuckPods(c) ==
  /\ At(c, "delete")
  /\ \E s \in call[c].seen :
       call' = [call EXCEPT ![c].seen = @ \ {s},
                            ![c].pc = IF call[c].seen = {s} THEN "ok" ELSE @]
  /\ UNCHANGED <<cr, board, faults, Cluster>>

-----------------------------------------------------------------------------
Operator ==
  \/ ReportPhase
  \/ \E s \in Servers :
       StartServer(s) \/ BecomeReady(s) \/ StopServer(s) \/ Crash(s) \/ Report(s)

Step(c) ==
  \/ PublishShutdownAnnounce(c) \/ Announce(c) \/ Interrupt(c)
  \/ Stop(c) \/ Start(c) \/ WaitForPhase(c) \/ UpdateGet(c) \/ Update(c)
  \/ PreShutdownStop(c) \/ PreShutdownPhase(c) \/ PreShutdownPods(c)
  \/ VendorUpdate(c) \/ VendorDefaults(c) \/ VendorRestart(c) \/ VendorStart(c)
  \/ ListPods(c) \/ HealStuckPods(c)

Next ==
  \/ Operator
  \/ \E c \in Calls :
       Step(c) \/ \E verb \in Verbs, announced \in BOOLEAN : Call(c, verb, announced)

Spec == Init /\ [][Next]_vars

-----------------------------------------------------------------------------
(* Properties. *)

(* An upgrade that met no other call and no server on its way up rewrites no
   tag while a server still runs: the gate of upgrade.go:42 is what keeps the
   operator from moving players' servers under them, although it reads a
   status that lags behind and only asks that no server be Ready. *)
TagsMoveDrained ==
  [][\A c \in Calls :
       At(c, "retag") /\ cr'.tag # cr.tag /\ call[c].verb = "upgrade"
         /\ call[c].alone /\ call[c].steady
       => \A s \in Servers : pod[s].st # "ready"]_vars

(* An upgrade that met no other call and no server on its way up, and that
   returns without an error, has restarted the group: every server was started
   from the tag its map has now, none is left at the placeholder, and those the
   update found there run the new revision: the reports the second gate trusts
   cannot be those of the servers from before (upgrade.go:57).  A map at the tag
   of an older revision keeps it (imagetag.go:36), although the verb says
   "upgraded to" the new one (cli/upgrade.go:61). *)
UpgradedMeansRestarted ==
  [][\A c \in Calls :
       At(c, "gate_ready") /\ call'[c].pc = "ok" /\ call[c].alone /\ call[c].steady
       => \A s \in Servers :
            /\ pod[s].image = cr.tag[s] /\ cr.tag[s] # "placeholder"
            /\ s \in call[c].seen => pod[s].image = "new"]_vars

(* k3s goes down over no server: pre-shutdown that was not interrupted, timed
   out of neither wait and read both answers returns, and stays, over a group
   that is told to stop and whose pods are gone, until another call begins: the
   operator brings none back in between (preshutdown.go:64-122). *)
ShutdownIsDrained ==
  \A c \in Calls :
    call[c].verb = "pre-shutdown" /\ At(c, "ok") /\ call[c].alone
      /\ ~call[c].excused /\ ~call[c].interrupted
    => cr.stop /\ \A s \in Servers : pod[s].st = "down"

(* When all calls are over the group is told to stop only if some call was to
   leave it so, or failed between its stop and its start, the vendor's restart
   that was killed among them: whatever restarts and upgrades overlap, none
   leaves the stop of the other standing (lifecycle.go:36, upgrade.go:35). *)
StopIsAsked ==
  (\A c \in Calls : ~Active(c)) /\ cr.stop =>
    \E c \in Calls :
      \/ call[c].verb \in {"stop", "pre-shutdown"}
      \/ call[c].verb \in {"restart", "upgrade", "vendor-update"} /\ At(c, "error")

(* The players are told what happens: an announced action that met no other
   call runs under a countdown they saw to its end, and a call that failed
   leaves no countdown on their screens.  A message that was lost or whose
   failure was not one is excused, and so is the interrupt, after which the
   cancel is published under the cancelled context (announce.go:82). *)
PlayersAreTold ==
  \A c \in Calls :
    call[c].announced /\ call[c].alone /\ ~call[c].excused =>
      /\ Active(c) /\ call[c].pc \notin {"publish"} => board = "countdown"
      /\ At(c, "error") /\ ~call[c].interrupted => board # "countdown"
=============================================================================
