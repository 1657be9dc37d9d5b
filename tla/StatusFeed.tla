------------------------------ MODULE StatusFeed ------------------------------
(***************************************************************************)
(* From a host's BattleGroup to the badge on the operator's screen: the    *)
(* status poller (sse/poller.go, probe/probe.go) publishes what changed    *)
(* since its last tick to the hub, one forwarder goroutine per topic       *)
(* copies frames to the bridge's output channel (tui/bridge.go), and the   *)
(* terminal program folds them into hostStatus (tui/model.go).             *)
(*                                                                         *)
(* A snapshot is the one value the badge shows: the BattleGroup's state,   *)
(* Unknown for a probe that failed, Zero for the zero StatusSnapshot that  *)
(* Probe returns with an error when the host is not in the store.          *)
(***************************************************************************)
EXTENDS Naturals, Sequences, FiniteSets

CONSTANTS
  Hosts,
  Phases,           \* serverGroupPhase values, uppercased
  Unknown, Zero,
  None,
  HubCap,           \* sse.subscriberBuffer
  OutCap,           \* buffer of the bridge's output channel
  SubscribeFirst,   \* does the screen subscribe before the poller starts?
  MaxChanges,       \* changes of hosts and of the store
  MaxAudit          \* audit entries

Kinds == {"bg", "health", "actions"}
Feeds == Kinds \X Hosts       \* topics; the screen has one channel on each
Snaps == Phases \cup {Unknown, Zero}

ASSUME SnapAssumption ==
  /\ Unknown \notin Phases
  /\ Zero \notin Phases
  /\ Unknown # Zero
  /\ None \notin Snaps
  /\ {HubCap, OutCap} \subseteq Nat \ {0}

ASSUME BoundAssumption ==
  /\ {MaxChanges, MaxAudit} \subseteq Nat
  /\ None \notin Nat

VARIABLES
  topics, chan, sending,  \* the hub
  world,       \* what a probe of each host would see
  known,       \* host profiles in the store
  audit,       \* the audit bucket: the host of each entry, oldest first
  changes,     \* how often world or known has changed
  poll,        \* the tick in progress: step, hosts, hosts left, host, snapshot
  lastBG,      \* pollState.lastBG
  lastHealth,  \* pollState.lastHealth: reachable and the time of the probe
  auditSeen,   \* pollState.auditSeen, None for -1
  listed,      \* hosts the screen shows, None before it has read the store
  out,         \* the bridge's output channel
  view,        \* model.statuses
  lost         \* hosts that a bg frame was lost for (history)

vars == <<topics, chan, sending, world, known, audit, changes, poll, lastBG,
          lastHealth, auditSeen, listed, out, view, lost>>

hub == INSTANCE Hub WITH
  Topics <- Feeds, Subscribers <- Feeds, Publishers <- {"poller"},
  Cap <- HubCap, NoEvent <- None

hubVars == <<topics, chan, sending>>
outside == <<world, known, audit, changes>>
pollState == <<lastBG, lastHealth, auditSeen>>
screen == <<listed, out, view>>

Healthy(s) == s # Unknown

Waiting == [pc |-> "wait", all |-> {}, todo |-> {}, host |-> None,
            snap |-> None, upto |-> 0]

PollStates == {"wait", "hosts", "bg", "health", "actions", "prune"}

Init ==
  /\ hub!HubInit
  /\ world \in [Hosts -> Phases \cup {Unknown}]
  /\ known \in SUBSET Hosts
  /\ audit = <<>>
  /\ changes = 0
  /\ poll = Waiting
  /\ lastBG = [h \in Hosts |-> None]
  /\ lastHealth = [h \in Hosts |-> None]
  /\ auditSeen = None
  /\ listed = None
  /\ out = <<>>
  /\ view = [h \in Hosts |-> [bg |-> None, reachable |-> FALSE, last |-> 0]]
  /\ lost = {}

(* A publish ends before the poller's next step.                             *)
PollerReady == sending["poller"] = hub!Idle

(* subscribeHosts has returned.                                              *)
Subscribed ==
  /\ listed # None
  /\ \A f \in Feeds : f[2] \in listed => topics[f] # {}

-------------------------------------------------------------------------------
(* Outside the process: hosts change, commands edit the store.               *)

WorldChange(h, s) ==
  /\ changes < MaxChanges
  /\ world[h] # s
  /\ world' = [world EXCEPT ![h] = s]
  /\ changes' = changes + 1
  /\ UNCHANGED <<hubVars, known, audit, poll, pollState, screen, lost>>

HostAddOrRemove(h) ==
  /\ changes < MaxChanges
  /\ known' = IF h \in known THEN known \ {h} ELSE known \cup {h}
  /\ changes' = changes + 1
  /\ UNCHANGED <<hubVars, world, audit, poll, pollState, screen, lost>>

AppendAudit(h) ==
  /\ Len(audit) < MaxAudit
  /\ audit' = Append(audit, h)
  /\ UNCHANGED <<hubVars, world, known, changes, poll, pollState, screen, lost>>

-------------------------------------------------------------------------------
(* Poller.Tick.                                                              *)

(* A tick whose Hosts() fails does nothing: the poller goes on waiting.      *)
TickStart ==
  /\ poll = Waiting
  /\ SubscribeFirst => Subscribed
  /\ poll' = [Waiting EXCEPT !.pc = "hosts", !.all = known, !.todo = known]
  /\ UNCHANGED <<hubVars, outside, pollState, screen, lost>>

(* Probe(h), whose error Tick ignores.                                       *)
Probe(h) ==
  LET s == IF h \in known THEN world[h] ELSE Zero IN
  /\ poll.pc = "hosts"
  /\ h \in poll.todo
  /\ poll' = [poll EXCEPT !.pc = "bg", !.host = h, !.snap = s]
  /\ UNCHANGED <<hubVars, outside, pollState, screen, lost>>

(* A frame that finds no subscriber is lost as well.                         *)
NobodyHears(f) == topics[f] = {} /\ f[1] = "bg"

PollBGMute ==
  LET h == poll.host IN
  /\ poll.pc = "bg"
  /\ PollerReady
  /\ lastBG' = [lastBG EXCEPT ![h] = poll.snap]
  /\ IF lastBG[h] = poll.snap \/ poll.snap = Unknown
     THEN UNCHANGED <<hubVars, lost>>
     ELSE /\ hub!PublishCopy("poller", <<"bg", h>>, poll.snap)
          /\ lost' = IF NobodyHears(<<"bg", h>>) THEN lost \cup {h} ELSE lost
  /\ poll' = [poll EXCEPT !.pc = "health"]
  /\ UNCHANGED <<outside, lastHealth, auditSeen, screen>>

(* The bg event: only when the key differs from the last tick's.             *)
PollBG ==
  LET h == poll.host IN
  /\ poll.pc = "bg"
  /\ PollerReady
  /\ IF lastBG[h] = poll.snap
     THEN UNCHANGED <<hubVars, lost, lastBG>>
     ELSE /\ lastBG' = [lastBG EXCEPT ![h] = poll.snap]
          /\ hub!PublishCopy("poller", <<"bg", h>>, poll.snap)
          /\ lost' = IF NobodyHears(<<"bg", h>>) THEN lost \cup {h} ELSE lost
  /\ poll' = [poll EXCEPT !.pc = "health"]
  /\ UNCHANGED <<outside, lastHealth, auditSeen, screen>>

HealthKeyNoTime(h) == [ok |-> Healthy(poll.snap), at |-> 0]

(* The health key has the second of the probe in it, which is another one on *)
(* every tick (the ticks are 5 s apart): two values are enough to differ.    *)
(* The zero snapshot always has the same one.                                *)
HealthKey(h) ==
  [ok |-> Healthy(poll.snap),
   at |-> IF poll.snap = Zero THEN 2
          ELSE IF lastHealth[h] = None THEN 0
          ELSE (lastHealth[h].at + 1) % 2]

PollHealth ==
  LET h == poll.host IN
  /\ poll.pc = "health"
  /\ PollerReady
  /\ IF lastHealth[h] = HealthKey(h)
     THEN UNCHANGED <<hubVars, lastHealth>>
     ELSE /\ lastHealth' = [lastHealth EXCEPT ![h] = HealthKey(h)]
          /\ hub!PublishCopy("poller", <<"health", h>>, Healthy(poll.snap))
  /\ poll' = [poll EXCEPT !.pc = "hosts", !.todo = @ \ {h},
                          !.host = None, !.snap = None]
  /\ UNCHANGED <<outside, lastBG, auditSeen, screen, lost>>

(* Audit(): the first read only sets the baseline; a read that fails goes on *)
(* to the pruning.                                                           *)
PollAudit ==
  /\ poll.pc = "hosts"
  /\ poll.todo = {}
  /\ PollerReady
  /\ \/ /\ auditSeen' = IF auditSeen = None THEN Len(audit) ELSE auditSeen
        /\ poll' = [poll EXCEPT !.pc = "actions", !.upto = Len(audit)]
     \/ /\ poll' = [poll EXCEPT !.pc = "prune"]
        /\ UNCHANGED auditSeen
  /\ UNCHANGED <<hubVars, outside, lastBG, lastHealth, screen, lost>>

PollActionsBackwards ==
  /\ poll.pc = "actions"
  /\ PollerReady
  /\ auditSeen < poll.upto
  /\ hub!PublishCopy("poller", <<"actions", audit[poll.upto]>>, poll.upto)
  /\ poll' = [poll EXCEPT !.upto = @ - 1]
  /\ UNCHANGED <<outside, pollState, screen, lost>>

(* The new entries are published oldest first.                               *)
PollActions ==
  /\ poll.pc = "actions"
  /\ PollerReady
  /\ auditSeen < poll.upto
  /\ auditSeen' = auditSeen + 1
  /\ hub!PublishCopy("poller", <<"actions", audit[auditSeen + 1]>>, auditSeen + 1)
  /\ UNCHANGED <<outside, poll, lastBG, lastHealth, screen, lost>>

Pruned(keys) == [h \in Hosts |-> IF h \in poll.all THEN keys[h] ELSE None]

(* The tick ends by pruning the keys of hosts that were not in its list.     *)
PollPrune ==
  /\ \/ poll.pc = "prune"
     \/ poll.pc = "actions" /\ auditSeen = poll.upto
  /\ PollerReady
  /\ lastBG' = Pruned(lastBG)
  /\ lastHealth' = Pruned(lastHealth)
  /\ poll' = Waiting
  /\ UNCHANGED <<hubVars, outside, auditSeen, screen, lost>>

(* One non-blocking send of Hub.Publish.                                     *)
PollSend(f) ==
  /\ hub!PublishSend("poller", f)
  /\ lost' = IF f[1] = "bg" /\ hub!Lossy(f) THEN lost \cup {f[2]} ELSE lost
  /\ UNCHANGED <<outside, poll, pollState, screen>>

-------------------------------------------------------------------------------
(* The screen: tui.Run starts the poller, then reads the hosts and           *)
(* subscribes; hosts added later are not subscribed.                         *)

ReadHosts ==
  /\ listed = None
  /\ listed' = known
  /\ UNCHANGED <<hubVars, outside, poll, pollState, out, view, lost>>

SubscribeTo(f) ==
  /\ listed # None
  /\ f[2] \in listed
  /\ topics[f] = {}
  /\ hub!Subscribe(f, f)
  /\ UNCHANGED <<outside, poll, pollState, screen, lost>>

(* A forwarder's receive and its non-blocking send, which is one step as     *)
(* only the forwarder itself takes from its channel.                         *)
Forward(f) ==
  LET full == Len(out) >= OutCap IN
  /\ hub!Take(f)
  /\ out' = IF full THEN out
            ELSE Append(out, [kind |-> f[1], host |-> f[2], val |-> Head(chan[f])])
  /\ lost' = IF full /\ f[1] = "bg" THEN lost \cup {f[2]} ELSE lost
  /\ UNCHANGED <<outside, poll, pollState, listed, view>>

Folded(v, m) ==
  CASE m.kind = "bg"      -> [v EXCEPT !.bg = m.val]
    [] m.kind = "health"  -> [v EXCEPT !.reachable = m.val]
    [] m.kind = "actions" -> [v EXCEPT !.last = m.val]

(* The program's Update folds the oldest frame.                              *)
Show ==
  /\ Subscribed
  /\ out # <<>>
  /\ view' = [view EXCEPT ![Head(out).host] = Folded(@, Head(out))]
  /\ out' = Tail(out)
  /\ UNCHANGED <<hubVars, outside, poll, pollState, listed, lost>>

-------------------------------------------------------------------------------
PollerStep ==
  \/ TickStart
  \/ \E h \in Hosts : Probe(h)
  \/ PollBG
  \/ PollHealth
  \/ PollAudit
  \/ PollActions
  \/ PollPrune
  \/ \E f \in Feeds : PollSend(f)

SubscribeStep == ReadHosts \/ \E f \in Feeds : SubscribeTo(f)

Next ==
  \/ \E h \in Hosts, s \in Phases \cup {Unknown} : WorldChange(h, s)
  \/ \E h \in Hosts : HostAddOrRemove(h) \/ AppendAudit(h)
  \/ PollerStep
  \/ SubscribeStep
  \/ \E f \in Feeds : Forward(f)
  \/ Show

Spec == Init /\ [][Next]_vars

(* The ticker, the goroutines and the program's loop run; the world need not *)
(* change.                                                                   *)
Fairness ==
  /\ WF_vars(PollerStep)
  /\ WF_vars(SubscribeStep)
  /\ \A f \in Feeds : WF_vars(Forward(f))
  /\ WF_vars(Show)

FairSpec == Spec /\ Fairness

-------------------------------------------------------------------------------
Frames ==
  UNION {[kind : {"bg"}, host : Hosts, val : Snaps],
         [kind : {"health"}, host : Hosts, val : BOOLEAN],
         [kind : {"actions"}, host : Hosts, val : 1..MaxAudit]}

TypeOK ==
  /\ topics \in [Feeds -> SUBSET Feeds]
  /\ \A f \in Feeds :
       /\ Len(chan[f]) <= HubCap
       /\ \A i \in 1..Len(chan[f]) :
            [kind |-> f[1], host |-> f[2], val |-> chan[f][i]] \in Frames
  /\ world \in [Hosts -> Phases \cup {Unknown}]
  /\ known \subseteq Hosts
  /\ audit \in Seq(Hosts)
  /\ changes \in 0..MaxChanges
  /\ poll \in [pc : PollStates, all : SUBSET Hosts, todo : SUBSET Hosts,
               host : Hosts \cup {None}, snap : Snaps \cup {None}, upto : Nat]
  /\ lastBG \in [Hosts -> Snaps \cup {None}]
  /\ lastHealth \in [Hosts -> [ok : BOOLEAN, at : 0..2] \cup {None}]
  /\ auditSeen \in 0..MaxAudit \cup {None}
  /\ listed \in {None} \cup SUBSET Hosts
  /\ out \in Seq(Frames) /\ Len(out) <= OutCap
  /\ view \in [Hosts -> [bg : Snaps \cup {None}, reachable : BOOLEAN, last : Nat]]
  /\ lost \subseteq Hosts

(* Audit entries reach the screen at most once and in the order they were    *)
(* written, whatever is dropped on the way (poller.go auditSeen).            *)
ActionsInOrder ==
  [][\A h \in Hosts : view'[h].last # view[h].last
                        => view'[h].last > view[h].last]_vars

BgFramesOut(h) == {i \in DOMAIN out : out[i].kind = "bg" /\ out[i].host = h}

(* The newest bg frame of h between the poller and the screen says v: it is  *)
(* being sent, or the last in its channel, the last of h in the output       *)
(* channel, or shown.                                                        *)
NewestIs(h, v) ==
  LET bg == <<"bg", h>> IN
  IF bg \in sending["poller"].to THEN sending["poller"].ev = v
  ELSE IF chan[bg] # <<>> THEN chan[bg][Len(chan[bg])] = v
  ELSE \/ \E i \in BgFramesOut(h) : out[i].val = v /\ \A j \in BgFramesOut(h) : j <= i
       \/ BgFramesOut(h) = {} /\ view[h].bg = v

(* What the poller takes for published (and so will not publish again) is on *)
(* the screen or on its way there, unless a buffer overflowed or nobody had  *)
(* subscribed: change detection, the unlocked sends of the hub and the two   *)
(* queues lose nothing else and reorder nothing.                             *)
PublishedIsOnItsWay ==
  \A h \in Hosts \ lost : lastBG[h] # None => NewestIs(h, lastBG[h])

-------------------------------------------------------------------------------
(* Hosts the screen follows and the poller still probes.                     *)
Followed(h) == listed # None /\ h \in listed /\ h \in known

(* The badge's reachability reconciles on later ticks whatever was dropped   *)
(* or missed: the second of the probe in the key makes every tick publish.   *)
HealthReconciles ==
  \A h \in Hosts :
    []<>(Followed(h) => view[h].reachable = Healthy(world[h]))

(* The badge's state follows the world unless a bg frame was lost.           *)
BgReconcilesUnlessLost ==
  \A h \in Hosts :
    []<>(Followed(h) => view[h].bg = world[h] \/ h \in lost)

===============================================================================
