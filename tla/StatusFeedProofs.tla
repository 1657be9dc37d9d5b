--------------------------- MODULE StatusFeedProofs ---------------------------
(* What holds of the status feed for any hosts, buffers and numbers of       *)
(* changes and audit entries: types, and the order in which the screen sees  *)
(* the audit log.                                                            *)
EXTENDS StatusFeed, TLAPS

-------------------------------------------------------------------------------
(* Frames.                                                                   *)

Values == Snaps \cup BOOLEAN \cup (1..MaxAudit) \cup {None}

Frame(f, v) == [kind |-> f[1], host |-> f[2], val |-> v]

LEMMA FeedFields ==
  ASSUME NEW f \in Feeds
  PROVE  f = <<f[1], f[2]>> /\ f[1] \in Kinds /\ f[2] \in Hosts
BY DEF Feeds

LEMMA HostFeeds ==
  ASSUME NEW h \in Hosts
  PROVE  /\ <<"bg", h>> \in Feeds /\ <<"health", h>> \in Feeds /\ <<"actions", h>> \in Feeds
BY DEF Feeds, Kinds

LEMMA FrameTypes ==
  ASSUME NEW h \in Hosts, NEW v
  PROVE  /\ v \in Snaps => Frame(<<"bg", h>>, v) \in Frames
         /\ v \in BOOLEAN => Frame(<<"health", h>>, v) \in Frames
         /\ v \in 1..MaxAudit => Frame(<<"actions", h>>, v) \in Frames
BY DEF Frame, Frames

LEMMA FrameFields ==
  ASSUME NEW m \in Frames
  PROVE  /\ m.host \in Hosts /\ m.val \in Values
         /\ \/ m.kind = "bg" /\ m.val \in Snaps
            \/ m.kind = "health" /\ m.val \in BOOLEAN
            \/ m.kind = "actions" /\ m.val \in 1..MaxAudit
BY DEF Frames, Values

-------------------------------------------------------------------------------
(* The invariant.                                                            *)

(* A channel is registered on its own topic only, a send is of a frame of    *)
(* the topic it is made on, and what waits in a buffer is in its order.      *)
WireInv ==
  /\ \A f \in Feeds : topics[f] \subseteq {f}
  /\ chan \in [Feeds -> Seq(Values)]
  /\ sending \in [{"poller"} -> [ev : Values, to : SUBSET Feeds]]
  /\ \A f \in sending["poller"].to : Frame(f, sending["poller"].ev) \in Frames

(* What a tick has at each of its points, and where its audit cursor is.     *)
PollInv ==
  /\ poll.pc \in {"bg", "health"} => poll.host \in Hosts /\ poll.snap \in Snaps
  /\ poll.pc = "actions" => auditSeen # None /\ poll.upto <= Len(audit)
  /\ auditSeen # None => auditSeen <= Len(audit)
  /\ Len(audit) <= MaxAudit

IsAction(m, h) == m.kind = "actions" /\ m.host = h

Seen == IF auditSeen = None THEN 0 ELSE auditSeen

(* The entries of h from the screen back to the poller: what is shown, what  *)
(* is in the output channel, in the buffer, being sent, and the cursor.      *)
OutOrder(h) ==
  /\ view[h].last <= Seen
  /\ \A i \in 1..Len(out) :
       IsAction(out[i], h) => view[h].last < out[i].val /\ out[i].val <= Seen
  /\ \A i, j \in 1..Len(out) :
       IsAction(out[i], h) /\ IsAction(out[j], h) /\ i < j => out[i].val < out[j].val

ChanOrder(h) ==
  LET f == <<"actions", h>> IN
  /\ \A i \in 1..Len(chan[f]) :
       /\ view[h].last < chan[f][i] /\ chan[f][i] <= Seen
       /\ \A j \in 1..Len(out) : IsAction(out[j], h) => out[j].val < chan[f][i]
  /\ \A i, j \in 1..Len(chan[f]) : i < j => chan[f][i] < chan[f][j]

SendOrder(h) ==
  LET f == <<"actions", h>>
      v == sending["poller"].ev
  IN f \in sending["poller"].to =>
       /\ view[h].last < v /\ v <= Seen
       /\ \A j \in 1..Len(out) : IsAction(out[j], h) => out[j].val < v
       /\ \A i \in 1..Len(chan[f]) : chan[f][i] < v

OrderInv == \A h \in Hosts : OutOrder(h) /\ ChanOrder(h) /\ SendOrder(h)

IInv == TypeOK /\ WireInv /\ PollInv /\ OrderInv

LEMMA IdleFields ==
  /\ hub!Idle.to = {} /\ hub!Idle.ev = None
  /\ hub!Idle \in [ev : Values, to : SUBSET Feeds]
BY DEF hub!Idle, Values

LEMMA InitIInv == Init => IInv
<1> SUFFICES ASSUME Init PROVE IInv
  OBVIOUS
<1> USE DEF Init, hub!HubInit
<1>1. TypeOK
  <2>1. \A f \in Feeds : chan[f] = <<>>
    OBVIOUS
  <2>2. poll \in [pc : PollStates, all : SUBSET Hosts, todo : SUBSET Hosts,
                  host : Hosts \cup {None}, snap : Snaps \cup {None}, upto : Nat]
    BY DEF Waiting, PollStates
  <2>3. audit \in Seq(Hosts) /\ out \in Seq(Frames) /\ Len(out) <= OutCap
    BY SnapAssumption
  <2>4. changes \in 0..MaxChanges
    BY BoundAssumption
  <2>5. \A f \in Feeds : Len(chan[f]) <= HubCap /\ 1..Len(chan[f]) = {}
    BY <2>1, SnapAssumption
  <2>6. /\ topics \in [Feeds -> SUBSET Feeds]
        /\ lastBG \in [Hosts -> Snaps \cup {None}]
        /\ lastHealth \in [Hosts -> [ok : BOOLEAN, at : 0..2] \cup {None}]
        /\ view \in [Hosts -> [bg : Snaps \cup {None}, reachable : BOOLEAN, last : Nat]]
    OBVIOUS
  <2>7. \A f \in Feeds :
          /\ Len(chan[f]) <= HubCap
          /\ \A i \in 1..Len(chan[f]) :
               [kind |-> f[1], host |-> f[2], val |-> chan[f][i]] \in Frames
    BY <2>5
  <2>8. world \in [Hosts -> Phases \cup {Unknown}] /\ known \subseteq Hosts /\ lost \subseteq Hosts
    OBVIOUS
  <2>9. auditSeen \in 0..MaxAudit \cup {None}
    <3>1. auditSeen = None
      OBVIOUS
    <3> QED BY <3>1
  <2>10. listed \in {None} \cup SUBSET Hosts
    <3>1. listed = None
      OBVIOUS
    <3> QED BY ONLY <3>1
  <2> HIDE DEF Init, hub!HubInit
  <2> QED BY <2>2, <2>3, <2>4, <2>6, <2>7, <2>8, <2>9, <2>10 DEF TypeOK
<1>2. WireInv
  BY IdleFields DEF WireInv
<1>3. PollInv
  BY BoundAssumption DEF PollInv, Waiting
<1>4. OrderInv
  <2>1. \A h \in Hosts : chan[<<"actions", h>>] = <<>> /\ view[h].last = 0
    BY HostFeeds
  <2>2. out = <<>> /\ Seen = 0 /\ sending["poller"].to = {}
    BY IdleFields DEF Seen
  <2>3. 1..Len(out) = {} /\ \A h \in Hosts : 1..Len(chan[<<"actions", h>>]) = {}
    BY <2>1, <2>2
  <2> HIDE DEF Init, hub!HubInit
  <2>4. ASSUME NEW h \in Hosts PROVE OutOrder(h)
    <3>1. view[h].last = 0
      BY <2>1
    <3>2. Seen = 0
      BY <2>2
    <3>3. view[h].last <= Seen
      BY <3>1, <3>2
    <3> QED BY <2>3, <3>3 DEF OutOrder
  <2>5. ASSUME NEW h \in Hosts PROVE ChanOrder(h)
    BY <2>1, <2>2, <2>3 DEF ChanOrder
  <2>6. ASSUME NEW h \in Hosts PROVE SendOrder(h)
    BY <2>1, <2>2, <2>3 DEF SendOrder
  <2> QED BY <2>4, <2>5, <2>6 DEF OrderInv
<1> QED BY <1>1, <1>2, <1>3, <1>4 DEF IInv

-------------------------------------------------------------------------------
(* Outside the process, and the poller's own state.                          *)

Outside ==
  \/ \E h \in Hosts, s \in Phases \cup {Unknown} : WorldChange(h, s)
  \/ \E h \in Hosts : HostAddOrRemove(h) \/ AppendAudit(h)

LEMMA AuditLength ==
  ASSUME IInv
  PROVE  /\ audit \in Seq(Hosts) /\ Len(audit) \in Nat /\ Len(audit) <= MaxAudit
         /\ MaxAudit \in Nat
         /\ auditSeen # None => auditSeen \in Nat /\ auditSeen <= Len(audit)
<1>1. audit \in Seq(Hosts) /\ auditSeen \in 0..MaxAudit \cup {None}
  BY DEF IInv, TypeOK
<1>2. MaxAudit \in Nat
  BY BoundAssumption
<1>3. Len(audit) <= MaxAudit /\ (auditSeen # None => auditSeen <= Len(audit))
  BY DEF IInv, PollInv
<1> QED BY <1>1, <1>2, <1>3

(* Entries are numbers wherever they are.                                    *)
LEMMA EntryTypes ==
  ASSUME IInv, NEW h \in Hosts
  PROVE  /\ view[h].last \in Nat
         /\ \A i \in 1..Len(out) : IsAction(out[i], h) => out[i].val \in Nat
         /\ \A i \in 1..Len(chan[<<"actions", h>>]) : chan[<<"actions", h>>][i] \in Nat
         /\ <<"actions", h>> \in sending["poller"].to => sending["poller"].ev \in Nat
         /\ Seen \in Nat
<1>1. view[h].last \in Nat
  BY DEF IInv, TypeOK
<1>2. \A m \in Frames : m.kind = "actions" => m.val \in Nat
  BY FrameFields, BoundAssumption
<1>3. \A i \in 1..Len(out) : out[i] \in Frames
  BY DEF IInv, TypeOK
<1>4. \A i \in 1..Len(chan[<<"actions", h>>]) :
        Frame(<<"actions", h>>, chan[<<"actions", h>>][i]) \in Frames
  BY HostFeeds DEF IInv, TypeOK, Frame
<1>5. <<"actions", h>> \in sending["poller"].to =>
        Frame(<<"actions", h>>, sending["poller"].ev) \in Frames
  BY DEF IInv, WireInv
<1>6. \A v : /\ Frame(<<"actions", h>>, v).kind = "actions"
             /\ Frame(<<"actions", h>>, v).val = v
  BY DEF Frame
<1>7. Seen \in Nat
  BY AuditLength DEF Seen
<1> QED BY <1>1, <1>2, <1>3, <1>4, <1>5, <1>6, <1>7 DEF IsAction

(* A step that moves no frame.                                               *)
LEMMA OrderStays ==
  ASSUME IInv, UNCHANGED <<chan, sending, out, view>>,
         auditSeen' = auditSeen \/ (auditSeen = None /\ auditSeen' \in Nat)
  PROVE  OrderInv'
<1>1. Seen \in Nat /\ Seen' \in Nat /\ Seen <= Seen'
  <2>1. CASE auditSeen' = auditSeen
    BY <2>1, AuditLength DEF Seen
  <2>2. CASE auditSeen = None /\ auditSeen' \in Nat
    BY <2>2, BoundAssumption DEF Seen
  <2> QED BY <2>1, <2>2
<1> SUFFICES ASSUME NEW h \in Hosts PROVE OutOrder(h)' /\ ChanOrder(h)' /\ SendOrder(h)'
  BY DEF OrderInv
<1> DEFINE f == <<"actions", h>>
<1>2. OutOrder(h) /\ ChanOrder(h) /\ SendOrder(h)
  BY DEF IInv, OrderInv
<1>3. /\ view[h].last \in Nat
      /\ \A i \in 1..Len(out) : IsAction(out[i], h) => out[i].val \in Nat
      /\ \A i \in 1..Len(chan[f]) : chan[f][i] \in Nat
      /\ f \in sending["poller"].to => sending["poller"].ev \in Nat
  BY EntryTypes
<1>4. \A n \in Nat : n <= Seen => n <= Seen'
  BY <1>1
<1>5. OutOrder(h)'
  BY ONLY <1>2, <1>3, <1>4, UNCHANGED <<out, view>> DEF OutOrder, IsAction
<1>6. ChanOrder(h)'
  BY ONLY <1>2, <1>3, <1>4, UNCHANGED <<chan, out, view>> DEF ChanOrder, IsAction
<1>7. SendOrder(h)'
  BY ONLY <1>2, <1>3, <1>4, UNCHANGED <<chan, sending, out, view>> DEF SendOrder, IsAction
<1> QED BY <1>5, <1>6, <1>7

LEMMA StepOutside == IInv /\ Outside => IInv'
<1> SUFFICES ASSUME IInv, Outside PROVE IInv'
  OBVIOUS
<1> USE DEF IInv
<1>1. UNCHANGED <<hubVars, poll, pollState, screen, lost>>
  BY DEF Outside, WorldChange, HostAddOrRemove, AppendAudit
<1>2. audit' = audit \/ \E h \in Hosts : Len(audit) < MaxAudit /\ audit' = Append(audit, h)
  BY DEF Outside, WorldChange, HostAddOrRemove, AppendAudit, outside
<1>3. /\ audit' \in Seq(Hosts) /\ Len(audit) \in Nat /\ Len(audit') \in Nat
      /\ Len(audit) <= Len(audit') /\ Len(audit') <= MaxAudit
  <2>1. audit \in Seq(Hosts) /\ Len(audit) \in Nat /\ Len(audit) <= MaxAudit /\ MaxAudit \in Nat
    BY AuditLength
  <2> QED BY ONLY <1>2, <2>1
<1>4. /\ world' \in [Hosts -> Phases \cup {Unknown}] /\ known' \subseteq Hosts
      /\ changes' \in 0..MaxChanges
  <2>1. /\ world \in [Hosts -> Phases \cup {Unknown}] /\ known \subseteq Hosts
        /\ changes \in 0..MaxChanges /\ MaxChanges \in Nat
    BY BoundAssumption DEF TypeOK
  <2> QED BY <2>1 DEF Outside, WorldChange, HostAddOrRemove, AppendAudit
<1>5. TypeOK'
  BY <1>1, <1>3, <1>4 DEF TypeOK, hubVars, pollState, screen
<1>6. WireInv'
  BY <1>1 DEF WireInv, hubVars
<1>7. PollInv'
  BY <1>1, <1>3 DEF PollInv, TypeOK, pollState
<1>8. OrderInv'
  BY <1>1, OrderStays DEF hubVars, screen, pollState
<1> QED BY <1>5, <1>6, <1>7, <1>8

PollOnly ==
  \/ TickStart
  \/ \E h \in Hosts : Probe(h)
  \/ PollAudit
  \/ PollPrune

LEMMA StepPollOnly == IInv /\ PollOnly => IInv'
<1> SUFFICES ASSUME IInv, PollOnly PROVE IInv'
  OBVIOUS
<1> USE DEF IInv
<1>1. UNCHANGED <<hubVars, outside, screen, lost>>
  BY DEF PollOnly, TickStart, Probe, PollAudit, PollPrune
<1>2. poll' \in [pc : PollStates, all : SUBSET Hosts, todo : SUBSET Hosts,
                 host : Hosts \cup {None}, snap : Snaps \cup {None}, upto : Nat]
  <2>1. Waiting \in [pc : PollStates, all : SUBSET Hosts, todo : SUBSET Hosts,
                     host : Hosts \cup {None}, snap : Snaps \cup {None}, upto : Nat]
    BY DEF Waiting, PollStates
  <2>2. CASE TickStart
    BY <2>1, <2>2 DEF TickStart, TypeOK, Waiting, PollStates
  <2>3. ASSUME NEW h \in Hosts, Probe(h)
        PROVE  poll' \in [pc : PollStates, all : SUBSET Hosts, todo : SUBSET Hosts,
                          host : Hosts \cup {None}, snap : Snaps \cup {None}, upto : Nat]
    BY <2>3 DEF Probe, TypeOK, PollStates, Snaps
  <2>4. CASE PollAudit
    <3>1. poll \in [pc : PollStates, all : SUBSET Hosts, todo : SUBSET Hosts,
                    host : Hosts \cup {None}, snap : Snaps \cup {None}, upto : Nat]
      BY DEF TypeOK
    <3>2. Len(audit) \in Nat
      BY AuditLength
    <3> QED BY <2>4, <3>1, <3>2 DEF PollAudit, PollStates
  <2>5. CASE PollPrune
    BY <2>1, <2>5 DEF PollPrune
  <2> QED BY <2>2, <2>3, <2>4, <2>5 DEF PollOnly
<1>3. lastBG' \in [Hosts -> Snaps \cup {None}]
      /\ lastHealth' \in [Hosts -> [ok : BOOLEAN, at : 0..2] \cup {None}]
  BY DEF PollOnly, TickStart, Probe, PollAudit, PollPrune, Pruned, TypeOK, pollState
<1>4. /\ auditSeen' = auditSeen \/ (auditSeen = None /\ auditSeen' = Len(audit))
      /\ Len(audit) \in Nat
  <2>1. Len(audit) \in Nat
    BY AuditLength
  <2>2. CASE PollAudit
    BY ONLY <2>1, <2>2 DEF PollAudit
  <2>3. CASE ~PollAudit
    <3>1. auditSeen' = auditSeen
      BY <2>3 DEF PollOnly, TickStart, Probe, PollPrune, pollState
    <3> QED BY ONLY <2>1, <3>1
  <2> QED BY <2>2, <2>3
<1>5. TypeOK'
  BY <1>1, <1>2, <1>3, <1>4, BoundAssumption DEF TypeOK, PollInv, hubVars, outside, screen
<1>6. WireInv'
  BY <1>1 DEF WireInv, hubVars
<1>7. PollInv'
  <2>1. CASE TickStart
    BY <1>1, <2>1 DEF TickStart, PollInv, Waiting, outside, pollState
  <2>2. ASSUME NEW h \in Hosts, Probe(h) PROVE PollInv'
    BY <1>1, <2>2 DEF Probe, PollInv, outside, pollState, TypeOK, Snaps
  <2>3. CASE PollAudit
    <3>1. poll'.pc \in {"actions", "prune"} /\ (poll'.pc = "actions" => poll'.upto = Len(audit))
      BY <2>3 DEF PollAudit, TypeOK
    <3>2. poll'.pc = "actions" => auditSeen' # None
      <4>1. Len(audit) # None
        BY AuditLength, BoundAssumption
      <4>2. poll'.pc = "actions" => auditSeen' = IF auditSeen = None THEN Len(audit) ELSE auditSeen
        BY <2>3 DEF PollAudit, TypeOK
      <4> QED BY <4>1, <4>2
    <3>3. auditSeen' # None => auditSeen' <= Len(audit)
      BY <1>4, AuditLength
    <3>4. audit' = audit /\ Len(audit) <= MaxAudit /\ Len(audit) <= Len(audit)
      BY <1>1, AuditLength DEF outside
    <3> QED BY <3>1, <3>2, <3>3, <3>4 DEF PollInv
  <2>4. CASE PollPrune
    BY <1>1, <2>4 DEF PollPrune, PollInv, Waiting, outside
  <2> QED BY <2>1, <2>2, <2>3, <2>4 DEF PollOnly
<1>8. OrderInv'
  BY <1>1, <1>4, OrderStays DEF hubVars, screen
<1> QED BY <1>5, <1>6, <1>7, <1>8

-------------------------------------------------------------------------------
(* The screen subscribes.                                                    *)

LEMMA StepSubscribe == IInv /\ SubscribeStep => IInv'
<1> SUFFICES ASSUME IInv, SubscribeStep PROVE IInv'
  OBVIOUS
<1> USE DEF IInv
<1>1. UNCHANGED <<chan, sending, outside, poll, pollState, out, view, lost>>
  BY DEF SubscribeStep, ReadHosts, SubscribeTo, hub!Subscribe, hubVars, screen
<1>2. listed' \in {None} \cup SUBSET Hosts
  BY DEF SubscribeStep, ReadHosts, SubscribeTo, screen, TypeOK
<1>3. topics' \in [Feeds -> SUBSET Feeds] /\ \A f \in Feeds : topics'[f] \subseteq {f}
  <2>1. topics \in [Feeds -> SUBSET Feeds] /\ \A f \in Feeds : topics[f] \subseteq {f}
    BY DEF TypeOK, WireInv
  <2>2. topics' = topics \/ \E f \in Feeds : topics' = [topics EXCEPT ![f] = @ \cup {f}]
    BY DEF SubscribeStep, ReadHosts, SubscribeTo, hub!Subscribe, hubVars
  <2> QED BY ONLY <2>1, <2>2
<1>4. TypeOK'
  BY <1>1, <1>2, <1>3 DEF TypeOK, outside, pollState
<1>5. WireInv'
  BY <1>1, <1>3 DEF WireInv
<1>6. PollInv'
  BY <1>1 DEF PollInv, outside, pollState
<1>7. OrderInv'
  BY <1>1, OrderStays DEF pollState
<1> QED BY <1>4, <1>5, <1>6, <1>7

-------------------------------------------------------------------------------
(* The poller publishes.                                                     *)

(* What a publish leaves in the hub, when it is over.                        *)
LEMMA Publishes ==
  ASSUME IInv, PollerReady, NEW f \in Feeds, NEW v \in Values,
         hub!PublishCopy("poller", f, v)
  PROVE  /\ UNCHANGED <<topics, chan>>
         /\ sending' \in [{"poller"} -> [ev : Values, to : SUBSET Feeds]]
         /\ sending'["poller"].to \subseteq {f}
         /\ sending'["poller"].to # {} => sending'["poller"].ev = v
<1>1. topics[f] \subseteq {f} /\ sending \in [{"poller"} -> [ev : Values, to : SUBSET Feeds]]
  BY DEF IInv, WireInv
<1>2. sending'["poller"] = hub!Idle \/ sending'["poller"] = [ev |-> v, to |-> topics[f]]
  BY <1>1 DEF hub!PublishCopy
<1>3. sending' \in [{"poller"} -> [ev : Values, to : SUBSET Feeds]]
  BY <1>1, IdleFields DEF hub!PublishCopy
<1> QED BY <1>1, <1>2, <1>3, IdleFields DEF hub!PublishCopy

LEMMA WireStays ==
  ASSUME IInv, NEW f \in Feeds, NEW v, Frame(f, v) \in Frames,
         UNCHANGED <<topics, chan>>,
         sending' \in [{"poller"} -> [ev : Values, to : SUBSET Feeds]],
         sending'["poller"].to \subseteq {f},
         sending'["poller"].to # {} => sending'["poller"].ev = v
  PROVE  WireInv'
BY DEF IInv, WireInv

(* The order does not depend on the frames of other topics.                  *)
LEMMA OtherPublish ==
  ASSUME IInv, UNCHANGED <<chan, out, view, auditSeen>>,
         \A h \in Hosts : <<"actions", h>> \notin sending'["poller"].to
  PROVE  OrderInv'
<1> SUFFICES ASSUME NEW h \in Hosts PROVE OutOrder(h)' /\ ChanOrder(h)' /\ SendOrder(h)'
  BY DEF OrderInv
<1>1. OutOrder(h) /\ ChanOrder(h)
  BY DEF IInv, OrderInv
<1> QED BY <1>1 DEF OutOrder, ChanOrder, SendOrder, Seen

LEMMA StepBG == IInv /\ PollBG => IInv'
<1> SUFFICES ASSUME IInv, PollBG PROVE IInv'
  OBVIOUS
<1> DEFINE h == poll.host
           f == <<"bg", h>>
           v == poll.snap
<1>1. /\ h \in Hosts /\ v \in Snaps /\ v \in Values /\ f \in Feeds /\ Frame(f, v) \in Frames
      /\ PollerReady
  BY HostFeeds, FrameTypes DEF PollBG, IInv, PollInv, Values
<1>2. /\ UNCHANGED <<outside, lastHealth, auditSeen, screen>>
      /\ poll' = [poll EXCEPT !.pc = "health"]
  BY DEF PollBG
<1>3. /\ lastBG' = lastBG \/ lastBG' = [lastBG EXCEPT ![h] = v]
      /\ lost' \subseteq lost \cup {h}
      /\ UNCHANGED hubVars \/ hub!PublishCopy("poller", f, v)
  BY DEF PollBG
<1> HIDE DEF h, f, v
<1>4. UNCHANGED <<topics, chan>>
  BY <1>1, <1>3, Publishes DEF hubVars
<1>5. WireInv'
  <2>1. CASE UNCHANGED hubVars
    BY <2>1 DEF IInv, WireInv, hubVars
  <2>2. CASE hub!PublishCopy("poller", f, v)
    BY <1>1, <2>2, Publishes, WireStays
  <2> QED BY <1>3, <2>1, <2>2
<1>6. poll' \in [pc : PollStates, all : SUBSET Hosts, todo : SUBSET Hosts,
                 host : Hosts \cup {None}, snap : Snaps \cup {None}, upto : Nat]
  BY <1>2 DEF IInv, TypeOK, PollStates
<1>7. lastBG' \in [Hosts -> Snaps \cup {None}] /\ lost' \subseteq Hosts
  BY <1>1, <1>3 DEF IInv, TypeOK
<1>8. TypeOK'
  BY <1>2, <1>4, <1>6, <1>7 DEF IInv, TypeOK, outside, screen
<1>9. PollInv'
  <2>1. poll'.pc = "health" /\ poll'.host = h /\ poll'.snap = v
    BY <1>2 DEF IInv, TypeOK, h, v
  <2> QED BY <1>1, <1>2, <2>1 DEF IInv, PollInv, outside
<1>10. OrderInv'
  <2>1. CASE UNCHANGED hubVars
    BY <1>2, <2>1, OrderStays DEF hubVars, screen
  <2>2. CASE hub!PublishCopy("poller", f, v)
    <3>1. \A g \in Hosts : <<"actions", g>> \notin sending'["poller"].to
      BY <1>1, <2>2, Publishes DEF f
    <3> QED BY <1>2, <1>4, <3>1, OtherPublish DEF screen
  <2> QED BY <1>3, <2>1, <2>2
<1> QED BY <1>5, <1>8, <1>9, <1>10 DEF IInv

LEMMA StepHealth == IInv /\ PollHealth => IInv'
<1> SUFFICES ASSUME IInv, PollHealth PROVE IInv'
  OBVIOUS
<1> DEFINE h == poll.host
           f == <<"health", h>>
           v == Healthy(poll.snap)
           k == HealthKey(h)
<1>1. /\ h \in Hosts /\ v \in BOOLEAN /\ v \in Values /\ f \in Feeds /\ Frame(f, v) \in Frames
      /\ PollerReady
  <2>1. h \in Hosts /\ PollerReady
    BY DEF PollHealth, IInv, PollInv
  <2>2. v \in BOOLEAN
    BY DEF Healthy
  <2>3. v \in Values
    BY <2>2 DEF Values
  <2> QED BY <2>1, <2>2, <2>3, HostFeeds, FrameTypes
<1>2. /\ UNCHANGED <<outside, lastBG, auditSeen, screen, lost>>
      /\ poll' = [poll EXCEPT !.pc = "hosts", !.todo = @ \ {h}, !.host = None, !.snap = None]
  BY DEF PollHealth
<1>3. /\ lastHealth' = lastHealth \/ lastHealth' = [lastHealth EXCEPT ![h] = k]
      /\ UNCHANGED hubVars \/ hub!PublishCopy("poller", f, v)
  BY DEF PollHealth
<1>4. k \in [ok : BOOLEAN, at : 0..2]
  <2>1. lastHealth[h] # None => lastHealth[h].at \in 0..2
    BY <1>1 DEF IInv, TypeOK
  <2>2. \A n \in 0..2 : (n + 1) % 2 \in 0..2
    OBVIOUS
  <2> QED BY <1>1, <2>1, <2>2 DEF HealthKey
<1> HIDE DEF h, f, v, k
<1>5. UNCHANGED <<topics, chan>>
  BY <1>1, <1>3, Publishes DEF hubVars
<1>6. WireInv'
  <2>1. CASE UNCHANGED hubVars
    BY <2>1 DEF IInv, WireInv, hubVars
  <2>2. CASE hub!PublishCopy("poller", f, v)
    BY <1>1, <2>2, Publishes, WireStays
  <2> QED BY <1>3, <2>1, <2>2
<1>7. poll' \in [pc : PollStates, all : SUBSET Hosts, todo : SUBSET Hosts,
                 host : Hosts \cup {None}, snap : Snaps \cup {None}, upto : Nat]
  BY <1>2 DEF IInv, TypeOK, PollStates
<1>8. lastHealth' \in [Hosts -> [ok : BOOLEAN, at : 0..2] \cup {None}]
  BY <1>1, <1>3, <1>4 DEF IInv, TypeOK
<1>9. TypeOK'
  BY <1>2, <1>5, <1>7, <1>8 DEF IInv, TypeOK, outside, screen
<1>10. PollInv'
  <2>1. poll'.pc = "hosts"
    BY <1>2 DEF IInv, TypeOK
  <2> QED BY <1>2, <2>1 DEF IInv, PollInv, outside
<1>11. OrderInv'
  <2>1. CASE UNCHANGED hubVars
    BY <1>2, <2>1, OrderStays DEF hubVars, screen
  <2>2. CASE hub!PublishCopy("poller", f, v)
    <3>1. \A g \in Hosts : <<"actions", g>> \notin sending'["poller"].to
      BY <1>1, <2>2, Publishes DEF f
    <3> QED BY <1>2, <1>5, <3>1, OtherPublish DEF screen
  <2> QED BY <1>3, <2>1, <2>2
<1> QED BY <1>6, <1>9, <1>10, <1>11 DEF IInv

LEMMA StepActions == IInv /\ PollActions => IInv'
<1> SUFFICES ASSUME IInv, PollActions PROVE IInv'
  OBVIOUS
<1> DEFINE n == auditSeen + 1
           f == <<"actions", audit[n]>>
<1>1. /\ auditSeen \in Nat /\ auditSeen # None /\ n \in 1..Len(audit) /\ n \in 1..MaxAudit
      /\ poll.upto \in Nat /\ poll.upto <= Len(audit) /\ n <= poll.upto
  <2>1. poll.upto \in Nat
    BY DEF IInv, TypeOK
  <2>2. auditSeen # None /\ poll.upto <= Len(audit) /\ auditSeen < poll.upto
    BY DEF PollActions, IInv, PollInv
  <2> QED BY <2>1, <2>2, AuditLength
<1>2. audit[n] \in Hosts
  BY <1>1, AuditLength
<1>3. f \in Feeds /\ n \in Values /\ Frame(f, n) \in Frames /\ PollerReady
  BY <1>1, <1>2, HostFeeds, FrameTypes DEF PollActions, Values
<1>4. /\ UNCHANGED <<outside, poll, lastBG, lastHealth, screen, lost>>
      /\ auditSeen' = n
      /\ hub!PublishCopy("poller", f, n)
  BY DEF PollActions
<1>5. /\ UNCHANGED <<topics, chan>>
      /\ sending'["poller"].to \subseteq {f}
      /\ sending'["poller"].to # {} => sending'["poller"].ev = n
  BY <1>3, <1>4, Publishes
<1>6. WireInv'
  BY <1>3, <1>4, Publishes, WireStays
<1>7. TypeOK'
  <2>1. auditSeen' \in 0..MaxAudit \cup {None}
    BY <1>1, <1>4
  <2> QED BY <1>4, <1>5, <2>1 DEF IInv, TypeOK, outside, screen
<1>8. PollInv'
  <2>1. auditSeen' \in Nat /\ auditSeen' <= Len(audit) /\ auditSeen' # None
    BY <1>1, <1>4, BoundAssumption
  <2> QED BY <1>1, <1>4, <2>1 DEF IInv, PollInv, outside, PollActions
<1>9. OrderInv'
  <2> SUFFICES ASSUME NEW h \in Hosts PROVE OutOrder(h)' /\ ChanOrder(h)' /\ SendOrder(h)'
    BY DEF OrderInv
  <2> DEFINE g == <<"actions", h>>
  <2>1. OutOrder(h) /\ ChanOrder(h)
    BY DEF IInv, OrderInv
  <2>2. Seen = auditSeen /\ Seen' = n /\ n \in Nat /\ Seen \in Nat
    BY <1>1, <1>4, BoundAssumption DEF Seen
  <2>3. /\ view[h].last \in Nat
        /\ \A i \in 1..Len(out) : IsAction(out[i], h) => out[i].val \in Nat
        /\ \A i \in 1..Len(chan[g]) : chan[g][i] \in Nat
    BY EntryTypes
  <2>4. \A m \in Nat : m <= Seen => m <= Seen' /\ m < n
    BY <2>2
  <2>5. UNCHANGED <<chan, out, view>>
    BY <1>4, <1>5 DEF screen
  <2> HIDE DEF n
  <2>6. OutOrder(h)'
    BY ONLY <2>1, <2>3, <2>4, <2>5 DEF OutOrder, IsAction
  <2>7. ChanOrder(h)'
    BY ONLY <2>1, <2>3, <2>4, <2>5 DEF ChanOrder, IsAction
  <2>8. SendOrder(h)'
    <3>1. g \in sending'["poller"].to => sending'["poller"].ev = n
      BY <1>5
    <3>2. n <= Seen'
      BY <2>2
    <3> QED BY ONLY <2>1, <2>3, <2>4, <2>5, <3>1, <3>2 DEF SendOrder, OutOrder, ChanOrder, IsAction
  <2> QED BY <2>6, <2>7, <2>8
<1> QED BY <1>6, <1>7, <1>8, <1>9 DEF IInv

-------------------------------------------------------------------------------
(* A frame moves on: into the buffer, into the output channel, on the screen.*)

LEMMA StepSend == \A f \in Feeds : IInv /\ PollSend(f) => IInv'
<1> SUFFICES ASSUME NEW f \in Feeds, IInv, PollSend(f) PROVE IInv'
  OBVIOUS
<1> DEFINE s == sending["poller"]
           full == Len(chan[f]) >= HubCap
<1>1. /\ s \in [ev : Values, to : SUBSET Feeds] /\ f \in s.to /\ Frame(f, s.ev) \in Frames
      /\ chan[f] \in Seq(Values) /\ chan \in [Feeds -> Seq(Values)]
      /\ sending \in [{"poller"} -> [ev : Values, to : SUBSET Feeds]]
  BY DEF PollSend, hub!PublishSend, IInv, WireInv
<1>2. /\ UNCHANGED <<topics, outside, poll, pollState, screen>>
      /\ chan' = [chan EXCEPT ![f] = IF full THEN @ ELSE Append(@, s.ev)]
      /\ sending' = [sending EXCEPT !["poller"] = hub!SentTo("poller", f)]
      /\ lost' \subseteq lost \cup {f[2]}
  BY DEF PollSend, hub!PublishSend, hub!Lossy
<1>3. hub!SentTo("poller", f) = hub!Idle \/ hub!SentTo("poller", f) = [s EXCEPT !.to = @ \ {f}]
  BY DEF hub!SentTo
<1>4. /\ sending' \in [{"poller"} -> [ev : Values, to : SUBSET Feeds]]
      /\ sending'["poller"].to \subseteq s.to \ {f}
      /\ sending'["poller"].to # {} => sending'["poller"].ev = s.ev
  BY <1>1, <1>2, <1>3, IdleFields
<1>5. /\ chan' \in [Feeds -> Seq(Values)]
      /\ \A g \in Feeds \ {f} : chan'[g] = chan[g]
      /\ chan'[f] = IF full THEN chan[f] ELSE Append(chan[f], s.ev)
  BY <1>1, <1>2
<1> HIDE DEF s
<1>6. /\ Len(chan'[f]) <= HubCap
      /\ \A i \in 1..Len(chan'[f]) : Frame(f, chan'[f][i]) \in Frames
  <2>1. /\ Len(chan[f]) <= HubCap /\ Len(chan[f]) \in Nat /\ HubCap \in Nat
        /\ \A i \in 1..Len(chan[f]) : Frame(f, chan[f][i]) \in Frames
    BY <1>1, SnapAssumption DEF IInv, TypeOK, Frame
  <2>2. CASE full
    BY <1>5, <2>1, <2>2
  <2>3. CASE ~full
    <3>1. chan'[f] = Append(chan[f], s.ev)
      BY <1>5, <2>3
    <3> QED BY <1>1, <2>1, <2>3, <3>1
  <2> QED BY <2>2, <2>3
<1>7. TypeOK'
  <2>1. \A g \in Feeds :
          /\ Len(chan'[g]) <= HubCap
          /\ \A i \in 1..Len(chan'[g]) :
               [kind |-> g[1], host |-> g[2], val |-> chan'[g][i]] \in Frames
    BY <1>5, <1>6 DEF IInv, TypeOK, Frame
  <2>2. lost' \subseteq Hosts
    BY <1>2, FeedFields DEF IInv, TypeOK
  <2> QED BY <1>2, <2>1, <2>2 DEF IInv, TypeOK, outside, pollState, screen
<1>8. WireInv'
  BY <1>1, <1>2, <1>4, <1>5 DEF IInv, WireInv, s
<1>9. PollInv'
  BY <1>2 DEF IInv, PollInv, outside, pollState
<1>10. OrderInv'
  <2> SUFFICES ASSUME NEW h \in Hosts PROVE OutOrder(h)' /\ ChanOrder(h)' /\ SendOrder(h)'
    BY DEF OrderInv
  <2> DEFINE g == <<"actions", h>>
  <2>1. OutOrder(h) /\ ChanOrder(h) /\ SendOrder(h)
    BY DEF IInv, OrderInv
  <2>2. UNCHANGED <<out, view>> /\ Seen' = Seen
    BY <1>2 DEF screen, pollState, Seen
  <2>3. OutOrder(h)'
    BY ONLY <2>1, <2>2 DEF OutOrder, IsAction
  <2>4. CASE f # g \/ full
    <3>1. chan'[g] = chan[g]
      BY <1>5, <2>4, HostFeeds
    <3>2. ChanOrder(h)'
      BY ONLY <2>1, <2>2, <3>1 DEF ChanOrder, IsAction
    <3>3. SendOrder(h)'
      BY ONLY <1>4, <2>1, <2>2, <3>1 DEF SendOrder, IsAction, s
    <3> QED BY <2>3, <3>2, <3>3
  <2>5. CASE f = g /\ ~full
    <3>1. g \notin sending'["poller"].to
      BY <1>4, <2>5
    <3>2. SendOrder(h)'
      BY <3>1 DEF SendOrder
    <3>3. chan'[g] = Append(chan[g], s.ev) /\ chan[g] \in Seq(Values)
      BY <1>1, <1>5, <2>5
    <3>4. /\ view[h].last < s.ev /\ s.ev <= Seen
          /\ \A j \in 1..Len(out) : IsAction(out[j], h) => out[j].val < s.ev
          /\ \A i \in 1..Len(chan[g]) : chan[g][i] < s.ev
      BY <1>1, <2>1, <2>5 DEF SendOrder, s
    <3>5. \A i \in 1..Len(chan'[g]) :
            IF i = Len(chan[g]) + 1 THEN chan'[g][i] = s.ev
            ELSE i \in 1..Len(chan[g]) /\ chan'[g][i] = chan[g][i]
      BY <3>3
    <3>6. /\ \A i \in 1..Len(chan[g]) :
               /\ view[h].last < chan[g][i] /\ chan[g][i] <= Seen
               /\ \A j \in 1..Len(out) : IsAction(out[j], h) => out[j].val < chan[g][i]
          /\ \A i, j \in 1..Len(chan[g]) : i < j => chan[g][i] < chan[g][j]
      BY <2>1 DEF ChanOrder
    <3>7. \A i \in 1..Len(chan'[g]) :
            /\ view[h].last < chan'[g][i] /\ chan'[g][i] <= Seen
            /\ \A j \in 1..Len(out) : IsAction(out[j], h) => out[j].val < chan'[g][i]
      BY <3>4, <3>5, <3>6
    <3>8. \A i, j \in 1..Len(chan'[g]) : i < j => chan'[g][i] < chan'[g][j]
      <4> SUFFICES ASSUME NEW i \in 1..Len(chan'[g]), NEW j \in 1..Len(chan'[g]), i < j
                   PROVE  chan'[g][i] < chan'[g][j]
        OBVIOUS
      <4>1. i # Len(chan[g]) + 1
        BY <3>3
      <4> QED BY <3>4, <3>5, <3>6, <4>1
    <3>9. ChanOrder(h)'
      BY ONLY <2>2, <3>7, <3>8 DEF ChanOrder, IsAction
    <3> QED BY <2>3, <3>2, <3>9
  <2> QED BY <2>4, <2>5
<1> QED BY <1>7, <1>8, <1>9, <1>10 DEF IInv

LEMMA StepForward == \A f \in Feeds : IInv /\ Forward(f) => IInv'
<1> SUFFICES ASSUME NEW f \in Feeds, IInv, Forward(f) PROVE IInv'
  OBVIOUS
<1> DEFINE full == Len(out) >= OutCap
           m == Frame(f, Head(chan[f]))
<1>1. /\ chan \in [Feeds -> Seq(Values)] /\ chan[f] \in Seq(Values) /\ chan[f] # <<>>
      /\ out \in Seq(Frames) /\ Len(out) \in Nat
  BY DEF Forward, hub!Take, IInv, WireInv, TypeOK
<1>2. /\ UNCHANGED <<topics, sending, outside, poll, pollState, listed, view>>
      /\ chan' = [chan EXCEPT ![f] = Tail(@)]
      /\ out' = IF full THEN out ELSE Append(out, m)
      /\ lost' \subseteq lost \cup {f[2]}
  BY DEF Forward, hub!Take, Frame
<1>3. /\ chan' \in [Feeds -> Seq(Values)]
      /\ \A g \in Feeds \ {f} : chan'[g] = chan[g]
      /\ chan'[f] = Tail(chan[f])
  BY <1>1, <1>2
<1>4. /\ Len(chan[f]) \in Nat /\ Len(chan[f]) >= 1 /\ Len(chan'[f]) = Len(chan[f]) - 1
      /\ Head(chan[f]) = chan[f][1]
      /\ \A i \in 1..Len(chan'[f]) : i + 1 \in 1..Len(chan[f]) /\ chan'[f][i] = chan[f][i + 1]
  BY <1>1, <1>3
<1>5. m \in Frames
  BY <1>4 DEF IInv, TypeOK, Frame
<1>6. /\ Len(chan'[f]) <= HubCap
      /\ \A i \in 1..Len(chan'[f]) : Frame(f, chan'[f][i]) \in Frames
  <2>1. /\ Len(chan[f]) <= HubCap /\ HubCap \in Nat
        /\ \A i \in 1..Len(chan[f]) : Frame(f, chan[f][i]) \in Frames
    BY SnapAssumption DEF IInv, TypeOK, Frame
  <2>2. Len(chan'[f]) <= HubCap
    BY ONLY <1>4, <2>1
  <2>3. ASSUME NEW i \in 1..Len(chan'[f]) PROVE Frame(f, chan'[f][i]) \in Frames
    <3>1. i + 1 \in 1..Len(chan[f]) /\ chan'[f][i] = chan[f][i + 1]
      BY ONLY <1>4, <2>3
    <3> QED BY ONLY <2>1, <3>1
  <2> QED BY <2>2, <2>3
<1> HIDE DEF m
<1>7. out' \in Seq(Frames) /\ Len(out') <= OutCap
  <2>1. Len(out) <= OutCap /\ OutCap \in Nat
    BY SnapAssumption DEF IInv, TypeOK
  <2> QED BY <1>1, <1>2, <1>5, <2>1
<1>8. TypeOK'
  <2>1. \A g \in Feeds :
          /\ Len(chan'[g]) <= HubCap
          /\ \A i \in 1..Len(chan'[g]) :
               [kind |-> g[1], host |-> g[2], val |-> chan'[g][i]] \in Frames
    BY <1>3, <1>6 DEF IInv, TypeOK, Frame
  <2>2. lost' \subseteq Hosts
    BY <1>2, FeedFields DEF IInv, TypeOK
  <2> QED BY <1>2, <1>7, <2>1, <2>2 DEF IInv, TypeOK, outside, pollState
<1>9. WireInv'
  BY <1>2, <1>3 DEF IInv, WireInv
<1>10. PollInv'
  BY <1>2 DEF IInv, PollInv, outside, pollState
<1>11. OrderInv'
  <2> SUFFICES ASSUME NEW h \in Hosts PROVE OutOrder(h)' /\ ChanOrder(h)' /\ SendOrder(h)'
    BY DEF OrderInv
  <2> DEFINE g == <<"actions", h>>
  <2>1. OutOrder(h) /\ ChanOrder(h) /\ SendOrder(h)
    BY DEF IInv, OrderInv
  <2>2. UNCHANGED <<sending, view>> /\ Seen' = Seen
    BY <1>2 DEF pollState, Seen
  <2>3. /\ Len(out') \in Nat
        /\ \A j \in 1..Len(out') : \/ j \in 1..Len(out) /\ out'[j] = out[j]
                                   \/ j = Len(out) + 1 /\ out'[j] = m
    BY <1>1, <1>2
  <2>4. IsAction(m, h) => f = g /\ m.val = chan[g][1]
    BY <1>4, FeedFields DEF IsAction, m, Frame
  <2>5. /\ view[h].last <= Seen
        /\ \A i \in 1..Len(out) :
             IsAction(out[i], h) => view[h].last < out[i].val /\ out[i].val <= Seen
        /\ \A i, j \in 1..Len(out) :
             IsAction(out[i], h) /\ IsAction(out[j], h) /\ i < j => out[i].val < out[j].val
    BY <2>1 DEF OutOrder
  <2>6. /\ \A i \in 1..Len(chan[g]) :
             /\ view[h].last < chan[g][i] /\ chan[g][i] <= Seen
             /\ \A j \in 1..Len(out) : IsAction(out[j], h) => out[j].val < chan[g][i]
        /\ \A i, j \in 1..Len(chan[g]) : i < j => chan[g][i] < chan[g][j]
    BY <2>1 DEF ChanOrder
  <2>7. IsAction(m, h) =>
          /\ 1 \in 1..Len(chan[g]) /\ view[h].last < m.val /\ m.val <= Seen
          /\ \A j \in 1..Len(out) : IsAction(out[j], h) => out[j].val < m.val
    BY <1>4, <2>4, <2>6
  <2>8. OutOrder(h)'
    <3>1. \A i \in 1..Len(out') :
            IsAction(out'[i], h) => view[h].last < out'[i].val /\ out'[i].val <= Seen
      BY <2>3, <2>5, <2>7
    <3>2. ASSUME NEW i \in 1..Len(out'), NEW j \in 1..Len(out'),
                 IsAction(out'[i], h), IsAction(out'[j], h), i < j
          PROVE  out'[i].val < out'[j].val
      <4>1. i \in 1..Len(out) /\ out'[i] = out[i]
        BY <1>1, <2>3, <3>2
      <4> QED BY <2>3, <2>5, <2>7, <3>2, <4>1
    <3> QED BY ONLY <2>2, <2>5, <3>1, <3>2 DEF OutOrder, IsAction
  <2>9. \A i \in 1..Len(chan'[g]) :
          \E k \in 1..Len(chan[g]) : chan'[g][i] = chan[g][k] /\ k >= i /\ (f = g => k = i + 1)
    <3>1. CASE f = g
      <4>1. \A i \in 1..Len(chan'[f]) : i + 1 >= i
        OBVIOUS
      <4> QED BY ONLY <1>4, <3>1, <4>1
    <3>2. CASE f # g
      <4>1. chan'[g] = chan[g] /\ chan[g] \in Seq(Values)
        BY <1>1, <1>3, <3>2, HostFeeds
      <4>2. \A i \in 1..Len(chan[g]) : i >= i
        OBVIOUS
      <4> QED BY <3>2, <4>1, <4>2
    <3> QED BY <3>1, <3>2
  <2>10. ChanOrder(h)'
    <3>1. ASSUME NEW i \in 1..Len(chan'[g])
          PROVE  /\ view[h].last < chan'[g][i] /\ chan'[g][i] <= Seen
                 /\ \A j \in 1..Len(out') : IsAction(out'[j], h) => out'[j].val < chan'[g][i]
      <4>1. PICK k \in 1..Len(chan[g]) : chan'[g][i] = chan[g][k] /\ (f = g => k = i + 1)
        BY <2>9
      <4>2. IsAction(m, h) => m.val < chan[g][k]
        <5>1. CASE f = g
          <6>1. k = i + 1 /\ 1 < i + 1 /\ (IsAction(m, h) => 1 \in 1..Len(chan[g]))
            BY ONLY <2>7, <3>1, <4>1, <5>1
          <6>2. IsAction(m, h) => chan[g][1] < chan[g][k]
            BY ONLY <2>6, <6>1, k \in 1..Len(chan[g])
          <6> QED BY ONLY <2>4, <6>2
        <5> QED BY ONLY <2>4, <5>1
      <4> QED BY ONLY <2>3, <2>6, <4>1, <4>2
    <3>2. \A i, j \in 1..Len(chan'[g]) : i < j => chan'[g][i] < chan'[g][j]
      <4>1. CASE f = g
        <5>1. \A i, j \in 1..Len(chan'[g]) : i < j => i + 1 < j + 1
          OBVIOUS
        <5> QED BY <1>4, <2>6, <4>1, <5>1
      <4>2. CASE f # g
        BY <1>3, <2>6, <4>2, HostFeeds
      <4> QED BY <4>1, <4>2
    <3> QED BY ONLY <2>2, <3>1, <3>2 DEF ChanOrder, IsAction
  <2>11. SendOrder(h)'
    <3> DEFINE e == sending["poller"].ev
    <3>1. ASSUME g \in sending["poller"].to
          PROVE  /\ view[h].last < e /\ e <= Seen
                 /\ \A j \in 1..Len(out') : IsAction(out'[j], h) => out'[j].val < e
                 /\ \A i \in 1..Len(chan'[g]) : chan'[g][i] < e
      <4>1. /\ view[h].last < e /\ e <= Seen
            /\ \A j \in 1..Len(out) : IsAction(out[j], h) => out[j].val < e
            /\ \A i \in 1..Len(chan[g]) : chan[g][i] < e
        BY <2>1, <3>1 DEF SendOrder
      <4> HIDE DEF e
      <4>2. IsAction(m, h) => m.val < e
        BY <2>4, <2>7, <4>1
      <4> QED BY ONLY <2>3, <2>9, <4>1, <4>2
    <3> QED BY ONLY <2>2, <3>1 DEF SendOrder, IsAction
  <2> QED BY <2>8, <2>10, <2>11
<1> QED BY <1>8, <1>9, <1>10, <1>11 DEF IInv

(* The output channel loses its head; an entry on the screen is newer than   *)
(* the one before it and older than every entry still on its way.            *)
LEMMA HeadIsFirst ==
  ASSUME IInv, out # <<>>
  PROVE  /\ out \in Seq(Frames) /\ Len(out) \in Nat /\ Len(out) >= 1
         /\ Head(out) = out[1] /\ Head(out) \in Frames
         /\ Tail(out) \in Seq(Frames) /\ Len(Tail(out)) = Len(out) - 1
         /\ \A i \in 1..Len(Tail(out)) : i + 1 \in 1..Len(out) /\ Tail(out)[i] = out[i + 1]
<1>1. out \in Seq(Frames)
  BY DEF IInv, TypeOK
<1> QED BY <1>1

LEMMA Shown ==
  ASSUME IInv, Show, NEW h \in Hosts
  PROVE  \/ ~IsAction(Head(out), h) /\ view'[h].last = view[h].last
         \/ /\ IsAction(Head(out), h) /\ view'[h].last = Head(out).val
            /\ view[h].last < view'[h].last
<1> DEFINE m == Head(out)
           v == view[m.host]
<1>1. /\ out # <<>> /\ view' = [view EXCEPT ![m.host] = Folded(v, m)]
  BY DEF Show
<1>2. m \in Frames /\ m.host \in Hosts /\ 1 \in 1..Len(out) /\ m = out[1]
  BY <1>1, HeadIsFirst, FrameFields
<1>3. /\ view \in [Hosts -> [bg : Snaps \cup {None}, reachable : BOOLEAN, last : Nat]]
      /\ v \in [bg : Snaps \cup {None}, reachable : BOOLEAN, last : Nat]
  BY <1>2 DEF IInv, TypeOK
<1>4. \/ m.kind = "actions" /\ Folded(v, m) = [v EXCEPT !.last = m.val]
      \/ m.kind = "bg" /\ Folded(v, m) = [v EXCEPT !.bg = m.val]
      \/ m.kind = "health" /\ Folded(v, m) = [v EXCEPT !.reachable = m.val]
  BY <1>2, FrameFields DEF Folded
<1> HIDE DEF m, v
<1>5. CASE IsAction(m, h)
  <2>1. m.host = h /\ Folded(v, m).last = m.val
    BY <1>3, <1>4, <1>5 DEF IsAction
  <2>2. view'[h].last = m.val
    BY <1>1, <1>2, <1>3, <2>1
  <2>3. view[h].last < m.val
    BY <1>2, <1>5 DEF IInv, OrderInv, OutOrder
  <2> QED BY <1>5, <2>2, <2>3 DEF m
<1>6. CASE ~IsAction(m, h)
  <2>1. m.host = h => Folded(v, m).last = v.last /\ v = view[h]
    BY <1>3, <1>4, <1>6 DEF IsAction, v
  <2>2. view'[h].last = view[h].last
    BY <1>1, <1>2, <1>3, <2>1
  <2> QED BY <1>6, <2>2 DEF m
<1> QED BY <1>5, <1>6

LEMMA StepShow == IInv /\ Show => IInv'
<1> SUFFICES ASSUME IInv, Show PROVE IInv'
  OBVIOUS
<1> DEFINE m == Head(out)
<1>1. /\ UNCHANGED <<hubVars, outside, poll, pollState, listed, lost>>
      /\ out # <<>> /\ out' = Tail(out)
      /\ view' = [view EXCEPT ![m.host] = Folded(@, m)]
  BY DEF Show
<1>2. /\ Len(out) \in Nat /\ Len(out) >= 1 /\ m = out[1] /\ m \in Frames
      /\ out' \in Seq(Frames) /\ Len(out') = Len(out) - 1
      /\ \A i \in 1..Len(out') : i + 1 \in 1..Len(out) /\ out'[i] = out[i + 1]
  BY <1>1, HeadIsFirst
<1>3. view' \in [Hosts -> [bg : Snaps \cup {None}, reachable : BOOLEAN, last : Nat]]
  <2>1. /\ view \in [Hosts -> [bg : Snaps \cup {None}, reachable : BOOLEAN, last : Nat]]
        /\ m.host \in Hosts
    BY <1>2, FrameFields DEF IInv, TypeOK
  <2>2. ASSUME NEW v \in [bg : Snaps \cup {None}, reachable : BOOLEAN, last : Nat]
        PROVE  Folded(v, m) \in [bg : Snaps \cup {None}, reachable : BOOLEAN, last : Nat]
    BY <1>2, FrameFields, BoundAssumption DEF Folded
  <2> HIDE DEF m
  <2> QED BY <1>1, <2>1, <2>2
<1> HIDE DEF m
<1>4. TypeOK'
  <2>1. Len(out') <= OutCap
    <3>1. Len(out) <= OutCap /\ OutCap \in Nat
      BY SnapAssumption DEF IInv, TypeOK
    <3> QED BY ONLY <1>2, <3>1
  <2> QED BY <1>1, <1>2, <1>3, <2>1 DEF IInv, TypeOK, hubVars, outside, pollState
<1>5. WireInv'
  BY <1>1 DEF IInv, WireInv, hubVars
<1>6. PollInv'
  BY <1>1 DEF IInv, PollInv, outside, pollState
<1>7. OrderInv'
  <2> SUFFICES ASSUME NEW h \in Hosts PROVE OutOrder(h)' /\ ChanOrder(h)' /\ SendOrder(h)'
    BY DEF OrderInv
  <2> DEFINE g == <<"actions", h>>
             w == view'[h].last
             e == sending["poller"].ev
  <2>1. OutOrder(h) /\ ChanOrder(h) /\ SendOrder(h)
    BY DEF IInv, OrderInv
  <2>2. UNCHANGED <<chan, sending>> /\ Seen' = Seen
    BY <1>1 DEF hubVars, pollState, Seen
  <2>3. \/ ~IsAction(m, h) /\ w = view[h].last
        \/ IsAction(m, h) /\ w = m.val
    BY Shown DEF m
  <2>4. 1 \in 1..Len(out)
    BY ONLY <1>2
  <2>5. /\ view[h].last <= Seen
        /\ \A i \in 1..Len(out) :
             IsAction(out[i], h) => view[h].last < out[i].val /\ out[i].val <= Seen
        /\ \A i, j \in 1..Len(out) :
             IsAction(out[i], h) /\ IsAction(out[j], h) /\ i < j => out[i].val < out[j].val
    BY <2>1 DEF OutOrder
  <2>6. /\ \A i \in 1..Len(chan[g]) :
             /\ view[h].last < chan[g][i] /\ chan[g][i] <= Seen
             /\ \A j \in 1..Len(out) : IsAction(out[j], h) => out[j].val < chan[g][i]
        /\ \A i, j \in 1..Len(chan[g]) : i < j => chan[g][i] < chan[g][j]
    BY <2>1 DEF ChanOrder
  <2>7. g \in sending["poller"].to =>
          /\ view[h].last < e /\ e <= Seen
          /\ \A j \in 1..Len(out) : IsAction(out[j], h) => out[j].val < e
          /\ \A i \in 1..Len(chan[g]) : chan[g][i] < e
    BY <2>1 DEF SendOrder
  <2> HIDE DEF w, e
  <2>8. /\ w <= Seen
        /\ \A i \in 1..Len(chan[g]) : w < chan[g][i]
        /\ g \in sending["poller"].to => w < e
    BY ONLY <1>2, <2>3, <2>4, <2>5, <2>6, <2>7
  <2>9. \A i \in 1..Len(out') : IsAction(out'[i], h) => w < out'[i].val /\ out'[i].val <= Seen
    <3> SUFFICES ASSUME NEW i \in 1..Len(out'), IsAction(out'[i], h)
                 PROVE  w < out'[i].val /\ out'[i].val <= Seen
      OBVIOUS
    <3>1. i + 1 \in 1..Len(out) /\ out'[i] = out[i + 1] /\ 1 < i + 1
      BY <1>2
    <3> QED BY ONLY <1>2, <2>3, <2>4, <2>5, <3>1, IsAction(out'[i], h)
  <2>10. \A i, j \in 1..Len(out') :
           IsAction(out'[i], h) /\ IsAction(out'[j], h) /\ i < j => out'[i].val < out'[j].val
    <3> SUFFICES ASSUME NEW i \in 1..Len(out'), NEW j \in 1..Len(out'),
                        IsAction(out'[i], h), IsAction(out'[j], h), i < j
                 PROVE  out'[i].val < out'[j].val
      OBVIOUS
    <3>1. /\ i + 1 \in 1..Len(out) /\ out'[i] = out[i + 1]
          /\ j + 1 \in 1..Len(out) /\ out'[j] = out[j + 1]
          /\ i + 1 < j + 1
      BY <1>2
    <3> QED BY ONLY <2>5, <3>1, IsAction(out'[i], h), IsAction(out'[j], h)
  <2>11. OutOrder(h)'
    BY ONLY <2>2, <2>8, <2>9, <2>10 DEF OutOrder, IsAction, w
  <2>12. \A j \in 1..Len(out') : \E k \in 1..Len(out) : out'[j] = out[k]
    BY ONLY <1>2
  <2>13. ChanOrder(h)'
    <3>1. \A i \in 1..Len(chan[g]) :
            \A j \in 1..Len(out') : IsAction(out'[j], h) => out'[j].val < chan[g][i]
      BY ONLY <2>6, <2>12
    <3> QED BY ONLY <2>2, <2>6, <2>8, <3>1 DEF ChanOrder, IsAction, w
  <2>14. SendOrder(h)'
    <3>1. g \in sending["poller"].to =>
            \A j \in 1..Len(out') : IsAction(out'[j], h) => out'[j].val < e
      BY ONLY <2>7, <2>12
    <3> QED BY ONLY <2>2, <2>7, <2>8, <3>1 DEF SendOrder, IsAction, w, e
  <2> QED BY <2>11, <2>13, <2>14
<1> QED BY <1>4, <1>5, <1>6, <1>7 DEF IInv

-------------------------------------------------------------------------------
LEMMA StepIInv == IInv /\ [Next]_vars => IInv'
<1> SUFFICES ASSUME IInv, [Next]_vars PROVE IInv'
  OBVIOUS
<1>1. CASE Outside
  BY <1>1, StepOutside
<1>2. CASE PollerStep
  <2>1. \/ PollOnly \/ PollBG \/ PollHealth \/ PollActions
        \/ \E f \in Feeds : PollSend(f)
    BY <1>2 DEF PollerStep, PollOnly
  <2> QED BY <2>1, StepPollOnly, StepBG, StepHealth, StepActions, StepSend
<1>3. CASE SubscribeStep
  BY <1>3, StepSubscribe
<1>4. CASE \E f \in Feeds : Forward(f)
  BY <1>4, StepForward
<1>5. CASE Show
  BY <1>5, StepShow
<1>6. CASE UNCHANGED vars
  <2>1. UNCHANGED <<hubVars, outside, poll, pollState, screen, lost>>
    BY <1>6 DEF vars, hubVars, outside, pollState, screen
  <2>2. TypeOK' /\ WireInv' /\ PollInv'
    BY <2>1 DEF IInv, TypeOK, WireInv, PollInv, hubVars, outside, pollState, screen
  <2> QED BY <2>1, <2>2, OrderStays DEF IInv, hubVars, screen, pollState
<1> QED BY <1>1, <1>2, <1>3, <1>4, <1>5, <1>6 DEF Next, Outside

LEMMA Invariance == Spec => []IInv
<1>1. Init => IInv
  BY InitIInv
<1>2. IInv /\ [Next]_vars => IInv'
  BY StepIInv
<1> QED BY <1>1, <1>2, PTL DEF Spec

(* Every buffer stays within its capacity and holds frames of its own topic  *)
(* only, and every key, cursor and badge is what the code's types say,       *)
(* for any hosts and any capacities.                                         *)
THEOREM FeedTypeCorrect == Spec => []TypeOK
<1>1. IInv => TypeOK
  BY DEF IInv
<1> QED BY <1>1, Invariance, PTL

(* Audit entries reach the screen at most once and in the order they were    *)
(* written, for any buffers, hosts and numbers of entries: the cursor moves  *)
(* before its entry is sent, and hub, forwarder and output channel drop but  *)
(* never overtake (poller.go auditSeen, sse.go Publish, bridge.go).          *)
THEOREM AuditShownInOrder == Spec => ActionsInOrder
<1> DEFINE A == \A h \in Hosts : view'[h].last # view[h].last => view'[h].last > view[h].last
<1>1. IInv /\ [Next]_vars => [A]_vars
  <2> SUFFICES ASSUME IInv, Next PROVE A
    OBVIOUS
  <2>1. CASE Show
    <3> SUFFICES ASSUME NEW h \in Hosts, view'[h].last # view[h].last
                 PROVE  view'[h].last > view[h].last
      OBVIOUS
    <3>1. view[h].last < view'[h].last
      BY <2>1, Shown
    <3> QED BY <3>1
  <2>2. CASE ~Show
    <3>1. UNCHANGED view
      BY <2>2 DEF Next, WorldChange, HostAddOrRemove, AppendAudit, screen, PollerStep,
        TickStart, Probe, PollBG, PollHealth, PollAudit, PollActions, PollPrune, PollSend,
        SubscribeStep, ReadHosts, SubscribeTo, Forward
    <3> QED BY <3>1
  <2> QED BY <2>1, <2>2
<1> QED BY <1>1, Invariance, PTL DEF Spec, ActionsInOrder

-------------------------------------------------------------------------------
(* The newest bg frame.                                                      *)

(* A step that moves no bg frame of h.                                       *)
LEMMA NewestStays ==
  ASSUME NEW h \in Hosts, NEW v, NewestIs(h, v),
         UNCHANGED out, chan'[<<"bg", h>>] = chan[<<"bg", h>>], view'[h].bg = view[h].bg,
         <<"bg", h>> \in sending'["poller"].to <=> <<"bg", h>> \in sending["poller"].to,
         <<"bg", h>> \in sending["poller"].to => sending'["poller"].ev = sending["poller"].ev
  PROVE  NewestIs(h, v)'
BY DEF NewestIs, BgFramesOut

Published(h) == h \in lost \/ lastBG[h] = None \/ NewestIs(h, lastBG[h])

LEMMA PublishedMeans == PublishedIsOnItsWay <=> \A h \in Hosts : Published(h)
BY DEF PublishedIsOnItsWay, Published

LEMMA InitPublished == Init => PublishedIsOnItsWay
BY DEF Init, PublishedIsOnItsWay

LEMMA PublishedStays ==
  ASSUME NEW h \in Hosts, Published(h), lost \subseteq lost',
         lastBG'[h] = lastBG[h] \/ lastBG'[h] = None,
         UNCHANGED out, chan'[<<"bg", h>>] = chan[<<"bg", h>>], view'[h].bg = view[h].bg,
         <<"bg", h>> \in sending'["poller"].to <=> <<"bg", h>> \in sending["poller"].to,
         <<"bg", h>> \in sending["poller"].to => sending'["poller"].ev = sending["poller"].ev
  PROVE  Published(h)'
<1>1. CASE h \in lost \/ lastBG'[h] = None
  BY <1>1 DEF Published
<1>2. CASE h \notin lost /\ lastBG'[h] # None
  <2>1. PICK v : v = lastBG[h]
    OBVIOUS
  <2>2. NewestIs(h, v) /\ lastBG'[h] = v
    BY <1>2, <2>1 DEF Published
  <2>3. NewestIs(h, v)'
    BY <2>2, NewestStays
  <2> QED BY <2>2, <2>3 DEF Published
<1> QED BY <1>1, <1>2

(* Steps that leave the hub, the output channel and the screen's badges      *)
(* alone: only the pruning touches the poller's keys.                        *)
LEMMA QuietPublished ==
  ASSUME IInv, NEW h \in Hosts, Published(h),
         Outside \/ PollOnly \/ SubscribeStep \/ UNCHANGED vars
  PROVE  Published(h)'
<1>1. UNCHANGED <<chan, sending, out, view, lost>>
  BY DEF Outside, WorldChange, HostAddOrRemove, AppendAudit, PollOnly, TickStart, Probe,
     PollAudit, PollPrune, SubscribeStep, ReadHosts, SubscribeTo, hub!Subscribe, hubVars,
     screen, vars
<1>2. lastBG' = lastBG \/ lastBG' = Pruned(lastBG)
  BY DEF Outside, WorldChange, HostAddOrRemove, AppendAudit, PollOnly, TickStart, Probe,
     PollAudit, PollPrune, SubscribeStep, ReadHosts, SubscribeTo, pollState, vars
<1>3. lastBG'[h] = lastBG[h] \/ lastBG'[h] = None
  BY <1>2 DEF Pruned
<1> QED BY <1>1, <1>3, PublishedStays

(* Health and action frames.                                                 *)
LEMMA OthersPublished ==
  ASSUME IInv, NEW h \in Hosts, Published(h), PollHealth \/ PollActions
  PROVE  Published(h)'
<1>1. UNCHANGED <<lastBG, out, view, lost>> /\ PollerReady
  BY DEF PollHealth, PollActions, screen
<1>2. \/ UNCHANGED hubVars
      \/ \E f \in Feeds, v \in Values : f[1] # "bg" /\ hub!PublishCopy("poller", f, v)
  <2>1. CASE PollHealth
    <3>1. poll.host \in Hosts
      BY <2>1 DEF IInv, PollInv, PollHealth
    <3>2. Healthy(poll.snap) \in Values
      <4>1. Healthy(poll.snap) \in BOOLEAN
        BY DEF Healthy
      <4> QED BY <4>1 DEF Values
    <3>3. <<"health", poll.host>>[1] # "bg"
      OBVIOUS
    <3> QED BY <2>1, <3>1, <3>2, <3>3, HostFeeds DEF PollHealth
  <2>2. CASE PollActions
    <3> DEFINE n == auditSeen + 1
    <3>1. n \in 1..Len(audit) /\ n \in 1..MaxAudit
      <4>1. poll.upto \in Nat
        BY DEF IInv, TypeOK
      <4>2. auditSeen # None /\ poll.upto <= Len(audit) /\ auditSeen < poll.upto
        BY <2>2 DEF PollActions, IInv, PollInv
      <4> QED BY <4>1, <4>2, AuditLength
    <3>2. audit[n] \in Hosts /\ n \in Values
      BY <3>1, AuditLength DEF Values
    <3>3. <<"actions", audit[n]>>[1] # "bg"
      OBVIOUS
    <3> QED BY <2>2, <3>2, <3>3, HostFeeds DEF PollActions
  <2> QED BY <2>1, <2>2
<1>3. CASE UNCHANGED hubVars
  BY <1>1, <1>3, PublishedStays DEF hubVars
<1>4. CASE \E f \in Feeds, v \in Values : f[1] # "bg" /\ hub!PublishCopy("poller", f, v)
  <2>1. PICK f \in Feeds, v \in Values : f[1] # "bg" /\ hub!PublishCopy("poller", f, v)
    BY <1>4
  <2>2. UNCHANGED chan /\ sending'["poller"].to \subseteq {f}
    BY <1>1, <2>1, Publishes
  <2>3. sending["poller"].to = {}
    BY <1>1, IdleFields DEF PollerReady
  <2>4. <<"bg", h>> # f
    BY <2>1
  <2> QED BY <1>1, <2>2, <2>3, <2>4, PublishedStays
<1> QED BY <1>2, <1>3, <1>4

(* A bg frame is published as its key is kept, or nobody hears it.           *)
LEMMA BgPublished ==
  ASSUME IInv, NEW h \in Hosts, Published(h), PollBG
  PROVE  Published(h)'
<1> DEFINE g == poll.host
           f == <<"bg", g>>
           v == poll.snap
<1>1. /\ g \in Hosts /\ f \in Feeds /\ v \in Values
      /\ PollerReady /\ UNCHANGED <<out, view>>
  BY HostFeeds DEF PollBG, IInv, PollInv, Values, screen
<1>2. sending["poller"].to = {}
  BY <1>1, IdleFields DEF PollerReady
<1>3. CASE UNCHANGED <<hubVars, lost, lastBG>>
  BY <1>1, <1>3, PublishedStays DEF hubVars
<1>4. CASE ~UNCHANGED <<hubVars, lost, lastBG>>
  <2>1. /\ lastBG' = [lastBG EXCEPT ![g] = v]
        /\ hub!PublishCopy("poller", f, v)
        /\ lost' = IF NobodyHears(f) THEN lost \cup {g} ELSE lost
    BY <1>4 DEF PollBG
  <2> HIDE DEF g, v
  <2>2. UNCHANGED chan /\ sending'["poller"].to \subseteq {f}
    BY <1>1, <2>1, Publishes
  <2>3. lost \subseteq lost'
    BY <2>1
  <2>4. CASE h # g
    <3>1. lastBG'[h] = lastBG[h]
      BY <2>1, <2>4 DEF IInv, TypeOK
    <3>2. <<"bg", h>> # f
      BY <2>4
    <3> QED BY <1>1, <1>2, <2>2, <2>3, <3>1, <3>2, PublishedStays
  <2>5. CASE h = g /\ topics[f] = {}
    <3>1. h \in lost'
      BY <2>1, <2>5 DEF NobodyHears
    <3> QED BY <3>1 DEF Published
  <2>6. CASE h = g /\ topics[f] # {}
    <3>1. /\ topics[f] \subseteq {f}
          /\ sending \in [{"poller"} -> [ev : Values, to : SUBSET Feeds]]
      BY <1>1 DEF IInv, WireInv
    <3>2. PICK w : w = v
      OBVIOUS
    <3>3. sending'["poller"] = [ev |-> w, to |-> topics[f]] /\ topics[f] = {f}
      BY <2>1, <2>6, <3>1, <3>2 DEF hub!PublishCopy
    <3>4. lastBG'[h] = w
      BY <1>1, <2>1, <2>6, <3>2 DEF IInv, TypeOK
    <3>5. f = <<"bg", h>>
      BY <2>6
    <3>6. NewestIs(h, w)'
      BY <3>3, <3>5 DEF NewestIs
    <3> QED BY <3>4, <3>6 DEF Published
  <2> QED BY <2>4, <2>5, <2>6
<1> QED BY <1>3, <1>4

(* A send puts the newest frame last in its buffer, or loses it.             *)
LEMMA SendPublished ==
  ASSUME IInv, NEW h \in Hosts, Published(h), NEW f \in Feeds, PollSend(f)
  PROVE  Published(h)'
<1> DEFINE s == sending["poller"]
           bg == <<"bg", h>>
<1>1. /\ s \in [ev : Values, to : SUBSET Feeds] /\ f \in s.to
      /\ chan \in [Feeds -> Seq(Values)]
      /\ sending \in [{"poller"} -> [ev : Values, to : SUBSET Feeds]]
      /\ bg \in Feeds
  BY HostFeeds DEF PollSend, hub!PublishSend, IInv, WireInv
<1>2. /\ UNCHANGED <<lastBG, out, view>>
      /\ chan' = [chan EXCEPT ![f] = IF hub!Lossy(f) THEN @ ELSE Append(@, s.ev)]
      /\ sending' = [sending EXCEPT !["poller"] = hub!SentTo("poller", f)]
      /\ lost' = IF f[1] = "bg" /\ hub!Lossy(f) THEN lost \cup {f[2]} ELSE lost
  BY DEF PollSend, hub!PublishSend, pollState, screen
<1>3. \/ hub!SentTo("poller", f) = hub!Idle /\ s.to = {f}
      \/ hub!SentTo("poller", f) = [s EXCEPT !.to = @ \ {f}]
  BY DEF hub!SentTo
<1>4. /\ sending'["poller"].to = s.to \ {f}
      /\ \A g \in s.to \ {f} : sending'["poller"].ev = s.ev
  BY <1>1, <1>2, <1>3, IdleFields
<1> HIDE DEF s
<1>5. CASE f # bg
  <2>1. chan'[bg] = chan[bg]
    BY <1>1, <1>2, <1>5
  <2> QED BY <1>2, <1>4, <1>5, <2>1, PublishedStays DEF s
<1>6. CASE f = bg /\ hub!Lossy(f)
  BY <1>2, <1>6 DEF Published
<1>7. CASE f = bg /\ ~hub!Lossy(f)
  <2>1. chan'[bg] = Append(chan[bg], s.ev) /\ chan[bg] \in Seq(Values)
    BY <1>1, <1>2, <1>7
  <2>2. chan'[bg] # <<>> /\ chan'[bg][Len(chan'[bg])] = s.ev
    BY <2>1
  <2>3. bg \notin sending'["poller"].to
    BY <1>4, <1>7
  <2>4. PICK w : w = s.ev
    OBVIOUS
  <2>5. NewestIs(h, w)'
    BY <2>2, <2>3, <2>4 DEF NewestIs
  <2>6. h \in lost \/ lastBG[h] = None \/ w = lastBG[h]
    BY <1>1, <1>7, <2>4 DEF Published, NewestIs, s
  <2>7. lost' = lost /\ lastBG' = lastBG
    BY <1>2, <1>7
  <2> QED BY <2>5, <2>6, <2>7 DEF Published
<1> QED BY <1>5, <1>6, <1>7

LEMMA LastOfTail ==
  ASSUME NEW S, NEW q \in Seq(S), q # <<>>
  PROVE  /\ Len(q) = 1 => Tail(q) = <<>> /\ Head(q) = q[Len(q)]
         /\ Len(q) # 1 => Tail(q) # <<>> /\ Tail(q)[Len(Tail(q))] = q[Len(q)]
<1>1. /\ Len(q) \in Nat /\ Len(q) > 0 /\ Tail(q) \in Seq(S)
      /\ Len(Tail(q)) = Len(q) - 1 /\ Head(q) = q[1]
      /\ \A i \in 1..(Len(q) - 1) : Tail(q)[i] = q[i + 1]
  OBVIOUS
<1>2. CASE Len(q) = 1
  <2>1. PICK t \in Seq(S) : t = Tail(q)
    BY ONLY <1>1
  <2>2. t = <<>>
    <3>1. Len(t) = 0
      BY ONLY <1>1, <1>2, <2>1
    <3> QED BY ONLY <3>1, t \in Seq(S)
  <2> QED BY ONLY <1>1, <1>2, <2>1, <2>2
<1>3. CASE Len(q) # 1
  <2>1. Len(q) - 1 \in 1..(Len(q) - 1) /\ (Len(q) - 1) + 1 = Len(q)
    BY <1>1, <1>3
  <2>2. Tail(q)[Len(q) - 1] = q[(Len(q) - 1) + 1]
    BY ONLY <1>1, <2>1
  <2>3. Tail(q)[Len(Tail(q))] = q[Len(q)]
    BY ONLY <1>1, <2>1, <2>2
  <2>4. Tail(q) # <<>>
    <3>1. Len(Tail(q)) # 0
      BY ONLY <1>1, <1>3
    <3>2. Len(<<>>) = 0
      OBVIOUS
    <3> QED BY ONLY <3>1, <3>2
  <2> QED BY ONLY <1>3, <2>3, <2>4
<1> QED BY <1>2, <1>3

(* A forwarder puts the frame it takes last in the output channel, or loses  *)
(* it.                                                                       *)
LEMMA ForwardPublished ==
  ASSUME IInv, NEW h \in Hosts, Published(h), NEW f \in Feeds, Forward(f)
  PROVE  Published(h)'
<1> DEFINE full == Len(out) >= OutCap
           m == Frame(f, Head(chan[f]))
           bg == <<"bg", h>>
<1>1. /\ chan \in [Feeds -> Seq(Values)] /\ chan[f] \in Seq(Values) /\ chan[f] # <<>>
      /\ out \in Seq(Frames) /\ bg \in Feeds
  BY HostFeeds DEF Forward, hub!Take, IInv, WireInv, TypeOK
<1>2. /\ UNCHANGED <<sending, lastBG, view>>
      /\ chan' = [chan EXCEPT ![f] = Tail(@)]
      /\ out' = IF full THEN out ELSE Append(out, m)
      /\ lost' = IF full /\ f[1] = "bg" THEN lost \cup {f[2]} ELSE lost
  BY DEF Forward, hub!Take, Frame, pollState
<1>3. m.kind = f[1] /\ m.host = f[2] /\ m.val = Head(chan[f])
  BY DEF Frame
<1> HIDE DEF m, full
<1>4. CASE h \in lost \/ lastBG[h] = None
  BY <1>2, <1>4 DEF Published
<1>5. CASE f = bg /\ full
  BY <1>2, <1>5 DEF Published
<1>6. CASE f # bg /\ full
  <2>1. chan'[bg] = chan[bg]
    BY <1>1, <1>2, <1>6
  <2> QED BY <1>2, <1>6, <2>1, PublishedStays
<1>7. CASE ~full /\ h \notin lost /\ lastBG[h] # None
  <2>1. PICK v : v = lastBG[h] /\ v = lastBG'[h] /\ NewestIs(h, v)
    BY <1>2, <1>7 DEF Published
  <2>2. /\ Len(out) \in Nat /\ DOMAIN out = 1..Len(out)
        /\ DOMAIN out' = 1..(Len(out) + 1) /\ out'[Len(out) + 1] = m
        /\ \A i \in 1..Len(out) : out'[i] = out[i]
    BY <1>1, <1>2, <1>7
  <2>3. CASE f # bg
    <3>1. chan'[bg] = chan[bg]
      BY <1>1, <1>2, <2>3
    <3>2. m.kind # "bg" \/ m.host # h
      BY <1>3, <2>3, FeedFields
    <3>3. /\ BgFramesOut(h)' = BgFramesOut(h)
          /\ \A i \in BgFramesOut(h) : out'[i] = out[i]
      BY <2>2, <3>2 DEF BgFramesOut
    <3>4. NewestIs(h, v)'
      BY ONLY <1>2, <2>1, <3>1, <3>3 DEF NewestIs
    <3> QED BY <2>1, <3>4 DEF Published
  <2>4. CASE f = bg
    <3>1. CASE bg \in sending["poller"].to
      <4>1. NewestIs(h, v)'
        BY <1>2, <2>1, <3>1 DEF NewestIs
      <4> QED BY <2>1, <4>1 DEF Published
    <3>2. CASE bg \notin sending["poller"].to /\ Len(chan[bg]) = 1
      <4>1. /\ chan'[bg] = <<>> /\ m.val = chan[bg][Len(chan[bg])]
        <5>1. /\ chan[bg] \in Seq(Values) /\ chan[bg] # <<>>
              /\ chan'[bg] = Tail(chan[bg]) /\ m.val = Head(chan[bg])
          BY <1>1, <1>2, <1>3, <2>4
        <5> HIDE DEF bg
        <5> QED BY <3>2, <5>1, LastOfTail
      <4>2. m.val = v
        BY <1>1, <2>1, <2>4, <3>2, <4>1 DEF NewestIs
      <4>3. /\ Len(out) + 1 \in BgFramesOut(h)'
            /\ \A j \in BgFramesOut(h)' : j <= Len(out) + 1
        BY <1>3, <2>2, <2>4 DEF BgFramesOut
      <4>4. NewestIs(h, v)'
        BY <1>2, <2>2, <3>2, <4>1, <4>2, <4>3 DEF NewestIs
      <4> QED BY <2>1, <4>4 DEF Published
    <3>3. CASE bg \notin sending["poller"].to /\ Len(chan[bg]) # 1
      <4>1. /\ chan'[bg] # <<>>
            /\ chan'[bg][Len(chan'[bg])] = chan[bg][Len(chan[bg])]
        <5>1. chan[bg] \in Seq(Values) /\ chan[bg] # <<>> /\ chan'[bg] = Tail(chan[bg])
          BY <1>1, <1>2, <2>4
        <5> HIDE DEF bg
        <5> QED BY <3>3, <5>1, LastOfTail
      <4>2. NewestIs(h, v)'
        BY <1>1, <1>2, <2>1, <2>4, <3>3, <4>1 DEF NewestIs
      <4> QED BY <2>1, <4>2 DEF Published
    <3> QED BY <3>1, <3>2, <3>3
  <2> QED BY <2>3, <2>4
<1> QED BY <1>4, <1>5, <1>6, <1>7

(* The screen shows a bg frame of h: it is the newest when no other is left. *)
LEMMA ShowPublished ==
  ASSUME IInv, NEW h \in Hosts, Published(h), Show
  PROVE  Published(h)'
<1> DEFINE m == Head(out)
           bg == <<"bg", h>>
<1>1. /\ UNCHANGED <<chan, sending, lastBG, lost>>
      /\ out # <<>> /\ out' = Tail(out)
      /\ view' = [view EXCEPT ![m.host] = Folded(@, m)]
  BY DEF Show, hubVars, pollState
<1>2. /\ out \in Seq(Frames) /\ Len(out) \in Nat /\ Len(out) >= 1 /\ m = out[1] /\ m \in Frames
      /\ out' \in Seq(Frames) /\ Len(out') = Len(out) - 1
      /\ \A i \in 1..Len(out') : i + 1 \in 1..Len(out) /\ out'[i] = out[i + 1]
  BY <1>1, HeadIsFirst
<1>3. /\ DOMAIN out = 1..Len(out) /\ DOMAIN out' = 1..Len(out')
  BY <1>2
<1>4. /\ m.host \in Hosts
      /\ \/ m.kind = "actions" /\ Folded(view[m.host], m) = [view[m.host] EXCEPT !.last = m.val]
         \/ m.kind = "bg" /\ Folded(view[m.host], m) = [view[m.host] EXCEPT !.bg = m.val]
         \/ m.kind = "health"
              /\ Folded(view[m.host], m) = [view[m.host] EXCEPT !.reachable = m.val]
  BY <1>2, FrameFields DEF Folded
<1>5. view \in [Hosts -> [bg : Snaps \cup {None}, reachable : BOOLEAN, last : Nat]]
  BY DEF IInv, TypeOK
<1> HIDE DEF m
<1>6. \/ m.kind = "bg" /\ m.host = h /\ view'[h].bg = m.val
      \/ (m.kind # "bg" \/ m.host # h) /\ view'[h].bg = view[h].bg
  <2>1. CASE m.host = h
    BY <1>1, <1>4, <1>5, <2>1
  <2>2. CASE m.host # h
    BY <1>1, <1>4, <1>5, <2>2
  <2> QED BY <2>1, <2>2
<1>7. CASE h \in lost \/ lastBG[h] = None
  BY <1>1, <1>7 DEF Published
<1>8. CASE h \notin lost /\ lastBG[h] # None
  <2>1. PICK v : v = lastBG[h] /\ v = lastBG'[h] /\ NewestIs(h, v)
    BY <1>1, <1>8 DEF Published
  <2>2. CASE bg \in sending["poller"].to \/ chan[bg] # <<>>
    <3>1. NewestIs(h, v)'
      BY <1>1, <2>1, <2>2 DEF NewestIs
    <3> QED BY <2>1, <3>1 DEF Published
  <2>3. CASE bg \notin sending["poller"].to /\ chan[bg] = <<>>
    <3>1. \A i : i \in BgFramesOut(h)' <=> i \in Nat \ {0} /\ i + 1 \in BgFramesOut(h)
      <4>1. \A i : i \in 1..Len(out') <=> i \in Nat \ {0} /\ i + 1 \in 1..Len(out)
        BY <1>2
      <4> QED BY <1>2, <1>3, <4>1 DEF BgFramesOut
    <3>2. 1 \in BgFramesOut(h) <=> m.kind = "bg" /\ m.host = h
      BY <1>2, <1>3 DEF BgFramesOut
    <3>3. CASE BgFramesOut(h) = {}
      <4>1. BgFramesOut(h)' = {} /\ view'[h].bg = view[h].bg
        BY <1>6, <3>1, <3>2, <3>3
      <4>2. NewestIs(h, v)'
        BY <1>1, <2>1, <2>3, <3>3, <4>1 DEF NewestIs
      <4> QED BY <2>1, <4>2 DEF Published
    <3>4. CASE BgFramesOut(h) # {}
      <4>1. PICK i \in BgFramesOut(h) : out[i].val = v /\ \A j \in BgFramesOut(h) : j <= i
        BY <2>1, <2>3, <3>4 DEF NewestIs
      <4>2. i \in 1..Len(out) /\ BgFramesOut(h) \subseteq 1..Len(out)
        BY <1>3 DEF BgFramesOut
      <4>3. CASE i = 1
        <5>1. \A j \in BgFramesOut(h) : j = 1
          BY <1>2, <4>1, <4>2, <4>3
        <5>2. BgFramesOut(h)' = {}
          BY <3>1, <5>1
        <5>3. view'[h].bg = v
          BY <1>2, <1>6, <3>2, <4>1, <4>3
        <5>4. NewestIs(h, v)'
          BY <1>1, <2>3, <5>2, <5>3 DEF NewestIs
        <5> QED BY <2>1, <5>4 DEF Published
      <4>4. CASE i # 1
        <5>1. i - 1 \in Nat \ {0} /\ (i - 1) + 1 = i
          BY <1>2, <4>2, <4>4
        <5>2. i - 1 \in BgFramesOut(h)' /\ out'[i - 1].val = v
          <6>1. i - 1 \in BgFramesOut(h)'
            BY <3>1, <5>1
          <6>2. i - 1 \in 1..Len(out')
            BY <1>3, <6>1 DEF BgFramesOut
          <6> QED BY <1>2, <4>1, <5>1, <6>1, <6>2
        <5>3. \A j \in BgFramesOut(h)' : j <= i - 1
          BY <1>2, <3>1, <4>1, <4>2
        <5>4. NewestIs(h, v)'
          BY ONLY <1>1, <2>3, <5>2, <5>3 DEF NewestIs
        <5> QED BY <2>1, <5>4 DEF Published
      <4> QED BY <4>3, <4>4
    <3> QED BY <3>3, <3>4
  <2> QED BY <2>2, <2>3
<1> QED BY <1>7, <1>8

LEMMA NextPublished == IInv /\ PublishedIsOnItsWay /\ [Next]_vars => PublishedIsOnItsWay'
<1> SUFFICES ASSUME IInv, PublishedIsOnItsWay, [Next]_vars, NEW h \in Hosts
             PROVE  Published(h)'
  BY DEF PublishedIsOnItsWay, Published
<1>1. Published(h)
  BY PublishedMeans
<1>2. \/ Outside \/ PollOnly \/ SubscribeStep \/ UNCHANGED vars
      \/ PollHealth \/ PollActions \/ PollBG \/ Show
      \/ \E f \in Feeds : PollSend(f) \/ Forward(f)
  BY DEF Next, Outside, PollerStep, PollOnly
<1> QED
  BY <1>1, <1>2, QuietPublished, OthersPublished, BgPublished, SendPublished,
     ForwardPublished, ShowPublished

(* What the poller takes for published, and so will not publish again, is on *)
(* the screen or is the newest frame on its way there, unless a buffer       *)
(* overflowed or nobody had subscribed: for any hosts and any capacities,    *)
(* change detection (poller.go lastBG), the sends the hub makes after it has *)
(* released its lock, the forwarders and the output channel lose no other    *)
(* state and overtake none.                                                  *)
THEOREM PublishedReaches == Spec => []PublishedIsOnItsWay
<1>1. Init => PublishedIsOnItsWay
  BY InitPublished
<1>2. IInv /\ PublishedIsOnItsWay /\ [Next]_vars => PublishedIsOnItsWay'
  BY NextPublished
<1> QED BY <1>1, <1>2, Invariance, PTL DEF Spec

=============================================================================
