--------------------------------- MODULE Hub ---------------------------------
(***************************************************************************)
(* The in-process publish/subscribe hub of dunemgr                         *)
(* (internal/pkg/dunemgr/sse/hub.go).  A subscriber is one buffered        *)
(* channel, registered on one topic.  Publish copies the topic's           *)
(* subscribers under the mutex and sends to each of them after it has      *)
(* released it; a send never waits, so a full buffer loses the event.      *)
(***************************************************************************)
EXTENDS Naturals, Sequences, FiniteSets

CONSTANTS
  Topics,
  Subscribers,   \* channels; one of them subscribes at most once
  Publishers,    \* goroutines that publish, one event at a time
  Cap,           \* subscriberBuffer
  NoEvent

VARIABLES
  topics,        \* Hub.topics: the channels registered on each topic
  chan,          \* the buffer of each channel
  sending        \* the Publish each publisher is in: event and receivers left

hubVars == <<topics, chan, sending>>

Idle == [ev |-> NoEvent, to |-> {}]

HubInit ==
  /\ topics = [t \in Topics |-> {}]
  /\ chan = [s \in Subscribers |-> <<>>]
  /\ sending = [p \in Publishers |-> Idle]

Subscribe(s, t) ==
  /\ topics' = [topics EXCEPT ![t] = @ \cup {s}]
  /\ UNCHANGED <<chan, sending>>

(* Publish, under the mutex.                                                 *)
PublishCopy(p, t, e) ==
  /\ sending[p] = Idle
  /\ sending' = [sending EXCEPT ![p] =
                   IF topics[t] = {} THEN Idle ELSE [ev |-> e, to |-> topics[t]]]
  /\ UNCHANGED <<topics, chan>>

(* The publisher goes on to the next receiver, or returns.                   *)
SentTo(p, s) ==
  IF sending[p].to = {s} THEN Idle ELSE [sending[p] EXCEPT !.to = @ \ {s}]

(* A definition with a suffix, as in LossyLate, is a deliberately broken     *)
(* variant of the one without it; no action uses it.                         *)
LossyLate(s) == Len(chan[s]) > Cap

(* The select takes its default branch.                                      *)
Lossy(s) == Len(chan[s]) >= Cap

(* Publish, after the mutex: one non-blocking send.                          *)
PublishSend(p, s) ==
  /\ s \in sending[p].to
  /\ chan' = [chan EXCEPT ![s] =
                IF Lossy(s) THEN @ ELSE Append(@, sending[p].ev)]
  /\ sending' = [sending EXCEPT ![p] = SentTo(p, s)]
  /\ UNCHANGED topics

(* The receiver takes the oldest event.                                      *)
Take(s) ==
  /\ chan[s] # <<>>
  /\ chan' = [chan EXCEPT ![s] = Tail(@)]
  /\ UNCHANGED <<topics, sending>>

===============================================================================
