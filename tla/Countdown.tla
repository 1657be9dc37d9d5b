------------------------------ MODULE Countdown ------------------------------
(***************************************************************************)
(* What the countdown-shutdown service promises, with no timers, threads,  *)
(* processes or operator calls in it: a host has at most one pending       *)
(* request; a request is accepted once, replaces the one before, counts    *)
(* down, is withdrawn or is begun when its time is up and never before, by *)
(* one execution at a time, and finishing it never discards another        *)
(* request.  On a host where calls and executions have met since its       *)
(* request was accepted, what is begun is still the pending request, but   *)
(* perhaps early or twice, and finishing may discard another.              *)
(***************************************************************************)
EXTENDS Naturals

CONSTANTS
  Hosts,      \* the game hosts that can be shut down
  Requests,   \* identities of countdown requests
  None        \* "no request"

VARIABLES
  accepted,   \* requests that have ever been accepted
  pending,    \* pending[h]: the request host h is waiting for, or None
  left,       \* left[h]: time until the deadline of pending[h]
  running,    \* pairs <<h, r>>: the verb of request r is being run on h
  crossed     \* hosts where calls and executions have met

cvars == <<accepted, pending, left, running, crossed>>

RunningOn(h) == {run \in running : run[1] = h}

Init ==
  /\ accepted = {}
  /\ pending = [h \in Hosts |-> None]
  /\ left = [h \in Hosts |-> 0]
  /\ running = {}
  /\ crossed = {}

Accept(h, r) ==
  /\ r \notin accepted
  /\ accepted' = accepted \cup {r}
  /\ pending' = [pending EXCEPT ![h] = r]
  /\ left'[h] \in Nat
  /\ left' = [left EXCEPT ![h] = left'[h]]
  /\ \/ crossed' = crossed \cup {h}
     \/ RunningOn(h) = {} /\ crossed' = crossed \ {h}
  /\ UNCHANGED running

Elapse ==
  /\ left' = [h \in Hosts |-> IF left[h] > 0 THEN left[h] - 1 ELSE 0]
  /\ UNCHANGED <<accepted, pending, running, crossed>>

Withdraw(h) ==
  /\ pending' = [pending EXCEPT ![h] = None]
  /\ left' = [left EXCEPT ![h] = 0]
  /\ UNCHANGED <<accepted, running, crossed>>

Begin(h) ==
  /\ pending[h] # None
  /\ h \notin crossed => left[h] = 0 /\ RunningOn(h) = {}
  /\ running' = running \cup {<<h, pending[h]>>}
  /\ UNCHANGED <<accepted, pending, left, crossed>>

(* One of two executions of a request may go on.                             *)
Finish(h, r) ==
  /\ <<h, r>> \in running
  /\ h \notin crossed => pending[h] \in {r, None}
  /\ \/ running' = running \ {<<h, r>>}
     \/ h \in crossed /\ UNCHANGED running
  /\ \/ /\ pending' = [pending EXCEPT ![h] = None]
        /\ left' = [left EXCEPT ![h] = 0]
     \/ UNCHANGED <<pending, left>>
  /\ UNCHANGED <<accepted, crossed>>

Cross(h) ==
  /\ crossed' = crossed \cup {h}
  /\ UNCHANGED <<accepted, pending, left, running>>

(* The process that runs the service ends and gives up what it was running; *)
(* what is pending stays pending.                                           *)
Halt ==
  /\ running' = {}
  /\ UNCHANGED <<accepted, pending, left, crossed>>

Next ==
  \/ \E h \in Hosts, r \in Requests : Accept(h, r) \/ Finish(h, r)
  \/ \E h \in Hosts : Withdraw(h) \/ Begin(h) \/ Cross(h)
  \/ Elapse
  \/ Halt

Spec == Init /\ [][Next]_cvars
==============================================================================
