--------------------------- MODULE MarketBotProofs ---------------------------
(* What holds of the market bot for any entries, players, prices, quotas and *)
(* numbers of events: a player's order goes only to a full payment, types,   *)
(* no entry is listed above the highest quota, a list tick that nobody       *)
(* disturbs meets the quota, and prices follow demand.                       *)
EXTENDS MarketBot, PriceWalk, FiniteSetTheorems, WellFoundedInduction, TLAPS

-------------------------------------------------------------------------------
(* Which fields the rows and the tick's variables have, and that a player    *)
(* offers numbers.                                                           *)
ShapeInv ==
  /\ DOMAIN job = {"snap", "list", "rows", "bought", "expiry", "stale", "tops", "pending"}
  /\ \A i \in DOMAIN orders :
       /\ DOMAIN orders[i] = {"owner", "key", "price", "expiry", "stack"}
       /\ orders[i].owner \in Sellers /\ orders[i].stack \in Nat
       /\ orders[i].owner \in Players => orders[i].price \in Nat

(* A row that the buy tick still has to look at is of a player, and the      *)
(* order, if it is still there, is the one that was read, with what is left  *)
(* of its stack.                                                             *)
RowOf(r) ==
  /\ r.owner \in Players /\ r.price \in Nat /\ r.stack \in Nat
  /\ r.id \in DOMAIN orders => /\ orders[r.id].owner = r.owner
                               /\ orders[r.id].price = r.price
                               /\ orders[r.id].stack <= r.stack

RowsInv == \A r \in job.rows : RowOf(r)

(* What the list tick is about to delete or fill is the bot's or gone.       *)
OwnInv == \A i \in job.stale \cup job.tops : i \in DOMAIN orders => orders[i].owner = Bot

(* An order that was paid for is gone, and its id is not given again.        *)
PaidInv == \A p \in paid : p.order \notin DOMAIN orders

IInv == ShapeInv /\ RowsInv /\ OwnInv /\ PaidInv

LEMMA InitIInv == Init => IInv
BY DEF Init, IInv, ShapeInv, RowsInv, OwnInv, PaidInv, NoJob

LEMMA OfferedArePlayers ==
  ASSUME IInv, NEW i \in Offered
  PROVE  /\ i \in DOMAIN orders /\ orders[i].owner \in Players
         /\ orders[i].price \in Nat /\ orders[i].stack \in Nat
BY DEF IInv, ShapeInv, Offered, Own, Sellers

-------------------------------------------------------------------------------
(* The four ways in which a step changes rows.                               *)

(* Rows go, and the tick forgets.                                            *)
LEMMA ShrinkKeeps ==
  ASSUME IInv, UNCHANGED paid, NEW S \in SUBSET DOMAIN orders,
         orders' = [i \in S |-> orders[i]],
         DOMAIN job' = DOMAIN job,
         job'.rows \subseteq job.rows,
         job'.stale \subseteq job.stale,
         job'.tops \subseteq job.tops
  PROVE  IInv'
BY DEF IInv, ShapeInv, RowsInv, RowOf, OwnInv, PaidInv, Sellers

(* The stacks of some rows are set, and the tick knows of it.                *)
LEMMA StackKeeps ==
  ASSUME IInv, UNCHANGED <<paid, job>>, NEW S, NEW n \in Nat,
         orders' = SetStack(S, n),
         \A i \in S : i \in DOMAIN orders => orders[i].owner = Bot \/ n <= orders[i].stack
  PROVE  IInv'
<1>1. /\ DOMAIN orders' = DOMAIN orders
      /\ \A i \in DOMAIN orders :
           /\ DOMAIN orders'[i] = DOMAIN orders[i]
           /\ orders'[i].owner = orders[i].owner
           /\ orders'[i].price = orders[i].price
           /\ orders'[i].stack = IF i \in S THEN n ELSE orders[i].stack
  BY DEF SetStack, IInv, ShapeInv
<1>2. ShapeInv'
  BY <1>1 DEF IInv, ShapeInv, Sellers
<1>3. RowsInv'
  <2> SUFFICES ASSUME NEW r \in job.rows, r.id \in DOMAIN orders PROVE RowOf(r)'
    BY <1>1 DEF RowsInv, RowOf, IInv
  <2>1. RowOf(r) /\ r.owner # Bot
    BY BoundsAssumption DEF IInv, RowsInv, RowOf
  <2>2. orders[r.id].stack \in Nat
    BY <2>1 DEF IInv, ShapeInv, RowOf
  <2> QED BY <1>1, <2>1, <2>2 DEF RowOf
<1>4. OwnInv' /\ PaidInv'
  BY <1>1 DEF IInv, OwnInv, PaidInv
<1> QED BY <1>2, <1>3, <1>4 DEF IInv

(* Rows come under ids that nobody remembers.                                *)
LEMMA GrowKeeps ==
  ASSUME IInv, UNCHANGED paid, NEW S \in SUBSET FreeIds,
         DOMAIN orders' = DOMAIN orders \cup S,
         \A i \in DOMAIN orders : orders'[i] = orders[i],
         \A i \in S :
           /\ DOMAIN orders'[i] = {"owner", "key", "price", "expiry", "stack"}
           /\ orders'[i].owner \in Sellers /\ orders'[i].stack \in Nat
           /\ orders'[i].owner \in Players => orders'[i].price \in Nat,
         job' = job \/ job' = NoJob
  PROVE  IInv'
<1>1. \A i \in S : /\ i \notin DOMAIN orders
                   /\ \A p \in paid : p.order # i
                   /\ \A r \in job.rows : r.id # i
                   /\ i \notin job.stale \cup job.tops
  BY DEF FreeIds
<1>2. ShapeInv'
  BY <1>1 DEF IInv, ShapeInv, NoJob, Sellers
<1>3. RowsInv'
  BY <1>1 DEF IInv, RowsInv, RowOf, NoJob
<1>4. OwnInv'
  BY <1>1 DEF IInv, OwnInv, NoJob
<1>5. PaidInv'
  BY <1>1 DEF IInv, PaidInv
<1> QED BY <1>2, <1>3, <1>4, <1>5 DEF IInv

(* A row is bought.                                                          *)
LEMMA PurchaseKeeps ==
  ASSUME IInv, NEW r \in job.rows, Purchase(r), NEW n,
         job' = [job EXCEPT !.rows = @ \ {r}] \/ job' = [job EXCEPT !.rows = @ \ {r}, !.bought = n]
  PROVE  IInv'
<1>1. /\ DOMAIN orders' = DOMAIN orders \ {r.id}
      /\ \A i \in DOMAIN orders' : orders'[i] = orders[i]
  BY DEF Purchase, Without
<1>2. /\ DOMAIN job' = DOMAIN job /\ job'.rows \subseteq job.rows
      /\ job'.stale = job.stale /\ job'.tops = job.tops
  BY DEF IInv, ShapeInv
<1>3. \A p \in paid' : p \in paid \/ p.order = r.id
  BY DEF Purchase, Payment
<1>4. ShapeInv' /\ OwnInv'
  BY <1>1, <1>2 DEF IInv, ShapeInv, OwnInv, Sellers
<1>5. RowsInv'
  BY <1>1, <1>2 DEF IInv, RowsInv, RowOf
<1>6. PaidInv'
  BY <1>1, <1>3 DEF IInv, PaidInv
<1> QED BY <1>4, <1>5, <1>6 DEF IInv

-------------------------------------------------------------------------------
(* A step that leaves the payments alone and forgets of the tick what it     *)
(* forgets.                                                                  *)
Forgets ==
  /\ DOMAIN job' = DOMAIN job
  /\ job'.rows \subseteq job.rows
  /\ job'.stale \subseteq job.stale
  /\ job'.tops \subseteq job.tops

LEMMA JobForgets ==
  ASSUME IInv,
         \/ job' = job
         \/ job' = NoJob
         \/ \E x : job' = [NoJob EXCEPT !.list = x]
         \/ \E x : job' = [NoJob EXCEPT !.snap = x]
  PROVE  Forgets
BY DEF IInv, ShapeInv, NoJob, Forgets

LEMMA SameRowsKeep ==
  ASSUME IInv, UNCHANGED <<orders, paid>>, Forgets
  PROVE  IInv'
BY DEF Forgets, IInv, ShapeInv, RowsInv, RowOf, OwnInv, PaidInv, Sellers

LEMMA WithoutKeeps ==
  ASSUME IInv, UNCHANGED paid, Forgets, NEW S, orders' = Without(S)
  PROVE  IInv'
<1>1. orders' = [i \in DOMAIN orders \ S |-> orders[i]]
  BY DEF Without
<1> QED BY <1>1, ShrinkKeeps DEF Forgets

LEMMA StepBuy == IInv /\ BuyTick => IInv'
<1> SUFFICES ASSUME IInv, BuyTick PROVE IInv'
  OBVIOUS
<1>1. CASE BuyLearn
  BY <1>1, JobForgets, SameRowsKeep DEF BuyLearn
<1>2. CASE BuyQuery
  <2>1. CASE AfterBuying
    BY <1>2, <2>1, JobForgets, SameRowsKeep DEF BuyQuery, AfterBuying
  <2>2. CASE ~AfterBuying
    <3>1. /\ UNCHANGED <<orders, paid>>
          /\ DOMAIN job' = DOMAIN job /\ job'.stale = job.stale /\ job'.tops = job.tops
          /\ job'.rows =
               {[id |-> i, owner |-> orders[i].owner, key |-> orders[i].key,
                 price |-> orders[i].price, stack |-> orders[i].stack] : i \in Offered}
      BY <1>2, <2>2 DEF BuyQuery, IInv, ShapeInv
    <3>2. ShapeInv' /\ OwnInv' /\ PaidInv'
      BY <3>1 DEF IInv, ShapeInv, OwnInv, PaidInv, Sellers
    <3>3. ASSUME NEW r \in job'.rows PROVE RowOf(r)'
      <4>1. PICK i \in Offered :
              r = [id |-> i, owner |-> orders[i].owner, key |-> orders[i].key,
                   price |-> orders[i].price, stack |-> orders[i].stack]
        BY <3>1, <3>3
      <4>2. /\ i \in DOMAIN orders /\ orders[i].owner \in Players
            /\ orders[i].price \in Nat /\ orders[i].stack \in Nat
        BY OfferedArePlayers
      <4> QED BY <3>1, <4>1, <4>2 DEF RowOf
    <3> QED BY <3>2, <3>3 DEF IInv, RowsInv
  <2> QED BY <2>1, <2>2
<1>3. CASE BuyRow
  <2>1. PICK r \in job.rows :
          \/ Skip(r) /\ job' = [job EXCEPT !.rows = @ \ {r}]
          \/ /\ Wanted(r) /\ Purchase(r) /\ NoFault
             /\ job' = [job EXCEPT !.rows = @ \ {r}, !.bought = @ + 1]
          \/ /\ Wanted(r) /\ Fault
             /\ Purchase(r) \/ UNCHANGED <<orders, paid>>
             /\ job' = [job EXCEPT !.rows = @ \ {r}]
    BY <1>3 DEF BuyRow
  <2>2. CASE Purchase(r)
    <3>1. \/ job' = [job EXCEPT !.rows = @ \ {r}]
          \/ job' = [job EXCEPT !.rows = @ \ {r}, !.bought = job.bought + 1]
      BY <2>1
    <3>2. PICK n : n = job.bought + 1
      OBVIOUS
    <3> QED BY <2>2, <3>1, <3>2, PurchaseKeeps
  <2>3. CASE UNCHANGED <<orders, paid>>
    <3>1. Forgets
      BY <2>1 DEF Forgets, IInv, ShapeInv
    <3> QED BY <2>3, <3>1, SameRowsKeep
  <2> QED BY <2>1, <2>2, <2>3 DEF Skip
<1>4. CASE BuyDone
  BY <1>4, JobForgets, SameRowsKeep DEF BuyDone, AfterBuying
<1> QED BY <1>1, <1>2, <1>3, <1>4 DEF BuyTick

(* What a batch leaves in the table: its listings under ids of the set S.    *)
Inserts(S) ==
  /\ DOMAIN orders' = DOMAIN orders \cup S
  /\ \A i \in DOMAIN orders : orders'[i] = orders[i]
  /\ \E row \in Bijection(S, job.pending) :
       \A i \in S : orders'[i] = [owner |-> Bot, key |-> row[i].key, price |-> row[i].price,
                                 expiry |-> job.expiry, stack |-> StackMax]
  /\ \A i \in S : /\ orders'[i].owner = Bot /\ orders'[i].stack = StackMax
                  /\ DOMAIN orders'[i] = {"owner", "key", "price", "expiry", "stack"}

LEMMA InsertedInserts ==
  ASSUME NEW S \in SUBSET FreeIds, NEW row \in Bijection(S, job.pending), orders' = Inserted(row)
  PROVE  Inserts(S)
<1>1. DOMAIN row = S
  BY DEF Bijection, Injection
<1>2. \A i \in DOMAIN orders : i \notin S
  BY DEF FreeIds
<1>3. /\ DOMAIN orders' = DOMAIN orders \cup S
      /\ \A i \in DOMAIN orders : orders'[i] = orders[i]
      /\ \A i \in S : orders'[i] = [owner |-> Bot, key |-> row[i].key, price |-> row[i].price,
                                    expiry |-> job.expiry, stack |-> StackMax]
  BY <1>1, <1>2 DEF Inserted
<1> QED BY <1>3 DEF Inserts

LEMMA BatchInserts ==
  ASSUME createListingsBatch
  PROVE  orders' = orders \/ \E S \in SUBSET FreeIds : Inserts(S)
<1>1. PICK S \in SUBSET FreeIds :
        \E row \in Bijection(S, job.pending) : orders' = orders \/ orders' = Inserted(row)
  BY DEF createListingsBatch, kSubset
<1>2. PICK row \in Bijection(S, job.pending) : orders' = orders \/ orders' = Inserted(row)
  BY <1>1
<1> QED BY <1>2, InsertedInserts

LEMMA StepList == IInv /\ ListTick => IInv'
<1> SUFFICES ASSUME IInv, ListTick PROVE IInv'
  OBVIOUS
<1>0. paid' = paid
  BY DEF ListTick, ListSnap, ListLearn, UpdatePrices, Expire, Load, DeleteOrders, DeleteItems,
     TopUp, createListingsBatch, Lists
<1>1. CASE ListSnap
  BY <1>0, <1>1, JobForgets, SameRowsKeep DEF ListSnap
<1>2. CASE ListLearn \/ UpdatePrices
  BY <1>0, <1>2, JobForgets, SameRowsKeep DEF ListLearn, UpdatePrices
<1>3. CASE Expire
  <2>1. Forgets
    BY <1>3, JobForgets DEF Expire
  <2>2. CASE UNCHANGED orders
    BY <1>0, <2>1, <2>2, SameRowsKeep
  <2>3. CASE orders' = Without(ExpiredOwn)
    <3>1. PICK S : S = ExpiredOwn
      OBVIOUS
    <3> QED BY <1>0, <2>1, <2>3, <3>1, WithoutKeeps
  <2> QED BY <1>3, <2>2, <2>3 DEF Expire
<1>4. CASE Load
  <2>1. CASE job' = NoJob
    BY <1>0, <1>4, <2>1, JobForgets, SameRowsKeep DEF Load
  <2>2. CASE job' # NoJob
    <3>1. /\ UNCHANGED orders /\ DOMAIN job' = DOMAIN job /\ job'.rows = job.rows
          /\ job'.stale \subseteq Loaded /\ job'.tops \subseteq Loaded
      <4> DEFINE stale == {i \in Loaded : \/ orders[i].key \in job.snap.disabled
                                         \/ orders[i].price # price[orders[i].key]}
                 tops == {i \in Loaded \ stale : orders[i].stack < StackMax}
                 pending == {[key |-> k, price |-> price[k], n |-> j] :
                               k \in Keys, j \in 1..Max(Quotas)}
                 missing == {l \in pending : l.n <= Missing(l.key)}
      <4>1. UNCHANGED orders
        BY <1>4 DEF Load
      <4>2. stale \subseteq Loaded /\ tops \subseteq Loaded
        OBVIOUS
      <4>3. job' = [job EXCEPT !.expiry = OrderExpiry, !.stale = stale, !.tops = tops,
                              !.pending = missing]
        BY <1>4, <2>2 DEF Load
      <4> HIDE DEF stale, tops, missing
      <4> QED BY <4>1, <4>2, <4>3 DEF IInv, ShapeInv
    <3>2. \A i \in Loaded : orders[i].owner = Bot
      BY DEF Loaded, Own
    <3> QED BY <1>0, <3>1, <3>2 DEF IInv, ShapeInv, RowsInv, RowOf, OwnInv, PaidInv, Sellers
  <2> QED BY <2>1, <2>2
<1>5. CASE DeleteOrders
  <2>1. Forgets
    BY <1>5, JobForgets DEF DeleteOrders
  <2>2. CASE UNCHANGED orders
    BY <1>0, <2>1, <2>2, SameRowsKeep
  <2>3. CASE orders' = Without(job.stale)
    <3>1. PICK S : S = job.stale
      OBVIOUS
    <3> QED BY <1>0, <2>1, <2>3, <3>1, WithoutKeeps
  <2> QED BY <1>5, <2>2, <2>3 DEF DeleteOrders
<1>6. CASE DeleteItems \/ TopUp
  <2>1. job' = job
    BY <1>6 DEF DeleteItems, TopUp
  <2>2. CASE UNCHANGED orders
    BY <1>0, <2>1, <2>2, JobForgets, SameRowsKeep
  <2>3. CASE \E n \in Nat : orders' = SetStack(job.stale, n) \/ orders' = SetStack(job.tops, n)
    <3>1. PICK S \in {job.stale, job.tops}, n \in Nat : orders' = SetStack(S, n)
      BY <2>3
    <3>2. \A i \in S : i \in DOMAIN orders => orders[i].owner = Bot
      BY DEF IInv, OwnInv
    <3> QED BY <1>0, <2>1, <3>1, <3>2, StackKeeps
  <2> QED BY <1>6, <2>2, <2>3, BoundsAssumption DEF DeleteItems, TopUp
<1>7. CASE createListingsBatch
  <2>1. job' = NoJob
    BY <1>7 DEF createListingsBatch
  <2>2. CASE UNCHANGED orders
    BY <1>0, <2>1, <2>2, JobForgets, SameRowsKeep
  <2>3. CASE orders' # orders
    <3>1. PICK S \in SUBSET FreeIds : Inserts(S)
      BY <1>7, <2>3, BatchInserts
    <3>2. /\ DOMAIN orders' = DOMAIN orders \cup S
          /\ \A i \in S : /\ orders'[i].owner = Bot /\ orders'[i].stack = StackMax
                          /\ DOMAIN orders'[i] = {"owner", "key", "price", "expiry", "stack"}
          /\ \A i \in DOMAIN orders : orders'[i] = orders[i]
      BY <3>1 DEF Inserts
    <3> QED BY <1>0, <2>1, <3>2, GrowKeeps, BoundsAssumption DEF Sellers
  <2> QED BY <2>2, <2>3
<1> QED BY <1>1, <1>2, <1>3, <1>4, <1>5, <1>6, <1>7 DEF ListTick

LEMMA StepIInv == IInv /\ [Next]_vars => IInv'
<1> SUFFICES ASSUME IInv, [Next]_vars PROVE IInv'
  OBVIOUS
<1>1. CASE Boot \/ Wake
  <2>1. UNCHANGED <<orders, paid>>
    BY <1>1 DEF Boot, Wake
  <2>2. Forgets
    BY <1>1, JobForgets DEF Boot, Wake
  <2> QED BY <2>1, <2>2, SameRowsKeep
<1>2. CASE Request
  <2>1. paid' = paid /\ job' = job
    BY <1>2 DEF Request, Apply, Begin, Clean, Reinit, End, Ask, Loop
  <2>2. orders' = orders \/ orders' = Without(Own)
    BY <1>2 DEF Request, Apply, Begin, Clean, Reinit, End
  <2>3. PICK S : S = Own
    OBVIOUS
  <2> QED BY <2>1, <2>2, <2>3, JobForgets, SameRowsKeep, WithoutKeeps
<1>3. ASSUME NEW p \in Players, Offer(p) PROVE IInv'
  <2>1. PICK i \in FreeIds, k \in Keys, c \in Prices, d \in Durations, n \in 1..StackMax :
          orders' = [j \in DOMAIN orders \cup {i} |->
            IF j = i THEN [owner |-> p, key |-> k, price |-> c, expiry |-> now + d, stack |-> n]
            ELSE orders[j]]
    BY <1>3 DEF Offer
  <2>2. /\ DOMAIN orders' = DOMAIN orders \cup {i}
        /\ orders'[i] = [owner |-> p, key |-> k, price |-> c, expiry |-> now + d, stack |-> n]
        /\ i \notin DOMAIN orders
        /\ \A j \in DOMAIN orders : orders'[j] = orders[j]
    BY <2>1 DEF FreeIds
  <2>3. c \in Nat /\ n \in Nat
    BY BoundsAssumption
  <2>4. /\ DOMAIN orders'[i] = {"owner", "key", "price", "expiry", "stack"}
        /\ orders'[i].owner \in Sellers /\ orders'[i].price \in Nat /\ orders'[i].stack \in Nat
    BY <2>2, <2>3 DEF Sellers
  <2>5. paid' = paid /\ job' = job
    BY <1>3 DEF Offer, Bots
  <2>6. PICK S \in SUBSET FreeIds : S = {i}
    OBVIOUS
  <2> QED BY <2>2, <2>4, <2>5, <2>6, GrowKeeps
<1>4. ASSUME NEW i \in DOMAIN orders, Leave(i) PROVE IInv'
  BY <1>4, JobForgets, WithoutKeeps DEF Leave, Bots
<1>5. ASSUME NEW i \in DOMAIN orders, TakeOne(i) PROVE IInv'
  <2>1. orders[i].stack \in Nat /\ orders[i].stack > 1
    BY <1>5 DEF TakeOne, IInv, ShapeInv
  <2>2. PICK n \in Nat : n = orders[i].stack - 1
    BY <2>1
  <2>3. PICK S : S = {i}
    OBVIOUS
  <2>4. orders' = SetStack(S, n) /\ UNCHANGED <<paid, job>>
    BY <1>5, <2>2, <2>3 DEF TakeOne, Bots
  <2>5. \A j \in S : n <= orders[j].stack
    BY <2>1, <2>2, <2>3
  <2> QED BY <2>4, <2>5, StackKeeps
<1>6. CASE Advance
  BY <1>6, JobForgets, SameRowsKeep DEF Advance, Bots
<1>7. CASE Crash
  BY <1>7, JobForgets, SameRowsKeep DEF Crash
<1>8. CASE UNCHANGED vars
  BY <1>8, JobForgets, SameRowsKeep DEF vars
<1> QED
  BY StepBuy, StepList, <1>1, <1>2, <1>3, <1>4, <1>5, <1>6, <1>7, <1>8 DEF Next, Game

LEMMA Invariance == Spec => []IInv
BY InitIInv, StepIInv, PTL DEF Spec

-------------------------------------------------------------------------------
(* What the property asks of a step.                                         *)
Whole(i) ==
  \/ i \in DOMAIN orders' /\ orders'[i] = orders[i]
  \/ \E p \in paid' \ paid :
       p.order = i /\ p.owner = orders[i].owner
         /\ p.amount >= orders[i].price * orders[i].stack

(* A price for a stack pays for any smaller one.                             *)
LEMMA MorePaysLess ==
  ASSUME NEW c \in Nat, NEW n \in Nat, NEW k \in Nat, n <= k
  PROVE  c * k >= c * n
<1>1. PICK d \in Nat : k = n + d
  <2>1. k - n \in Nat /\ k = n + (k - n)
    OBVIOUS
  <2> QED BY <2>1
<1>2. c * k = c * n + c * d
  BY <1>1
<1>3. c * d \in Nat /\ c * n \in Nat
  OBVIOUS
<1> QED BY <1>2, <1>3

(* A purchase pays for the order it deletes.                                 *)
LEMMA PurchasePays ==
  ASSUME IInv, NEW r \in job.rows, Purchase(r), NEW i \in Offered
  PROVE  Whole(i)
<1>1. i \in DOMAIN orders
  BY OfferedArePlayers
<1>2. CASE i # r.id
  BY <1>1, <1>2 DEF Purchase, Without, Whole
<1>3. CASE i = r.id
  <2>1. /\ orders[i].owner = r.owner /\ orders[i].price = r.price
        /\ orders[i].stack <= r.stack
        /\ r.price \in Nat /\ r.stack \in Nat /\ orders[i].stack \in Nat
    BY <1>1, <1>3, OfferedArePlayers DEF IInv, RowsInv, RowOf
  <2>2. r.price * r.stack >= orders[i].price * orders[i].stack
    BY <2>1, MorePaysLess
  <2>3. Payment(r).order = i /\ Payment(r).owner = r.owner
        /\ Payment(r).amount = r.price * r.stack
    BY <1>3 DEF Payment
  <2>4. Payment(r) \in paid' /\ Payment(r) \notin paid
    BY <1>1, <2>3 DEF Purchase, IInv, PaidInv
  <2> QED BY <2>1, <2>2, <2>3, <2>4 DEF Whole
<1> QED BY <1>2, <1>3

LEMMA BuyWhole == IInv /\ BuyTick => \A i \in Offered : Whole(i)
<1> SUFFICES ASSUME IInv, BuyTick, NEW i \in Offered PROVE Whole(i)
  OBVIOUS
<1>1. CASE UNCHANGED orders
  BY <1>1, OfferedArePlayers DEF Whole
<1>2. CASE ~UNCHANGED orders
  <2>1. PICK r \in job.rows : Purchase(r)
    BY <1>2 DEF BuyTick, BuyLearn, BuyQuery, BuyRow, BuyDone, Skip
  <2> QED BY <2>1, PurchasePays
<1> QED BY <1>1, <1>2

(* What the list tick deletes or fills, and what the cleanup deletes, is the *)
(* bot's own.                                                                *)
LEMMA OthersWhole == IInv /\ (ListTick \/ Request) => \A i \in Offered : Whole(i)
<1> SUFFICES ASSUME IInv, ListTick \/ Request, NEW i \in Offered PROVE Whole(i)
  OBVIOUS
<1>1. i \in DOMAIN orders /\ orders[i].owner # Bot
  BY OfferedArePlayers, BoundsAssumption
<1>2. i \notin job.stale \cup job.tops /\ i \notin Own /\ i \notin ExpiredOwn
  BY <1>1 DEF IInv, OwnInv, Own, ExpiredOwn
<1>3. CASE \E S : i \notin S /\ orders' = Without(S)
  BY <1>1, <1>3 DEF Whole, Without
<1>4. CASE \E S, n : i \notin S /\ orders' = SetStack(S, n)
  BY <1>1, <1>4 DEF Whole, SetStack
<1>5. CASE \E S \in SUBSET FreeIds : Inserts(S)
  BY <1>1, <1>5 DEF Whole, Inserts
<1>6. CASE UNCHANGED orders
  BY <1>1, <1>6 DEF Whole
<1>7. CASE Request
  BY <1>2, <1>3, <1>6, <1>7 DEF Request, Apply, Begin, Clean, Reinit, End
<1>8. CASE createListingsBatch
  BY <1>5, <1>6, <1>8, BatchInserts
<1>9. CASE ListTick /\ ~createListingsBatch
  BY <1>2, <1>3, <1>4, <1>6, <1>9
     DEF ListTick, ListSnap, ListLearn, UpdatePrices, Expire, Load, DeleteOrders, DeleteItems, TopUp
<1> QED BY <1>7, <1>8, <1>9

(* The bot touches what players offer only to buy it, and pays for all that  *)
(* is left of it, whatever the game, the operator and failures do between    *)
(* the query that read the offer and the purchase (buyPlayerListings, with   *)
(* expireAndPurgeOrders, the bulk statements of ListTick and the cleanup     *)
(* beside it).                                                               *)
THEOREM SellersAlwaysWhole == Spec => SellersWhole
<1>1. IInv => (BuyTick \/ ListTick \/ Request => \A i \in Offered : Whole(i))
  BY BuyWhole, OthersWhole
<1>2. IInv /\ [Next]_vars
        => [BuyTick \/ ListTick \/ Request =>
              \A i \in Offered :
                \/ i \in DOMAIN orders' /\ orders'[i] = orders[i]
                \/ \E p \in paid' \ paid :
                     p.order = i /\ p.owner = orders[i].owner
                       /\ p.amount >= orders[i].price * orders[i].stack]_vars
  BY <1>1 DEF Whole
<1> QED BY <1>2, Invariance, PTL DEF Spec, SellersWhole

-------------------------------------------------------------------------------
(* Finite sets of numbers.                                                   *)

LEMMA MaxExists ==
  ASSUME NEW S, IsFiniteSet(S), S # {}, S \subseteq Int
  PROVE  Max(S) \in S /\ \A x \in S : x <= Max(S)
<1> DEFINE HasMax(X) == \E m \in X : \A x \in X : x <= m
           Bad == {X \in SUBSET S : X # {} /\ ~HasMax(X)}
<1>1. HasMax(S)
  <2> SUFFICES ASSUME ~HasMax(S) PROVE FALSE
    OBVIOUS
  <2>1. Bad \subseteq FiniteSubsetsOf(S) /\ Bad # {}
    BY FS_Subset DEF FiniteSubsetsOf
  <2> HIDE DEF Bad
  <2>2. PICK X \in Bad : \A Y \in Bad : <<Y, X>> \notin StrictSubsetOrdering(S)
    BY <2>1, FS_StrictSubsetOrderingWellFounded, WFMin
  <2>3. X \in SUBSET S /\ X # {} /\ ~HasMax(X)
    BY <2>2 DEF Bad
  <2>4. PICK x \in X : x \in Int
    BY <2>3
  <2>5. X \ {x} \notin Bad
    BY <2>2, <2>3 DEF StrictSubsetOrdering
  <2>6. CASE X = {x}
    BY <2>3, <2>4, <2>6
  <2>7. CASE X # {x}
    <3>1. X \ {x} \in SUBSET S /\ X \ {x} # {}
      BY <2>3, <2>7
    <3>2. HasMax(X \ {x})
      BY <2>5, <3>1 DEF Bad
    <3>3. PICK m \in X \ {x} : \A y \in X \ {x} : y <= m
      BY <3>2
    <3>4. \A y \in X : y \in Int
      BY <2>3
    <3>5. CASE x <= m
      <4>1. \A y \in X : y <= m
        BY <3>3, <3>5
      <4> QED BY <2>3, <3>3, <4>1
    <3>6. CASE ~(x <= m)
      <4>1. \A y \in X : y <= x
        BY <2>4, <3>3, <3>4, <3>6
      <4> QED BY <2>3, <4>1
    <3> QED BY <3>5, <3>6
  <2> QED BY <2>6, <2>7
<1>2. \E m \in S : \A x \in S : m >= x
  BY <1>1
<1>3. Max(S) \in S /\ \A x \in S : Max(S) >= x
  BY <1>2 DEF Max
<1> QED BY <1>3

LEMMA MaxOrZero ==
  ASSUME NEW n \in Int
  PROVE  /\ n > 0 => Max({0, n}) = n
         /\ n <= 0 => Max({0, n}) = 0
<1>1. IsFiniteSet({0, n})
  <2>1. IsFiniteSet({0})
    BY FS_Singleton
  <2>2. IsFiniteSet({0} \cup {n})
    BY <2>1, FS_AddElement
  <2>3. {0} \cup {n} = {0, n}
    OBVIOUS
  <2> QED BY <2>2, <2>3
<1>2. Max({0, n}) \in {0, n} /\ \A x \in {0, n} : x <= Max({0, n})
  BY <1>1, MaxExists
<1> QED BY <1>2

LEMMA ImageFinite ==
  ASSUME NEW S, IsFiniteSet(S), NEW f
  PROVE  IsFiniteSet({f[x] : x \in S})
<1> DEFINE T == {f[x] : x \in S}
           g == [x \in S |-> f[x]]
<1>1. g \in Surjection(S, T)
  BY DEF Surjection
<1> QED BY <1>1, FS_Surjection

LEMMA QuotaBound ==
  /\ Max(Quotas) \in Quotas /\ Max(Quotas) \in Nat /\ Max(Quotas) > 0
  /\ \A q \in Quotas : q \in Nat /\ q <= Max(Quotas)
<1>1. Quotas \subseteq Nat \ {0} /\ IsFiniteSet(Quotas) /\ Quotas # {}
  BY BoundsAssumption, DataAssumption
<1>2. Max(Quotas) \in Quotas /\ \A q \in Quotas : q <= Max(Quotas)
  <2>1. Quotas \subseteq Int
    BY <1>1
  <2> QED BY <1>1, <2>1, MaxExists
<1>3. \A q \in Quotas : q \in Nat /\ q > 0
  BY <1>1
<1> QED BY ONLY <1>2, <1>3

-------------------------------------------------------------------------------
(* Types.                                                                    *)

Late == {"deleteOrders", "deleteItems", "topUp", "insert"}
Clocked == {"prices", "expire", "load"} \cup Late
ListSteps == {"listLearn"} \cup Clocked

(* What the tick holds: a snapshot of the configuration while it lists, and  *)
(* finitely many listings to make.                                           *)
JobInv ==
  /\ job.expiry \in Nat
  /\ \A r \in job.rows : r.id \in Ids
  /\ IsFiniteSet(job.pending)
  /\ \A l \in job.pending : l.key \in Keys /\ l.price \in Prices
  /\ pc \in ListSteps => job.snap.quota \in Quotas /\ job.snap.disabled \subseteq Keys

TypeInv ==
  /\ TypeOK
  /\ JobInv
  /\ IsFiniteSet(paid)
  /\ op.was \in BOOLEAN

LEMMA JobFields ==
  DOMAIN NoJob = {"snap", "list", "rows", "bought", "expiry", "stale", "tops", "pending"}
BY DEF NoJob

LEMMA OpFields == DOMAIN NoOp = {"kind", "step", "was"}
BY DEF NoOp

LEMMA NumberTypes ==
  /\ TTL \in Nat \ {0} /\ MaxTime \in Nat \ {0} /\ StackMax \in Nat \ {0}
  /\ Sentinel \in Nat \ {0} /\ TTL <= MaxTime /\ MaxTime + TTL < Sentinel
  /\ Ids \subseteq Nat /\ Prices \subseteq Nat \ {0} /\ BasePrice \in Prices
BY BoundsAssumption

LEMMA NoJobInv ==
  /\ NoJob.expiry = 0 /\ NoJob.rows = {} /\ NoJob.pending = {} /\ IsFiniteSet(NoJob.pending)
  /\ NoJob.stale = {} /\ NoJob.tops = {}
BY FS_EmptySet DEF NoJob

LEMMA InitTypeInv == Init => TypeInv
<1> SUFFICES ASSUME Init PROVE TypeInv
  OBVIOUS
<1> USE DEF Init
<1>1. TypeOK
  <2>1. now \in 0..MaxTime
    BY NumberTypes
  <2>2. config \in [enabled: BOOLEAN, quota: Quotas, disabled: SUBSET Keys]
    BY QuotaBound
  <2>3. price \in [Keys -> Prices]
    BY NumberTypes
  <2>4. DOMAIN orders = {} /\ paid = {} /\ clock \in Int \cup {None}
    OBVIOUS
  <2>5. pc \in Steps
    BY DEF Steps
  <2> QED BY <2>1, <2>2, <2>3, <2>4, <2>5 DEF TypeOK
<1>2. JobInv
  BY NoJobInv DEF JobInv, ListSteps, Clocked, Late
<1>3. IsFiniteSet(paid) /\ op.was \in BOOLEAN
  BY FS_EmptySet DEF NoOp
<1> QED BY <1>1, <1>2, <1>3 DEF TypeInv

(* Expiries are numbers, and finitely many.                                  *)
LEMMA RefTypes ==
  ASSUME TypeInv
  PROVE  /\ BotRefs \subseteq Nat /\ IsFiniteSet(BotRefs)
         /\ PlayerRefs \subseteq Nat /\ IsFiniteSet(PlayerRefs)
<1>1. \A i \in DOMAIN orders : orders[i].expiry \in Nat
  BY DEF TypeInv, TypeOK, Order
<1>2. \A p \in paid : p.expiry \in Nat
  BY DEF TypeInv, TypeOK
<1>3. IsFiniteSet(DOMAIN orders)
  BY DataAssumption, FS_Subset DEF TypeInv, TypeOK
<1> DEFINE D == {j \in Own : orders[j].expiry < Sentinel}
           f == [i \in DOMAIN orders |-> orders[i].expiry]
           g == [p \in paid |-> p.expiry]
<1>4. D \in SUBSET DOMAIN orders /\ Offered \in SUBSET DOMAIN orders
  BY DEF Own, Offered
<1>5. IsFiniteSet(D) /\ IsFiniteSet(Offered) /\ IsFiniteSet(paid)
  BY <1>3, <1>4, FS_Subset DEF TypeInv
<1>6. /\ BotRefs = {f[i] : i \in D}
      /\ PlayerRefs = {f[i] : i \in Offered} \cup {g[p] : p \in paid}
  BY <1>4 DEF BotRefs, PlayerRefs
<1>7. BotRefs \subseteq Nat /\ PlayerRefs \subseteq Nat
  BY <1>1, <1>2, <1>4 DEF BotRefs, PlayerRefs
<1> HIDE DEF D, f, g
<1>8. IsFiniteSet({f[i] : i \in D})
  BY <1>5, ImageFinite
<1>9. IsFiniteSet({f[i] : i \in Offered}) /\ IsFiniteSet({g[p] : p \in paid})
  BY <1>5, ImageFinite
<1>10. IsFiniteSet({f[i] : i \in Offered} \cup {g[p] : p \in paid})
  BY <1>9, FS_Union
<1> QED BY <1>6, <1>7, <1>8, <1>10

LEMMA LearntType ==
  ASSUME TypeInv, NEW refs, refs \subseteq Nat, IsFiniteSet(refs)
  PROVE  /\ refs = {} => Learnt(refs) = clock
         /\ refs # {} => /\ Max(refs) \in refs /\ \A e \in refs : e <= Max(refs)
                         /\ Learnt(refs) = Max(refs) - TTL - now
                         /\ Learnt(refs) \in Int
<1>1. TTL \in Nat /\ now \in Nat
  BY NumberTypes DEF TypeInv, TypeOK
<1>2. CASE refs # {}
  <2>1. refs \subseteq Int
    OBVIOUS
  <2>2. Max(refs) \in refs /\ \A e \in refs : e <= Max(refs)
    BY <1>2, <2>1, MaxExists
  <2>3. Max(refs) \in Int
    BY <2>1, <2>2
  <2>4. Learnt(refs) = Max(refs) - TTL - now
    BY <1>2 DEF Learnt
  <2> QED BY <1>1, <1>2, <2>2, <2>3, <2>4
<1> QED BY <1>2 DEF Learnt

LEMMA ClockTyped ==
  ASSUME TypeInv, [Next]_vars
  PROVE  clock' \in Int \cup {None}
<1>1. clock \in Int \cup {None}
  BY DEF TypeInv, TypeOK
<1>2. CASE LearnOK
  BY <1>1, <1>2, RefTypes, LearntType DEF LearnOK
<1>3. CASE LearnFails
  <2>1. Learnt({}) = clock
    BY DEF Learnt
  <2> QED BY <1>1, <1>3, <2>1, RefTypes, LearntType DEF LearnFails
<1>4. CASE UNCHANGED clock
  BY <1>1, <1>4
<1>5. LearnOK \/ LearnFails \/ UNCHANGED clock
  <2>1. CASE Boot \/ Wake \/ Crash \/ UNCHANGED vars
    BY <2>1 DEF Boot, Wake, Crash, learnGameEpoch, vars
  <2>2. CASE BuyTick
    BY <2>2 DEF BuyTick, BuyLearn, BuyQuery, BuyRow, BuyDone, learnGameEpoch
  <2>3. CASE ListTick
    BY <2>3 DEF ListTick, ListSnap, ListLearn, UpdatePrices, Expire, Load, DeleteOrders,
       DeleteItems, TopUp, createListingsBatch, learnGameEpoch
  <2>4. CASE Request
    BY <2>4 DEF Request, Apply, Begin, Clean, Reinit, End
  <2>5. CASE Game
    BY <2>5 DEF Game, Offer, Leave, TakeOne, Advance, Bots
  <2> QED BY <2>1, <2>2, <2>3, <2>4, <2>5 DEF Next
<1> QED BY <1>2, <1>3, <1>4, <1>5

(* The expiry of what the bot writes now.                                    *)
LEMMA ExpiryType ==
  ASSUME TypeInv
  PROVE  /\ OrderExpiry \in Nat /\ gameNow \in Int /\ OrderExpiry > gameNow
         /\ gameNow > 0 => OrderExpiry = gameNow + TTL
         /\ ~(gameNow > 0) => OrderExpiry = Sentinel
<1>1. TTL \in Nat \ {0} /\ now \in Nat /\ Sentinel \in Nat \ {0} /\ clock \in Int \cup {None}
  BY NumberTypes DEF TypeInv, TypeOK
<1>2. gameNow \in Int
  BY <1>1 DEF gameNow
<1> QED BY <1>1, <1>2 DEF OrderExpiry

(* What can become of the rows in a step.                                    *)
OneOffer(i) ==
  \E p \in Players, k \in Keys, c \in Prices, d \in Durations, n \in 1..StackMax :
    orders' = [j \in DOMAIN orders \cup {i} |->
      IF j = i THEN [owner |-> p, key |-> k, price |-> c, expiry |-> now + d, stack |-> n]
      ELSE orders[j]]

LEMMA RowSteps ==
  ASSUME IInv, TypeInv, [Next]_vars
  PROVE  \/ UNCHANGED orders
         \/ \E S : orders' = Without(S)
         \/ \E S : \E n \in 0..StackMax : orders' = SetStack(S, n)
         \/ \E S \in SUBSET FreeIds : Inserts(S)
         \/ \E i \in FreeIds : OneOffer(i)
<1>0. 0 \in 0..StackMax /\ StackMax \in 0..StackMax
  BY NumberTypes
<1>1. CASE Boot \/ Wake \/ Crash \/ UNCHANGED vars
  BY <1>1 DEF Boot, Wake, Crash, vars
<1>2. CASE BuyTick
  BY <1>2 DEF BuyTick, BuyLearn, BuyQuery, BuyRow, BuyDone, Skip, Purchase
<1>3. CASE createListingsBatch
  BY <1>3, BatchInserts
<1>4. CASE ListTick /\ ~createListingsBatch
  <2>1. CASE DeleteItems \/ TopUp
    <3>1. \/ UNCHANGED orders
          \/ orders' = SetStack(job.stale, 0)
          \/ orders' = SetStack(job.tops, StackMax)
      BY <2>1 DEF DeleteItems, TopUp
    <3> HIDE DEF SetStack
    <3> QED BY ONLY <1>0, <3>1
  <2>2. CASE ~(DeleteItems \/ TopUp)
    BY <1>4, <2>2 DEF ListTick, ListSnap, ListLearn, UpdatePrices, Expire, Load, DeleteOrders
  <2> QED BY <2>1, <2>2
<1>5. CASE Request
  BY <1>5 DEF Request, Apply, Begin, Clean, Reinit, End
<1>6. ASSUME NEW p \in Players, Offer(p) PROVE \E i \in FreeIds : OneOffer(i)
  BY <1>6 DEF Offer, OneOffer
<1>7. ASSUME NEW i \in DOMAIN orders, Leave(i) PROVE \E S : orders' = Without(S)
  BY <1>7 DEF Leave
<1>8. ASSUME NEW i \in DOMAIN orders, TakeOne(i)
      PROVE  \E S : \E n \in 0..StackMax : orders' = SetStack(S, n)
  <2>1. orders[i].stack \in 0..StackMax /\ orders[i].stack > 1
    BY <1>8 DEF TakeOne, TypeInv, TypeOK, Order
  <2>2. PICK n \in 0..StackMax : n = orders[i].stack - 1
    BY <2>1, NumberTypes
  <2>3. orders' = SetStack({i}, n)
    BY <1>8, <2>2 DEF TakeOne
  <2> QED BY ONLY <2>3
<1>9. CASE Advance
  BY <1>9 DEF Advance
<1> QED BY <1>1, <1>2, <1>3, <1>4, <1>5, <1>6, <1>7, <1>8, <1>9 DEF Next, Game

LEMMA OrdersTyped ==
  ASSUME IInv, TypeInv, [Next]_vars
  PROVE  DOMAIN orders' \subseteq Ids /\ \A i \in DOMAIN orders' : orders'[i] \in Order
<1>1. DOMAIN orders \subseteq Ids /\ \A i \in DOMAIN orders : orders[i] \in Order
  BY DEF TypeInv, TypeOK
<1>2. CASE UNCHANGED orders
  BY <1>1, <1>2
<1>3. ASSUME NEW S, orders' = Without(S)
      PROVE  DOMAIN orders' \subseteq Ids /\ \A i \in DOMAIN orders' : orders'[i] \in Order
  BY <1>1, <1>3 DEF Without
<1>4. ASSUME NEW S, NEW n \in 0..StackMax, orders' = SetStack(S, n)
      PROVE  DOMAIN orders' \subseteq Ids /\ \A i \in DOMAIN orders' : orders'[i] \in Order
  <2>1. \A i \in DOMAIN orders : [orders[i] EXCEPT !.stack = n] \in Order
    BY <1>1 DEF Order
  <2> QED BY <1>1, <1>4, <2>1 DEF SetStack
<1>5. ASSUME NEW S \in SUBSET FreeIds, Inserts(S)
      PROVE  DOMAIN orders' \subseteq Ids /\ \A i \in DOMAIN orders' : orders'[i] \in Order
  <2>1. /\ DOMAIN orders' = DOMAIN orders \cup S
        /\ \A i \in DOMAIN orders : orders'[i] = orders[i]
    BY <1>5 DEF Inserts
  <2>2. PICK row \in Bijection(S, job.pending) :
          \A i \in S : orders'[i] = [owner |-> Bot, key |-> row[i].key, price |-> row[i].price,
                                    expiry |-> job.expiry, stack |-> StackMax]
    BY <1>5 DEF Inserts
  <2>3. \A i \in S : row[i] \in job.pending
    BY DEF Bijection, Injection
  <2>4. \A i \in S : row[i].key \in Keys /\ row[i].price \in Prices
    BY <2>3 DEF TypeInv, JobInv
  <2>5. Bot \in Sellers /\ job.expiry \in Nat /\ StackMax \in 0..StackMax
    BY NumberTypes DEF Sellers, TypeInv, JobInv
  <2>6. ASSUME NEW i \in S PROVE orders'[i] \in Order
    <3>1. [owner |-> Bot, key |-> row[i].key, price |-> row[i].price,
           expiry |-> job.expiry, stack |-> StackMax] \in Order
      BY <2>4, <2>5 DEF Order
    <3> QED BY <2>2, <3>1
  <2>7. S \subseteq Ids
    BY DEF FreeIds
  <2> QED BY <1>1, <2>1, <2>6, <2>7
<1>6. ASSUME NEW i \in FreeIds, OneOffer(i)
      PROVE  DOMAIN orders' \subseteq Ids /\ \A j \in DOMAIN orders' : orders'[j] \in Order
  <2>1. PICK p \in Players, k \in Keys, c \in Prices, d \in Durations, n \in 1..StackMax :
          orders' = [j \in DOMAIN orders \cup {i} |->
            IF j = i THEN [owner |-> p, key |-> k, price |-> c, expiry |-> now + d, stack |-> n]
            ELSE orders[j]]
    BY <1>6 DEF OneOffer
  <2>2. now + d \in Nat /\ n \in 0..StackMax /\ p \in Sellers
    BY DataAssumption, NumberTypes DEF Sellers, TypeInv, TypeOK
  <2>3. [owner |-> p, key |-> k, price |-> c, expiry |-> now + d, stack |-> n] \in Order
    BY <2>2 DEF Order
  <2> QED BY <1>1, <2>1, <2>3 DEF FreeIds
<1> QED BY <1>2, <1>3, <1>4, <1>5, <1>6, RowSteps

LEMMA PaidTyped ==
  ASSUME IInv, TypeInv, [Next]_vars
  PROVE  /\ IsFiniteSet(paid')
         /\ \A p \in paid' : /\ p.order \in Ids /\ p.owner \in Players
                             /\ {p.amount, p.expiry} \subseteq Nat
<1>1. IsFiniteSet(paid) /\ \A p \in paid : /\ p.order \in Ids /\ p.owner \in Players
                                           /\ {p.amount, p.expiry} \subseteq Nat
  BY DEF TypeInv, TypeOK
<1>2. ASSUME NEW r \in job.rows, Purchase(r)
      PROVE  /\ IsFiniteSet(paid')
             /\ \A p \in paid' : /\ p.order \in Ids /\ p.owner \in Players
                                 /\ {p.amount, p.expiry} \subseteq Nat
  <2>1. /\ r.id \in Ids /\ r.owner \in Players /\ r.price \in Nat /\ r.stack \in Nat
        /\ job.expiry \in Nat
    BY DEF IInv, RowsInv, RowOf, TypeInv, JobInv
  <2>2. r.price * r.stack \in Nat
    BY <2>1
  <2>3. paid' = paid \cup {Payment(r)}
    BY <1>2 DEF Purchase
  <2>4. IsFiniteSet(paid')
    BY <1>1, <2>3, FS_AddElement
  <2> QED BY <1>1, <2>1, <2>2, <2>3, <2>4 DEF Payment
<1>3. CASE UNCHANGED paid
  BY <1>1, <1>3
<1>4. UNCHANGED paid \/ \E r \in job.rows : Purchase(r)
  <2>1. CASE Boot \/ Wake \/ Crash \/ UNCHANGED vars
    BY <2>1 DEF Boot, Wake, Crash, vars
  <2>2. CASE BuyTick
    BY <2>2 DEF BuyTick, BuyLearn, BuyQuery, BuyRow, BuyDone, Skip
  <2>3. CASE ListTick
    BY <2>3 DEF ListTick, ListSnap, ListLearn, UpdatePrices, Expire, Load, DeleteOrders,
       DeleteItems, TopUp, createListingsBatch, Lists
  <2>4. CASE Request
    BY <2>4 DEF Request, Apply, Begin, Clean, Reinit, End, Ask, Loop
  <2>5. CASE Game
    BY <2>5 DEF Game, Offer, Leave, TakeOne, Advance, Bots
  <2> QED BY <2>1, <2>2, <2>3, <2>4, <2>5 DEF Next
<1> QED BY <1>2, <1>3, <1>4

(* What the catalog loop can find missing at all.                            *)
Listings == {[key |-> k, price |-> price[k], n |-> j] : k \in Keys, j \in 1..Max(Quotas)}

LEMMA ListingsFinite == IsFiniteSet(Listings)
<1> DEFINE D == Keys \X (1..Max(Quotas))
           f == [x \in D |-> [key |-> x[1], price |-> price[x[1]], n |-> x[2]]]
<1>1. IsFiniteSet(Keys) /\ IsFiniteSet(1..Max(Quotas))
  BY DataAssumption, QuotaBound, FS_Interval
<1>2. IsFiniteSet(D)
  BY <1>1, FS_Product
<1>3. \A l \in Listings : \E x \in D : f[x] = l
  <2>1. ASSUME NEW k \in Keys, NEW j \in 1..Max(Quotas)
        PROVE  /\ <<k, j>> \in D
               /\ f[<<k, j>>] = [key |-> k, price |-> price[k], n |-> j]
    OBVIOUS
  <2>2. ASSUME NEW l \in Listings PROVE \E x \in D : f[x] = l
    <3>1. PICK k \in Keys, j \in 1..Max(Quotas) : l = [key |-> k, price |-> price[k], n |-> j]
      BY DEF Listings
    <3>2. <<k, j>> \in D /\ f[<<k, j>>] = l
      BY <2>1, <3>1
    <3> HIDE DEF D, f
    <3> QED BY <3>2
  <2> QED BY <2>2
<1>4. \A x \in D : f[x] \in Listings
  BY DEF Listings
<1>5. f \in Surjection(D, Listings)
  BY <1>3, <1>4 DEF Surjection
<1> HIDE DEF D, f
<1> QED BY <1>2, <1>5, FS_Surjection

(* What the catalog loop finds, and what a list tick that has found it holds. *)
StaleRows == {i \in Loaded : \/ orders[i].key \in job.snap.disabled
                             \/ orders[i].price # price[orders[i].key]}
TopRows == {i \in Loaded \ StaleRows : orders[i].stack < StackMax}
MissingRows == {l \in Listings : l.n <= Missing(l.key)}

Found ==
  /\ NoFault /\ pc' = "deleteOrders"
  /\ DOMAIN job' = DOMAIN job /\ job'.rows = job.rows /\ job'.snap = job.snap
  /\ job'.expiry = OrderExpiry
  /\ job'.stale = StaleRows /\ job'.tops = TopRows /\ job'.pending = MissingRows

LEMMA LoadSteps ==
  ASSUME DOMAIN job = DOMAIN NoJob, Load
  PROVE  \/ Found
         \/ Fault /\ pc' = "idle" /\ job' = NoJob
<1>1. \/ /\ NoFault /\ pc' = "deleteOrders"
         /\ job' = [job EXCEPT !.expiry = OrderExpiry, !.stale = StaleRows, !.tops = TopRows,
                               !.pending = MissingRows]
      \/ Fault /\ pc' = "idle" /\ job' = NoJob
  BY DEF Load, Lists, StaleRows, TopRows, MissingRows, Listings
<1> QED BY <1>1, JobFields DEF Found

LEMMA JobTyped ==
  ASSUME IInv, TypeInv, [Next]_vars
  PROVE  JobInv' /\ DOMAIN job' = DOMAIN NoJob
<1>0. JobInv /\ DOMAIN job = DOMAIN NoJob
  BY DEF TypeInv, TypeOK
<1>1. CASE job' = job /\ (pc' \in ListSteps => pc \in ListSteps)
  BY <1>0, <1>1 DEF JobInv
<1>2. CASE job' = NoJob /\ pc' \notin ListSteps
  BY <1>2, NoJobInv DEF JobInv
<1>3. ASSUME NEW x, job' = [NoJob EXCEPT !.list = x], pc' \notin ListSteps
      PROVE  JobInv' /\ DOMAIN job' = DOMAIN NoJob
  BY <1>3, FS_EmptySet DEF JobInv, NoJob
<1>4. CASE job' = [NoJob EXCEPT !.snap = Snapshot]
  <2>1. Snapshot.quota \in Quotas /\ Snapshot.disabled \subseteq Keys
    BY DEF Snapshot, TypeInv, TypeOK
  <2> QED BY <1>4, <2>1, FS_EmptySet DEF JobInv, NoJob
<1>5. CASE Boot \/ Wake \/ Crash \/ UNCHANGED vars
  <2>1. "buyLearn" \notin ListSteps /\ "listSnap" \notin ListSteps /\ "off" \notin ListSteps
    BY DEF ListSteps, Clocked, Late
  <2> QED BY <1>1, <1>2, <1>3, <1>5, <2>1 DEF Boot, Wake, Crash, vars
<1>6. CASE BuyTick
  <2>1. /\ "buyQuery" \notin ListSteps /\ "buyRows" \notin ListSteps
        /\ "listSnap" \notin ListSteps /\ "idle" \notin ListSteps
    BY DEF ListSteps, Clocked, Late
  <2>2. CASE BuyLearn \/ BuyDone
    BY <1>1, <1>2, <2>1, <2>2 DEF BuyLearn, BuyDone, AfterBuying
  <2>3. CASE BuyQuery
    <3>1. CASE AfterBuying
      BY <1>2, <2>1, <3>1 DEF AfterBuying
    <3>2. CASE ~AfterBuying
      <4>1. pc' = "buyRows"
        BY <2>3, <3>2 DEF BuyQuery
      <4>2. /\ DOMAIN job' = DOMAIN job /\ job'.expiry = OrderExpiry
            /\ job'.pending = job.pending
            /\ job'.rows =
                 {[id |-> i, owner |-> orders[i].owner, key |-> orders[i].key,
                   price |-> orders[i].price, stack |-> orders[i].stack] : i \in Offered}
        BY <1>0, <2>3, <3>2, JobFields DEF BuyQuery
      <4>3. Offered \subseteq Ids
        BY DEF Offered, TypeInv, TypeOK
      <4>4. \A r \in job'.rows : r.id \in Ids
        BY <4>2, <4>3
      <4> QED BY <1>0, <2>1, <4>1, <4>2, <4>4, ExpiryType DEF JobInv
    <3> QED BY <3>1, <3>2
  <2>4. CASE BuyRow
    <3>1. pc' = "buyRows"
      BY <2>4 DEF BuyRow
    <3>2. /\ DOMAIN job' = DOMAIN job /\ job'.expiry = job.expiry
          /\ job'.pending = job.pending /\ job'.rows \subseteq job.rows
      BY <1>0, <2>4, JobFields DEF BuyRow
    <3> QED BY <1>0, <2>1, <3>1, <3>2 DEF JobInv
  <2> QED BY <1>6, <2>2, <2>3, <2>4 DEF BuyTick
<1>7. CASE ListTick
  <2>1. /\ {"listLearn", "prices", "expire", "load"} \subseteq ListSteps
        /\ {"deleteOrders", "deleteItems", "topUp", "insert"} \subseteq ListSteps
        /\ "idle" \notin ListSteps
    BY DEF ListSteps, Clocked, Late
  <2>2. CASE ListSnap
    BY <1>4, <2>2 DEF ListSnap
  <2>3. CASE ListLearn \/ UpdatePrices \/ Expire \/ DeleteOrders \/ DeleteItems \/ TopUp
    BY <1>1, <2>1, <2>3
       DEF ListLearn, UpdatePrices, Expire, DeleteOrders, DeleteItems, TopUp, Lists
  <2>4. CASE createListingsBatch
    BY <1>2, <2>1, <2>4 DEF createListingsBatch, Lists
  <2>5. CASE Load
    <3>1. CASE Found
      <4>1. IsFiniteSet(MissingRows) /\ MissingRows \subseteq Listings
        BY ListingsFinite, FS_Subset DEF MissingRows
      <4>2. \A l \in Listings : l.key \in Keys /\ l.price \in Prices
        BY DEF Listings, TypeInv, TypeOK
      <4>3. pc \in ListSteps
        BY <2>1, <2>5 DEF Load
      <4> QED BY <1>0, <3>1, <4>1, <4>2, <4>3, ExpiryType DEF JobInv, Found
    <3> QED BY <1>0, <1>2, <2>1, <2>5, <3>1, LoadSteps
  <2> QED BY <1>7, <2>2, <2>3, <2>4, <2>5 DEF ListTick
<1>8. CASE Request \/ Game
  <2>1. pc' = pc /\ job' = job
    BY <1>8 DEF Request, Apply, Begin, Clean, Reinit, End, Ask, Loop,
       Game, Offer, Leave, TakeOne, Advance, Bots
  <2> QED BY <1>1, <2>1
<1> QED BY <1>5, <1>6, <1>7, <1>8 DEF Next

(* The request, the configuration, the prices and what else a step sets.     *)
LEMMA RestTyped ==
  ASSUME TypeInv, [Next]_vars
  PROVE  /\ now' \in 0..MaxTime
         /\ config' \in [enabled: BOOLEAN, quota: Quotas, disabled: SUBSET Keys]
         /\ price' \in [Keys -> Prices]
         /\ pc' \in Steps /\ DOMAIN op' = DOMAIN NoOp /\ op'.was \in BOOLEAN
         /\ calm' \in BOOLEAN /\ torn' \in BOOLEAN
<1>0. /\ now \in 0..MaxTime
      /\ config \in [enabled: BOOLEAN, quota: Quotas, disabled: SUBSET Keys]
      /\ price \in [Keys -> Prices]
      /\ pc \in Steps /\ DOMAIN op = DOMAIN NoOp /\ op.was \in BOOLEAN
      /\ calm \in BOOLEAN /\ torn \in BOOLEAN
  BY DEF TypeInv, TypeOK
<1>1. [k \in Keys |-> BasePrice] \in [Keys -> Prices]
  BY NumberTypes
<1>f. ASSUME NoFault \/ Fault \/ Tear PROVE calm' \in BOOLEAN /\ torn' \in BOOLEAN
  BY <1>0, <1>f DEF NoFault, Fault, Tear
<1>l. ASSUME learnGameEpoch PROVE calm' \in BOOLEAN /\ torn' \in BOOLEAN
  BY <1>f, <1>l DEF learnGameEpoch
<1>2. CASE Boot
  <2>1. UNCHANGED <<now, config, op>> /\ price' = [k \in Keys |-> BasePrice] /\ pc' = "buyLearn"
    BY <1>2 DEF Boot, World
  <2> QED BY <1>0, <1>1, <1>2, <1>l, <2>1 DEF Boot, Steps
<1>3. CASE Wake
  <2>1. UNCHANGED <<now, config, op, price, torn>> /\ pc' \in {"buyLearn", "listSnap"}
    BY <1>3 DEF Wake, World
  <2>2. calm' = FALSE
    BY <1>3 DEF Wake
  <2> QED BY <1>0, <2>1, <2>2 DEF Steps
<1>c. CASE Crash
  <2>1. UNCHANGED <<now, config, price, torn>> /\ pc' = "off" /\ op' = NoOp /\ calm' = FALSE
    BY <1>c DEF Crash
  <2>2. NoOp.was \in BOOLEAN
    BY DEF NoOp
  <2> QED BY <1>0, <2>1, <2>2 DEF Steps
<1>s. CASE UNCHANGED vars
  BY <1>0, <1>s DEF vars
<1>b. CASE BuyTick
  <2>1. UNCHANGED <<now, config, op, price>> /\ pc' \in {"buyQuery", "buyRows", "listSnap", "idle"}
    BY <1>b DEF BuyTick, BuyLearn, BuyQuery, BuyRow, BuyDone, World, AfterBuying
  <2>2. calm' \in BOOLEAN /\ torn' \in BOOLEAN
    BY <1>0, <1>b, <1>f, <1>l DEF BuyTick, BuyLearn, BuyQuery, BuyRow, BuyDone, Skip
  <2> QED BY <1>0, <2>1, <2>2 DEF Steps
<1>4. CASE ListTick
  <2>1. /\ UNCHANGED <<now, config, op>>
        /\ pc' \in {"listLearn", "prices", "expire", "load", "idle", "deleteOrders", "deleteItems",
                    "topUp", "insert"}
    BY <1>4 DEF ListTick, ListSnap, ListLearn, UpdatePrices, Expire, Load, DeleteOrders,
       DeleteItems, TopUp, createListingsBatch, Lists, World
  <2>2. UNCHANGED price \/ \E p \in Prices, k \in Keys : price' = [price EXCEPT ![k] = p]
    <3>1. {orders[i].key : i \in Own} \subseteq Keys
      BY DEF Own, TypeInv, TypeOK, Order
    <3> QED
      BY <1>4, <3>1 DEF ListTick, ListSnap, ListLearn, UpdatePrices, Expire, Load, DeleteOrders,
         DeleteItems, TopUp, createListingsBatch
  <2>3. calm' \in BOOLEAN /\ torn' \in BOOLEAN
    <3>1. CASE ListSnap
      BY <1>0, <3>1 DEF ListSnap
    <3>2. CASE UpdatePrices
      BY <1>0, <1>f, <3>2 DEF UpdatePrices
    <3>3. CASE createListingsBatch
      BY <1>f, <3>3 DEF createListingsBatch
    <3> QED BY <1>4, <1>f, <1>l, <3>1, <3>2, <3>3 DEF ListTick, ListLearn, Expire, Load,
         DeleteOrders, DeleteItems, TopUp
  <2> QED BY <1>0, <2>1, <2>2, <2>3 DEF Steps
<1>5. CASE Request
  <2>1. CASE Apply
    <3>1. /\ UNCHANGED <<now, price, pc, op, torn>> /\ calm' = FALSE
      BY <2>1 DEF Apply, Ask, Loop
    <3>2. \/ \E b \in BOOLEAN : config' = [config EXCEPT !.enabled = b]
          \/ \E q \in Quotas : config' = [config EXCEPT !.quota = q]
          \/ \E D \in SUBSET Keys : config' = [config EXCEPT !.disabled = D]
      BY <2>1 DEF Apply
    <3>3. config' \in [enabled: BOOLEAN, quota: Quotas, disabled: SUBSET Keys]
      BY <1>0, <3>2
    <3> QED BY <1>0, <3>1, <3>3
  <2>2. ASSUME NEW kind, Begin(kind)
        PROVE  /\ UNCHANGED <<now, price, pc, torn, calm>>
               /\ config' = [config EXCEPT !.enabled = FALSE]
               /\ op' = [kind |-> kind, step |-> 1, was |-> kind = "restart" \/ config.enabled]
    BY <2>2 DEF Begin, Ask, Loop
  <2>3. CASE \E kind : Begin(kind)
    <3>1. PICK kind : Begin(kind)
      BY <2>3
    <3>2. (kind = "restart" \/ config.enabled) \in BOOLEAN
      OBVIOUS
    <3>3. config' \in [enabled: BOOLEAN, quota: Quotas, disabled: SUBSET Keys]
      BY <1>0, <2>2, <3>1
    <3>4. DOMAIN op' = DOMAIN NoOp /\ op'.was \in BOOLEAN
      <4>1. PICK w \in BOOLEAN : w = (kind = "restart" \/ config.enabled)
        BY <3>2
      <4>2. op' = [kind |-> kind, step |-> 1, was |-> w]
        BY <2>2, <3>1, <4>1
      <4> QED BY <4>1, <4>2, OpFields
    <3>5. UNCHANGED <<now, price, pc, torn, calm>>
      BY <2>2, <3>1
    <3> QED BY <1>0, <3>3, <3>4, <3>5
  <2>4. CASE Clean
    <3>1. /\ UNCHANGED <<now, price, pc, torn, config>> /\ calm' = FALSE
          /\ op' = [op EXCEPT !.step = 2]
      BY <2>4 DEF Clean, Loop
    <3> QED BY <1>0, <3>1, OpFields
  <2>5. CASE Reinit
    <3>1. /\ UNCHANGED <<now, pc, config>> /\ calm' = FALSE /\ torn' \in BOOLEAN
          /\ op' = [op EXCEPT !.step = 2] \/ op' = NoOp
          /\ price' = price \/ price' = [k \in Keys |-> BasePrice]
      BY <1>0, <2>5 DEF Reinit, Loop
    <3>2. NoOp.was \in BOOLEAN
      BY DEF NoOp
    <3> QED BY <1>0, <1>1, <3>1, <3>2, OpFields
  <2>6. CASE End
    <3>1. /\ UNCHANGED <<now, price, pc, torn, calm>> /\ op' = NoOp
          /\ config' = [config EXCEPT !.enabled = @ \/ op.was]
      BY <2>6 DEF End, Loop
    <3>2. NoOp.was \in BOOLEAN
      BY DEF NoOp
    <3> QED BY <1>0, <3>1, <3>2
  <2> QED BY <1>5, <2>1, <2>3, <2>4, <2>5, <2>6 DEF Request
<1>6. CASE Game
  <2>1. UNCHANGED <<config, price, pc, op, torn>> /\ calm' = FALSE
    BY <1>6 DEF Game, Offer, Leave, TakeOne, Advance, Bots
  <2>2. now' = now \/ (now < MaxTime /\ now' = now + 1)
    BY <1>6 DEF Game, Offer, Leave, TakeOne, Advance, Bots
  <2>3. now' \in 0..MaxTime
    BY <1>0, <2>2, NumberTypes
  <2> QED BY <1>0, <2>1, <2>3
<1> QED BY <1>2, <1>3, <1>c, <1>s, <1>b, <1>4, <1>5, <1>6 DEF Next

LEMMA StepTypeInv == IInv /\ TypeInv /\ [Next]_vars => TypeInv'
<1> SUFFICES ASSUME IInv, TypeInv, [Next]_vars PROVE TypeInv'
  OBVIOUS
<1>1. JobInv' /\ DOMAIN job' = DOMAIN NoJob
  BY JobTyped
<1>2. DOMAIN orders' \subseteq Ids /\ \A i \in DOMAIN orders' : orders'[i] \in Order
  BY OrdersTyped
<1>3. /\ IsFiniteSet(paid')
      /\ \A p \in paid' : /\ p.order \in Ids /\ p.owner \in Players
                          /\ {p.amount, p.expiry} \subseteq Nat
  BY PaidTyped
<1>4. clock' \in Int \cup {None}
  BY ClockTyped
<1> QED BY <1>1, <1>2, <1>3, <1>4, RestTyped DEF TypeInv, TypeOK, NoJob, NoOp, Order, Sellers

(* Every variable of the bot and every row keeps its type: ids of the table, *)
(* prices of the catalog, stacks of at most a full one, clocks and dates that *)
(* are numbers, quotas that can be configured (pkg/domain/market).           *)
THEOREM BotTypeCorrect == Spec => []TypeOK
<1>1. TypeInv => TypeOK
  BY DEF TypeInv
<1> QED BY <1>1, InitIInv, StepIInv, InitTypeInv, StepTypeInv, PTL DEF Spec

-------------------------------------------------------------------------------
(* The bot's clock, as long as no query of it has failed.                    *)

Dated(i) == orders[i].expiry < Sentinel

(* An expiry from which the clock may be learnt: none that would bring the   *)
(* expiry of a new listing up to the sentinel before the game ends.          *)
Near(e) == e + MaxTime < Sentinel + now

(* The clock runs far below the sentinel, or at or beyond it: learnt from a  *)
(* payment that carries the sentinel, when the bot has no dated listing, nor *)
(* will ever have one again.                                                 *)
ClockInv ==
  /\ clock = None =>
       /\ \A i \in Own : ~Dated(i)
       /\ \A p \in paid : p.expiry = Sentinel
       /\ pc = "buyRows" => job.expiry = Sentinel
  /\ clock # None => \/ clock + TTL + MaxTime < Sentinel
                     \/ now + clock + TTL >= Sentinel /\ \A i \in Own : ~Dated(i)
  /\ \A i \in Offered : Dated(i)
  /\ \A i \in DOMAIN orders : Dated(i) => Near(orders[i].expiry)

(* The dated listings of the bot have one and the same expiry, and from the  *)
(* moment the list tick has learnt the clock it is the expiry of the         *)
(* listings to come.                                                         *)
DateInv ==
  /\ \A i, j \in Own : Dated(i) /\ Dated(j) => orders[i].expiry = orders[j].expiry
  /\ pc \in Clocked => \A i \in Own : Dated(i) => orders[i].expiry = now + clock + TTL
  /\ pc \in Late /\ job.expiry < Sentinel => clock # None /\ job.expiry = now + clock + TTL

(* Listings of k that are active or may become active again.                 *)
Counted(k) == {i \in Own : orders[i].key = k /\ (Dated(i) \/ orders[i].expiry > gameNow)}

Coming(k) == {l \in job.pending : l.key = k}

(* The rest of a tick: what the tick counted and did not find stale, with    *)
(* what it is about to insert, keeps to the quota.                           *)
CountInv ==
  /\ \A i \in DOMAIN orders : orders[i].stack > 0
  /\ \A k \in Keys : Cardinality(Counted(k)) <= Max(Quotas)
  /\ pc \in Late =>
       \A k \in Keys :
         Cardinality(Counted(k) \ job.stale) + Cardinality(Coming(k)) <= Max(Quotas)
  /\ pc \in Late \ {"deleteOrders"} => job.stale \cap DOMAIN orders = {}

QuotaParts == ClockInv /\ DateInv /\ CountInv

QuotaInv == ~torn => QuotaParts

LEMMA InitQuota == Init => QuotaInv
<1> SUFFICES ASSUME Init PROVE QuotaParts
  BY DEF QuotaInv
<1>1. DOMAIN orders = {} /\ paid = {} /\ clock = None /\ pc = "off"
  BY DEF Init
<1>2. Own = {} /\ Offered = {} /\ \A k \in Keys : Counted(k) = {}
  BY <1>1 DEF Own, Offered, Counted
<1>3. ClockInv /\ DateInv
  BY <1>1, <1>2 DEF ClockInv, DateInv, Clocked, Late
<1>4. CountInv
  <2>1. pc \notin Late
    BY <1>1 DEF Late
  <2>2. Cardinality({}) = 0
    BY FS_EmptySet
  <2>3. \A k \in Keys : Cardinality(Counted(k)) <= Max(Quotas)
    BY <1>2, <2>2, QuotaBound
  <2> QED BY <1>1, <2>1, <2>3 DEF CountInv
<1> QED BY <1>3, <1>4 DEF QuotaParts

(* The sets that are counted are finite.                                     *)
LEMMA CountFinite ==
  ASSUME TypeInv, NEW k
  PROVE  IsFiniteSet(Counted(k)) /\ IsFiniteSet(Coming(k))
         /\ Cardinality(Counted(k)) \in Nat /\ Cardinality(Coming(k)) \in Nat
<1>1. Counted(k) \subseteq Ids /\ Coming(k) \subseteq job.pending
  BY DEF Counted, Own, Coming, TypeInv, TypeOK
<1>2. IsFiniteSet(Ids) /\ IsFiniteSet(job.pending)
  BY DataAssumption DEF TypeInv, JobInv
<1> QED BY <1>1, <1>2, FS_Subset, FS_CardinalityType

LEMMA FewerCount ==
  ASSUME NEW S, IsFiniteSet(S), NEW R \in SUBSET S
  PROVE  IsFiniteSet(R) /\ Cardinality(R) \in Nat /\ Cardinality(S) \in Nat
         /\ Cardinality(R) <= Cardinality(S)
BY FS_Subset, FS_CardinalityType

LEMMA CountKeeps ==
  ASSUME TypeInv, CountInv,
         \A k \in Keys : Counted(k)' \subseteq Counted(k),
         \A i \in DOMAIN orders' : orders'[i].stack > 0,
         pc' \in Late => pc \in Late /\ job'.stale = job.stale /\ job'.pending = job.pending,
         pc' \in Late \ {"deleteOrders"} => job'.stale \cap DOMAIN orders' = {}
  PROVE  CountInv'
<1>1. ASSUME NEW k \in Keys PROVE Cardinality(Counted(k)') <= Max(Quotas)
  <2>1. Cardinality(Counted(k)') \in Nat /\ Cardinality(Counted(k)) \in Nat
        /\ Cardinality(Counted(k)') <= Cardinality(Counted(k))
    BY CountFinite, FewerCount
  <2>2. Cardinality(Counted(k)) <= Max(Quotas)
    BY DEF CountInv
  <2> QED BY <2>1, <2>2, QuotaBound
<1>2. ASSUME pc' \in Late, NEW k \in Keys
      PROVE  Cardinality((Counted(k) \ job.stale)') + Cardinality(Coming(k)') <= Max(Quotas)
  <2>1. pc \in Late /\ job'.stale = job.stale /\ job'.pending = job.pending
    BY <1>2
  <2>2. Coming(k)' = Coming(k)
    BY <2>1 DEF Coming
  <2>3. IsFiniteSet(Counted(k) \ job.stale)
    BY CountFinite, FewerCount
  <2>4. (Counted(k) \ job.stale)' \subseteq Counted(k) \ job.stale
    BY <2>1
  <2>5. /\ Cardinality((Counted(k) \ job.stale)') \in Nat
        /\ Cardinality(Counted(k) \ job.stale) \in Nat
        /\ Cardinality((Counted(k) \ job.stale)') <= Cardinality(Counted(k) \ job.stale)
    BY <2>3, <2>4, FewerCount
  <2>6. Cardinality(Counted(k) \ job.stale) + Cardinality(Coming(k)) <= Max(Quotas)
    BY <2>1 DEF CountInv
  <2>7. Cardinality(Coming(k)) \in Nat
    BY CountFinite
  <2> HIDE DEF Counted, Coming
  <2> QED BY <2>2, <2>5, <2>6, <2>7, QuotaBound
<1> QED BY <1>1, <1>2 DEF CountInv

(* A step in which the clock stands and no row comes: what the tick goes on  *)
(* to use is what it had.                                                    *)
Follows ==
  /\ UNCHANGED <<now, clock>>
  /\ \A i \in DOMAIN orders' :
       /\ i \in DOMAIN orders /\ orders'[i].stack > 0
       /\ orders'[i].owner = orders[i].owner
       /\ orders'[i].key = orders[i].key
       /\ orders'[i].expiry = orders[i].expiry
  /\ \A p \in paid' : p \in paid \/ (pc = "buyRows" /\ p.expiry = job.expiry)
  /\ pc' = "buyRows" => pc = "buyRows" /\ job'.expiry = job.expiry
  /\ pc' \in Clocked => pc \in Clocked
  /\ pc' \in Late => /\ pc \in Late /\ job'.expiry = job.expiry
                     /\ job'.stale = job.stale /\ job'.pending = job.pending
  /\ pc' \in Late \ {"deleteOrders"} => job'.stale \cap DOMAIN orders' = {}

LEMMA FollowsKeeps ==
  ASSUME TypeInv, QuotaParts, Follows
  PROVE  QuotaParts'
<1>0. ClockInv /\ DateInv /\ CountInv
  BY DEF QuotaParts
<1>1. /\ now' = now /\ clock' = clock /\ gameNow' = gameNow
      /\ DOMAIN orders' \subseteq DOMAIN orders
      /\ Own' \subseteq Own /\ Offered' \subseteq Offered
      /\ \A i \in DOMAIN orders' : /\ orders'[i].expiry = orders[i].expiry
                                   /\ orders'[i].key = orders[i].key
                                   /\ orders'[i].stack > 0
  BY DEF Follows, Own, Offered, gameNow
<1>2. \A k \in Keys : Counted(k)' \subseteq Counted(k)
  BY <1>1 DEF Counted, Dated, Own
<1>3. CountInv'
  BY <1>0, <1>1, <1>2, CountKeeps DEF Follows
<1>4. DateInv'
  BY <1>0, <1>1 DEF DateInv, Dated, Follows, Own
<1>5. ClockInv'
  BY <1>0, <1>1 DEF ClockInv, Dated, Near, Follows, Own, Offered
<1> QED BY <1>3, <1>4, <1>5 DEF QuotaParts

(* Learning the clock: the tick's own listings say what it already is.       *)
LEMMA RowTypes ==
  ASSUME TypeInv
  PROVE  /\ now \in Nat /\ now <= MaxTime /\ clock \in Int \cup {None}
         /\ clock # None => clock \in Int
         /\ \A i \in DOMAIN orders :
              /\ orders[i].expiry \in Nat /\ orders[i].key \in Keys /\ orders[i].stack \in Nat
              /\ orders[i].stack <= StackMax /\ orders[i].price \in Prices
         /\ None \notin Int
         /\ Own \subseteq DOMAIN orders /\ Offered \subseteq DOMAIN orders
  <1>1. now \in 0..MaxTime /\ \A i \in DOMAIN orders : orders[i] \in Order
    BY DEF TypeInv, TypeOK
  <1> QED BY <1>1, NumberTypes, DataAssumption DEF TypeInv, TypeOK, Order, Own, Offered

LEMMA LearnKeeps ==
  ASSUME TypeInv, QuotaParts, LearnOK, UNCHANGED <<now, orders, paid>>,
         pc' = "buyRows" => pc = "buyRows" /\ job' = job,
         pc' \in Clocked => pc = "listLearn" \/ pc \in Clocked,
         pc' \in Late => pc \in Late /\ job' = job,
         pc' \in Late \ {"deleteOrders"} => pc \in Late \ {"deleteOrders"}
  PROVE  QuotaParts'
<1>0. ClockInv /\ DateInv /\ CountInv
  BY DEF QuotaParts
<1> DEFINE Far == clock' # None =>
                    \/ clock' + TTL + MaxTime < Sentinel
                    \/ now + clock' + TTL >= Sentinel /\ \A i \in Own : ~Dated(i)
           Same == \A i \in Own : Dated(i) => /\ clock' # None
                                              /\ orders[i].expiry = now + clock' + TTL
           Stays == pc \in Clocked => \/ clock' = clock
                                      \/ clock = None
           Fewer == gameNow' >= gameNow \/ \A i \in Own : ~Dated(i) => orders[i].expiry > gameNow
           Still == clock' = None => clock = None
<1>1. Far /\ Same /\ Stays /\ Fewer /\ Still
  <2>1. CASE BotRefs # {}
    <3>1. clock' = Learnt(BotRefs)
      BY <2>1 DEF LearnOK
    <3>2. PICK e \in BotRefs : Learnt(BotRefs) = e - TTL - now
      BY <2>1, RefTypes, LearntType
    <3>3. PICK i \in Own : Dated(i) /\ orders[i].expiry = e
      BY <3>2 DEF BotRefs, Dated
    <3>4. \A j \in Own : Dated(j) => orders[j].expiry = e
      BY <1>0, <3>3 DEF DateInv
    <3>5. clock # None /\ clock + TTL + MaxTime < Sentinel
      BY <1>0, <3>3 DEF ClockInv
    <3>6. Near(e)
      BY <1>0, <3>3, RowTypes DEF ClockInv
    <3>7. clock' = e - TTL - now /\ clock' \in Int /\ clock' # None
      BY <3>1, <3>2, <3>3, RowTypes, NumberTypes
    <3>8. Far
      BY <3>3, <3>6, <3>7, RowTypes, NumberTypes DEF Near
    <3>9. Same
      BY <3>4, <3>7, <3>3, RowTypes, NumberTypes
    <3>10. Stays
      <4> SUFFICES ASSUME pc \in Clocked PROVE clock' = clock
        OBVIOUS
      <4>1. e = now + clock + TTL
        BY <1>0, <3>3 DEF DateInv
      <4> QED BY <3>5, <3>7, <4>1, RowTypes, NumberTypes
    <3>11. Fewer
      <4> SUFFICES ASSUME NEW j \in Own, ~Dated(j) PROVE orders[j].expiry > gameNow
        OBVIOUS
      <4> QED BY <3>5, RowTypes, NumberTypes DEF Dated, gameNow
    <3> QED BY <3>7, <3>8, <3>9, <3>10, <3>11
  <2>2. CASE BotRefs = {} /\ clock = None /\ PlayerRefs # {}
    <3>1. clock' = Learnt(PlayerRefs)
      BY <2>2 DEF LearnOK
    <3>2. PICK e \in PlayerRefs : Learnt(PlayerRefs) = e - TTL - now
      BY <2>2, RefTypes, LearntType
    <3>3. e \in Nat
      BY RefTypes
    <3>4. clock' = e - TTL - now /\ clock' \in Int /\ clock' # None
      BY <3>1, <3>2, <3>3, RowTypes, NumberTypes
    <3>5. \A i \in Own : ~Dated(i)
      BY <2>2 DEF BotRefs, Dated
    <3>6. (\E i \in Offered : orders[i].expiry = e) \/ e = Sentinel
      BY <1>0, <2>2 DEF ClockInv, PlayerRefs
    <3>7. Near(e) \/ e = Sentinel
      BY <1>0, <3>6, RowTypes DEF ClockInv
    <3>8. Far
      BY <3>3, <3>4, <3>5, <3>7, RowTypes, NumberTypes DEF Near
    <3>9. \A j \in Own : orders[j].expiry > gameNow
      BY <2>2, <3>5, RowTypes, NumberTypes DEF Dated, gameNow
    <3> QED BY <2>2, <3>4, <3>5, <3>8, <3>9
  <2>3. CASE BotRefs = {} /\ (clock # None \/ PlayerRefs = {})
    <3>1. clock' = clock
      BY <2>3 DEF LearnOK, Learnt
    <3>2. gameNow' = gameNow /\ gameNow \in Int
      BY <3>1, RowTypes DEF gameNow
    <3>3. \A i \in Own : ~Dated(i)
      BY <2>3 DEF BotRefs, Dated
    <3>4. Far
      BY <1>0, <3>1, <3>3 DEF ClockInv
    <3> QED BY <3>1, <3>2, <3>3, <3>4
  <2> QED BY <2>1, <2>2, <2>3
<1>2. /\ now' = now /\ orders' = orders /\ paid' = paid /\ Own' = Own /\ Offered' = Offered
      /\ \A i : Dated(i)' = Dated(i)
  BY DEF Own, Offered, Dated
<1>3. ClockInv'
  <2>1. clock' = None =>
          /\ \A i \in Own : ~Dated(i)
          /\ \A p \in paid : p.expiry = Sentinel
          /\ pc' = "buyRows" => job'.expiry = Sentinel
    BY <1>0, <1>1 DEF ClockInv
  <2>2. \A i \in Offered : Dated(i)
    BY <1>0 DEF ClockInv
  <2>3. \A i \in DOMAIN orders : Dated(i) => Near(orders[i].expiry)
    BY <1>0 DEF ClockInv
  <2>4. \A i \in DOMAIN orders' : Dated(i)' => Near(orders[i].expiry)'
    BY <1>2, <2>3 DEF Near, Dated
  <2>5. Far
    BY <1>1
  <2> QED BY <1>2, <2>1, <2>2, <2>4, <2>5 DEF ClockInv, Dated
<1>4. DateInv'
  <2>1. \A i, j \in Own : Dated(i) /\ Dated(j) => orders[i].expiry = orders[j].expiry
    BY <1>0 DEF DateInv
  <2>2. Same
    BY <1>1
  <2>3. pc' \in Late /\ job'.expiry < Sentinel
          => clock' # None /\ job'.expiry = now + clock' + TTL
    <3> SUFFICES ASSUME pc' \in Late, job'.expiry < Sentinel
                 PROVE  clock' # None /\ job'.expiry = now + clock' + TTL
      OBVIOUS
    <3>1. pc \in Late /\ job' = job
      OBVIOUS
    <3>2. clock # None /\ job.expiry = now + clock + TTL
      BY <1>0, <3>1 DEF DateInv
    <3>3. clock' = clock
      BY <1>1, <3>1, <3>2 DEF Clocked
    <3> QED BY <3>1, <3>2, <3>3
  <2> QED BY <1>2, <2>1, <2>2, <2>3 DEF DateInv, Dated
<1>5. CountInv'
  <2>1. ASSUME NEW k \in Keys, NEW i \in Counted(k)' PROVE i \in Counted(k)
    <3>1. i \in Own /\ orders[i].key = k /\ (Dated(i) \/ orders[i].expiry > gameNow')
      BY <1>2 DEF Counted
    <3>2. gameNow' \in Int /\ gameNow \in Int /\ orders[i].expiry \in Nat
      <4>1. clock' \in Int \cup {None}
        BY RefTypes, LearntType, RowTypes DEF LearnOK
      <4> QED BY <1>2, <3>1, <4>1, RowTypes DEF gameNow
    <3> QED BY <1>1, <3>1, <3>2 DEF Counted
  <2>2. \A i \in DOMAIN orders' : orders'[i].stack > 0
    BY <1>0, <1>2 DEF CountInv
  <2>3. pc' \in Late \ {"deleteOrders"} => job'.stale \cap DOMAIN orders' = {}
    BY <1>0, <1>2 DEF CountInv
  <2> QED BY <1>0, <2>1, <2>2, <2>3, CountKeeps
<1> QED BY <1>3, <1>4, <1>5 DEF QuotaParts

(* What the catalog loop adds for an entry: nothing for a disabled one, else *)
(* as many as its valid listings fall short of the quota.                    *)
ComingRows(k) == {l \in MissingRows : l.key = k}

LEMMA ValidFinite ==
  ASSUME TypeInv, NEW k
  PROVE  IsFiniteSet(Valid(k)) /\ Cardinality(Valid(k)) \in Nat
<1>1. Valid(k) \subseteq Ids
  BY DEF Valid, Loaded, Own, TypeInv, TypeOK
<1> QED BY <1>1, DataAssumption, FewerCount

LEMMA MissingCount ==
  ASSUME TypeInv, NEW k \in Keys, pc \in ListSteps
  PROVE  /\ Missing(k) \in Nat
         /\ Cardinality(ComingRows(k)) = Missing(k)
         /\ k \in job.snap.disabled => Missing(k) = 0
         /\ k \notin job.snap.disabled =>
              \/ Missing(k) = job.snap.quota - Cardinality(Valid(k))
              \/ Missing(k) = 0 /\ Cardinality(Valid(k)) >= job.snap.quota
<1>1. job.snap.quota \in Nat /\ job.snap.quota <= Max(Quotas) /\ Cardinality(Valid(k)) \in Nat
  BY ValidFinite, QuotaBound DEF TypeInv, JobInv
<1> DEFINE m == Missing(k)
<1>2. /\ k \in job.snap.disabled => m = 0
      /\ k \notin job.snap.disabled =>
              \/ m = job.snap.quota - Cardinality(Valid(k)) /\ m > 0
              \/ m = 0 /\ Cardinality(Valid(k)) >= job.snap.quota
  <2>1. CASE k \in job.snap.disabled
    BY <2>1 DEF Missing
  <2>2. CASE k \notin job.snap.disabled
    <3>1. PICK n \in Int : n = job.snap.quota - Cardinality(Valid(k))
      BY <1>1
    <3>2. m = Max({0, n})
      BY <2>2, <3>1 DEF Missing
    <3>3. (n > 0 => m = n) /\ (n <= 0 => m = 0)
      BY <3>2, MaxOrZero
    <3> QED BY <1>1, <2>2, <3>1, <3>3
  <2> QED BY <2>1, <2>2
<1>3. m \in Nat /\ m <= Max(Quotas)
  BY <1>1, <1>2, QuotaBound
<1>4. Cardinality(ComingRows(k)) = m
  <2> DEFINE f == [j \in 1..m |-> [key |-> k, price |-> price[k], n |-> j]]
  <2>1. \A j \in 1..m : f[j] \in ComingRows(k)
    <3> SUFFICES ASSUME NEW j \in 1..m PROVE f[j] \in ComingRows(k)
      OBVIOUS
    <3>1. j \in 1..Max(Quotas) /\ j <= m
      BY <1>3, QuotaBound
    <3>2. f[j] = [key |-> k, price |-> price[k], n |-> j]
      OBVIOUS
    <3>3. f[j] \in Listings /\ f[j].key = k /\ f[j].n = j
      BY <3>1, <3>2 DEF Listings
    <3> QED BY <3>1, <3>3 DEF ComingRows, MissingRows
  <2>2. \A l \in ComingRows(k) : l.n \in 1..m /\ f[l.n] = l
    <3> SUFFICES ASSUME NEW l \in ComingRows(k) PROVE l.n \in 1..m /\ f[l.n] = l
      OBVIOUS
    <3>1. l \in Listings /\ l.n <= m /\ l.key = k
      BY DEF ComingRows, MissingRows
    <3>2. PICK c \in Keys, j \in 1..Max(Quotas) : l = [key |-> c, price |-> price[c], n |-> j]
      BY <3>1 DEF Listings
    <3>3. c = k /\ l.n = j /\ j \in 1..m
      BY <1>3, <3>1, <3>2
    <3> QED BY <3>2, <3>3
  <2>3. \A i, j \in 1..m : f[i] = f[j] => i = j
    <3>1. \A j \in 1..m : f[j].n = j
      OBVIOUS
    <3> HIDE DEF f
    <3> QED BY <3>1
  <2>4. f \in [1..m -> ComingRows(k)]
    BY <2>1
  <2> HIDE DEF f
  <2>5. f \in Surjection(1..m, ComingRows(k)) /\ f \in Injection(1..m, ComingRows(k))
    <3>1. \A l \in ComingRows(k) : \E j \in 1..m : f[j] = l
      BY <2>2
    <3>2. f \in Surjection(1..m, ComingRows(k))
      BY <2>4, <3>1 DEF Surjection
    <3>3. f \in Injection(1..m, ComingRows(k))
      BY <2>3, <2>4 DEF Injection, IsInjective
    <3> QED BY <3>2, <3>3
  <2>6. IsFiniteSet(1..m) /\ Cardinality(1..m) = m
    BY <1>3, FS_Interval
  <2> HIDE DEF m
  <2> QED BY <2>5, <2>6, FS_Surjection
<1> QED BY <1>2, <1>3, <1>4

(* A buy tick reads the rows: what it will write into the payments is the    *)
(* sentinel as long as no clock is known.                                    *)
LEMMA QueryKeeps ==
  ASSUME TypeInv, QuotaParts, UNCHANGED <<now, orders, paid, clock>>,
         pc' = "buyRows", job'.expiry = OrderExpiry
  PROVE  QuotaParts'
<1>0. ClockInv /\ DateInv /\ CountInv
  BY DEF QuotaParts
<1>1. /\ gameNow' = gameNow /\ Own' = Own /\ Offered' = Offered
      /\ \A k \in Keys : Counted(k)' = Counted(k)
  BY DEF gameNow, Own, Offered, Counted, Dated
<1>2. pc' \notin Clocked /\ pc' \notin Late
  BY DEF Clocked, Late
<1>3. clock = None => job'.expiry = Sentinel
  BY DEF OrderExpiry, gameNow
<1>4. ClockInv'
  BY <1>0, <1>1, <1>3 DEF ClockInv, Dated, Near
<1>5. DateInv'
  BY <1>0, <1>1, <1>2 DEF DateInv, Dated
<1>6. CountInv'
  BY <1>0, <1>1, <1>2, CountKeeps DEF CountInv
<1> QED BY <1>4, <1>5, <1>6 DEF QuotaParts

(* What a player offers is dated, and near enough to learn the clock from.   *)
LEMMA OfferKeeps ==
  ASSUME TypeInv, QuotaParts, NEW i \in FreeIds, OneOffer(i),
         UNCHANGED <<now, paid, clock, pc, job>>
  PROVE  QuotaParts'
<1>0. ClockInv /\ DateInv /\ CountInv
  BY DEF QuotaParts
<1>1. PICK p \in Players, k \in Keys, c \in Prices, d \in Durations, n \in 1..StackMax :
        orders' = [j \in DOMAIN orders \cup {i} |->
          IF j = i THEN [owner |-> p, key |-> k, price |-> c, expiry |-> now + d, stack |-> n]
          ELSE orders[j]]
  BY DEF OneOffer
<1>2. /\ DOMAIN orders' = DOMAIN orders \cup {i}
      /\ orders'[i].owner = p /\ orders'[i].expiry = now + d /\ orders'[i].stack = n
      /\ \A j \in DOMAIN orders : orders'[j] = orders[j]
      /\ i \notin DOMAIN orders /\ i \notin job.stale
  BY <1>1 DEF FreeIds
<1>3. p # Bot /\ n \in Nat /\ n > 0 /\ d \in Nat /\ MaxTime + d < Sentinel
  BY BoundsAssumption, DataAssumption
<1>4. Own' = Own /\ Offered' = Offered \cup {i} /\ gameNow' = gameNow
  BY <1>2, <1>3 DEF Own, Offered, gameNow
<1>5. now + d < Sentinel /\ now + d + MaxTime < Sentinel + now
  BY <1>3, RowTypes, NumberTypes
<1>6. \A k_1 \in Keys : Counted(k_1)' = Counted(k_1)
  BY <1>2, <1>4 DEF Counted, Dated, Own
<1>7. CountInv'
  <2>1. \A j \in DOMAIN orders' : orders'[j].stack > 0
    BY <1>0, <1>2, <1>3 DEF CountInv
  <2>2. pc' \in Late \ {"deleteOrders"} => job'.stale \cap DOMAIN orders' = {}
    BY <1>0, <1>2 DEF CountInv
  <2> QED BY <1>0, <1>6, <2>1, <2>2, CountKeeps
<1>8. DateInv'
  BY <1>0, <1>2, <1>4 DEF DateInv, Dated, Own
<1>9. ClockInv'
  BY <1>0, <1>2, <1>4, <1>5 DEF ClockInv, Dated, Near, Own, Offered
<1> QED BY <1>7, <1>8, <1>9 DEF QuotaParts

(* Time passes between the ticks.                                            *)
LEMMA TimeKeeps ==
  ASSUME TypeInv, QuotaParts, now' = now + 1, UNCHANGED <<orders, paid, clock, pc, job>>,
         pc \notin Clocked, pc \notin Late
  PROVE  QuotaParts'
<1>0. ClockInv /\ DateInv /\ CountInv
  BY DEF QuotaParts
<1>1. /\ Own' = Own /\ Offered' = Offered
      /\ \A i : Dated(i)' = Dated(i)
  BY DEF Own, Offered, Dated
<1>2. ASSUME NEW k \in Keys, NEW i \in Counted(k)' PROVE i \in Counted(k)
  <2>1. i \in Own /\ orders[i].key = k /\ (Dated(i) \/ orders[i].expiry > gameNow')
    BY <1>1, <1>2 DEF Counted
  <2>2. gameNow \in Int /\ gameNow' \in Int /\ gameNow' >= gameNow
    BY RowTypes DEF gameNow
  <2> QED BY <2>1, <2>2, RowTypes DEF Counted
<1>3. CountInv'
  BY <1>0, <1>2, CountKeeps DEF CountInv
<1>4. DateInv'
  BY <1>0, <1>1 DEF DateInv, Dated
<1>5. ClockInv'
  <2>1. clock # None => \/ clock + TTL + MaxTime < Sentinel
                        \/ now' + clock + TTL >= Sentinel /\ \A i \in Own : ~Dated(i)
    BY <1>0, RowTypes, NumberTypes DEF ClockInv
  <2>2. \A i \in DOMAIN orders : Dated(i) => orders[i].expiry + MaxTime < Sentinel + now'
    BY <1>0, RowTypes, NumberTypes DEF ClockInv, Near
  <2> QED BY <1>0, <1>1, <2>1, <2>2 DEF ClockInv, Dated, Near
<1> QED BY <1>3, <1>4, <1>5 DEF QuotaParts

(* Counting: what is active or may become so again, and is not stale, is     *)
(* valid; the loop adds no more than what is missing.                        *)
LEMMA FoundKeeps ==
  ASSUME TypeInv, QuotaParts, pc = "load", Found, UNCHANGED <<now, orders, paid, clock>>
  PROVE  QuotaParts'
<1>0. ClockInv /\ DateInv /\ CountInv
  BY DEF QuotaParts
<1>1. /\ gameNow' = gameNow /\ Own' = Own /\ Offered' = Offered
      /\ \A i : Dated(i)' = Dated(i)
      /\ \A k \in Keys : Counted(k)' = Counted(k)
  BY DEF gameNow, Own, Offered, Counted, Dated
<1>2. /\ pc' = "deleteOrders" /\ job'.expiry = OrderExpiry
      /\ job'.stale = StaleRows /\ job'.pending = MissingRows
  BY DEF Found
<1>3. pc \in Clocked /\ pc \in ListSteps /\ pc' \in Clocked /\ pc' \in Late
  BY <1>2 DEF ListSteps, Clocked, Late
<1>4. ClockInv'
  BY <1>0, <1>1, <1>2 DEF ClockInv, Dated, Near
<1>5. DateInv'
  <2>1. OrderExpiry < Sentinel => clock # None /\ OrderExpiry = now + clock + TTL
    BY RowTypes, NumberTypes DEF OrderExpiry, gameNow
  <2>2. pc' \in Late /\ job'.expiry < Sentinel
          => clock' # None /\ job'.expiry = now' + clock' + TTL
    BY <1>2, <2>1
  <2>3. \A i \in Own : Dated(i) => orders[i].expiry = now + clock + TTL
    BY <1>0, <1>3 DEF DateInv
  <2> QED BY <1>0, <1>1, <2>2, <2>3 DEF DateInv, Dated
<1>6. ASSUME NEW k \in Keys
      PROVE  Cardinality(Counted(k) \ StaleRows) + Cardinality(ComingRows(k)) <= Max(Quotas)
  <2>1. ASSUME NEW i \in Counted(k) \ StaleRows PROVE i \in Valid(k) /\ k \notin job.snap.disabled
    <3>1. i \in Own /\ orders[i].key = k /\ (Dated(i) \/ orders[i].expiry > gameNow)
      BY <2>1 DEF Counted
    <3>2. i \in DOMAIN orders /\ orders[i].stack > 0
      BY <1>0, <3>1, RowTypes DEF CountInv
    <3>3. Dated(i) => orders[i].expiry > gameNow
      <4> SUFFICES ASSUME Dated(i) PROVE orders[i].expiry > gameNow
        OBVIOUS
      <4>1. orders[i].expiry = now + clock + TTL
        BY <1>0, <1>3, <3>1 DEF DateInv
      <4>2. clock # None
        BY <1>0, <3>1 DEF ClockInv
      <4> QED BY <4>1, <4>2, RowTypes, NumberTypes DEF gameNow
    <3>4. i \in Loaded
      BY <3>1, <3>2, <3>3 DEF Loaded
    <3> QED BY <2>1, <3>1, <3>4 DEF StaleRows, Valid
  <2>2. /\ Missing(k) \in Nat /\ Cardinality(ComingRows(k)) = Missing(k)
        /\ k \in job.snap.disabled => Missing(k) = 0
        /\ k \notin job.snap.disabled =>
             \/ Missing(k) = job.snap.quota - Cardinality(Valid(k))
             \/ Missing(k) = 0
    BY <1>3, MissingCount
  <2>3. /\ Cardinality(Counted(k) \ StaleRows) \in Nat /\ Cardinality(Valid(k)) \in Nat
        /\ Cardinality(Counted(k) \ StaleRows) <= Cardinality(Valid(k))
    BY <2>1, ValidFinite, FewerCount
  <2>4. /\ Cardinality(Counted(k)) \in Nat
        /\ Cardinality(Counted(k) \ StaleRows) <= Cardinality(Counted(k))
    BY CountFinite, FewerCount
  <2>5. Cardinality(Counted(k)) <= Max(Quotas)
    BY <1>0 DEF CountInv
  <2>6. job.snap.quota \in Nat /\ job.snap.quota <= Max(Quotas) /\ Max(Quotas) \in Nat
    BY <1>3, QuotaBound DEF TypeInv, JobInv
  <2>7. CASE k \in job.snap.disabled
    BY <2>2, <2>3, <2>4, <2>5, <2>6, <2>7
  <2>8. CASE k \notin job.snap.disabled
    BY <2>2, <2>3, <2>4, <2>5, <2>6, <2>8
  <2> QED BY <2>7, <2>8
<1>7. CountInv'
  <2>1. \A k \in Keys : Coming(k)' = ComingRows(k)
    BY <1>2 DEF Coming, ComingRows
  <2>2. \A k \in Keys : (Counted(k) \ job.stale)' = Counted(k) \ StaleRows
    BY <1>1, <1>2
  <2>3. \A k \in Keys :
          Cardinality((Counted(k) \ job.stale)') + Cardinality(Coming(k)') <= Max(Quotas)
    BY <1>6, <2>1, <2>2
  <2>4. /\ \A i \in DOMAIN orders' : orders'[i].stack > 0
        /\ \A k \in Keys : Cardinality(Counted(k)') <= Max(Quotas)
    BY <1>0, <1>1 DEF CountInv
  <2> QED BY <1>2, <2>3, <2>4 DEF CountInv
<1> QED BY <1>4, <1>5, <1>7 DEF QuotaParts

(* Inserting: the new listings of an entry are those that were coming.       *)
LEMMA InsertKeeps ==
  ASSUME TypeInv, QuotaParts, pc = "insert", pc' = "idle", NEW S \in SUBSET FreeIds, Inserts(S),
         UNCHANGED <<now, paid, clock>>
  PROVE  QuotaParts'
<1>0. ClockInv /\ DateInv /\ CountInv
  BY DEF QuotaParts
<1>1. PICK row \in Bijection(S, job.pending) :
        \A i \in S : orders'[i] = [owner |-> Bot, key |-> row[i].key, price |-> row[i].price,
                                  expiry |-> job.expiry, stack |-> StackMax]
  BY DEF Inserts
<1>2. /\ DOMAIN orders' = DOMAIN orders \cup S
      /\ \A i \in DOMAIN orders : orders'[i] = orders[i]
      /\ \A i \in S : /\ i \notin DOMAIN orders /\ orders'[i].owner = Bot
                      /\ orders'[i].key = row[i].key /\ orders'[i].expiry = job.expiry
                      /\ orders'[i].stack = StackMax
  BY <1>1 DEF Inserts, FreeIds
<1>3. Own' = Own \cup S /\ Offered' = Offered /\ gameNow' = gameNow
  BY <1>2 DEF Own, Offered, gameNow
<1>4. /\ pc \in Late /\ pc \in Clocked /\ pc \in Late \ {"deleteOrders"}
      /\ pc' \notin Late /\ pc' \notin Clocked
  BY DEF Clocked, Late
<1>5. job.expiry < Sentinel => /\ clock # None /\ job.expiry = now + clock + TTL
                               /\ Near(job.expiry)
  <2> SUFFICES ASSUME job.expiry < Sentinel
               PROVE  clock # None /\ job.expiry = now + clock + TTL /\ Near(job.expiry)
    OBVIOUS
  <2>1. clock # None /\ job.expiry = now + clock + TTL
    BY <1>0, <1>4 DEF DateInv
  <2>2. clock + TTL + MaxTime < Sentinel
    BY <1>0, <2>1, RowTypes, NumberTypes DEF ClockInv
  <2> QED BY <2>1, <2>2, RowTypes, NumberTypes DEF Near
<1>6. ClockInv'
  <2>1. clock = None => \A i \in Own' : ~(orders'[i].expiry < Sentinel)
    BY <1>0, <1>2, <1>3, <1>5 DEF ClockInv, Dated, Own
  <2>2. clock # None => \/ clock + TTL + MaxTime < Sentinel
                        \/ /\ now + clock + TTL >= Sentinel
                           /\ \A i \in Own' : ~(orders'[i].expiry < Sentinel)
    <3> SUFFICES ASSUME clock # None, ~(clock + TTL + MaxTime < Sentinel)
                 PROVE  /\ now + clock + TTL >= Sentinel
                        /\ \A i \in Own' : ~(orders'[i].expiry < Sentinel)
      OBVIOUS
    <3>1. now + clock + TTL >= Sentinel /\ \A i \in Own : ~Dated(i)
      BY <1>0 DEF ClockInv
    <3>2. ~(job.expiry < Sentinel)
      BY <1>5, <3>1, RowTypes, NumberTypes
    <3> QED BY <1>2, <1>3, <3>1, <3>2 DEF Own, Dated
  <2>3. \A i \in DOMAIN orders' : orders'[i].expiry < Sentinel => Near(orders'[i].expiry)
    BY <1>0, <1>2, <1>5 DEF ClockInv, Dated
  <2>4. \A i \in Offered' : orders'[i].expiry < Sentinel
    BY <1>0, <1>2, <1>3 DEF ClockInv, Dated, Offered
  <2> QED BY <1>0, <2>1, <2>2, <2>3, <2>4 DEF ClockInv, Dated, Near
<1>7. DateInv'
  <2>1. \A i \in Own' : orders'[i].expiry < Sentinel => orders'[i].expiry = now + clock + TTL
    BY <1>0, <1>2, <1>3, <1>4, <1>5 DEF DateInv, Dated, Own
  <2>2. \A i, j \in Own' : Dated(i)' /\ Dated(j)' => orders'[i].expiry = orders'[j].expiry
    BY <2>1 DEF Dated
  <2> QED BY <1>4, <2>2 DEF DateInv, Dated
<1>8. ASSUME NEW k \in Keys PROVE Cardinality(Counted(k)') <= Max(Quotas)
  <2> DEFINE new == {i \in S : row[i].key = k}
  <2>1. [i \in new |-> row[i]] \in Injection(new, Coming(k))
    BY DEF Bijection, Injection, IsInjective, Coming
  <2> HIDE DEF new
  <2>2. IsFiniteSet(new) /\ Cardinality(new) <= Cardinality(Coming(k))
    BY <2>1, CountFinite, FS_Injection
  <2>3. Cardinality(new) \in Nat
    BY <2>2, FS_CardinalityType
  <2>4. Counted(k) \ job.stale = Counted(k)
    BY <1>0, <1>4 DEF CountInv, Counted, Own
  <2>5. Cardinality(Counted(k)) + Cardinality(Coming(k)) <= Max(Quotas)
    BY <1>0, <1>4, <2>4 DEF CountInv
  <2>6. Counted(k)' \subseteq Counted(k) \cup new
    BY <1>2, <1>3 DEF Counted, Dated, Own, new
  <2>7. /\ IsFiniteSet(Counted(k) \cup new)
        /\ Cardinality(Counted(k) \cup new) =
             Cardinality(Counted(k)) + Cardinality(new) - Cardinality(Counted(k) \cap new)
    BY <2>2, CountFinite, FS_Union
  <2>8. Cardinality(Counted(k) \cap new) \in Nat /\ Cardinality(Counted(k) \cup new) \in Nat
    BY <2>2, <2>7, FewerCount, FS_CardinalityType
  <2>9. /\ Cardinality(Counted(k)') \in Nat
        /\ Cardinality(Counted(k)') <= Cardinality(Counted(k) \cup new)
    BY <2>6, <2>7, FewerCount
  <2> HIDE DEF Counted, Coming
  <2> QED BY <2>2, <2>3, <2>5, <2>7, <2>8, <2>9, CountFinite, QuotaBound
<1>9. CountInv'
  <2>1. \A i \in DOMAIN orders' : orders'[i].stack > 0
    BY <1>0, <1>2, NumberTypes DEF CountInv
  <2> QED BY <1>4, <1>8, <2>1 DEF CountInv
<1> QED BY <1>6, <1>7, <1>9 DEF QuotaParts

(* Steps that leave the rows alone or delete some.                           *)
LEMMA DeletingFollows ==
  ASSUME TypeInv, QuotaParts, UNCHANGED <<now, clock, paid>>,
         orders' = orders \/ \E S : orders' = Without(S),
         \/ pc' \notin {"buyRows"} \cup Clocked \cup Late
         \/ pc' = pc /\ job' = job
         \/ pc' \in {"expire", "load"} /\ pc \in Clocked
  PROVE  QuotaParts'
<1>1. \A i \in DOMAIN orders' : i \in DOMAIN orders /\ orders'[i] = orders[i]
  BY DEF Without
<1>2. \A i \in DOMAIN orders : orders[i].stack > 0
  BY DEF QuotaParts, CountInv
<1>3. "expire" \notin Late /\ "load" \notin Late
  BY DEF Late
<1>4. pc \in Late \ {"deleteOrders"} => job.stale \cap DOMAIN orders = {}
  BY DEF QuotaParts, CountInv
<1>5. Follows
  <2>1. pc' = "buyRows" => pc = "buyRows" /\ job'.expiry = job.expiry
    OBVIOUS
  <2>2. pc' \in Clocked => pc \in Clocked
    OBVIOUS
  <2>3. pc' \in Late => pc' = pc /\ job' = job
    BY <1>3
  <2> QED BY <1>1, <1>2, <1>4, <2>1, <2>2, <2>3 DEF Follows
<1> QED BY <1>5, FollowsKeeps

LEMMA QuotaBuy ==
  ASSUME IInv, TypeInv, QuotaParts, BuyTick, ~torn'
  PROVE  QuotaParts'
<1>0. /\ {"buyQuery", "listSnap", "idle"} \cap ({"buyRows"} \cup Clocked \cup Late) = {}
      /\ "buyRows" \notin Clocked /\ "buyRows" \notin Late
  BY DEF Clocked, Late
<1>1. CASE BuyLearn
  <2>1. LearnOK /\ UNCHANGED <<now, orders, paid>> /\ pc' = "buyQuery"
    BY <1>1 DEF BuyLearn, learnGameEpoch, Tear, World
  <2> QED BY <1>0, <2>1, LearnKeeps
<1>2. CASE BuyQuery
  <2>1. UNCHANGED <<now, orders, paid, clock>>
    BY <1>2 DEF BuyQuery, World
  <2>2. CASE AfterBuying
    <3>1. pc' \in {"listSnap", "idle"}
      BY <2>2 DEF AfterBuying
    <3> QED BY <1>0, <2>1, <3>1, DeletingFollows
  <2>3. CASE ~AfterBuying
    <3>1. pc' = "buyRows" /\ job'.expiry = OrderExpiry
      BY <1>2, <2>3, JobFields DEF BuyQuery, TypeInv, TypeOK
    <3> QED BY <2>1, <3>1, QueryKeeps
  <2> QED BY <2>2, <2>3
<1>3. CASE BuyRow
  <2>1. UNCHANGED <<now, clock>> /\ pc = "buyRows" /\ pc' = "buyRows"
    BY <1>3 DEF BuyRow, World
  <2>2. job'.expiry = job.expiry
    BY <1>3, JobFields DEF BuyRow, TypeInv, TypeOK
  <2>3. UNCHANGED <<orders, paid>> \/ \E r \in job.rows : Purchase(r)
    BY <1>3 DEF BuyRow, Skip
  <2>4. \A i \in DOMAIN orders' : i \in DOMAIN orders /\ orders'[i] = orders[i]
    BY <2>3 DEF Purchase, Without
  <2>5. \A p \in paid' : p \in paid \/ p.expiry = job.expiry
    <3>1. \A r \in job.rows : Payment(r).expiry = job.expiry
      BY DEF Payment
    <3>2. CASE UNCHANGED paid
      BY <3>2
    <3>3. ASSUME NEW r \in job.rows, paid' = paid \cup {Payment(r)}
          PROVE  \A p \in paid' : p \in paid \/ p.expiry = job.expiry
      BY <3>1, <3>3
    <3> QED BY <2>3, <3>2, <3>3 DEF Purchase
  <2>6. \A i \in DOMAIN orders : orders[i].stack > 0
    BY DEF QuotaParts, CountInv
  <2>7. Follows
    BY <1>0, <2>1, <2>2, <2>4, <2>5, <2>6 DEF Follows
  <2> QED BY <2>7, FollowsKeeps
<1>4. CASE BuyDone
  <2>1. UNCHANGED <<now, orders, paid, clock>> /\ pc' \in {"listSnap", "idle"}
    BY <1>4 DEF BuyDone, World, AfterBuying
  <2> QED BY <1>0, <2>1, DeletingFollows
<1> QED BY <1>1, <1>2, <1>3, <1>4 DEF BuyTick

LEMMA QuotaList ==
  ASSUME IInv, TypeInv, QuotaParts, ListTick, ~torn'
  PROVE  QuotaParts'
<1>0. /\ {"listLearn", "idle"} \cap ({"buyRows"} \cup Clocked \cup Late) = {}
      /\ {"prices", "expire", "load"} \subseteq Clocked
      /\ {"deleteOrders", "deleteItems", "topUp", "insert"} \subseteq Clocked
      /\ {"deleteOrders", "deleteItems", "topUp", "insert"} \subseteq Late
      /\ {"prices", "expire", "load"} \cap Late = {}
  BY DEF Clocked, Late
<1>1. UNCHANGED <<now, paid>>
  BY DEF ListTick, ListSnap, ListLearn, UpdatePrices, Expire, Load, DeleteOrders, DeleteItems,
     TopUp, createListingsBatch, Lists, World
<1>2. CASE ListSnap
  <2>1. UNCHANGED <<orders, clock>> /\ pc' = "listLearn"
    BY <1>2 DEF ListSnap, Lists
  <2> QED BY <1>0, <1>1, <2>1, DeletingFollows
<1>3. CASE ListLearn
  <2>1. LearnOK /\ UNCHANGED orders /\ pc = "listLearn" /\ pc' = "prices"
    BY <1>3 DEF ListLearn, Lists, learnGameEpoch, Tear
  <2> QED BY <1>0, <1>1, <2>1, LearnKeeps
<1>4. CASE UpdatePrices
  <2>1. UNCHANGED <<orders, clock>> /\ pc = "prices" /\ pc' = "expire"
    BY <1>4 DEF UpdatePrices, Lists
  <2> QED BY <1>0, <1>1, <2>1, DeletingFollows
<1>5. CASE Expire
  <2>1. UNCHANGED clock /\ pc = "expire" /\ pc' = "load"
    BY <1>5 DEF Expire, Lists
  <2>2. orders' = orders \/ \E S : orders' = Without(S)
    BY <1>5 DEF Expire
  <2> QED BY <1>0, <1>1, <2>1, <2>2, DeletingFollows
<1>6. CASE Load
  <2>1. UNCHANGED <<orders, clock>> /\ pc = "load"
    BY <1>6 DEF Load
  <2>2. CASE Found
    BY <1>1, <2>1, <2>2, FoundKeeps
  <2>3. CASE ~Found
    <3>1. pc' = "idle"
      BY <1>6, <2>3, LoadSteps DEF TypeInv, TypeOK
    <3> QED BY <1>0, <1>1, <2>1, <3>1, DeletingFollows
  <2> QED BY <2>2, <2>3
<1>7. \A i \in DOMAIN orders : orders[i].stack > 0
  BY DEF QuotaParts, CountInv
<1>8. pc \in Late \ {"deleteOrders"} => job.stale \cap DOMAIN orders = {}
  BY DEF QuotaParts, CountInv
<1>9. CASE DeleteOrders
  <2>1. UNCHANGED <<clock, job>> /\ pc = "deleteOrders" /\ pc' = "deleteItems"
        /\ orders' = Without(job.stale)
    BY <1>9 DEF DeleteOrders, Lists, Tear
  <2>2. /\ \A i \in DOMAIN orders' : i \in DOMAIN orders /\ orders'[i] = orders[i]
        /\ job.stale \cap DOMAIN orders' = {}
    BY <2>1 DEF Without
  <2>3. Follows
    BY <1>0, <1>1, <1>7, <2>1, <2>2 DEF Follows
  <2> QED BY <2>3, FollowsKeeps
<1>10. CASE DeleteItems
  <2>1. UNCHANGED <<clock, job>> /\ pc = "deleteItems" /\ pc' = "topUp"
        /\ orders' = SetStack(job.stale, 0)
    BY <1>10 DEF DeleteItems, Lists, Tear
  <2>2. job.stale \cap DOMAIN orders = {}
    BY <1>0, <1>8, <2>1
  <2>3. DOMAIN orders' = DOMAIN orders /\ \A i \in DOMAIN orders : orders'[i] = orders[i]
    BY <2>1, <2>2 DEF SetStack
  <2>4. Follows
    BY <1>0, <1>1, <1>7, <2>1, <2>2, <2>3 DEF Follows
  <2> QED BY <2>4, FollowsKeeps
<1>11. CASE TopUp
  <2>1. UNCHANGED <<clock, job>> /\ pc = "topUp" /\ pc' = "insert"
        /\ (orders' = SetStack(job.tops, StackMax) \/ orders' = orders)
    BY <1>11 DEF TopUp, Lists
  <2>2. job.stale \cap DOMAIN orders = {}
    BY <1>0, <1>8, <2>1
  <2>3. /\ DOMAIN orders' = DOMAIN orders
        /\ \A i \in DOMAIN orders :
             /\ orders'[i].stack > 0
             /\ orders'[i].owner = orders[i].owner
             /\ orders'[i].key = orders[i].key
             /\ orders'[i].expiry = orders[i].expiry
    BY <1>7, <2>1, NumberTypes DEF SetStack, TypeInv, TypeOK, Order
  <2>4. Follows
    BY <1>0, <1>1, <2>1, <2>2, <2>3 DEF Follows
  <2> QED BY <2>4, FollowsKeeps
<1>12. CASE createListingsBatch
  <2>1. UNCHANGED clock /\ pc = "insert" /\ pc' = "idle"
    BY <1>12 DEF createListingsBatch, Lists
  <2>2. CASE orders' = orders
    BY <1>0, <1>1, <2>1, <2>2, DeletingFollows
  <2>3. ASSUME NEW S \in SUBSET FreeIds, Inserts(S) PROVE QuotaParts'
    BY <1>1, <2>1, <2>3, InsertKeeps
  <2> QED BY <1>12, <2>2, <2>3, BatchInserts
<1> QED BY <1>2, <1>3, <1>4, <1>5, <1>6, <1>9, <1>10, <1>11, <1>12 DEF ListTick

LEMMA QuotaOthers ==
  ASSUME IInv, TypeInv, QuotaParts, Boot \/ Wake \/ Crash \/ Request \/ UNCHANGED vars, ~torn'
  PROVE  QuotaParts'
<1>0. {"buyLearn", "listSnap", "off"} \cap ({"buyRows"} \cup Clocked \cup Late) = {}
  BY DEF Clocked, Late
<1>1. CASE Boot
  <2>1. LearnOK /\ UNCHANGED <<now, orders, paid>> /\ pc' = "buyLearn"
    BY <1>1 DEF Boot, learnGameEpoch, Tear, World
  <2> QED BY <1>0, <2>1, LearnKeeps
<1>2. CASE Wake
  <2>1. UNCHANGED <<now, clock, orders, paid>> /\ pc' \in {"buyLearn", "listSnap"}
    BY <1>2 DEF Wake, World
  <2> QED BY <1>0, <2>1, DeletingFollows
<1>3. CASE Crash
  <2>1. UNCHANGED <<now, clock, orders, paid>> /\ pc' = "off"
    BY <1>3 DEF Crash
  <2> QED BY <1>0, <2>1, DeletingFollows
<1>4. CASE UNCHANGED vars
  BY <1>4, DeletingFollows DEF vars
<1>5. CASE Request
  <2>1. UNCHANGED <<now, paid, pc, job>>
    BY <1>5 DEF Request, Apply, Begin, Clean, Reinit, End, Ask, Loop
  <2>2. CASE UNCHANGED clock
    <3>1. orders' = orders \/ \E S : orders' = Without(S)
      BY <1>5 DEF Request, Apply, Begin, Clean, Reinit, End
    <3> QED BY <2>1, <2>2, <3>1, DeletingFollows
  <2>3. CASE ~UNCHANGED clock
    <3>1. LearnOK /\ UNCHANGED orders
      BY <1>5, <2>3 DEF Request, Apply, Begin, Clean, Reinit, End
    <3> QED BY <2>1, <3>1, LearnKeeps
  <2> QED BY <2>2, <2>3
<1> QED BY <1>1, <1>2, <1>3, <1>4, <1>5

LEMMA QuotaGame ==
  ASSUME IInv, TypeInv, QuotaParts, Game
  PROVE  QuotaParts'
<1>1. ASSUME NEW p \in Players, Offer(p) PROVE QuotaParts'
  <2>1. UNCHANGED <<now, paid, clock, pc, job>>
    BY <1>1 DEF Offer, Bots
  <2>2. \E i \in FreeIds : OneOffer(i)
    BY <1>1 DEF Offer, OneOffer
  <2> QED BY <2>1, <2>2, OfferKeeps
<1>2. ASSUME NEW i \in DOMAIN orders, Leave(i) PROVE QuotaParts'
  BY <1>2, DeletingFollows DEF Leave, Bots
<1>3. ASSUME NEW i \in DOMAIN orders, TakeOne(i) PROVE QuotaParts'
  <2>1. UNCHANGED <<now, paid, clock, pc, job>> /\ orders[i].stack > 1
    BY <1>3 DEF TakeOne, Bots
  <2>2. PICK n \in Int : n = orders[i].stack - 1
    BY RowTypes
  <2>3. n > 0
    BY <2>1, <2>2, RowTypes
  <2>4. orders' = SetStack({i}, n)
    BY <1>3, <2>2 DEF TakeOne
  <2>5. \A j \in DOMAIN orders : orders[j].stack > 0
    BY DEF QuotaParts, CountInv
  <2>6. /\ DOMAIN orders' = DOMAIN orders
        /\ \A j \in DOMAIN orders :
             /\ orders'[j].stack > 0
             /\ orders'[j].owner = orders[j].owner
             /\ orders'[j].key = orders[j].key
             /\ orders'[j].expiry = orders[j].expiry
    BY <2>3, <2>4, <2>5 DEF SetStack, TypeInv, TypeOK, Order
  <2>7. pc \in Late \ {"deleteOrders"} => job.stale \cap DOMAIN orders = {}
    BY DEF QuotaParts, CountInv
  <2>8. Follows
    BY <2>1, <2>6, <2>7 DEF Follows
  <2> QED BY <2>8, FollowsKeeps
<1>4. CASE Advance
  <2>1. now' = now + 1 /\ UNCHANGED <<orders, paid, clock, pc, job>> /\ pc \in {"off", "idle"}
    BY <1>4 DEF Advance, Bots
  <2>2. pc \notin Clocked /\ pc \notin Late
    BY <2>1 DEF Clocked, Late
  <2> QED BY <2>1, <2>2, TimeKeeps
<1> QED BY <1>1, <1>2, <1>3, <1>4 DEF Game

(* A failure of the clock or of a bulk delete is not forgotten.              *)
LEMMA TornStays == TypeInv /\ [Next]_vars /\ torn => torn'
<1> SUFFICES ASSUME TypeInv, [Next]_vars, torn PROVE torn'
  OBVIOUS
<1>1. torn \in BOOLEAN
  BY DEF TypeInv, TypeOK
<1>2. CASE Boot \/ Wake \/ Crash \/ UNCHANGED vars
  BY <1>2 DEF Boot, Wake, Crash, vars, learnGameEpoch, NoFault, Tear
<1>3. CASE BuyTick
  BY <1>3 DEF BuyTick, BuyLearn, BuyQuery, BuyRow, BuyDone, learnGameEpoch, NoFault, Tear, Fault,
     Skip
<1>f. NoFault \/ Fault \/ Tear \/ UNCHANGED torn => torn'
  BY DEF NoFault, Tear, Fault
<1>4. CASE ListTick
  <2>1. CASE ListSnap
    BY <1>f, <2>1 DEF ListSnap
  <2>2. CASE UpdatePrices
    BY <1>f, <2>2 DEF UpdatePrices
  <2>3. CASE createListingsBatch
    BY <1>f, <2>3 DEF createListingsBatch
  <2>4. CASE Load
    BY <1>f, <2>4, LoadSteps DEF Found, TypeInv, TypeOK
  <2> QED BY <1>4, <1>f, <2>1, <2>2, <2>3, <2>4
          DEF ListTick, ListLearn, Expire, DeleteOrders, DeleteItems, TopUp, learnGameEpoch
<1>5. CASE Request
  BY <1>5 DEF Request, Apply, Begin, Clean, Reinit, End, Ask
<1>6. CASE Game
  BY <1>6 DEF Game, Offer, Leave, TakeOne, Advance, Bots
<1> QED BY <1>2, <1>3, <1>4, <1>5, <1>6 DEF Next

LEMMA StepQuota == IInv /\ TypeInv /\ QuotaInv /\ [Next]_vars => QuotaInv'
<1> SUFFICES ASSUME IInv, TypeInv, QuotaInv, [Next]_vars, ~torn' PROVE QuotaParts'
  BY DEF QuotaInv
<1>1. QuotaParts
  BY TornStays DEF QuotaInv
<1> QED BY <1>1, QuotaBuy, QuotaList, QuotaOthers, QuotaGame DEF Next

(* Unless a query of the clock or a bulk delete has failed, the bot never    *)
(* has more active listings of an entry than the highest quota, for any      *)
(* catalog, any quotas, and any interleaving of ticks, sales, cleanups,      *)
(* restarts and crashes (ListTick).                                          *)
THEOREM BotNeverOverQuota == Spec => []NeverOverQuota
<1>1. TypeInv /\ QuotaInv => NeverOverQuota
  <2> SUFFICES ASSUME TypeInv, QuotaParts, NEW k \in Keys
               PROVE  Cardinality(Active(k)) <= Max(Quotas)
    BY DEF NeverOverQuota, QuotaInv
  <2>1. Active(k) \subseteq Counted(k)
    BY DEF Active, Counted
  <2>2. /\ Cardinality(Active(k)) \in Nat /\ Cardinality(Counted(k)) \in Nat
        /\ Cardinality(Active(k)) <= Cardinality(Counted(k))
    BY <2>1, CountFinite, FewerCount
  <2>3. Cardinality(Counted(k)) <= Max(Quotas)
    BY DEF QuotaParts, CountInv
  <2> QED BY <2>2, <2>3, QuotaBound
<1> QED
  BY <1>1, InitIInv, StepIInv, InitTypeInv, StepTypeInv, InitQuota, StepQuota, PTL DEF Spec

-------------------------------------------------------------------------------
(* The list tick nobody disturbs.                                            *)

(* With what is still to come, an entry has its quota.                       *)
Full(k) == Cardinality(Valid(k) \ job.stale) + Cardinality(Coming(k)) >= config.quota

(* The catalog has been gone through: what is kept has the right price, and  *)
(* a full stack or one that is about to be filled.                           *)
Ready ==
  /\ job.expiry = OrderExpiry
  /\ \A l \in job.pending : l.price = price[l.key] /\ l.key \notin config.disabled
  /\ \A i \in Loaded \ job.stale :
       /\ orders[i].price = price[orders[i].key] /\ orders[i].key \notin config.disabled
       /\ orders[i].stack = StackMax \/ (pc # "insert" /\ i \in job.tops)
  /\ pc # "insert" => job.tops \subseteq Loaded \ job.stale
  /\ \A k \in Keys \ config.disabled : Full(k)

Met ==
  \A k \in Keys : IF k \in config.disabled THEN Active(k) = {}
                  ELSE Active(k) \subseteq Stock(k) /\ Cardinality(Active(k)) >= config.quota

CalmParts ==
  /\ pc \in ListSteps \cup {"idle"}
  /\ pc \in ListSteps => job.snap.quota = config.quota /\ job.snap.disabled = config.disabled
  /\ pc \in Late => Ready
  /\ pc \in Late \ {"deleteOrders"} => job.stale \cap DOMAIN orders = {}
  /\ pc = "idle" => Met

CalmInv == calm => CalmParts

(* A step that touches nothing of it: the switch of the loop alone.          *)
LEMMA SwitchKeeps ==
  ASSUME CalmParts, UNCHANGED <<now, orders, clock, price, job, pc>>,
         config'.quota = config.quota, config'.disabled = config.disabled
  PROVE  CalmParts'
<1>1. /\ Loaded' = Loaded /\ OrderExpiry' = OrderExpiry
      /\ \A k : /\ Valid(k)' = Valid(k) /\ Coming(k)' = Coming(k)
                /\ Active(k)' = Active(k) /\ Stock(k)' = Stock(k)
  BY DEF Loaded, Own, gameNow, OrderExpiry, Valid, Coming, Active, Stock
<1>2. \A k : Full(k) <=> Full(k)'
  BY <1>1 DEF Full
<1>3. Met => Met'
  BY <1>1 DEF Met
<1>4. Ready => Ready'
  BY <1>1, <1>2 DEF Ready
<1> QED BY <1>3, <1>4 DEF CalmParts

LEMMA CalmFound ==
  ASSUME TypeInv, CalmParts, pc = "load", Found,
         UNCHANGED <<now, orders, clock, price, config>>
  PROVE  CalmParts'
<1>1. /\ Loaded' = Loaded /\ OrderExpiry' = OrderExpiry
      /\ \A k : Valid(k)' = Valid(k)
  BY DEF Loaded, Own, gameNow, OrderExpiry, Valid
<1>2. /\ pc' = "deleteOrders" /\ job'.expiry = OrderExpiry /\ job'.snap = job.snap
      /\ job'.stale = StaleRows /\ job'.tops = TopRows /\ job'.pending = MissingRows
  BY DEF Found
<1>3. /\ pc \in ListSteps /\ pc' \in ListSteps /\ pc' \in Late
      /\ job.snap.quota = config.quota /\ job.snap.disabled = config.disabled
  BY <1>2 DEF CalmParts, ListSteps, Clocked, Late
<1>4. ASSUME NEW l \in MissingRows
      PROVE  l.price = price[l.key] /\ l.key \notin config.disabled
  <2>1. PICK k \in Keys, j \in 1..Max(Quotas) :
          l = [key |-> k, price |-> price[k], n |-> j] /\ l.n <= Missing(l.key)
    BY DEF MissingRows, Listings
  <2>2. j >= 1 /\ j <= Missing(k) /\ j \in Int
    BY <2>1, QuotaBound
  <2>3. k \in job.snap.disabled => Missing(k) = 0
    BY <1>3, MissingCount
  <2> QED BY <1>3, <2>1, <2>2, <2>3
<1>5. ASSUME NEW i \in Loaded \ StaleRows
      PROVE  /\ orders[i].price = price[orders[i].key] /\ orders[i].key \notin config.disabled
             /\ orders[i].stack = StackMax \/ i \in TopRows
  <2>1. i \in DOMAIN orders
    BY DEF Loaded, Own
  <2>2. orders[i].price = price[orders[i].key] /\ orders[i].key \notin config.disabled
    BY <1>3 DEF StaleRows
  <2>3. orders[i].stack = StackMax \/ orders[i].stack < StackMax
    BY <2>1, RowTypes, NumberTypes
  <2> QED BY <2>2, <2>3 DEF TopRows
<1>6. ASSUME NEW k \in Keys \ config.disabled PROVE Full(k)'
  <2>1. Valid(k) \ StaleRows = Valid(k)
    BY <1>3 DEF Valid, StaleRows
  <2>2. Coming(k)' = ComingRows(k)
    BY <1>2 DEF Coming, ComingRows
  <2>3. /\ Missing(k) \in Nat /\ Cardinality(ComingRows(k)) = Missing(k)
        /\ \/ Missing(k) = config.quota - Cardinality(Valid(k))
           \/ Missing(k) = 0 /\ Cardinality(Valid(k)) >= config.quota
    BY <1>3, MissingCount
  <2>4. config.quota \in Nat /\ Cardinality(Valid(k)) \in Nat
    BY ValidFinite, QuotaBound DEF TypeInv, TypeOK
  <2>5. Cardinality(Valid(k)) + Cardinality(ComingRows(k)) >= config.quota
    BY <2>3, <2>4
  <2>6. (Valid(k) \ job.stale)' = Valid(k)
    BY <1>1, <1>2, <2>1
  <2> QED BY <2>2, <2>5, <2>6 DEF Full
<1>7. Ready'
  <2>1. TopRows \subseteq Loaded \ StaleRows
    BY DEF TopRows
  <2> QED BY <1>1, <1>2, <1>4, <1>5, <1>6, <2>1 DEF Ready
<1> QED BY <1>2, <1>3, <1>7 DEF CalmParts

(* The stale rows go, or have gone.                                          *)
LEMMA CalmDelete ==
  ASSUME TypeInv, CalmParts,
         pc \in {"deleteOrders", "deleteItems"}, pc' \in {"deleteItems", "topUp"},
         DOMAIN orders' = DOMAIN orders \ job.stale,
         \A i \in DOMAIN orders' : orders'[i] = orders[i],
         UNCHANGED <<now, clock, price, job, config>>
  PROVE  CalmParts'
<1>1. /\ {"deleteOrders", "deleteItems", "topUp"} \subseteq Late
      /\ {"deleteOrders", "deleteItems", "topUp"} \subseteq ListSteps
  BY DEF ListSteps, Clocked, Late
<1>2. /\ gameNow' = gameNow /\ OrderExpiry' = OrderExpiry /\ Own' = Own \ job.stale
      /\ Loaded' = Loaded \ job.stale
  BY DEF Loaded, Own, gameNow, OrderExpiry
<1>3. \A k : (Valid(k) \ job.stale)' = Valid(k) \ job.stale /\ Coming(k)' = Coming(k)
  BY <1>2 DEF Valid, Coming, Loaded, Own
<1>4. Ready
  BY <1>1 DEF CalmParts
<1>5. \A k \in Keys \ config.disabled : Full(k)'
  BY <1>3, <1>4 DEF Full, Ready
<1>6. Ready'
  BY <1>2, <1>4, <1>5 DEF Ready, Loaded, Own
<1> QED BY <1>1, <1>6 DEF CalmParts

LEMMA CalmTopUp ==
  ASSUME TypeInv, CalmParts, pc = "topUp", pc' = "insert", orders' = SetStack(job.tops, StackMax),
         UNCHANGED <<now, clock, price, job, config>>
  PROVE  CalmParts'
<1>1. {"topUp", "insert"} \subseteq Late /\ {"topUp", "insert"} \subseteq ListSteps
  BY DEF ListSteps, Clocked, Late
<1>2. /\ DOMAIN orders' = DOMAIN orders
      /\ \A i \in DOMAIN orders :
           /\ orders'[i].owner = orders[i].owner /\ orders'[i].key = orders[i].key
           /\ orders'[i].price = orders[i].price /\ orders'[i].expiry = orders[i].expiry
           /\ orders'[i].stack = IF i \in job.tops THEN StackMax ELSE orders[i].stack
  BY DEF SetStack, TypeInv, TypeOK, Order
<1>3. Ready
  BY <1>1 DEF CalmParts
<1>4. Loaded' = Loaded /\ gameNow' = gameNow /\ OrderExpiry' = OrderExpiry
  <2>1. gameNow' = gameNow /\ OrderExpiry' = OrderExpiry /\ Own' = Own
    BY <1>2 DEF gameNow, OrderExpiry, Own
  <2>2. \A i \in job.tops : i \in Loaded
    BY <1>3 DEF Ready
  <2> QED BY <1>2, <2>1, <2>2, NumberTypes DEF Loaded, Own
<1>5. \A k : Valid(k)' = Valid(k) /\ Coming(k)' = Coming(k)
  BY <1>2, <1>4 DEF Valid, Coming, Loaded, Own
<1>6. \A k \in Keys \ config.disabled : Full(k)'
  BY <1>3, <1>5 DEF Full, Ready
<1>7. Ready'
  BY <1>2, <1>3, <1>4, <1>6 DEF Ready, Loaded, Own
<1>8. job.stale \cap DOMAIN orders = {}
  BY <1>1 DEF CalmParts
<1> QED BY <1>1, <1>2, <1>7, <1>8 DEF CalmParts

(* The batch: every listing that was missing gets a row, active at once.     *)
LEMMA CalmInsert ==
  ASSUME TypeInv, CalmParts, pc = "insert", pc' = "idle", NEW S \in SUBSET FreeIds, Inserts(S),
         UNCHANGED <<now, clock, price, config>>
  PROVE  CalmParts'
<1>1. PICK row \in Bijection(S, job.pending) :
        \A i \in S : orders'[i] = [owner |-> Bot, key |-> row[i].key, price |-> row[i].price,
                                  expiry |-> job.expiry, stack |-> StackMax]
  BY DEF Inserts
<1>2. /\ DOMAIN orders' = DOMAIN orders \cup S
      /\ \A i \in DOMAIN orders : orders'[i] = orders[i]
      /\ \A i \in S : /\ i \notin DOMAIN orders /\ orders'[i].owner = Bot
                      /\ orders'[i].key = row[i].key /\ orders'[i].price = row[i].price
                      /\ orders'[i].expiry = job.expiry /\ orders'[i].stack = StackMax
                      /\ row[i] \in job.pending
  BY <1>1 DEF Inserts, FreeIds, Bijection, Injection
<1>3. /\ pc \in Late /\ pc \in ListSteps /\ pc \in Late \ {"deleteOrders"}
      /\ pc' \notin Late /\ pc' \notin ListSteps
  BY DEF ListSteps, Clocked, Late
<1>4. Ready /\ job.stale \cap DOMAIN orders = {}
  BY <1>3 DEF CalmParts
<1>5. gameNow' = gameNow /\ Own' = Own \cup S
  BY <1>2 DEF gameNow, Own
<1>6. \A i \in S : orders'[i].expiry > gameNow /\ orders'[i].stack > 0
  BY <1>2, <1>4, ExpiryType, NumberTypes DEF Ready
<1>7. ASSUME NEW k \in Keys, NEW i \in Active(k)'
      PROVE  k \notin config.disabled /\ i \in Stock(k)'
  <2>1. /\ i \in Own \cup S /\ orders'[i].key = k
        /\ orders'[i].stack > 0 /\ orders'[i].expiry > gameNow
    BY <1>5 DEF Active
  <2>2. CASE i \in S
    BY <1>2, <1>4, <1>5, <2>1, <2>2 DEF Ready, Stock
  <2>3. CASE i \in Own
    <3>1. i \in Loaded /\ i \notin job.stale /\ orders'[i] = orders[i]
      BY <1>2, <1>4, <2>1, <2>3 DEF Loaded, Own
    <3> QED BY <1>4, <1>5, <2>1, <2>3, <3>1 DEF Ready, Stock
  <2> QED BY <2>1, <2>2, <2>3
<1>8. ASSUME NEW k \in Keys \ config.disabled PROVE Cardinality(Active(k)') >= config.quota
  <2> DEFINE new == {i \in S : row[i].key = k}
  <2>1. [i \in new |-> row[i]] \in Surjection(new, Coming(k))
    BY DEF Bijection, Injection, Surjection, Coming
  <2>2. S \subseteq Ids
    BY DEF FreeIds
  <2>3. IsFiniteSet(new)
    BY <2>2, DataAssumption, FewerCount
  <2>4. new \subseteq Active(k)'
    BY <1>2, <1>5, <1>6 DEF Active
  <2>5. Valid(k) \subseteq Active(k)'
    BY <1>2, <1>5 DEF Valid, Loaded, Active, Own
  <2>6. Valid(k) \cap new = {}
    BY <1>2 DEF Valid, Loaded, Own
  <2>7. Valid(k) \ job.stale = Valid(k)
    BY <1>4 DEF Valid, Loaded, Own
  <2> HIDE DEF new
  <2>8. Cardinality(Coming(k)) <= Cardinality(new)
    BY <2>1, <2>3, FS_Surjection
  <2>9. Cardinality(new) \in Nat /\ Cardinality(Coming(k)) \in Nat /\ Cardinality(Valid(k)) \in Nat
    BY <2>3, CountFinite, ValidFinite, FS_CardinalityType
  <2>10. Cardinality(Valid(k) \cup new) = Cardinality(Valid(k)) + Cardinality(new)
    <3>1. Cardinality(Valid(k) \cup new) =
            Cardinality(Valid(k)) + Cardinality(new) - Cardinality(Valid(k) \cap new)
      BY <2>3, ValidFinite, FS_Union
    <3>2. Cardinality(Valid(k) \cap new) = 0
      BY <2>6, FS_EmptySet
    <3>3. Cardinality(Valid(k)) + Cardinality(new) - 0 = Cardinality(Valid(k)) + Cardinality(new)
      BY <2>9
    <3> QED BY <3>1, <3>2, <3>3
  <2>11. Cardinality(Valid(k)) + Cardinality(Coming(k)) >= config.quota
    BY <1>4, <2>7 DEF Ready, Full
  <2>12. IsFiniteSet(Active(k)')
    <3>1. Active(k)' \subseteq DOMAIN orders \cup S
      BY <1>2, <1>5, RowTypes DEF Active
    <3>2. DOMAIN orders \cup S \subseteq Ids
      BY <2>2 DEF TypeInv, TypeOK
    <3>3. Active(k)' \subseteq Ids
      BY <3>1, <3>2
    <3> QED BY <3>3, DataAssumption, FewerCount
  <2>13. /\ Cardinality(Valid(k) \cup new) <= Cardinality(Active(k)')
         /\ Cardinality(Active(k)') \in Nat
    BY <2>4, <2>5, <2>12, FewerCount
  <2>14. config.quota \in Nat
    BY QuotaBound DEF TypeInv, TypeOK
  <2> QED BY <2>8, <2>9, <2>10, <2>11, <2>13, <2>14
<1>9. Met'
  BY <1>7, <1>8 DEF Met
<1> QED BY <1>3, <1>9 DEF CalmParts

(* Nothing failed: the batch is in the table.                                *)
LEMMA BatchCommits ==
  ASSUME createListingsBatch, calm'
  PROVE  NoFault /\ \E S \in SUBSET FreeIds : Inserts(S)
<1>0. PICK S \in SUBSET FreeIds :
        \E row \in Bijection(S, job.pending) : NoFault /\ orders' = Inserted(row)
  BY DEF createListingsBatch, kSubset, Fault
<1>1. PICK row \in Bijection(S, job.pending) : NoFault /\ orders' = Inserted(row)
  BY <1>0
<1>2. Inserts(S)
  BY <1>1, InsertedInserts
<1> QED BY <1>1, <1>2

LEMMA InitCalm == Init => CalmInv
BY DEF Init, CalmInv

LEMMA CalmList ==
  ASSUME IInv, TypeInv, ListTick, calm', ~ListSnap, CalmInv
  PROVE  CalmParts'
<1>0. calm \in BOOLEAN /\ (calm => CalmParts)
  BY DEF TypeInv, TypeOK, CalmInv
<1>1. UNCHANGED <<now, config>>
  BY ONLY ListTick DEF ListTick, ListSnap, ListLearn, UpdatePrices, Expire, Load, DeleteOrders,
     DeleteItems, TopUp, createListingsBatch, Lists, World
<1>2. /\ {"listLearn", "prices", "expire", "load"} \subseteq ListSteps
      /\ {"prices", "expire", "load"} \cap Late = {} /\ "idle" \notin Late
      /\ {"prices", "expire", "load"} \cap {"idle"} = {}
  BY DEF ListSteps, Clocked, Late
<1>3. CASE ListLearn \/ UpdatePrices \/ Expire
  <2>1. /\ job' = job /\ pc' \in {"prices", "expire", "load"}
        /\ pc \in {"listLearn", "prices", "expire"}
    BY <1>3 DEF ListLearn, UpdatePrices, Expire, Lists
  <2>2. calm
    BY <1>0, <1>3 DEF ListLearn, UpdatePrices, Expire, learnGameEpoch, NoFault, Tear, Fault
  <2> QED BY <1>0, <1>1, <1>2, <2>1, <2>2 DEF CalmParts
<1>4. CASE Load
  <2>1. Found
    BY <1>0, <1>4, LoadSteps DEF Fault, TypeInv, TypeOK
  <2>2. calm
    BY <2>1 DEF Found, NoFault
  <2>3. pc = "load" /\ UNCHANGED <<orders, clock, price>>
    BY <1>4 DEF Load
  <2> QED BY <1>0, <1>1, <2>1, <2>2, <2>3, CalmFound
<1>5. CASE DeleteOrders
  <2>1. /\ pc = "deleteOrders" /\ pc' = "deleteItems" /\ UNCHANGED <<clock, price, job>>
        /\ orders' = Without(job.stale) /\ NoFault
    BY <1>5 DEF DeleteOrders, Lists, Tear
  <2>2. /\ DOMAIN orders' = DOMAIN orders \ job.stale
        /\ \A i \in DOMAIN orders' : orders'[i] = orders[i]
    BY <2>1 DEF Without
  <2>3. calm
    BY <2>1 DEF NoFault
  <2> QED BY <1>0, <1>1, <2>1, <2>2, <2>3, CalmDelete
<1>6. CASE DeleteItems
  <2>1. /\ pc = "deleteItems" /\ pc' = "topUp" /\ UNCHANGED <<clock, price, job>>
        /\ orders' = SetStack(job.stale, 0) /\ NoFault
    BY <1>6 DEF DeleteItems, Lists, Tear
  <2>2. calm
    BY <2>1 DEF NoFault
  <2>3. job.stale \cap DOMAIN orders = {}
    BY <1>0, <2>1, <2>2 DEF CalmParts, Late
  <2>4. /\ DOMAIN orders' = DOMAIN orders \ job.stale
        /\ \A i \in DOMAIN orders' : orders'[i] = orders[i]
    BY <2>1, <2>3 DEF SetStack
  <2> QED BY <1>0, <1>1, <2>1, <2>2, <2>4, CalmDelete
<1>7. CASE TopUp
  <2>1. /\ pc = "topUp" /\ pc' = "insert" /\ UNCHANGED <<clock, price, job>>
        /\ orders' = SetStack(job.tops, StackMax) /\ NoFault
    BY <1>7 DEF TopUp, Lists, Fault
  <2>2. calm
    BY <2>1 DEF NoFault
  <2> QED BY <1>0, <1>1, <2>1, <2>2, CalmTopUp
<1>8. CASE createListingsBatch
  <2>1. pc = "insert" /\ pc' = "idle" /\ UNCHANGED <<clock, price>>
    BY <1>8 DEF createListingsBatch, Lists
  <2>2. NoFault /\ \E S \in SUBSET FreeIds : Inserts(S)
    BY <1>8, BatchCommits
  <2>3. calm
    BY <2>2 DEF NoFault
  <2> QED BY <1>0, <1>1, <2>1, <2>2, <2>3, CalmInsert
<1> QED BY <1>3, <1>4, <1>5, <1>6, <1>7, <1>8 DEF ListTick

LEMMA StepCalm == IInv /\ TypeInv /\ CalmInv /\ [Next]_vars => CalmInv'
<1> SUFFICES ASSUME IInv, TypeInv, CalmInv, [Next]_vars, calm' PROVE CalmParts'
  BY DEF CalmInv
<1>0. calm \in BOOLEAN /\ (calm => CalmParts)
  BY DEF TypeInv, TypeOK, CalmInv
<1>1. {"off", "listSnap", "buyLearn", "buyQuery", "buyRows"} \cap (ListSteps \cup {"idle"}) = {}
  BY DEF ListSteps, Clocked, Late
<1>2. CASE UNCHANGED vars
  <2>1. UNCHANGED <<calm, now, orders, clock, price, job, pc, config>>
    BY <1>2 DEF vars
  <2> QED BY <1>0, <2>1, SwitchKeeps
<1>3. CASE Boot
  <2>1. pc = "off" /\ (calm' = calm \/ calm' = FALSE)
    BY <1>3 DEF Boot, learnGameEpoch, NoFault, Tear
  <2> QED BY <1>0, <1>1, <2>1 DEF CalmParts
<1>4. CASE Wake \/ Crash \/ Game
  BY <1>4 DEF Wake, Crash, Game, Offer, Leave, TakeOne, Advance
<1>5. CASE BuyTick
  <2>1. pc \in {"buyLearn", "buyQuery", "buyRows"}
    BY <1>5 DEF BuyTick, BuyLearn, BuyQuery, BuyRow, BuyDone
  <2>2. calm' = calm \/ calm' = FALSE
    BY <1>5 DEF BuyTick, BuyLearn, BuyQuery, BuyRow, BuyDone, learnGameEpoch, NoFault, Tear, Fault,
       Skip
  <2> QED BY <1>0, <1>1, <2>1, <2>2 DEF CalmParts
<1>6. CASE ListSnap
  <2>1. pc' = "listLearn" /\ job' = [NoJob EXCEPT !.snap = Snapshot] /\ UNCHANGED config
    BY <1>6 DEF ListSnap, Lists, World
  <2>2. job'.snap.quota = config.quota /\ job'.snap.disabled = config.disabled
    BY <2>1 DEF NoJob, Snapshot
  <2>3. "listLearn" \in ListSteps /\ "listLearn" \notin Late
    BY DEF ListSteps, Clocked, Late
  <2> QED BY <2>1, <2>2, <2>3 DEF CalmParts
<1>7. CASE ListTick /\ ~ListSnap
  BY <1>7, CalmList
<1>8. CASE Request
  <2>1. CASE Apply \/ Clean \/ Reinit
    BY <2>1 DEF Apply, Clean, Reinit
  <2>2. CASE End \/ \E kind \in {"cleanup", "restart"} : Begin(kind)
    <3>1. UNCHANGED <<calm, now, orders, clock, price, job, pc>>
      BY <2>2 DEF End, Begin, Ask, Loop
    <3>2. \E b : config' = [config EXCEPT !.enabled = b]
      BY <2>2 DEF End, Begin
    <3>3. config'.quota = config.quota /\ config'.disabled = config.disabled
      BY <3>2 DEF TypeInv, TypeOK
    <3> QED BY <1>0, <3>1, <3>3, SwitchKeeps
  <2> QED BY <1>8, <2>1, <2>2 DEF Request
<1> QED BY <1>2, <1>3, <1>4, <1>5, <1>6, <1>7, <1>8 DEF Next

(* After a list tick that nobody disturbed and in which nothing failed,      *)
(* players see of a disabled entry nothing, and of any other nothing but     *)
(* full listings at the current price, unless the bot's clock is ahead of    *)
(* the game's; and at least the quota of them, unless it is behind or        *)
(* unknown, for any catalog, prices and quotas (ListTick).                   *)
THEOREM BotQuotaMet == Spec => []QuotaMet
<1>1. TypeInv /\ CalmInv => QuotaMet
  <2> SUFFICES ASSUME TypeInv, Met, NEW k \in Keys
               PROVE  /\ gameNow <= now =>
                           Visible(k) \subseteq IF k \in config.disabled THEN {} ELSE Stock(k)
                      /\ gameNow >= now /\ k \notin config.disabled =>
                           Cardinality(Visible(k) \cap Stock(k)) >= config.quota
    BY DEF CalmInv, CalmParts, QuotaMet
  <2>1. gameNow \in Int /\ now \in Int /\ \A i \in Own : orders[i].expiry \in Int
    BY RowTypes, NumberTypes DEF gameNow, Own
  <2>2. ASSUME gameNow <= now
        PROVE  Visible(k) \subseteq IF k \in config.disabled THEN {} ELSE Stock(k)
    <3>1. Visible(k) \subseteq Active(k)
      BY <2>1, <2>2 DEF Visible, Active
    <3> QED BY <3>1 DEF Met
  <2>3. ASSUME gameNow >= now, k \notin config.disabled
        PROVE  Cardinality(Visible(k) \cap Stock(k)) >= config.quota
    <3>1. Active(k) \subseteq Visible(k) \cap Stock(k)
      BY <2>1, <2>3 DEF Visible, Active, Met
    <3>2. IsFiniteSet(Visible(k) \cap Stock(k))
      <4>1. Visible(k) \cap Stock(k) \subseteq Ids
        BY RowTypes DEF Visible, Own, TypeInv, TypeOK
      <4> QED BY <4>1, DataAssumption, FewerCount
    <3>3. /\ Cardinality(Active(k)) <= Cardinality(Visible(k) \cap Stock(k))
          /\ Cardinality(Active(k)) \in Nat /\ Cardinality(Visible(k) \cap Stock(k)) \in Nat
      BY <3>1, <3>2, FewerCount
    <3>4. Cardinality(Active(k)) >= config.quota /\ config.quota \in Nat
      BY <2>3, QuotaBound DEF Met, TypeInv, TypeOK
    <3> QED BY <3>3, <3>4
  <2> QED BY <2>2, <2>3
<1> QED
  BY <1>1, InitIInv, StepIInv, InitTypeInv, StepTypeInv, InitCalm, StepCalm, PTL DEF Spec

-------------------------------------------------------------------------------
(* The prices themselves are a choice in MarketBot and computed in Pricing.  *)
(* First what rounding does to a number.                                     *)
PriceSteps == {10, 100, 1000, 10 * 1000, 100 * 1000}

Within(r, v, step) == 2 * r <= 2 * v + step /\ 2 * v < 2 * r + step

(* A rounded price is a multiple of its step, off by half of it at most.     *)
LEMMA NearStep ==
  ASSUME NEW v \in Nat, NEW s \in PriceSteps
  PROVE  Rounded(v, s) \in Nat /\ Within(Rounded(v, s) * s, v, s)
<1>1. CASE s = 10 BY SMT, <1>1 DEF Rounded, Within
<1>2. CASE s = 100 BY SMT, <1>2 DEF Rounded, Within
<1>3. CASE s = 1000 BY SMT, <1>3 DEF Rounded, Within
<1>4. CASE s = 10 * 1000 BY SMT, <1>4 DEF Rounded, Within
<1>5. CASE s = 100 * 1000 BY SMT, <1>5 DEF Rounded, Within
<1> QED BY <1>1, <1>2, <1>3, <1>4, <1>5 DEF PriceSteps

(* The step and what it bounds, for each range of prices.                    *)
Between(v, low, high) == low <= v /\ v < high

LEMMA StepOf ==
  ASSUME NEW v \in Nat
  PROVE  \/ Between(v, 0, 1000) /\ Step(v) = 10
         \/ Between(v, 1000, 10 * 1000) /\ Step(v) = 100
         \/ Between(v, 10 * 1000, 100 * 1000) /\ Step(v) = 1000
         \/ Between(v, 100 * 1000, 1000 * 1000) /\ Step(v) = 10 * 1000
         \/ 1000 * 1000 <= v /\ Step(v) = 100 * 1000
BY SMT DEF Step, Between

LEMMA StepAmong ==
  ASSUME NEW v \in Nat
  PROVE  Step(v) \in PriceSteps
BY SMT, StepOf DEF PriceSteps

(* What a price is rounded to, by its size.                                  *)
RoundedTo(v, r) ==
  \/ Between(v, 0, 1000) /\ Within(r, v, 10) /\ r <= 1000
  \/ Between(v, 1000, 10 * 1000) /\ Within(r, v, 100) /\ 1000 <= r /\ r <= 10 * 1000
  \/ /\ Between(v, 10 * 1000, 100 * 1000) /\ Within(r, v, 1000)
     /\ 10 * 1000 <= r /\ r <= 100 * 1000
  \/ /\ Between(v, 100 * 1000, 1000 * 1000) /\ Within(r, v, 10 * 1000)
     /\ 100 * 1000 <= r /\ r <= 1000 * 1000
  \/ 1000 * 1000 <= v /\ Within(r, v, 100 * 1000) /\ 1000 * 1000 <= r

LEMMA RoundedPrice ==
  ASSUME NEW v \in Nat
  PROVE  roundPrice(v) \in Nat /\ RoundedTo(v, roundPrice(v))
<1>1. PICK s \in PriceSteps : s = Step(v)
  BY StepAmong
<1>2. PICK q \in Nat : q = Rounded(v, s)
  BY NearStep
<1>3. Within(q * s, v, s)
  BY <1>1, <1>2, NearStep DEF Within
<1>4. roundPrice(v) = q * s
  BY <1>1, <1>2 DEF roundPrice
<1>5. CASE Between(v, 0, 1000) /\ s = 10
  BY SMT, <1>3, <1>4, <1>5 DEF RoundedTo, Between, Within
<1>6. CASE Between(v, 1000, 10 * 1000) /\ s = 100
  BY SMT, <1>3, <1>4, <1>6 DEF RoundedTo, Between, Within
<1>7. CASE Between(v, 10 * 1000, 100 * 1000) /\ s = 1000
  BY SMT, <1>3, <1>4, <1>7 DEF RoundedTo, Between, Within
<1>8. CASE Between(v, 100 * 1000, 1000 * 1000) /\ s = 10 * 1000
  BY SMT, <1>3, <1>4, <1>8 DEF RoundedTo, Between, Within
<1>9. CASE 1000 * 1000 <= v /\ s = 100 * 1000
  BY SMT, <1>3, <1>4, <1>9 DEF RoundedTo, Between, Within
<1> QED BY SMT, <1>1, <1>5, <1>6, <1>7, <1>8, <1>9, StepOf DEF PriceSteps

(* Rounding keeps the order, also where the step changes.                    *)
LEMMA RoundMono ==
  ASSUME NEW v \in Nat, NEW w \in Nat, v <= w
  PROVE  roundPrice(v) <= roundPrice(w)
<1>1. CASE Step(v) = Step(w)
  <2>1. PICK s \in PriceSteps : s = Step(v)
    BY StepAmong
  <2>2. Rounded(v, s) <= Rounded(w, s)
    <3>1. CASE s = 10 BY SMT, <3>1 DEF Rounded
    <3>2. CASE s = 100 BY SMT, <3>2 DEF Rounded
    <3>3. CASE s = 1000 BY SMT, <3>3 DEF Rounded
    <3>4. CASE s = 10 * 1000 BY SMT, <3>4 DEF Rounded
    <3>5. CASE s = 100 * 1000 BY SMT, <3>5 DEF Rounded
    <3> QED BY SMT, <2>1, <3>1, <3>2, <3>3, <3>4, <3>5 DEF PriceSteps
  <2>3. PICK a \in Nat, b \in Nat : a = Rounded(v, s) /\ b = Rounded(w, s)
    BY NearStep
  <2>4. roundPrice(v) = a * s /\ roundPrice(w) = b * s
    BY <1>1, <2>1, <2>3 DEF roundPrice
  <2> QED BY SMT, <2>1, <2>2, <2>3, <2>4 DEF PriceSteps
<1>2. CASE Step(v) # Step(w)
  BY SMT, <1>2, StepOf, RoundedPrice DEF RoundedTo, Between
<1> QED BY <1>1, <1>2

(* A tenth more is a higher price, and a twentieth less a lower one, once    *)
(* rounding cannot undo it.                                                  *)
LEMMA Risen ==
  ASSUME NEW p \in Nat, p > 40
  PROVE  roundPrice(Rounded(p * 110, 100)) > p
<1>1. PICK n \in Nat : n = Rounded(p * 110, 100)
  BY SMT DEF Rounded
<1>2. 2 * 110 * p < 2 * n * 100 + 100
  BY SMT, <1>1 DEF Rounded
<1>3. CASE p > 55
  <2>1. PICK r \in Nat : r = roundPrice(n)
    BY RoundedPrice
  <2>2. RoundedTo(n, r)
    BY <2>1, RoundedPrice
  <2>3. r > p
    BY SMT, <1>2, <1>3, <2>2 DEF RoundedTo, Between, Within
  <2> QED BY <1>1, <2>1, <2>3
<1>4. CASE p <= 55
  <2>1. n <= 61
    BY SMT, <1>1, <1>4 DEF Rounded
  <2>2. roundPrice(n) = ((2 * n + 10) \div 20) * 10
    BY SMT, <2>1, StepOf DEF roundPrice, Rounded, Between
  <2> QED BY SMT, <1>1, <1>2, <1>4, <2>2
<1> QED BY SMT, <1>3, <1>4

LEMMA Fallen ==
  ASSUME NEW p \in Nat, p > 110
  PROVE  roundPrice(Rounded(p * 95, 100)) < p
<1>1. PICK n \in Nat : n = Rounded(p * 95, 100)
  BY SMT DEF Rounded
<1>2. 2 * n * 100 <= 2 * 95 * p + 100
  BY SMT, <1>1 DEF Rounded
<1>3. PICK r \in Nat : r = roundPrice(n)
  BY RoundedPrice
<1>4. RoundedTo(n, r)
  BY <1>3, RoundedPrice
<1>5. r < p
  BY SMT, <1>2, <1>4 DEF RoundedTo, Between, Within
<1> QED BY <1>1, <1>3, <1>5

-------------------------------------------------------------------------------
(* Prices are numbers.                                                       *)
LEMMA HundredthsOf ==
  ASSUME NEW a \in Nat
  PROVE  Rounded(a, 100) \in Nat
BY SMT DEF Rounded

LEMMA HundredthsMono ==
  ASSUME NEW a \in Nat, NEW b \in Nat, a <= b
  PROVE  Rounded(a, 100) <= Rounded(b, 100)
BY SMT DEF Rounded

LEMMA TiersNat ==
  ASSUME NEW tier
  PROVE  /\ equipmentPrice(tier) \in Nat
         /\ schematicEquipmentPrice(tier) \in Nat
         /\ materialUnitPrice(tier) \in Nat
<1>1. equipmentPrice(tier) \in Nat
  BY SMT DEF At, equipmentPrice
<1>2. schematicEquipmentPrice(tier) \in Nat
  BY SMT DEF At, schematicEquipmentPrice
<1>3. materialUnitPrice(tier) \in Nat
  BY SMT DEF At, materialUnitPrice
<1> QED BY <1>1, <1>2, <1>3

LEMMA RarityNat ==
  ASSUME NEW rarity
  PROVE  rarityMult(rarity) \in Nat
BY SMT DEF rarityMult, At

LEMMA ProductNat ==
  ASSUME NEW a \in Nat, NEW b \in Nat
  PROVE  a * b \in Nat
BY SMT

LEMMA MaterialNat ==
  ASSUME NEW item \in Items, NEW g \in 0..5
  PROVE  materialCostForGrade(item, g) \in Nat
<1>1. item.cost \in Nat /\ item.costs \in [1..6 -> Nat]
  BY ItemsAssumption
<1>2. item.costs[g + 1] \in Nat
  BY SMT, <1>1
<1> QED BY SMT, <1>1, <1>2 DEF materialCostForGrade

LEMMA CraftedNat ==
  ASSUME NEW item \in Items, NEW g \in 0..5
  PROVE  CraftedPrice(item, g) \in Nat
<1>1. PICK k \in Nat : k = schematicEquipmentPrice(item.tier) * rarityMult(item.rarity)
  BY TiersNat, RarityNat, ProductNat
<1>2. PICK m \in Nat : m = materialCostForGrade(item, g)
  BY MaterialNat
<1>3. k + m * 75 \in Nat
  BY SMT
<1> QED BY <1>1, <1>2, <1>3, HundredthsOf DEF CraftedPrice

LEMMA CraftedMono ==
  ASSUME NEW item \in Items, NEW g \in 0..5, NEW h \in 0..5,
         materialCostForGrade(item, g) <= materialCostForGrade(item, h)
  PROVE  CraftedPrice(item, g) <= CraftedPrice(item, h)
<1>1. PICK k \in Nat : k = schematicEquipmentPrice(item.tier) * rarityMult(item.rarity)
  BY TiersNat, RarityNat, ProductNat
<1>2. PICK m \in Nat, n \in Nat : m = materialCostForGrade(item, g)
                                  /\ n = materialCostForGrade(item, h)
  BY MaterialNat
<1>3. k + m * 75 \in Nat /\ k + n * 75 \in Nat /\ k + m * 75 <= k + n * 75
  BY SMT, <1>2
<1> QED BY <1>1, <1>2, <1>3, HundredthsMono DEF CraftedPrice

LEMMA BaseNat ==
  ASSUME NEW item \in Items
  PROVE  computePrice(item) \in Nat
<1>1. PICK m \in Nat : m = rarityMult(item.rarity)
  BY RarityNat
<1>2. item.vendor \in Nat
  BY ItemsAssumption
<1>3. basePrice(item) \in Nat
  <2>1. CraftedPrice(item, 0) \in Nat
    BY SMT, CraftedNat
  <2>2. \A a \in Nat : Rounded(a * m, 100) \in Nat
    BY ProductNat, HundredthsOf
  <2>3. \A a \in Nat : AtLeastOne(Rounded(a * m, 100)) \in Nat
    BY SMT, <2>2 DEF AtLeastOne
  <2>4. CASE Crafted(item)
    BY SMT, <2>1, <2>4 DEF basePrice
  <2>5. CASE ~Crafted(item) /\ item.vendor >= minMeaningfulVendorPrice
    <3>1. ~(item.vendor < minMeaningfulVendorPrice)
      BY SMT, <1>2, <2>5 DEF minMeaningfulVendorPrice
    <3>2. basePrice(item) = Rounded(item.vendor * m, 100)
      BY SMT, <1>1, <2>5, <3>1 DEF basePrice
    <3> QED BY <1>2, <2>2, <3>2
  <2>6. CASE /\ ~Crafted(item) /\ ~(item.vendor >= minMeaningfulVendorPrice)
             /\ ~item.stacks
    <3>1. item.vendor < minMeaningfulVendorPrice
      BY SMT, <1>2, <2>6 DEF minMeaningfulVendorPrice
    <3> QED BY SMT, <1>1, <2>2, <2>6, <3>1, TiersNat DEF basePrice
  <2>7. CASE /\ ~Crafted(item) /\ ~(item.vendor >= minMeaningfulVendorPrice)
             /\ item.stacks
    BY SMT, <1>1, <2>3, <2>7, TiersNat DEF basePrice
  <2> QED BY <2>4, <2>5, <2>6, <2>7
<1> QED BY <1>3, RoundedPrice DEF computePrice

LEMMA LimitsNat ==
  ASSUME NEW item \in Items
  PROVE  Floor(item) \in Nat /\ Ceiling(item) \in Nat
<1>1. PICK base \in Nat : base = computePrice(item)
  BY BaseNat
<1>2. item.min \in Nat /\ item.max \in Nat
  BY ItemsAssumption
<1> QED BY SMT, <1>1, <1>2 DEF Floor, Ceiling

(* The clamp keeps the limits and the direction of a move.                   *)
Lower(a, b) == IF a < b THEN a ELSE b

LEMMA Clamped ==
  ASSUME NEW v \in Nat, NEW floor \in Nat, NEW ceiling \in Nat
  PROVE  LET c == Clamp(v, floor, ceiling) IN
           /\ c \in Nat /\ c <= ceiling /\ Lower(floor, ceiling) <= c
           /\ \A p \in Nat : /\ v > p /\ ceiling > p => c > p
                             /\ v < p /\ Lower(floor, ceiling) < p => c < p
BY SMT DEF Clamp, Lower

LEMMA NextNat ==
  ASSUME NEW p \in Nat, NEW factor \in Nat
  PROVE  roundPrice(Rounded(p * factor, 100)) \in Nat
BY ProductNat, HundredthsOf, RoundedPrice

LEMMA Adjusted ==
  ASSUME NEW item \in Items, NEW p \in Nat, NEW demand \in Demands
  PROVE  /\ adjustPrice(item, p, demand) \in Nat
         /\ adjustPrice(item, p, demand) <= Ceiling(item)
         /\ Bottom(item) <= adjustPrice(item, p, demand)
<1>1. PICK next \in Nat :
        adjustPrice(item, p, demand)
          = Clamp(next, Floor(item), Ceiling(item))
  <2>1. CASE demand = "high"
    <3>1. adjustPrice(item, p, demand)
            = Clamp(roundPrice(Rounded(p * 110, 100)),
                         Floor(item), Ceiling(item))
      BY <2>1 DEF adjustPrice
    <3> QED BY <3>1, NextNat
  <2>2. CASE demand = "none"
    <3>1. adjustPrice(item, p, demand)
            = Clamp(roundPrice(Rounded(p * 95, 100)),
                         Floor(item), Ceiling(item))
      BY <2>2 DEF adjustPrice
    <3> QED BY <3>1, NextNat
  <2>3. CASE demand = "some"
    <3>1. adjustPrice(item, p, demand)
            = Clamp(roundPrice(p), Floor(item), Ceiling(item))
      BY <2>3 DEF adjustPrice
    <3> QED BY <3>1, RoundedPrice
  <2> QED BY <2>1, <2>2, <2>3 DEF Demands
<1>2. Bottom(item) = Lower(Floor(item), Ceiling(item))
  BY DEF Bottom, Lower
<1> QED BY <1>1, <1>2, LimitsNat, Clamped

LEMMA DemandRaises ==
  ASSUME NEW item \in Items, NEW p \in Nat, p > 40, p < Ceiling(item)
  PROVE  adjustPrice(item, p, "high") > p
<1>1. PICK next \in Nat : next = roundPrice(Rounded(p * 110, 100))
  BY NextNat
<1>2. PICK ceiling \in Nat, floor \in Nat :
        ceiling = Ceiling(item) /\ floor = Floor(item)
  BY LimitsNat
<1>3. adjustPrice(item, p, "high") = Clamp(next, floor, ceiling)
  BY <1>1, <1>2 DEF adjustPrice
<1>4. next > p /\ ceiling > p
  BY SMT, <1>1, <1>2, Risen
<1> QED BY <1>3, <1>4, Clamped

LEMMA NoDemandLowers ==
  ASSUME NEW item \in Items, NEW p \in Nat, p > 110,
         p > Bottom(item)
  PROVE  adjustPrice(item, p, "none") < p
<1>1. PICK next \in Nat : next = roundPrice(Rounded(p * 95, 100))
  BY NextNat
<1>2. PICK ceiling \in Nat, floor \in Nat :
        ceiling = Ceiling(item) /\ floor = Floor(item)
  BY LimitsNat
<1>3. adjustPrice(item, p, "none") = Clamp(next, floor, ceiling)
  BY <1>1, <1>2 DEF adjustPrice
<1>4. next < p
  BY <1>1, Fallen
<1>5. Lower(floor, ceiling) < p
  BY SMT, <1>2 DEF Lower, Bottom
<1> QED BY <1>3, <1>4, <1>5, Clamped

(* Wherever the market's minimum lies, the price is at least half of what    *)
(* the clamp made of it.                                                     *)
LEMMA Updated ==
  ASSUME NEW item \in Items, NEW p \in Nat, NEW demand \in Demands,
         NEW minimum \in Nat
  PROVE  LET new == updatePrice(item, p, demand, minimum) IN
           /\ new \in Nat /\ new <= Ceiling(item)
           /\ Bottom(item) <= 2 * new
<1>1. PICK a \in Nat : a = adjustPrice(item, p, demand)
  BY Adjusted
<1>2. PICK ceiling \in Nat, floor \in Nat :
        /\ ceiling = Ceiling(item)
        /\ floor = Bottom(item)
  BY SMT, LimitsNat DEF Bottom
<1>3. a <= ceiling /\ floor <= a
  BY <1>1, <1>2, Adjusted
<1>4. CASE minimum > 0 /\ minimum < (a * 9) \div 10
  <2>1. updatePrice(item, p, demand, minimum) = (a + minimum) \div 2
    BY SMT, <1>1, <1>4 DEF updatePrice
  <2>2. PICK new \in Nat : new = (a + minimum) \div 2
    BY SMT
  <2>3. new <= ceiling /\ floor <= 2 * new
    BY SMT, <1>3, <1>4, <2>2
  <2> QED BY <1>2, <2>1, <2>2, <2>3
<1>5. CASE ~(minimum > 0 /\ minimum < (a * 9) \div 10)
  <2>1. updatePrice(item, p, demand, minimum) = a
    BY SMT, <1>1, <1>5 DEF updatePrice
  <2>2. floor <= 2 * a
    BY SMT, <1>3
  <2> QED BY <1>2, <1>3, <2>1, <2>2
<1> QED BY <1>4, <1>5

-------------------------------------------------------------------------------
(* Grades.                                                                   *)
LEMMA GradedMono ==
  ASSUME NEW p \in Nat, NEW g \in 0..5, NEW h \in 0..5, g < h
  PROVE  gradedPrice(p, g) <= gradedPrice(p, h)
<1>1. PICK m \in Nat, n \in Nat :
        m = gradePriceMult(g) /\ n = gradePriceMult(h) /\ m <= n
  BY SMT DEF gradePriceMult, GradeMultipliers, At
<1>2. PICK a \in Nat, b \in Nat : a = p * m /\ b = p * n
  BY ProductNat
<1>3. a <= b
  BY SMT, <1>1, <1>2
<1> QED BY <1>1, <1>2, <1>3, HundredthsOf, HundredthsMono, RoundMono DEF gradedPrice

LEMMA GradesMono ==
  ASSUME NEW item \in Items, NEW p \in Nat,
         NEW g \in applicableGrades(item), NEW h \in applicableGrades(item), g < h
  PROVE  \/ ListingPrice(item, p, g) <= ListingPrice(item, p, h)
         \/ /\ Crafted(item)
            /\ materialCostForGrade(item, h) < materialCostForGrade(item, g)
<1>1. g \in 0..5 /\ h \in 0..5
  BY SMT DEF applicableGrades
<1>2. CASE ~(item.cost > 0)
  BY <1>1, <1>2, GradedMono DEF ListingPrice
<1>3. CASE item.cost > 0 /\ ~Crafted(item)
  <2>1. gradedPrice(computePrice(item), g)
          <= gradedPrice(computePrice(item), h)
    BY <1>1, BaseNat, GradedMono
  <2> QED BY <1>3, <2>1 DEF ListingPrice, gradeFloor
<1>4. CASE item.cost > 0 /\ Crafted(item)
  <2>1. PICK m \in Nat, n \in Nat : /\ m = materialCostForGrade(item, g)
                                    /\ n = materialCostForGrade(item, h)
    BY <1>1, MaterialNat
  <2>2. CASE n < m
    BY <1>4, <2>1, <2>2
  <2>3. CASE m <= n
    <3>1. CraftedPrice(item, g) <= CraftedPrice(item, h)
      BY <1>1, <2>1, <2>3, CraftedMono
    <3>2. roundPrice(CraftedPrice(item, g)) <= roundPrice(CraftedPrice(item, h))
      BY <1>1, <3>1, CraftedNat, RoundMono
    <3> QED BY <1>4, <3>2 DEF ListingPrice, gradeFloor
  <2> QED BY SMT, <2>1, <2>2, <2>3
<1> QED BY <1>2, <1>3, <1>4

-------------------------------------------------------------------------------
(* A price is the base price, or a tick has put it within the limits.        *)
MovedWithin(item, p) ==
  p # computePrice(item) =>
    /\ Bottom(item) <= 2 * p
    /\ p <= Ceiling(item)

PriceInv ==
  input.kind = "price" =>
    /\ DOMAIN input = {"kind", "item", "price"}
    /\ input.item \in Items /\ input.price \in Nat
    /\ MovedWithin(input.item, input.price)

LEMMA InitPriceInv == input \in Priced => PriceInv
<1> SUFFICES ASSUME NEW item \in Items,
                    input = [kind |-> "price", item |-> item, price |-> computePrice(item)]
             PROVE  PriceInv
  BY DEF Priced
<1> QED BY BaseNat DEF PriceInv, MovedWithin

LEMMA TickPriceInv == PriceInv /\ PriceTick => PriceInv'
<1> SUFFICES ASSUME PriceInv, PriceTick
             PROVE  PriceInv'
  OBVIOUS
<1>1. input.kind = "price"
  BY DEF PriceTick
<1>2. PICK item \in Items, p \in Nat :
        /\ item = input.item /\ p = input.price
        /\ DOMAIN input = {"kind", "item", "price"}
  BY <1>1 DEF PriceInv
<1>3. PICK demand \in Demands, minimum \in {0, 1, Floor(item)} :
        input' = [input EXCEPT !.price = updatePrice(item, p, demand, minimum)]
  BY <1>2 DEF PriceTick
<1>4. minimum \in Nat
  BY <1>3, LimitsNat
<1>5. PICK new \in Nat : new = updatePrice(item, p, demand, minimum)
  BY <1>3, <1>4, Updated
<1>6. new <= Ceiling(item) /\ Bottom(item) <= 2 * new
  BY <1>3, <1>4, <1>5, Updated
<1>7. /\ DOMAIN input' = {"kind", "item", "price"}
      /\ input'.item = item /\ input'.price = new
  BY <1>2, <1>3, <1>5
<1>8. MovedWithin(item, new)
  BY <1>6 DEF MovedWithin
<1> QED BY <1>2, <1>5, <1>7, <1>8 DEF PriceInv, MovedWithin, computePrice

LEMMA PriceInvFollows == PriceInv => PricesFollowDemand
<1> SUFFICES ASSUME PriceInv, input.kind = "price"
             PROVE  PricesFollowDemand
  BY DEF PricesFollowDemand
<1>1. PICK item \in Items, p \in Nat : item = input.item /\ p = input.price
  BY DEF PriceInv
<1>2. MovedWithin(item, p)
  BY <1>1 DEF PriceInv
<1> QED BY <1>1, <1>2, DemandRaises, NoDemandLowers, GradesMono
        DEF PricesFollowDemand, MovedWithin

(* A tick moves a price as the demand asks, keeps it between half its floor  *)
(* and its ceiling, and no better grade is cheaper than its recipe allows    *)
(* (adjustPrice, updatePrices, gradedPrice), for every catalog, every price  *)
(* and every sequence of ticks.                                              *)
THEOREM PricesAlwaysFollow == PriceSpec => []PricesFollowDemand
<1>1. input \in Priced => PriceInv
  BY InitPriceInv
<1>2. PriceInv /\ [PriceTick]_input => PriceInv'
  <2>1. ASSUME PriceInv, UNCHANGED input
        PROVE  PriceInv'
    BY <2>1 DEF PriceInv, MovedWithin
  <2> QED BY <2>1, TickPriceInv
<1>3. PriceInv => PricesFollowDemand
  BY PriceInvFollows
<1> QED BY <1>1, <1>2, <1>3, PTL DEF PriceSpec
===============================================================================
