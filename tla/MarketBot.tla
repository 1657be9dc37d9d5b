------------------------------ MODULE MarketBot ------------------------------
(***************************************************************************)
(* The market bot (pkg/domain/market): one loop that buys what players     *)
(* offer cheaply and keeps its own listings of every catalog entry at a    *)
(* quota, against a database that the game and its players use at the same *)
(* time, and an HTTP interface through which an operator stops, starts,    *)
(* restarts, reconfigures and cleans up the bot while a tick may be under  *)
(* way.  One action is one statement or one transaction of the bot.        *)
(*                                                                         *)
(* A key is a catalog entry at one quality grade, with a category the      *)
(* exchange knows.  A player order and its item have one id and one row    *)
(* here; an item that no order refers to is left out, nothing reads it.    *)
(* Prices are small numbers that updatePrices moves freely.  The new       *)
(* listings of a tick fit in one batch.  Counters for the status page and  *)
(* the category cache are left out.                                        *)
(***************************************************************************)
EXTENDS Integers, FiniteSets, FiniteSetsExt, SequencesExt

CONSTANTS
  Keys,         \* catalog entries, one per grade
  Players,
  Prices,       \* unit prices
  BasePrice,    \* ListPrice of the catalog
  Quotas,       \* what listings_per_grade can be set to
  StackMax,
  Durations,    \* for how long players offer
  TTL,          \* orderExpirySecs
  Sentinel,     \* epochSentinelCutoff, the expiry of an order when no clock is known
  MaxBuys,
  Bot, None,
  Ids,          \* order ids, numbers; bound
  MaxTime,      \* bound: the game clock
  MaxEvents     \* bound: faults, offers, sales, repricings, requests and crashes

ASSUME BoundsAssumption ==
  /\ {TTL, MaxTime, StackMax, MaxBuys, Sentinel} \subseteq Nat \ {0}
  /\ TTL <= MaxTime /\ MaxTime + TTL < Sentinel
  /\ Ids \subseteq Nat /\ Quotas \subseteq Nat \ {0} /\ Prices \subseteq Nat \ {0}
  /\ BasePrice \in Prices /\ Bot \notin Players

\* The catalog is a list and None no clock; no offer lasts until the sentinel.
ASSUME DataAssumption ==
  /\ IsFiniteSet(Keys) /\ IsFiniteSet(Ids) /\ IsFiniteSet(Quotas) /\ Quotas # {}
  /\ None \notin Int
  /\ Durations \subseteq Nat /\ \A d \in Durations : MaxTime + d < Sentinel

VARIABLES
  now,          \* the game server's clock
  orders,       \* dune_exchange_orders with a sell order, by id
  paid,         \* the payment logs: completed orders of sellers the bot bought from
  config,       \* runtime config, written to the state file on every change
  clock,        \* the bot's game clock minus now, or None; kept in the cache
  price,        \* e.prices
  pc,           \* where the tick loop is
  job,          \* what the tick holds in its local variables
  op,           \* the operator's request under way: cleanup or restart
  calm,         \* the last list tick, and the time since, saw nobody else (history)
  torn,         \* a query of the clock or a bulk delete has failed (history)
  used          \* events so far, for their bound

vars == <<now, orders, paid, config, clock, price, pc, job, op, calm, torn, used>>

Sellers == Players \cup {Bot}
Order == [owner: Sellers, key: Keys, price: Prices, expiry: Nat,
          stack: 0..StackMax]           \* 0: the item row is missing

NoJob == [snap |-> None, list |-> FALSE, rows |-> {}, bought |-> 0, expiry |-> 0,
          stale |-> {}, tops |-> {}, pending |-> {}]
NoOp == [kind |-> "none", step |-> 0, was |-> FALSE]

Init ==
  /\ now = TTL                          \* the world is older than a listing
  /\ orders = <<>> /\ paid = {}
  /\ config \in [enabled: {TRUE}, quota: {Max(Quotas)}, disabled: {{}}]
  /\ clock = None
  /\ price = [k \in Keys |-> BasePrice]
  /\ pc = "off" /\ job = NoJob /\ op = NoOp
  /\ calm = FALSE /\ torn = FALSE
  /\ used = 0

-----------------------------------------------------------------------------
(* Rows and the clock.                                                     *)

Own == {i \in DOMAIN orders : orders[i].owner = Bot}
Offered == DOMAIN orders \ Own

\* Ids nobody remembers: a payment, a cursor or a list of the tick keeps one.
FreeIds == Ids \ (DOMAIN orders \cup {p.order : p \in paid}
                  \cup {r.id : r \in job.rows} \cup job.stale \cup job.tops)
Lowest(ids) == \A i \in ids, j \in FreeIds \ ids : i < j

Without(ids) == [i \in DOMAIN orders \ ids |-> orders[i]]

Event == used < MaxEvents /\ used' = used + 1
NoFault == UNCHANGED <<used, calm, torn>>
Fault == Event /\ calm' = FALSE /\ UNCHANGED torn
Tear == Event /\ calm' = FALSE /\ torn' = TRUE

Snapshot == [quota |-> config.quota, disabled |-> config.disabled]

gameNow == IF clock = None THEN 0 ELSE now + clock
OrderExpiry == IF gameNow > 0 THEN gameNow + TTL ELSE Sentinel

\* What the two queries of learnGameEpoch return.
BotRefs == {orders[i].expiry : i \in {j \in Own : orders[j].expiry < Sentinel}}
PlayerRefs == {orders[i].expiry : i \in Offered} \cup {p.expiry : p \in paid}

\* The clock after learning from the newest of refs.
Learnt(refs) == IF refs = {} THEN clock ELSE Max(refs) - TTL - now

\* The players' listings are asked only while no clock is known.
LearnOK ==
  clock' = Learnt(IF BotRefs = {} /\ clock = None THEN PlayerRefs ELSE BotRefs)

\* A failed query is no answer: the second may still be asked, or fail as well.
LearnFails ==
  clock' \in {clock, Learnt(IF clock = None THEN PlayerRefs ELSE {})}

learnGameEpoch == (LearnOK /\ NoFault) \/ (LearnFails /\ Tear)

-----------------------------------------------------------------------------
(* The loop.                                                               *)

World == UNCHANGED <<now, config, op>>

\* Run: Init, then Tick whatever the config says.
Boot ==
  /\ pc = "off"
  /\ learnGameEpoch
  /\ price' = [k \in Keys |-> BasePrice]
  /\ pc' = "buyLearn" /\ job' = [NoJob EXCEPT !.list = TRUE]
  /\ World /\ UNCHANGED <<orders, paid>>

\* A minute has passed and the buy tick, the list tick or both are due.
Wake ==
  /\ pc = "idle" /\ config.enabled
  /\ \/ \E l \in BOOLEAN : pc' = "buyLearn" /\ job' = [NoJob EXCEPT !.list = l]
     \/ pc' = "listSnap" /\ job' = NoJob
  /\ calm' = FALSE
  /\ World /\ UNCHANGED <<orders, paid, clock, price, torn, used>>

BuyLearn ==
  /\ pc = "buyLearn"
  /\ learnGameEpoch
  /\ pc' = "buyQuery"
  /\ World /\ UNCHANGED <<orders, paid, price, job>>

AfterBuying == pc' = (IF job.list THEN "listSnap" ELSE "idle") /\ job' = NoJob

\* The rows are those of the moment of the query, however long they are read.
BuyQuery ==
  /\ pc = "buyQuery"
  /\ \/ /\ NoFault
        /\ pc' = "buyRows"
        /\ job' = [job EXCEPT
             !.snap = Snapshot, !.expiry = OrderExpiry,
             !.rows = {[id |-> i, owner |-> orders[i].owner, key |-> orders[i].key,
                        price |-> orders[i].price, stack |-> orders[i].stack] : i \in Offered}]
     \/ Fault /\ AfterBuying
  /\ World /\ UNCHANGED <<orders, paid, clock, price>>

Wanted(r) == r.key \notin job.snap.disabled /\ r.price <= price[r.key]

Payment(r) ==
  [order |-> r.id, owner |-> r.owner, amount |-> r.price * r.stack, expiry |-> job.expiry]

\* Broken: the seller is paid for one piece, whatever the stack.
PayForOne(r) ==
  /\ paid' = paid \cup {[Payment(r) EXCEPT !.amount = r.price]}
  /\ orders' = Without({r.id})

\* The transaction of one purchase: log, debit, delete the order and its item.
Purchase(r) == paid' = paid \cup {Payment(r)} /\ orders' = Without({r.id})

Skip(r) == ~Wanted(r) /\ NoFault /\ UNCHANGED <<orders, paid>>

\* One row of the cursor.  An error of the commit says nothing about its effect.
BuyRow ==
  /\ pc = "buyRows" /\ job.bought < MaxBuys
  /\ \E r \in job.rows :
       \/ Skip(r) /\ job' = [job EXCEPT !.rows = @ \ {r}]
       \/ /\ Wanted(r) /\ Purchase(r) /\ NoFault
          /\ job' = [job EXCEPT !.rows = @ \ {r}, !.bought = @ + 1]
       \/ /\ Wanted(r) /\ Fault
          /\ Purchase(r) \/ UNCHANGED <<orders, paid>>
          /\ job' = [job EXCEPT !.rows = @ \ {r}]
  /\ World /\ UNCHANGED <<clock, price, pc>>

BuyDone ==
  /\ pc = "buyRows"
  /\ job.rows = {} \/ job.bought >= MaxBuys
  /\ AfterBuying
  /\ World /\ UNCHANGED <<orders, paid, clock, price, calm, torn, used>>

-----------------------------------------------------------------------------
(* The list tick.                                                          *)

Lists(to) == pc' = to /\ World /\ UNCHANGED paid

ListSnap ==
  /\ pc = "listSnap"
  /\ job' = [NoJob EXCEPT !.snap = Snapshot]
  /\ calm' = TRUE
  /\ Lists("listLearn") /\ UNCHANGED <<orders, clock, price, torn, used>>

ListLearn ==
  /\ pc = "listLearn"
  /\ learnGameEpoch
  /\ Lists("prices") /\ UNCHANGED <<orders, price, job>>

\* Prices of the entries the bot has orders of may move.
UpdatePrices ==
  /\ pc = "prices"
  /\ \/ UNCHANGED price /\ NoFault
     \/ UNCHANGED price /\ Fault
     \/ /\ \E p \in Prices, k \in {orders[i].key : i \in Own} : price' = [price EXCEPT ![k] = p]
        /\ Event /\ UNCHANGED <<calm, torn>>
  /\ Lists("expire") /\ UNCHANGED <<orders, clock, job>>

ExpiredOwn == {i \in Own : orders[i].expiry < gameNow}

\* No clock, no expiry.
Expire ==
  /\ pc = "expire"
  /\ \/ gameNow > 0 /\ orders' = Without(ExpiredOwn) /\ NoFault
     \/ gameNow <= 0 /\ UNCHANGED orders /\ NoFault
     \/ gameNow > 0 /\ UNCHANGED orders /\ Fault
  /\ Lists("load") /\ UNCHANGED <<clock, price, job>>

\* Broken: the orders that never expire are not counted.
LoadedDated ==
  {i \in Own : orders[i].stack > 0 /\ orders[i].expiry > gameNow /\ orders[i].expiry < Sentinel}

\* The join with items hides an order whose item row is missing.
Loaded == {i \in Own : orders[i].stack > 0 /\ orders[i].expiry > gameNow}

\* Broken: orders of a wrong price are counted although they are to be deleted.
Keepers(k) == {i \in Loaded : orders[i].key = k}

Valid(k) == {i \in Loaded : orders[i].key = k /\ orders[i].price = price[k]}

Missing(k) == IF k \in job.snap.disabled THEN 0
              ELSE Max({0, job.snap.quota - Cardinality(Valid(k))})

\* What the catalog loop finds stale, depleted and missing, in one pass.
Load ==
  /\ pc = "load"
  /\ LET stale == {i \in Loaded : \/ orders[i].key \in job.snap.disabled
                                 \/ orders[i].price # price[orders[i].key]}
         tops == {i \in Loaded \ stale : orders[i].stack < StackMax}
         pending == {[key |-> k, price |-> price[k], n |-> j] :
                       k \in Keys, j \in 1..Max(Quotas)}
     IN \/ /\ NoFault
           /\ job' = [job EXCEPT !.expiry = OrderExpiry, !.stale = stale, !.tops = tops,
                         !.pending = {l \in pending : l.n <= Missing(l.key)}]
           /\ Lists("deleteOrders")
        \/ Fault /\ Lists("idle") /\ job' = NoJob
  /\ UNCHANGED <<orders, clock, price>>

\* The bulk statements: nobody looks at their errors.
DeleteOrders ==
  /\ pc = "deleteOrders"
  /\ \/ orders' = Without(job.stale) /\ NoFault
     \/ UNCHANGED orders /\ Tear
  /\ Lists("deleteItems") /\ UNCHANGED <<clock, price, job>>

\* Broken: adds to the stack what it should be.
AddStack(ids, n) ==
  [i \in DOMAIN orders |-> IF i \in ids THEN [orders[i] EXCEPT !.stack = @ + n] ELSE orders[i]]

SetStack(ids, n) ==
  [i \in DOMAIN orders |-> IF i \in ids THEN [orders[i] EXCEPT !.stack = n] ELSE orders[i]]

DeleteItems ==
  /\ pc = "deleteItems"
  /\ \/ orders' = SetStack(job.stale, 0) /\ NoFault
     \/ UNCHANGED orders /\ Tear
  /\ Lists("topUp") /\ UNCHANGED <<clock, price, job>>

TopUp ==
  /\ pc = "topUp"
  /\ \/ orders' = SetStack(job.tops, StackMax) /\ NoFault
     \/ UNCHANGED orders /\ Fault
  /\ Lists("insert") /\ UNCHANGED <<clock, price, job>>

\* The new rows: row says which listing gets which id.
Inserted(row) ==
  [i \in DOMAIN orders \cup DOMAIN row |->
     IF i \in DOMAIN row
     THEN [owner |-> Bot, key |-> row[i].key, price |-> row[i].price,
           expiry |-> job.expiry, stack |-> StackMax]
     ELSE orders[i]]

\* A transaction that is committed or not, with an error or without.
createListingsBatch ==
  /\ pc = "insert"
  /\ \E ids \in kSubset(Cardinality(job.pending), FreeIds) :
       /\ Lowest(ids)
       /\ \E row \in Bijection(ids, job.pending) :
            \/ orders' = Inserted(row) /\ NoFault
            \/ (orders' = Inserted(row) \/ UNCHANGED orders) /\ Fault
  /\ Lists("idle") /\ job' = NoJob /\ UNCHANGED <<clock, price>>

-----------------------------------------------------------------------------
(* The operator's requests, each on a goroutine of the HTTP server.        *)

Loop == UNCHANGED <<now, paid, pc, job>>

Ask == Event /\ Loop /\ UNCHANGED torn

\* start and stop, and PUT /config: Apply under its lock.
Apply ==
  /\ Ask /\ calm' = FALSE
  /\ \/ \E b \in BOOLEAN : config' = [config EXCEPT !.enabled = b]
     \/ \E q \in Quotas : config' = [config EXCEPT !.quota = q]
     \/ \E D \in SUBSET Keys : config' = [config EXCEPT !.disabled = D]
  /\ config' # config
  /\ UNCHANGED <<orders, clock, price, op>>

\* Both pause the loop first; the cleanup remembers whether it ran.
Begin(kind) ==
  /\ op = NoOp /\ pc # "off" /\ Ask
  /\ op' = [kind |-> kind, step |-> 1, was |-> kind = "restart" \/ config.enabled]
  /\ config' = [config EXCEPT !.enabled = FALSE]
  /\ UNCHANGED <<orders, clock, price, calm>>

\* One transaction, or an error.
Clean ==
  /\ op.kind = "cleanup" /\ op.step = 1
  /\ \/ orders' = Without(Own) /\ UNCHANGED used
     \/ UNCHANGED orders /\ Event
  /\ calm' = FALSE
  /\ op' = [op EXCEPT !.step = 2]
  /\ Loop /\ UNCHANGED <<config, clock, price, torn>>

\* Exchange.Init on the request's goroutine; when it fails the bot stays paused.
Reinit ==
  /\ op.kind = "restart" /\ op.step = 1
  /\ \/ LearnOK /\ UNCHANGED <<used, torn>> /\ op' = [op EXCEPT !.step = 2]
     \/ LearnFails /\ Event /\ torn' = TRUE /\ op' = [op EXCEPT !.step = 2]
     \/ UNCHANGED clock /\ Event /\ op' = NoOp /\ UNCHANGED torn
  /\ price' = IF op' = NoOp THEN price ELSE [k \in Keys |-> BasePrice]
  /\ calm' = FALSE
  /\ Loop /\ UNCHANGED <<orders, config>>

End ==
  /\ op.step = 2
  /\ config' = [config EXCEPT !.enabled = @ \/ op.was]
  /\ op' = NoOp
  /\ Loop /\ UNCHANGED <<orders, clock, price, calm, torn, used>>

-----------------------------------------------------------------------------
(* The game and its players; the end of the process.                       *)

Bots == UNCHANGED <<paid, torn, config, clock, price, pc, job, op>>

Offer(p) ==
  /\ Event
  /\ \E i \in FreeIds, k \in Keys, c \in Prices, d \in Durations, n \in 1..StackMax :
       /\ Lowest({i})
       /\ orders' = [j \in DOMAIN orders \cup {i} |->
            IF j = i THEN [owner |-> p, key |-> k, price |-> c, expiry |-> now + d, stack |-> n]
            ELSE orders[j]]
  /\ calm' = FALSE
  /\ Bots /\ UNCHANGED now

\* An order is withdrawn, bought up or expired by the game: its row goes.
Leave(i) ==
  /\ Event
  /\ orders' = Without({i})
  /\ calm' = FALSE
  /\ Bots /\ UNCHANGED now

\* A player buys one piece of several.
TakeOne(i) ==
  /\ orders[i].stack > 1 /\ Event
  /\ orders' = SetStack({i}, orders[i].stack - 1)
  /\ calm' = FALSE
  /\ Bots /\ UNCHANGED now

\* A tick is short against the unit of the clock.
Advance ==
  /\ now < MaxTime /\ pc \in {"off", "idle"}
  /\ now' = now + 1
  /\ calm' = FALSE
  /\ Bots /\ UNCHANGED <<orders, used>>

\* What the database, the state file and the cache hold stays.
Crash ==
  /\ pc # "off" /\ Event
  /\ pc' = "off" /\ job' = NoJob /\ op' = NoOp /\ calm' = FALSE
  /\ UNCHANGED <<now, orders, paid, config, clock, price, torn>>

-----------------------------------------------------------------------------
BuyTick == BuyLearn \/ BuyQuery \/ BuyRow \/ BuyDone
ListTick == \/ ListSnap \/ ListLearn \/ UpdatePrices \/ Expire \/ Load
            \/ DeleteOrders \/ DeleteItems \/ TopUp \/ createListingsBatch
Request == Apply \/ (\E kind \in {"cleanup", "restart"} : Begin(kind))
                 \/ Clean \/ Reinit \/ End
Game == \/ \E p \in Players : Offer(p)
        \/ \E i \in DOMAIN orders : Leave(i) \/ TakeOne(i)
        \/ Advance

Next == Boot \/ Wake \/ BuyTick \/ ListTick \/ Request \/ Game \/ Crash

Spec == Init /\ [][Next]_vars

-----------------------------------------------------------------------------
(* Properties.                                                             *)

Steps == {"off", "idle", "buyLearn", "buyQuery", "buyRows", "listSnap", "listLearn", "prices",
          "expire", "load", "deleteOrders", "deleteItems", "topUp", "insert"}

\* Every variable of the bot and every row keeps its type.
TypeOK ==
  /\ now \in 0..MaxTime
  /\ DOMAIN orders \subseteq Ids /\ \A i \in DOMAIN orders : orders[i] \in Order
  /\ \A p \in paid : p.order \in Ids /\ p.owner \in Players /\ {p.amount, p.expiry} \subseteq Nat
  /\ config \in [enabled: BOOLEAN, quota: Quotas, disabled: SUBSET Keys]
  /\ clock \in Int \cup {None}
  /\ price \in [Keys -> Prices]
  /\ pc \in Steps /\ DOMAIN job = DOMAIN NoJob /\ DOMAIN op = DOMAIN NoOp
  /\ calm \in BOOLEAN /\ torn \in BOOLEAN

\* Complete listings of the entry k that have not expired by the bot's clock.
Active(k) == {i \in Own : orders[i].key = k /\ orders[i].stack > 0 /\ orders[i].expiry > gameNow}

\* Unless a query of the clock or a bulk delete has failed, the bot has no more
\* active listings of an entry than the highest quota it can be given,
\* whatever ticks, sales, cleanups, restarts, crashes and other failures come
\* between (ListTick counts, then inserts what was missing statements later).
NeverOverQuota == ~torn => \A k \in Keys : Cardinality(Active(k)) <= Max(Quotas)

\* What a player offers is touched by the bot and by the operator's requests
\* only to buy it, and then the seller's log gets at least the price of all
\* that is left of it (buyPlayerListings; expireAndPurgeOrders and cleanup
\* spare it).
SellersWhole ==
  [][BuyTick \/ ListTick \/ Request =>
       \A i \in Offered :
         \/ i \in DOMAIN orders' /\ orders'[i] = orders[i]
         \/ \E p \in paid' \ paid :
              p.order = i /\ p.owner = orders[i].owner
                /\ p.amount >= orders[i].price * orders[i].stack]_vars

\* The listings that meet the promise of a list tick to the entry k.
Stock(k) == {i \in Own : orders[i].key = k /\ orders[i].price = price[k]
                           /\ orders[i].stack = StackMax}

\* What players see of them: by the game's clock, not the bot's.
Visible(k) == {i \in Own : orders[i].key = k /\ orders[i].stack > 0 /\ orders[i].expiry > now}

\* After a list tick during which nobody else did anything and nothing failed,
\* players see of a disabled entry nothing, and of any other nothing but full
\* listings at the current price, unless the bot's clock is ahead of the
\* game's; and they see the quota of them, unless it is behind or unknown (the
\* catalog loop of ListTick and the statements that follow it).
QuotaMet ==
  pc = "idle" /\ calm =>
    \A k \in Keys :
      /\ gameNow <= now => Visible(k) \subseteq IF k \in config.disabled THEN {} ELSE Stock(k)
      /\ gameNow >= now /\ k \notin config.disabled =>
           Cardinality(Visible(k) \cap Stock(k)) >= config.quota

\* "Excluding expired rows means the bot refills those slots on this tick
\* rather than counting them toward the quota while players see them as gone"
\* (exchange.go:802-804): what ListTick counts is what players see.
ExpiredAreRefilled == pc = "load" => \A k \in Keys : Valid(k) \subseteq Visible(k)

=============================================================================
