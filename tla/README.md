# Verification of dapdsm

dapdsm is a set of Go programs that operate Dune: Awakening dedicated servers:
`ds-arrakis` prepares hosts, `ds-bashar` brings up and reconciles a BattleGroup
on Kubernetes, `ds-thumper` rolls binaries and secrets out to hosts, and
`dunemgr` is the operators' console and market bot. This directory models the
parts of it whose correctness depends on order, concurrency or failure in TLA+,
checks the models with TLC and proves some of their invariants with TLAPS.

Contents: [1 Inventory](#1-inventory), [2 Modules and the code](#2-modules-and-the-code),
[3 Runs](#3-runs), [4 Fairness](#4-fairness), [5 Proofs](#5-proofs),
[6 What is not modelled](#6-what-is-not-modelled),
[7 Where code and text disagree](#7-where-code-and-text-disagree),
[8 Plan](#8-plan), [9 How to run](#9-how-to-run).

## 1 Inventory

### 1.1 Components with behaviour of their own

| component | state | operations | talks to |
|---|---|---|---|
| countdown scheduler `pkg/domain/schedule` | `timers` map, the store's schedules bucket, runtime timers | Schedule, Cancel, Pending, Rearm, executeShutdown (on timer goroutines) | broadcast, lifecycle, store |
| status feed `dunemgr/sse`, `probe`, `dunemgr/tui/bridge.go` | hub topics and buffers, poller's change keys and audit cursor, bridge channel | Tick, Probe, Publish, Subscribe, forwarders | store, SSH, terminal program |
| terminal navigation `dunemgr/tui/model.go`, `nav.go` | the bubbletea model: level, cursors, lists, flags, prompts | Update on keys and on replies of commands that run on goroutines | gamedb, item commands, command bar |
| market bot `pkg/domain/market` | orders and items in the game's database, SQLite cache (clock, categories), state file, prices | BuyTick, ListTick, Init, Apply, Pause, Resume, Restart, CleanupListings | game database, operator's HTTP requests |
| grants and items `pkg/domain/grant`, `command/item.go`, `gamedb` | none; rows of the game's database, live state of the game server | Plan, Apply, item gate and edits, persona seed | psql over SSH, message publisher |
| message publisher `pkg/domain/mq` | one file in the broker's pod | token chain, pod discovery, PublishInner, PublishWhisper | kubectl exec, audit |
| avatars `pkg/domain/avatar`, backups `pkg/domain/backup` | exported files, records in the store | Check, Export, Import, Transfer; Create, Restore | gamedb, SSH copies, store |
| BattleGroup upgrade `pkg/domain/battlegroup`, `bgorchestrator`, `broadcast/announce.go` | the BattleGroup resource | Stop, Start, Update, WaitForPhase, Upgrade, Announce | kubectl; an operator that drains and starts servers on its own |
| bring-up and reconcile `dsbashar/cli`, `clusterconfig`, `worldsetup` | ConfigMap and Secret, BattleGroup, database | resolve, promote, worldsetup, image tags, init-db, reconcile | kubectl, jumphost |
| operators, images, host preparation, rollout | cluster objects, files on hosts | sequences of idempotent commands that stop at the first error | SSH, kubectl |
| store `pkg/domain/store` | bbolt buckets hosts, audit, schedules, exports, backups, status cache | one transaction per operation | files |

### 1.2 What is hard, and what makes each component correct

*Countdown scheduler.* Operator calls, timers and the goroutines they start
overlap; the record and the timer of a host are changed in separate steps, with
remote calls between them; the process can end between any two. Correct means: a
timer that can fire is known for its host; a host that looks armed is; a request
that was cancelled or replaced is not run later; a stored request is executed,
cancelled or replaced in the end; a countdown is never run early.

*Status feed.* The poller publishes changes only, through three lossy buffers, to
subscribers that may come late; hosts join and leave the store between a tick's
reads. Correct means: what the poller regards as published is on its way or
known to be lost; order is kept; the screen catches up.

*Terminal navigation.* Every query and edit is a goroutine whose reply comes back
at any time, to a model that has moved on; one flag stands for all queries and
one for all edits. Correct means: the cursor is always on a row; a busy flag has
a cause; an operator who waits sees the rows of the selection and edits the row
that was chosen.

*Market bot.* A tick is a dozen statements against tables that the game and its
players change meanwhile; errors of several are ignored; the operator's requests
run on other goroutines; the process restarts with what the database, the state
file and the cache held; the game's clock is unknown and is learned. Correct
means: never more active listings than the quota; after an undisturbed tick
exactly what the configuration asks for; players' orders untouched unless bought
in full.

*Grants, items and messages.* Presence is read, then something is written, and
the player logs in between; the running game holds a copy of the player and
saves it over the database; the online skill points path and the level
recomputation set what they computed from an older read; all publishes share one
file in the broker's pod, are at most once and may be confirmed to nobody.
Correct means: what was written to an offline player and reported stays; a
confirmed message was evaluated, once, and was the call's own or one that met it in
the pod; an entry is written for every effect and for no other.

*Avatars and backups.* A file, a record and an audit entry are three steps, a
transfer has two hosts to agree with, a restore replaces two files one by one,
and any step may be the last. The terminal takes the next command while one
runs, so calls overlap in one process. Correct means: what the store lists can be
put back; what is put back is what was recorded, of the same build; an entry is
written for every overwrite.

*Lifecycle and upgrade.* Administrators run verbs that overlap on one resource,
whose status an operator writes late; a countdown is shown over a lossy channel
around an action that may fail or be interrupted. Correct means: nothing moves
the image of a running server; an upgrade that succeeds has restarted every server
from the tag it was given; a stop that stands was asked for; k3s stops over a drained group; the players see a
countdown exactly while one runs.

*Bring-up.* A dozen steps that fail and are run again, with nothing but the
cluster to remember how far the last run came. Correct means: one world; "done"
is true as far as the depot goes; the configuration kept is that of the world.

*Pure algorithms.* Binary search and piecewise sums over experience, names to
accounts, JSON-Patch builders, the editing of ini files, category codes and
prices that are rounded and moved. Correct means: they add up, an exact name is
nobody else's, an edit asked for twice changes nothing the second time, no two
categories share a code, a price follows demand between its limits.

`PROJECT.json` lists forty hazards at their lines. These are real as well and
are not in the list for lack of room:

- `schedule.go:172` drops the result of the lifecycle verb: a failed stop still
  deletes the record and is reported as executed.
- `tui.go:21` starts the poller before the screen subscribes; `bridge.go:57`
  subscribes only to the hosts known then.
- `model.go:972`: the reply of a command closes the line the operator is typing;
  `model.go:940`: two `+` before the reload send the same stack size.
- `bot.go:270` trades once at startup before it looks at `enabled`; `bot.go:180`
  takes a state file with zero thresholds and no disabled item for an empty one.
- `exchange.go:1112` deletes expired orders and leaves their items;
  `exchange.go:559` limits the buy query without an order.
- `healpods.go:100` hands its delete to an exec without a pod name, which fails
  (`kube/runner.go:99`): the verb lists stuck pods and heals none;
  `imageload.go:200` finds its port taken by a file server that survived an
  interrupted run.
- `grant_item_backpack.sql:12` holds lines that PostgreSQL does not parse: an item
  for an offline player is never given.

## 2 Modules and the code

Each module is named in `PROJECT.json` with the lines every definition stands
for. `...MC` modules give constants their values for TLC; `...Proofs` modules
hold theorems. Definitions marked as broken, or as mutations, stand beside the
ones they vary and no action uses them.

### 2.1 `Schedule`, `Countdown`: the countdown scheduler

| variable | code |
|---|---|
| `record` | the schedules bucket, `store/schedules.go` |
| `slot` | `Manager.timers` |
| `timer` | `*time.Timer` objects and the `executeShutdown` goroutine of each |
| `call` | operator goroutines inside Schedule or Cancel |
| `todo`, `inline` | the loop of Rearm and the execution it waits for |
| `up`, `crashes` | the process |
| `persisted`, `cancelled`, `crossed`, `failed` | history |

A step is one access to shared state: one store transaction, one critical section
of `Manager.mu`, or the remote verb. Schedule is announce, put, arm; Cancel is
announce, disarm, delete; an execution is get, run, delete, disarm. Time is a
distance that `Tick` shrinks, so no clock is bounded. `Leads` excludes zero, which
`Schedule` refuses. `RearmAtStartup` says what a starting process may do: `core.Open`
(core.go:102) does not call Rearm, the package comment of `schedule` says that a
start does. The runs allow both, or only the former. `ListSchedules` may fail at the
start, which leaves Rearm nothing to do.

`crossed` are the hosts on which calls and executions have met since the pending
request was accepted: a put while another call, an execution or Rearm is at work on
the host, two calls at once, a timer that fires between the put and the arm of a
replacement. The next request accepted on a quiet host clears it. `failed` are the
hosts whose record could not be read or deleted.

`Countdown` is what the service promises, with neither timers nor processes:
accept, elapse, withdraw, begin, finish, cross, halt. `KeepsPromise` states that
`Schedule` implements it, whatever operators do, under `accepted <- persisted`,
`pending` and `left` read from the record, and `running` from the goroutines that have
read one. The service promises less where calls and executions have met, and says
what: what is begun is still the pending request, but perhaps early or a second time,
and finishing it may discard another. Everywhere else it is begun when its time is up,
by one execution, and finishing discards no other request.

Abstracted: the banner players see, the audit entries, the verb (stop or
restart), and whether it succeeded, which the code drops too.

### 2.2 `Hub`, `StatusFeed`: from a host to its badge

`Hub` is `sse/hub.go`: `PublishCopy` takes the subscribers under the lock,
`PublishSend` sends to one of them after it, dropping the event when the buffer
is full. `StatusFeed` instantiates it and adds the tick of the poller step by
step (host list, probe, bg key, health key, audit cursor, prune), the screen's
subscription, one forwarder per topic and the fold of a frame into the model.

The screen is the only subscriber of a topic, and the poller the only publisher: the
notices that `schedule` publishes to the audit topic are left out. A snapshot is one value: a phase, unknown for
a failed probe, or the zero snapshot that `Probe` returns for a host that has left
the store. Abstracted: pod counts (part of the same key), the status cache
bucket, and the end of a session.

### 2.3 `DrillNav`: the terminal's navigation

`m` is the model struct without what is only drawn; `flight` the commands sent
and not yet answered; `stock` the item tables of the hosts. Every key handler of
`model.Update` is an action, and every reply message is one, taken from `flight`
at any position. `careful` is a kind of operator, not code: one who presses keys
only while neither `loading` nor `running` shows.

Abstracted: rendering, scrolling, history, completion, resizing, quitting; the
quality edit goes the way of the stack edit and is one with it. A row carries
where it was read so that properties can compare; no handler looks at it.

### 2.4 `MarketBot`: the market bot

| variable | code |
|---|---|
| `now` | the game server's clock |
| `orders` | sell orders of players and of the bot with their items |
| `paid` | completed orders the bot logged for sellers |
| `config` | runtime config and state file |
| `clock` | the learned clock of the bot, minus the game's |
| `price` | `e.prices` |
| `pc`, `job` | where the loop is and its local variables: snapshot, rows of the cursor, stale ids, top-ups, pending listings |
| `op` | a cleanup or restart on a request's goroutine |
| `calm`, `torn`, `used` | history and bounds |

One action is one statement or transaction of the bot, so that players' sales and
offers, the operator's requests, failures and crashes come between any two. A
statement may fail; a commit that fails may have happened.

Two clocks decide whether a listing is there: `Active` goes by the bot's, which
`learn` sets back to the moment of the newest listing (exchange.go:241), `Visible` by
the game's, which is what players see. `NeverOverQuota` is about the bot's own count;
`QuotaMet` is about what players see and says where the two clocks must agree for it;
`ExpiredAreRefilled` is the comment that takes them for one, and is violated.

Abstracted: a key is a catalog entry at one grade with a category the exchange
knows; an order and its item are one row with a stack (0 when the item is
missing); prices are two small numbers that move freely, so the floors and
multipliers of `pricing.go` are a choice; new listings fit in one batch of 100;
a tick is short against the unit of the clock. Buying compares with the same
price the bot lists at, which the code does up to its threshold. The category
cache, the detection of the exchange, the status counters and the log stream
are left out.

### 2.5 `Players`: grants, items and messages

| variable | code |
|---|---|
| `db` | the player's rows in the game database |
| `live`, `online` | the running game's copy, from login to logout |
| `file` | `/tmp/dunemgr-mq-publish.erl` and `/tmp/dunemgr-whisper.erl` in the broker pod |
| `job` | a call of `give`, `item` or `whisper`, with its local variables |
| `sent`, `wrote`, `met`, `unlogged`, `excused` | history |
| `audit` | the audit bucket |

One action is one psql statement, one line of the shell script in the pod, or one
audit entry. `Plan` and `Backend` are `grant.go`'s choice of transport on the
presence of the moment, `Gate` is `itemGate`, and `PutExpr`, `GetExpr`, `Eval`,
`RemoveExpr`, `Answer` are the script of `mq.go:409-438`. A balance is the set of
the calls it contains, so adding and setting differ while the amounts, which are
in `CharXP`, do not matter. The game is external: it loads at login, saves at any
time and at logout, and takes commands with the token it knows.

Publishes overlap in the pod as they like: nothing in the code keeps them apart.
`met` are the calls between whose write and read of the file another call of the kind
wrote it; of those the properties say what is left, that one of the calls that met was
evaluated. The store may refuse an audit entry, whose error the code drops
(grant.go:310); `unlogged` keeps the entries that were written and not taken.
`Faults` are what may go wrong: a statement or an exec is refused, its answer is lost,
the store does not take an entry. The insert of `GrantItemDB` always fails (section 7).

### 2.6 `Archive`: exports, transfers, backups and restores

`exports`, `pairs` and `records` are files and buckets on the workstation,
`remote` the pair in each host's directory, `game` the hosts with a character,
its presence and the build. A call is one verb of a script, one round trip or
file operation per action, in the order of `avatar.go`, `transfer.go`,
`create.go` and `restore.go`; with `Faulty` every step may fail or be the last, and
the store may refuse an audit entry, whose error the code drops (avatar.go:70,
restore.go:78). The calls of a script overlap as they like: the terminal takes `:`
while a command runs (model.go:768, 897, 724) and runs it on the one open store.
`Starts` are the scripts and the states of the hosts they start from. A key is the
second of the call's stamp; `MaxSeconds` bounds the clock, and two calls may take one
second.

History: `crossed` are the calls whose pair on the host another call wrote to while
they used it, `overtaken` the calls whose host was patched after its checksum was
read, `unlogged` the entries the store did not take; `Twice` is a key that two calls
took. The properties say what holds of these too: of a crossed pair both files are
there, though not of one run of the wrapper. The transfer procedures of the database
are external and raise for a player who is online. Not modelled: a remote command
that goes on after its call was killed, and a copy that reads a file while it is
written.

### 2.7 `Lifecycle`: verbs, upgrade, countdown

`cr` is `spec.stop` and the image tags, `pod` the servers, `report` and `phase` the
servers' readiness and the phase as the operator last wrote them into the status, `call` the invocations, `board` what the players
were last shown. Each action is one kubectl or wrapper round trip, which works,
fails, or fails after it took effect. `Restart` is stop and start; an upgrade is
stop, gate, read, patch, start, gate; `pre-shutdown` waits for the phase and then
looks at the pods; the vendor's update stops and starts the group in two steps and can
be killed between them; `heal` lists, and its deletes fail. An announced action runs inside
`PublishShutdownAnnounce`, `Announce` and `Fail`, which takes the countdown back.

History: `alone` (no other call ran during this one), `steady` (no server on its
way up when the upgrade patched stop, nor until it patches start) and `excused`
(a message was lost, a failed publish had been shown, a wait timed out, a pod
listing failed). Properties are about calls these do not rule out: the code makes
no promise to the others, and the model shows what happens to them. The operator
and the vendor's wrapper are external; a heartbeat of the gate that reads a
status which does not satisfy it changes nothing and is no action. A map starts at the
placeholder or at the tag of an older revision, and the latter stays
(imagetag.go:36-38).

### 2.8 `BringUp`: a cluster from a configuration

`config`, `secret`, `worlds`, `images`, `http` are what the cluster and the jump
host hold; `run` is one invocation with its resolved configuration. The actions
are the steps of `bringup.go` in order: resolve and promote, the gate on existing
worlds, namespace and three templates, the images of two depot directories over
a file server on one port, image tags, database, patches, ports, always-on maps.
`Abort` ends an invocation before or after any step, and it is run again, by
either of two administrators. `overlapped` and `overruled` are history. A depot is
not there, is there without the image tars of the battlegroup (`tars`), or is whole;
`Stage` completes it or replaces it by that of another revision, after which nodes
have none of its images and a world's tag is an older one, which `ReconcileImageTags`
keeps. That no bring-up runs meanwhile is an assumption: the two are verbs of
different programs, run by hand one after the other. The import refuses an empty
stream.

### 2.9 The pure algorithms

Operators with recursive functions and no variables: `CharXP` (levels, points, intel,
tracks: `charxp_calc.go` and the statements), `PlayerRef` (`resolve.go` and the
search), `CRPatches` (`patches.go`, `sets.go`, `ports.go`, `imagetag.go` and RFC 6902),
`Pricing` (`pricing.go` and the price updates of `exchange.go`), `Categories` (codes
and masks of `pricing.go`) and `IniFile` (`iniconf`, `gameini`).

Four modules give them inputs and say what they promise: `Awards`, `Lookup`, `Edits`
and `PriceWalk`, each with the one variable of `Input`; a state is an input, and a
price is one that ticks on. The promises are stated against definitions written
another way: a walk for the search, rewards that sum up for the piecewise function,
patches applied and asked for again, files compared line by line. `Algorithms` puts
the four together for TLC and adds the codes of `Categories`, compared in pairs of
paths; the proofs take each of the four by itself (`GrantSpec`, `CrowdSpec`,
`EditSpec`, `PriceSpec`).

What is assumed of the inputs is stated where they are declared, so that TLC evaluates
it. `SettingsAssumption`: a file is any sequence of lines, one at least, and `SetKey`
has refused an empty section or key. A key is what stands before the first `=`, so it
holds no `=` and starts with no `;` or `+`; a value has no blanks at its ends; and no
line is `[]`, which is a header to `currentValue` alone. `PatchingsAssumption`: the
maps of a resource are distinct, and each set has `dedicatedScaling`, `arguments` and
`envVars`, as the vendor's template has; the new address is not empty, the new tag is
not the placeholder. `LimitAssumption`: the search may return two rows (it returns 200).
Floats are taken as exact.

## 3 Runs

| run | question | bounds | result |
|---|---|---|---|
| `schedule_concurrent` | do map, timers and records agree in every interleaving, and does the manager implement `Countdown`? | 1 host, 2 callers, 2 requests, 3 timers, leads 1 and 2, 1 crash, a start with and without Rearm, failing store | holds |
| `schedule_cancel_race` | is a cancel that returns success safe, as its comment says? | 1 of each | violated |
| `schedule_restart` | are stored requests re-armed on startup, as the package comment says? | 2 hosts, 1 caller, 2 requests, 2 timers, 1 crash, no Rearm | violated |
| `feed` | is what was published on the screen or on its way? | 1 host, buffers of 1, 1 change, 2 audit entries, late subscription | holds |
| `nav` | does a waiting operator see and edit what was selected, and are cursor and flags sound for one who does not wait? | 2 hosts, 3 players in 2 rosters, 4 items, 1 edit, 1 sort; or 1 player with 2 items and 2 replies outstanding | holds |
| `market` | quota, undisturbed ticks and sellers, with anything in between | 1 key, 1 player, 2 prices, quotas 1 and 2, 3 events, clock to 2 | holds |
| `market_clock` | are the slots of expired listings refilled, as a comment says? | as `market` | violated |
| `players` | do offline writes stick, is a confirmed message one's own, does the audit log tell? | 2 calls of any verb that overlap, 1 login, 4 clusters, refused and lost answers, failing store | holds |
| `archive` | can what is recorded be put back, and is it what was recorded? | 2 hosts, 2 calls on characters or 3 on backups that overlap, every step may fail, 2 seconds, 1 session, 1 patch | holds |
| `algorithms` | do the algorithms keep their promises on every small input? | tables of 5 levels, names of 2 letters, 3 players, 3 sets, files of 4 lines, 12 items | holds |
| `lifecycle` | what do overlapping verbs leave behind, and what are players told? | 2 calls, 2 servers, 1 fault or crash | holds |
| `bringup` | one world, and is "done" true? | 2 administrators, 3 runs, 2 nodes, 1 map, 2 names, a depot with or without tars or of another revision | holds |

Why these bounds are enough to be interesting. The scheduler's map has one entry
per host and hosts share nothing but the lock and the queue of Rearm, so one host carries every race;
three timers let an old one execute while its replacement fires and a third is
armed. A buffer of one drops sooner than one of 16 and has the same two cases,
room and no room. Two hosts that share a player are the smallest world in which
a reply of one host can pass for another's; two items in one inventory are the
least that a deletion can shift a cursor in. One key and a quota of two let the
bot be one short, one over and at its quota; three events are, for example, a
failed commit, a crash and a sale in one tick. Two calls on a player are a grant
and what overwrites it; one login is the race, and what a second login adds is
another copy. Three calls of `archive` are two backups and a restore that may meet
both; two seconds let two of them share a stamp or not. Two lifecycle calls are any pair that overlaps, and one that runs alone
after another has left something. Three bring-ups are one that fails, one that
overlaps it or not, and one that must repair. A file of four lines has room for two
sections or for a live entry, a comment and an addition of one key; three sets of a
resource are one before and one after the set that changes; a search limit of two
cuts a crowd of three. Bounds are named in each module's CONSTANTS.

Symmetry is used only in runs that check safety. Deadlock is checked except
where the system may rest: a stopped bot that has used up its events, calls that
have all returned, and inputs that have no next state.

### 3.1 What the violated runs show

- `schedule_cancel_race`: `executeShutdown` reads the record (schedule.go:165)
  and runs the verb (172) without another look. A cancel between them deletes
  the record, returns nil, and the host goes down.
- `schedule_restart`: the package comment (schedule.go:4-5) says that pending
  shutdowns are re-armed on startup. `core.Open` (core.go:102) builds the manager and
  never calls Rearm, nor does anything else but a test: a request stored by a process
  that ended stays pending and is never executed.
- `market_clock`: the comment at exchange.go:802-804 says that slots of expired
  listings are refilled "rather than counting them toward the quota while players see
  them as gone". The tick has set the clock back to the moment of its newest listing
  (exchange.go:241), by which that listing has not expired, whatever players see.

### 3.2 Mutants

Every property of a passing run is paired with a change to the modelled code that
it must notice: a lost stop of the old timer, an execution that forgets to disarm,
a key stored without a publish, a clamp forgotten on reload, a payment for one
piece of a stack, a presence check that is dropped, one file for grants and
whispers, a record named without the second, a checksum that is not compared, a
restart that only stops, a gate satisfied by one server, a name that is not
compared, a template order that puts the resource first, an off-by-one in the
search.

## 4 Fairness

*Schedule*: weak fairness of each caller's steps, each timer's steps, Rearm,
Start and Tick. The Go scheduler runs every goroutine, a runtime timer fires, the
lock is held briefly, and a supervisor or an operator starts the process again.
Operators need never call. `ExecRun` is fair as far as the remote command returns: it runs
over SSH with a background context and no timeout, and one that never returns is
outside this assumption.

*StatusFeed*: weak fairness of the poller, the subscription, each forwarder and
the program's loop; a probe has a timeout of 15 s. The world need not change.

The other modules state no liveness. An SSH call of the terminal and of the
commands has no timeout, so no reply can be promised; the bot's promises are
about what a tick leaves, not that one happens; a bring-up or an upgrade that
failed is run again by a human or not at all.

`ArmedResolved` holds for every operator and every start. `StoredIsResolved` is about
a process that lives, on a host where calls and executions have not met and whose
record could be read and deleted: without Rearm a restart arms nothing of what it
finds, which `schedule_restart` shows under the same fairness.

## 5 Proofs

The theorems hold for every value of the constants; TLC checks the same
properties on the runs, and the proofs remove the bounds.

### 5.1 `ScheduleProofs`

For any sets of hosts, callers, requests and timers, any positive leads, any
number of crashes, and every setting of `RearmAtStartup` and `StoreMayFail`:
`TypeCorrect` (`TypeOK`), `TimersNotLeaked` (`NoLeakedTimer`),
`ArmedTimersLive` (`ArmedIsAlive`), `NeverResurrected` (`NoResurrection`). The
assumptions are those named in `Schedule`.

The inductive invariant is `IInv == TimerInv /\ OtherInv`. Neither `NoLeakedTimer`
nor `ArmedIsAlive` is inductive: that arm and disarm reach the right timer needs
both at once, that a free timer carries nothing (`IdleTimer`), and that a timer in
use has a host. `StoppedAt` says what stopping does to every timer; `ArmKeeps`,
`DisarmKeeps`, `ExecDisarmKeeps` and `MoveKeeps` show the four ways a step changes
timers to keep `TimerInv`, and `StepIInv` goes through the actions.
`NoResurrection` is an action property and needs more: a request that a call is
about to store has not been stored before (`PutFresh`), so no step can bring a
request back that is gone (`StepGone`).

Its second part proves that `Schedule` implements `Countdown` (`PromiseKept`, which
states `KeepsPromise`), for any operators and any number of hosts. Beside `IInv` it
needs two invariants of every host: `CleanInv` says that a goroutine between its verb
and its disarm still names a request that was accepted, and `DownInv` that a process
that has ended left only the store, on which rests that Rearm finds no timer. The rest
is about a host that is not `crossed` (`ApartInv`, host by host `ApartOn`): one
execution is at work there at most (`ExecAlone`), one call (`CallAlone`), and neither
beside a call about to arm (`ArmAlone`) or a record still to rearm (`RearmAlone`); and
what counts down is never ahead of the stored deadline (`NotEarly`: the timer counts
from later than the record does, which is why it never begins early). A step that
could break one of these either marks the host or finds it quiet (`AnnounceApart`,
`PutApart`, `ArmApart`, `FireApart`). `StepPromise` then maps each action: a put is
Accept, a deletion by a cancel Withdraw, the read of a record Begin, the deletion after
the verb Finish, a second call or a timer that fires into a replacement Cross, the end
of the process Halt, Tick is Elapse, and the others are stutters.

### 5.2 `LifecycleProofs`

For any calls and servers, any number of faults and crashes, all five properties
of the run: `StopIsAlwaysAsked`, `PlayersAreAlwaysTold`, `TagsAlwaysMoveDrained`,
`UpgradedAlwaysRestarted`, `ShutdownIsAlwaysDrained`. What they say is conditional,
as the properties are: the players are told by a call that met no other and whose
messages were neither lost nor doubtful, and of an interrupted one only that they were
told before; the two theorems on upgrades are about one that met no other call and no
server on its way up; and an upgrade that succeeds leaves a map at an older tag at that
tag. The first is about any overlap: a stop stands only where it was asked for or where
a restart, an upgrade or the vendor's update ended between its stop and its start.

`ShapeInv` says which fields the records have, so that updates mean what they
say, and `VerbInv` which round trips belong to which verb. `StepFrames` shows
that a step of a call is one of a running call and leaves the others alone;
with it `AloneInv` follows: while a call is alone no other runs (`CallMeets`: a call
that begins ends the loneliness of the others, `UnsettleCalls`: a server that comes up
ends their steadiness). On these rest
the four invariants behind the properties: `StopInv` (a standing stop has a call
that was to leave it, failed on the way, or will start again), `ToldInv`,
`DrainInv` (a pre-shutdown has stopped the group before it waits), and
`UpgradeInv`, which follows an upgrade that met nobody through its round trips.
The interesting part is the last: the status lags behind, so the first gate alone
does not say that no server runs; that a ready server is already reported when
the upgrade stops (`Settled`) and none comes up since (`steady`) has to be
carried to the gate, and past the second patch that only pods of the new tag can
be ready or reported.

### 5.3 `BringUpProofs`

For any administrators, nodes, maps and names and any number of runs, all three
properties of the run: `AlwaysOneWorld`, `ConfigAlwaysDescribesWorld`,
`DoneAlwaysMeansUp`.

The invariant is `SerialInv`: while no two runs overlapped, at most one is active
(`Sole`), there is at most one world with its templates created in order
(`WorldInv`), the cluster's configuration is the world's (`ConfigInv`), and a run
has behind it what its point says (`RunOf`). None of the parts is inductive
alone: that the gate keeps a second world out needs that nobody else is between
gate and creation, and that "done" is true of a world an earlier run left half
created needs that each later step finds the resource, which is created last. `Fetched`
says which images a run has behind it, those of the battlegroup only where the depot
has its tars, and `OutdatedKept` that the depot of another revision, which takes the
images away, comes to no run under way. Accordingly `DoneAlwaysMeansUp` promises the
images of a depot that has tars, and a tag that is not the placeholder.

The second half of the module is `EditsAlwaysSettle` (`EditsSettle`), for every
resource, wish, file, section, key and value. What it has to overcome is that `After`
and `Concat` are recursive functions: that there is such a function at all is shown by a
minimal counterexample (`StatesExist`, `JoinedExist`: among the lengths to which none
can be built there would be a least), and from then on only its steps are cited
(`AfterSteps`, `ConcatSteps`; `ConcatIs` says where each operation of a joined list
comes from, and that their order is that of the parts).

The patches fall into three classes. Operations on whole members, each another one
(`WholeMembers`: scheduler, image tag and scaling), find what was in the resource as it
was read, because no earlier operation is about their member (`UntouchedStays`). The two
ports of a set are edits of one array, of which the second meets an array the first may
have made longer (`AskedPuts`, `PortStep`): it finds its place because the entries of its
own prefix are still where they were (`OtherPortStays`). The variables of a set are
followed through the whole list: after n operations exactly those that one of them was
about have their new value (`VarsFollow`), which holds for the address and the identifier
together although they are made by two walks.

A file is edited in one of three ways (`KeyIsRewritten`, `KeyIsInserted`,
`BlockIsAppended`), and each leaves the entry as the last line that mentions the key in
the section (`IsSet`). From that alone follow both promises: asked again, the line is
rewritten to what it is (`OnceIsEnough`), and a reader finds the value (`ReadBack`),
unless a live entry stands before the line that was rewritten (`Shadowed`): the writer
takes the last mention and the reader the first live one.

### 5.4 `PlayersProofs`

For any calls and clusters and any number of faults and logins, all three
properties of the run: `ConfirmedIsOwn` (`OwnMessageOnce`), `AuditAlwaysMatches`
(`AuditMatchesEffects`) and `OfflineWriteAlwaysSticks` (`OfflineWriteSticks`), however
calls overlap. For calls that met in the pod the first two promise less, because the
code does (mq.go:414): that one of those who met was evaluated. An entry counts whether
or not the store took it, since its error is dropped.

`VerbInv` says which points belong to which verb and `FileInv` whose message may
be in which of the two files; `StepFrames` shows that a step of a call leaves the
others alone. On these rest three invariants. `PubInv`: between writing the file and reading it
a call finds its own expression there or has met the one that replaced it, what it has
read is its own or of a call it met, and its count of evaluations says whether it is
behind the evaluation. `AuditInv`: what a call
changed is in the log or about to be (`AuditOf`), and each entry is of a call that
did it (`EntryInv`). `StickInv`: a call that passed the presence gate is excused or
the player is still offline (`GateOf`), and what an unforced call wrote is kept
(`Kept`): the database has it, so has the game if the player is in it, and a
recomputation of the level that is about to be written (`Pending`) knows of it.
The last part is the one a test would miss: what undoes a grant is a call that
read before it was made.

Two more theorems are about what a grant comes to and to whom. `GrantsAlwaysAddUp`
(`GrantsAddUp`), for every experience table of any length and any bounds: the binary
search is a recursive function of two arguments, which exists by a minimal
counterexample on the length of the interval (`SearchExists`), and which keeps the
highest level reached between its ends (`SearchFinds`, again by the shortest interval
on which it would not). With the level, the sums follow from the arithmetic of the caps
(`AwardsGo`), and the rewards from the pieces of the function (`IntelAddsUp`).
`ExactNameAlwaysWins` (`ExactNameIsNeverAnother`), for every crowd, every order, every
reference and every limit above one: a name that equals the reference is also like it
(`ExactIsLike`), so a lone row is the exact one unless the limit has cut that off, and
a limit above one leaves no lone row among several (`LoneRow`). With a limit of one the
theorem is false.

### 5.5 `ArchiveProofs`

For any hosts, scripts, sessions and patches and any failures and ends of the
process, all four properties of the run: `ListedIsAlwaysThere`
(`RecordsKeepTheirFiles`), `AlwaysSameBuild` (`NeverAcrossBuilds`),
`AlwaysAsRecorded` (`PutBackAsRecorded`), `OverwritesAlwaysAudited`
(`OverwritesAreAudited`). `ArchiveAssumption` says that the mark for "nothing" is
no content of a file.

`BaseInv` joins `ShapeInv` and `VerbInv`, which says which points belong to which verb.
`TypeInv` is what a call can hold, a pointer to a file with the key it was made for.
Calls overlap, so nothing keeps two of them from one path but the second in it:
`StepStays` shows that no step writes a file that is listed unless its key was taken
twice (`Twice`, which only grows: `TwiceStays`), and `OtherPhase` that what a call has
behind it outlives the steps of others, unless they took its key or crossed its pair on
the host. `ArchiveInv` is the invariant behind the first theorem: `FilesInv` for what
is listed, and `PhaseOf` for what a running call has behind it, up to the pair on the
host being the record's when the wrapper loads it. `RanInv` carries what every
overwriting statement met, `LastInv` where a character comes from, and `LogInv` what
was noted, taken by the store or not; each needs `ArchiveInv` at the moment of the
statement only.

### 5.6 `MarketBotProofs`

For any catalog, players, quotas and prices and any number of events, failures and
crashes, all four properties of the market run: `SellersAlwaysWhole` (`SellersWhole`),
`BotTypeCorrect` (`TypeOK`), `BotNeverOverQuota` (`NeverOverQuota`) and `BotQuotaMet`
(`QuotaMet`); and, for any catalog, price and sequence of ticks, `PricesAlwaysFollow`
(`PricesFollowDemand` of `PriceWalk`). `BoundsAssumption` says that the bot is none of the players, that the bounds are positive
and that the sentinel expiry lies beyond any clock and any listing's life;
`DataAssumption` that the catalog, the ids and the quotas are finite, there is a quota, and
no player's offer lasts until the sentinel.

The invariant behind the first theorem is about what a tick remembers while everybody
else moves on. `RowsInv`: a row the buy tick has fetched is of a player, and while its
order stands the order has the same owner and price and at most as many pieces, so that
paying for what was read pays for all that is left. `OwnInv`: what the list tick is about
to delete or fill is the bot's own or gone. `PaidInv`: an order that was paid for is not
there, so that a payment found after a step was made by it. Rows change in four ways: they
go (`ShrinkKeeps`), stacks are set (`StackKeeps`), rows come (`GrowKeeps`), one is bought
(`PurchaseKeeps`).

`TypeInv` is `TypeOK` with what the ids in the tick's local variables are. `QuotaInv` is
behind the quota and holds while no query of the clock and no bulk delete has failed.
`ClockInv`: the learned clock is below the sentinel by a listing's life, or it is at the
sentinel or beyond and no own listing carries a date. `DateInv`: all dated own listings
share one expiry, and once the tick has learned it is the present clock plus the life of a
listing, so that what was counted as active is what will be. With both, `CountInv` can say
what the tick may rely on between counting and inserting: what it counts does not exceed
the highest quota, nor does that less what is stale plus what is coming; stale rows are
gone before anything comes. It is needed at every point between the two, as sales, the
cleanup and restarts come there and only take away. `CalmInv` follows an undisturbed list
tick from its snapshot: the configuration is what it read (`CalmParts`), each statement has
done its part (`Ready`), and at the end every entry is as promised by the bot's clock
(`Met`). From that follows what players see: where the bot's clock is not behind the
game's, all it counted as active is visible, and where it is not ahead nothing else is.
`Inserted`
takes a bijection from the new ids to the pending listings, which is what the rows of
`INSERT ... RETURNING` come to one by one.
`MaxExists` gives the largest of a finite set of numbers by well-founded
minimality; `FewerCount`, `MissingCount` and their like count sets.

Prices rest on facts about `roundPrice` for every number: the result is off by half a step
at most and stays on its side of the boundaries between steps (`RoundedPrice`), so rounding
is monotone even where the step changes (`RoundMono`); a tenth more is a higher price above
40 (`Risen`) and a twentieth less a lower one above 110 (`Fallen`). `Clamped` keeps the
direction, `Updated` keeps half the floor when the market's minimum pulls, and `PriceInv`
is the invariant: a price is the base price, with which the bot starts and which an
override may contradict, or it lies within the limits. `ItemsAssumption` is all that is
assumed of the catalog: its numbers are not negative. The theorem is about `PriceSpec`,
the part of `Algorithms` that starts with a price; of its other inputs the property says
nothing.

### 5.7 `StatusFeedProofs`

For any hosts, capacities of the buffers and numbers of changes and audit entries:
`FeedTypeCorrect` (`TypeOK`, which bounds every buffer and says that it holds frames of
its own topic), `AuditShownInOrder` (`ActionsInOrder`) and `PublishedReaches`
(`PublishedIsOnItsWay`).

The order of the audit entries is a property of four places at once. `OrderInv` follows
the entries of a host from the screen back to the poller: what is shown is older than
what waits in the output channel (`OutOrder`), that older than what waits in the host's
buffer (`ChanOrder`), that older than what is being sent (`SendOrder`), and none is newer
than the cursor, which each publish moves first. Dropping a frame at either buffer keeps
it, and so does a poller that starts to publish before anybody has subscribed. `WireInv`
keeps the topics apart, `PollInv` says that the cursor is set before it is used and stays
within the log. The lemmas `Step...` take the actions one by one.

`PublishedIsOnItsWay` names the newest frame of a host wherever it is (`NewestIs`): being
sent, last in the host's buffer, last of its kind in the output channel, or shown. Given
`IInv` it is inductive by itself, host by host (`Published`): only a publish puts a frame
before the others (`BgPublished`, `SendPublished`), a forwarder takes the oldest frame of
the buffer to the end of the channel (`ForwardPublished`), the screen the oldest of the
channel (`ShowPublished`), and a frame that does not fit makes its host one of the `lost`.

### 5.8 `DrillNavProofs`

For any hosts, rosters, items, page sizes and stack sizes, and any number of keys,
commands in flight and edits, all four properties of the run: `SpecCursorInBounds`,
`SpecBusyTellsTheTruth`, `SpecWaitingSeesSelection`, `SpecEditHitsItsRow`. The first and
the first half of the second are about every operator, the rest about the one who waits.
`NavAssumption` says what the store and the hosts can hold.

`InBounds` is the first property with the count of each level written out. `BusyInv` keeps
a cause of the right kind in flight behind each flag; the step to watch is `EditDone`, which
ends one cause and starts the other. `CalmInv` is the invariant of the operator who waits:
at most one task is in flight, and it was asked for by the selection that is still there
(`TaskOf`), so that its reply fits; every level down to the one shown carries what is
selected above it (`Shown`), which is more than the screen shows, since going up uncovers
the list above; and an open prompt is on the row under the cursor (`PromptInv`). `Shown`
also says that the model's idea of the player (`cur`, which comes with a reply and not with
a key) agrees with the row under the cursor as soon as there is an inventory to descend
into: without it the item query would be of another player. That re-sorting shows the
same rows rests on `SortExists`, which constructs the sorted order, and `SortedRows`. The
keys are grouped by what they do (`KeyKeeps` sends nothing, `KeySends` sends one task), the
replies go through `Replied`, and a step of a goroutine through `TaskMarks`.

### 5.9 What only TLC checks

The liveness properties (`ArmedResolved`, `StoredIsResolved`, `HealthReconciles`,
`BgReconcilesUnlessLost`): liveness under fairness and ENABLED are out of the prover's
reach. The three runs that expect a violation. And of the invariants
`CategoriesKeptApart` alone: it is about fixed tables and has no constants,
and the run visits every path that the tables have, so that nothing is left to prove.

## 6 What is not modelled

`PROJECT.json` names every part with its status. Left out for good: rendering and
completion, flag parsing and help, quoting and manifests, catalogs, tables and
statistics queries, wrappers of single commands (skopeo, steamcmd, public IP, token
middleware), and build metadata; they keep no state and nothing runs beside
them. The host preparation, the installation of operators and the rollout are
straight sequences of idempotent commands over one host that stop at the first
error and are run again; their outcome, a host with a staged depot, is an input
of `BringUp`. The end of a terminal session (cancelled subscriptions), the status
cache bucket, the bot's category cache, its detection of the exchange, status
counters and log stream are the parts of modelled components left out.

## 7 Where code and text disagree

Three disagreements are runs (section 3.1). These came up while modelling; the
models contain the code's side.

- `schedule.go:174`: the cleanup of an execution deletes whatever the host's
  record is by then, against `store/schedules.go:12`: a request scheduled while
  the verb ran is discarded. `Countdown` allows it on a host where calls and
  executions have met.
- `imagetag.go:36-38` rewrites the placeholder only, so the upgrade of a group at the tag
  of an older revision changes no image, restarts the group and prints
  "upgraded to" the new one (`cli/upgrade.go:61`).
- The command line opens while a command runs (model.go:768, 897, 724) and the two share
  one store and one directory per host. Two backups of one second share a key; the
  backups and restores of a host mix the two files of the pair on it (create.go:44-71,
  restore.go:55-67), so that a recorded pair may be of two runs of the wrapper.
- Audit entries the store does not take are lost without a word (grant.go:310,
  avatar.go:70, restore.go:78).
- Publishes share one file in the broker's pod (mq.go:414-416), so one call may evaluate
  and report another's message.
- `heal-stuck-pods` deletes nothing: it runs `kubectl delete` through `Exec` with an empty
  pod name (healpods.go:100-103), which the runner refuses (kube/runner.go:99).
- The statement of `GrantItemDB` has two `//` lines (grant_item_backpack.sql:12-13), which
  PostgreSQL does not parse; psql prints nothing, and the code reads the empty answer as
  a full bag (gamedb/grant.go:32-35). An item for an offline player always fails.
- `poller.go:72` stores the bg key before the publish, so a frame dropped by a
  full buffer is not sent again, against `tui/bridge.go:31-32`.
- `model.go:991` accepts replies whatever is selected when they arrive, against
  `docs/dunemgr-tui.md:132-133`.
- `exchange.go:241` sets the clock back to the newest listing on every tick,
  against the comment at 185-187; a clock learned from payment logs that carry
  the sentinel expiry is never corrected (211).
- `exchange.go:1047` says "Don't go below our floor" and averages with the
  minimum, which can go to half the floor; prices up to 40 never rise and prices
  up to 110 never fall, since the step is rounded away; the configured minimum
  and maximum do not apply to graded listings.
- `categoryFor` (exchange.go:510-538): an unknown segment gets a guessed code and
  a path of unknown segments only is never listed.
- `iniconf.go:27`: `SetKey` rewrites the last mention of a key, which may be a
  comment below the live entry; the live one stays.
- `imagetag.go` cuts at the first colon, so an image of a registry with a port
  keeps the placeholder; `sets.go` replaces a `dedicatedScaling` that may be
  absent, patches only the last of two sets of a map and keeps an empty
  partition list; `ports.go` appends to `arguments` that may be absent.
- `bringup.go:341` lists the tars with `ls ... || true`: a depot without them loads
  nothing, silently, and the bring-up says done, as it does over a world at an older tag;
  `clusterconfig` does not keep SKIP_INIT_DB and
  SERVER_PASSWORD_FILE, and a rerun with another FLS token replaces the Secret
  and not the world's.
- `announce.go:82` publishes the cancel under the context that was cancelled.
- A pod listing that fails counts as drained (preshutdown.go:108).
- `give` prints "grant ok" for a publish nobody confirmed (give.go:155).
- A host removed between the tick's host list and its probe is published as
  reachable from the zero snapshot (poller.go:68) and stays so on the screen.

## 8 Plan

The planned modules are all there: Schedule with Countdown, Hub and StatusFeed,
DrillNav, MarketBot, Players, Archive, the algorithms, Lifecycle, BringUp. So is that
of the proofs: every safety property of a run that holds is a theorem, but for one about
constant tables (5.9). What would come next is more of the system: a second subscriber
of the hub and the second publisher of its audit topic (the notices of `schedule`), and an environment of the terminal that adds and removes hosts.

## 9 How to run

    tlc -workers 2 -config ScheduleConcurrent.cfg ScheduleMC
    tlapm ScheduleProofs.tla

Each entry of "runs" in `PROJECT.json` names its module and configuration. The
longest takes about two minutes with two workers; `BringUpProofs` takes seven to prove
and each other proof module less than four.
