------------------------------- MODULE DrillNav -------------------------------
(***************************************************************************)
(* The modal drill navigation of the terminal program (tui/model.go,       *)
(* tui/nav.go): HOSTS > PLAYERS > INVENTORY > ITEM, the lazy load of each  *)
(* level, the inline edits of an item and the command bar.  Update never   *)
(* blocks: every query and every edit is a tea.Cmd that runs on its own    *)
(* goroutine, and its reply is one more message, in whatever order the     *)
(* goroutines end.  A reply names neither the host nor the player it was   *)
(* asked for; here a row carries where it was read, so that a property can *)
(* tell, and the handlers never look at it.                                *)
(*                                                                         *)
(* m is the model struct.  Left out of it: rendering, scrolling, navErr,   *)
(* history and completion.  A character is identified by its FLS id.  The  *)
(* quality edit takes the path of the stack edit to another column, so one *)
(* edit stands for both.                                                   *)
(***************************************************************************)
EXTENDS Naturals, Integers, Sequences, FiniteSets, SequencesExt

CONSTANTS
  Hosts,       \* the host profiles, in the order of the store
  Status,      \* Status[p]: what the STATUS column sorts p by
  StackMax,    \* admincatalog.StackMax
  Page,        \* contentWindow: rows a page key moves by
  MaxFlight,   \* bound: commands in flight
  Worlds,      \* what the hosts hold, who operates, and how much of it is run
  None

HostSet == {Hosts[i] : i \in DOMAIN Hosts}

\* What a host can hold: rosters of players with a status, items of a player.
ASSUME NavAssumption ==
  /\ Hosts \in Seq(HostSet) /\ Hosts # <<>>
  /\ Status \in [DOMAIN Status -> Int]
  /\ {StackMax, Page, MaxFlight} \subseteq Nat \ {0}
  /\ \A w \in Worlds :
       /\ w.types \in Seq(Nat) /\ w.careful \in BOOLEAN
       /\ \A h \in HostSet : /\ w.roster[h] \in Seq(DOMAIN Status)
                             /\ w.place[h] \in Seq((DOMAIN Status) \X Nat)

VARIABLES
  m,           \* the model
  flight,      \* tea.Cmds running or answered, in the order they were sent
  stock,       \* the hosts' databases: stack size of each item, None if deleted
  target,      \* the row the open prompt was opened on (history)
  world,       \* the member of Worlds this behaviour is about
  used         \* sorts and edits so far, for their bounds

vars == <<m, flight, stock, target, world, used>>

Roster   == world.roster    \* Roster[h]: the players who joined h, by name
Types    == world.types     \* inventory types of a player, in order
Place    == world.place     \* Place[h][i]: player and inventory type of item i of h
careful  == world.careful   \* does the operator wait until nothing is in flight?
MaxSorts == world.sorts     \* bound: presses of s and S
MaxEdits == world.edits     \* bound: edits sent

levelHosts == 1
levelPlayers == 2
levelInventory == 3
levelItem == 4
Tables == {levelPlayers, levelItem}      \* levels with sortable columns

NoPlayer == [host |-> None, fls |-> None]

Init ==
  /\ world \in Worlds
  /\ m = [level |-> levelHosts, sel |-> <<0, 0, 0, 0>>,
          counts |-> <<Len(Hosts), 0, 0, 0>>,
          players |-> <<>>, invs |-> <<>>, items |-> <<>>,
          cur |-> NoPlayer, curType |-> None,
          loading |-> FALSE, running |-> FALSE,
          mode |-> "nav", draft |-> NoPlayer, output |-> FALSE, prompt |-> "none",
          sortCol |-> <<0, 0, 0, 0>>, sortDesc |-> <<FALSE, FALSE, FALSE, FALSE>>]
  /\ flight = <<>>
  /\ stock = [h \in HostSet |-> [i \in DOMAIN Place[h] |-> 1]]
  /\ target = None
  /\ used = [sorts |-> 0, edits |-> 0]

-----------------------------------------------------------------------------
(* Cursor and lists.                                                       *)

Under(s, list, l) == list[s.sel[l] + 1]     \* the row under the cursor

selectedHost(s) == Under(s, Hosts, levelHosts)

Clamp(s, i) ==
  LET c == s.counts[s.level]
  IN IF i < 0 \/ c = 0 THEN 0 ELSE IF i > c - 1 THEN c - 1 ELSE i

\* Does row a sort before row b in the table of level l, ascending?
sortLess(s, l, a, b) ==
  CASE l = levelPlayers /\ s.sortCol[l] = 1 -> Status[a.fls] < Status[b.fls]
    [] l = levelPlayers /\ s.sortCol[l] = 0 -> a.rank < b.rank
    [] l = levelItem /\ s.sortCol[l] = 1    -> a.qty < b.qty
    [] l = levelItem /\ s.sortCol[l] = 0    -> a.id < b.id

\* sort.SliceStable: equal rows keep their order.
StableSort(s, l, rows) ==
  LET less(i, j) == IF s.sortDesc[l] THEN sortLess(s, l, rows[j], rows[i])
                                     ELSE sortLess(s, l, rows[i], rows[j])
      before(i, j) == less(i, j) \/ (~less(j, i) /\ i <= j)
      order == CHOOSE p \in Bijection(DOMAIN rows, DOMAIN rows) :
                 \A i, j \in DOMAIN rows : i < j => before(p[i], p[j])
  IN [k \in DOMAIN rows |-> rows[order[k]]]

\* Only the table of the level shown is sorted.
applySort(s) ==
  CASE s.level = levelPlayers -> [s EXCEPT !.players = StableSort(s, levelPlayers, @)]
    [] s.level = levelItem    -> [s EXCEPT !.items = StableSort(s, levelItem, @)]
    [] OTHER                  -> s

-----------------------------------------------------------------------------
(* What runs on a goroutine.                                               *)

Load(kind, h, p, typ) ==
  [kind |-> kind, host |-> h, fls |-> p, typ |-> typ,
   done |-> FALSE, ok |-> FALSE, rows |-> <<>>]

loadPlayers(s) == Load("players", selectedHost(s), None, None)
loadInvs(s) == Load("invs", selectedHost(s), Under(s, s.players, levelPlayers).fls, None)
loadItems(s) == Load("items", selectedHost(s), s.cur.fls, s.curType)

selectedItemID(s) ==
  IF s.level = levelItem /\ s.sel[levelItem] < Len(s.items)
  THEN Under(s, s.items, levelItem).id ELSE 0

\* An edit sets the stack size, or deletes the item when qty is None.
Edit(s, id, qty, row) ==
  [kind |-> "edit", host |-> selectedHost(s), id |-> id, qty |-> qty, row |-> row,
   done |-> FALSE, ok |-> FALSE]

Command == [kind |-> "cmd"]

PlayerRows(h) ==
  [k \in DOMAIN Roster[h] |-> [host |-> h, fls |-> Roster[h][k], rank |-> k]]
Held(h, p, typ) == {i \in DOMAIN Place[h] : Place[h][i] = <<p, typ>> /\ stock[h][i] # None}
Ascending(S) ==
  CHOOSE p \in Bijection(1..Cardinality(S), S) :
    \A i, j \in 1..Cardinality(S) : i < j => p[i] < p[j]
\* InventoryBreakdown groups items: an empty inventory has no row.
InvRows(h, p) ==
  LET held == Ascending({t \in DOMAIN Types : Held(h, p, Types[t]) # {}})
  IN [k \in DOMAIN held |-> [host |-> h, fls |-> p, typ |-> Types[held[k]]]]
ItemRows(h, p, typ) ==
  LET ids == Ascending(Held(h, p, typ))
  IN [k \in DOMAIN ids |-> [host |-> h, fls |-> p, typ |-> typ,
                            id |-> ids[k], qty |-> stock[h][ids[k]]]]

\* A query reads the database at some moment before its reply or fails, for
\* sure without a player to ask for.  The roster does not change here, so the
\* players are read with the reply.
Query(i) ==
  LET t == flight[i]
      answered == [flight EXCEPT ![i].done = TRUE]
  IN /\ t.kind \in {"invs", "items"} /\ ~t.done
     /\ \/ flight' = answered
        \/ /\ t.fls # None
           /\ flight' = [answered EXCEPT ![i].ok = TRUE, ![i].rows =
                IF t.kind = "invs" THEN InvRows(t.host, t.fls)
                                   ELSE ItemRows(t.host, t.fls, t.typ)]
     /\ UNCHANGED <<m, stock, target, world, used>>

\* ApplyItemStack, ApplyItemDelete: refused by the gate or failed before the
\* write; written; or written with the connection lost before the reply.
Apply(i) ==
  LET t == flight[i]
  IN /\ t.kind = "edit" /\ ~t.done
     /\ \/ /\ flight' = [flight EXCEPT ![i].done = TRUE]
           /\ UNCHANGED stock
        \/ /\ t.id \in DOMAIN stock[t.host] /\ stock[t.host][t.id] # None
           /\ \E ok \in BOOLEAN : flight' = [flight EXCEPT ![i].done = TRUE, ![i].ok = ok]
           /\ stock' = [stock EXCEPT ![t.host][t.id] = t.qty]
     /\ UNCHANGED <<m, target, world, used>>

-----------------------------------------------------------------------------
(* Keys.  A careful operator presses one when nothing is in flight as far  *)
(* as the screen tells.                                                    *)

Press == careful => ~m.loading /\ ~m.running

\* Broken: an open prompt does not hold the navigation keys.
BrowsingThroughPrompt == Press /\ m.mode = "nav" /\ ~m.output

\* Plain navigation: no command line, no output, no prompt, no help.
Browsing == Press /\ m.mode = "nav" /\ ~m.output /\ m.prompt = "none"

Show(s) == m' = s /\ UNCHANGED <<flight, stock, target, world, used>>
Send(s, t) ==
  /\ Len(flight) < MaxFlight
  /\ m' = s /\ flight' = Append(flight, t)
  /\ target' = None /\ UNCHANGED <<stock, world>>
SendLoad(s, t) == Send(s, t) /\ UNCHANGED used
SendEdit(s, t) ==
  /\ used.edits < MaxEdits /\ used' = [used EXCEPT !.edits = @ + 1]
  /\ Send(s, t)

Move ==
  /\ Browsing
  /\ \E delta \in {-Page, -1, 1, Page} :
       Show([m EXCEPT !.sel[m.level] = Clamp(m, @ + delta)])

Jump ==
  /\ Browsing
  /\ \E i \in {0, m.counts[m.level] - 1} : Show([m EXCEPT !.sel[m.level] = Clamp(m, i)])

\* The level below is emptied before its rows are asked for.
DescendHosts ==
  LET s == [m EXCEPT !.level = levelPlayers, !.sel[levelPlayers] = 0,
                     !.players = <<>>, !.counts[levelPlayers] = 0, !.loading = TRUE]
  IN Browsing /\ m.level = levelHosts /\ SendLoad(s, loadPlayers(s))

DescendPlayers ==
  LET s == [m EXCEPT !.level = levelInventory, !.sel[levelInventory] = 0,
                     !.invs = <<>>, !.counts[levelInventory] = 0, !.loading = TRUE]
  IN /\ Browsing /\ m.level = levelPlayers /\ m.sel[levelPlayers] < Len(m.players)
     /\ SendLoad(s, loadInvs(s))

\* Broken: the load is built before the type of the row is noted.
DescendInventoryLate ==
  LET s == [m EXCEPT !.curType = Under(m, m.invs, levelInventory).typ,
                     !.level = levelItem, !.sel[levelItem] = 0,
                     !.items = <<>>, !.counts[levelItem] = 0, !.loading = TRUE]
  IN /\ Browsing /\ m.level = levelInventory /\ m.sel[levelInventory] < Len(m.invs)
     /\ SendLoad(s, loadItems(m))

DescendInventory ==
  LET s == [m EXCEPT !.curType = Under(m, m.invs, levelInventory).typ,
                     !.level = levelItem, !.sel[levelItem] = 0,
                     !.items = <<>>, !.counts[levelItem] = 0, !.loading = TRUE]
  IN /\ Browsing /\ m.level = levelInventory /\ m.sel[levelInventory] < Len(m.invs)
     /\ SendLoad(s, loadItems(s))

Ascend == Browsing /\ m.level > levelHosts /\ Show([m EXCEPT !.level = @ - 1])

\* s: the next column; S: the other direction.  The cursor goes to the top.
SortBy ==
  /\ Browsing /\ m.level \in Tables
  /\ LET l == m.level
     IN \/ m' = applySort([m EXCEPT !.sortCol[l] = 1 - @, !.sel[l] = 0])
        \/ m' = applySort([m EXCEPT !.sortDesc[l] = ~@, !.sel[l] = 0])
  /\ used.sorts < MaxSorts /\ used' = [used EXCEPT !.sorts = @ + 1]
  /\ UNCHANGED <<flight, stock, target, world>>

OpenHelp == Browsing /\ Show([m EXCEPT !.prompt = "help"])

OnItem == m.level = levelItem /\ Len(m.items) > 0

\* + and -: from the stack size the row shows.
StepStack ==
  /\ Browsing /\ OnItem
  /\ LET row == Under(m, m.items, levelItem)
         sent(q) == SendEdit([m EXCEPT !.running = TRUE], Edit(m, row.id, q, row))
     IN \/ row.qty < StackMax /\ sent(row.qty + 1)
        \/ sent(IF row.qty = 0 THEN 0 ELSE row.qty - 1)

\* e and Q open the inline input, d asks for confirmation.
OpenPrompt ==
  /\ Browsing /\ OnItem
  /\ \E p \in {"edit", "delete"} : m' = [m EXCEPT !.prompt = p]
  /\ target' = Under(m, m.items, levelItem)
  /\ UNCHANGED <<flight, stock, world, used>>

Prompted == Press /\ m.mode = "nav" /\ ~m.output

\* The item is the one under the cursor at y or at Enter.
ConfirmDelete ==
  /\ Prompted /\ m.prompt = "delete"
  /\ SendEdit([m EXCEPT !.prompt = "none", !.running = TRUE],
              Edit(m, selectedItemID(m), None, target))

EnterStack ==
  /\ Prompted /\ m.prompt = "edit"
  /\ \E q \in 0..StackMax :
       SendEdit([m EXCEPT !.prompt = "none", !.running = TRUE],
                Edit(m, selectedItemID(m), q, target))

\* Esc, any key but y, a number that is refused, any key on the help overlay.
ClosePrompt ==
  /\ Prompted /\ m.prompt # "none"
  /\ m' = [m EXCEPT !.prompt = "none"]
  /\ target' = None
  /\ UNCHANGED <<flight, stock, world, used>>

DismissOutput == Press /\ m.mode = "nav" /\ m.output /\ Show([m EXCEPT !.output = FALSE])

\* ':' works in plain navigation and over a command's output.
OpenBar ==
  /\ Press /\ m.mode = "nav" /\ (m.output \/ m.prompt = "none")
  /\ Show([m EXCEPT !.mode = "cmd", !.draft = NoPlayer])

\* 'a' prefills "give item <player>": the row under the cursor at PLAYERS,
\* the player last drilled into at every other level.
OpenGive ==
  LET row == Under(m, m.players, levelPlayers)
      player == IF m.level = levelPlayers /\ m.sel[levelPlayers] < Len(m.players)
                THEN [host |-> row.host, fls |-> row.fls] ELSE m.cur
  IN /\ Browsing /\ player # NoPlayer
     /\ Show([m EXCEPT !.mode = "cmd", !.output = FALSE, !.draft = player])

Typing == Press /\ m.mode = "cmd"

LeaveBar == Typing /\ Show([m EXCEPT !.mode = "nav", !.draft = NoPlayer])

\* Enter: help and refresh are answered by the model, the rest dispatched.
EnterCommand ==
  LET s == [m EXCEPT !.mode = "nav", !.draft = NoPlayer]
  IN /\ Typing
     /\ \/ Show([s EXCEPT !.output = TRUE])
        \/ /\ Len(flight) < MaxFlight
           /\ m' = [s EXCEPT !.running = TRUE]
           /\ flight' = Append(flight, Command)
           /\ UNCHANGED <<stock, target, world, used>>

-----------------------------------------------------------------------------
(* Replies.                                                                *)

playersMsg(s, rows) ==
  applySort([s EXCEPT !.loading = FALSE, !.players = rows,
                      !.counts[levelPlayers] = Len(rows), !.sel[levelPlayers] = 0])

\* curFLS and curChar come with the reply, empty with an error.
invsMsg(s, player, rows) ==
  [s EXCEPT !.loading = FALSE, !.invs = rows, !.cur = player,
            !.counts[levelInventory] = Len(rows), !.sel[levelInventory] = 0]

\* Broken: the cursor of the list before the reload is kept as it is.
itemsMsgNoClamp(s, rows) ==
  applySort([s EXCEPT !.loading = FALSE, !.items = rows, !.counts[levelItem] = Len(rows)])

\* The cursor stays where it was if the list is still that long.
itemsMsg(s, rows) ==
  LET last == IF rows = <<>> THEN 0 ELSE Len(rows) - 1
  IN applySort([s EXCEPT !.loading = FALSE, !.items = rows,
                         !.counts[levelItem] = Len(rows),
                         !.sel[levelItem] = IF @ > last THEN last ELSE @])

\* A command's output may be empty.
cmdResultMsg(s, shown) ==
  [s EXCEPT !.mode = "nav", !.draft = NoPlayer, !.running = FALSE, !.output = shown]

Handled(i, s) ==
  m' = s /\ flight' = RemoveAt(flight, i) /\ UNCHANGED <<stock, target, world, used>>

PlayersReply(i) ==
  /\ flight[i].kind = "players"
  /\ \E rows \in {PlayerRows(flight[i].host), <<>>} : Handled(i, playersMsg(m, rows))

InvsReply(i) ==
  LET t == flight[i]
      player == IF t.ok THEN [host |-> t.host, fls |-> t.fls] ELSE NoPlayer
  IN t.kind = "invs" /\ t.done /\ Handled(i, invsMsg(m, player, t.rows))

ItemsReply(i) ==
  flight[i].kind = "items" /\ flight[i].done /\ Handled(i, itemsMsg(m, flight[i].rows))

CommandReply(i) ==
  flight[i].kind = "cmd" /\ \E shown \in BOOLEAN : Handled(i, cmdResultMsg(m, shown))

\* editDoneMsg with an error.
EditFailed(i) ==
  LET t == flight[i]
  IN t.kind = "edit" /\ t.done /\ ~t.ok /\ Handled(i, [m EXCEPT !.running = FALSE])

\* Broken: the reload after an edit does not say that it loads.
EditDoneQuiet(i) ==
  LET t == flight[i]
      s == [m EXCEPT !.running = FALSE]
  IN /\ t.kind = "edit" /\ t.done /\ t.ok
     /\ m' = s /\ flight' = Append(RemoveAt(flight, i), loadItems(s))
     /\ UNCHANGED <<stock, target, world, used>>

\* editDoneMsg: the items are read again, under the selection of this moment.
EditDone(i) ==
  LET t == flight[i]
      s == [m EXCEPT !.running = FALSE, !.loading = TRUE]
  IN /\ t.kind = "edit" /\ t.done /\ t.ok
     /\ m' = s /\ flight' = Append(RemoveAt(flight, i), loadItems(s))
     /\ UNCHANGED <<stock, target, world, used>>

-----------------------------------------------------------------------------
Key ==
  \/ Move \/ Jump \/ Ascend \/ SortBy \/ OpenHelp
  \/ DescendHosts \/ DescendPlayers \/ DescendInventory
  \/ StepStack \/ OpenPrompt \/ ConfirmDelete \/ EnterStack \/ ClosePrompt
  \/ DismissOutput \/ OpenBar \/ OpenGive \/ LeaveBar \/ EnterCommand

Next ==
  \/ Key
  \/ \E i \in DOMAIN flight :
       \/ Query(i) \/ Apply(i)
       \/ PlayersReply(i) \/ InvsReply(i) \/ ItemsReply(i)
       \/ CommandReply(i) \/ EditFailed(i) \/ EditDone(i)

Spec == Init /\ [][Next]_vars

-----------------------------------------------------------------------------
(* Properties.                                                             *)

\* On every level the count the keys clamp to is the length of the list and
\* the cursor is on a row of it, whatever replies arrive in whatever order:
\* the item keys index the list with the cursor and no check of their own.
CursorInBounds ==
  \A l \in levelHosts..levelItem :
    LET list == <<Hosts, m.players, m.invs, m.items>>[l]
    IN /\ m.counts[l] = Len(list)
       /\ m.sel[l] = 0 \/ m.sel[l] < Len(list)

Loads == {i \in DOMAIN flight : flight[i].kind \in {"players", "invs", "items"}}
Works == DOMAIN flight \ Loads

\* Neither busy flag can stay on with nothing to end it: while the screen says
\* loading a query is in flight, and while the spinner turns a command or an
\* edit is.  For an operator who waits for the screen to be idle the flags are
\* the truth as well: on exactly while something of their kind is in flight,
\* never more than one, and none while a command is typed, so no reply closes
\* the command line under the operator's hands.
BusyTellsTheTruth ==
  /\ m.loading => Loads # {}
  /\ m.running => Works # {}
  /\ careful => /\ Cardinality(DOMAIN flight) <= 1
                /\ m.loading <=> Loads # {}
                /\ m.running <=> Works # {}
                /\ m.mode = "cmd" => flight = <<>>

\* The rows on the screen were read under the selection the breadcrumb shows:
\* the host, the player and the inventory under the cursors of the levels above.
SelectionShown ==
  CASE m.level = levelHosts -> TRUE
    [] m.level = levelPlayers ->
         \A k \in DOMAIN m.players : m.players[k].host = selectedHost(m)
    [] m.level = levelInventory ->
         \A k \in DOMAIN m.invs :
           /\ m.invs[k].host = selectedHost(m)
           /\ m.sel[levelPlayers] < Len(m.players)
           /\ m.invs[k].fls = Under(m, m.players, levelPlayers).fls
    [] m.level = levelItem ->
         \A k \in DOMAIN m.items :
           /\ m.items[k].host = selectedHost(m)
           /\ m.sel[levelPlayers] < Len(m.players)
           /\ m.items[k].fls = Under(m, m.players, levelPlayers).fls
           /\ m.sel[levelInventory] < Len(m.invs)
           /\ m.items[k].typ = Under(m, m.invs, levelInventory).typ

\* The operator who waits is never shown rows of another selection, not even
\* through reloads after edits, failed loads and new descents.
WaitingSeesSelection == careful => SelectionShown

\* Every edit the waiting operator sends reaches the item, on the host, that
\* was under the cursor when the prompt opened or the key was pressed.
EditHitsItsRow ==
  careful =>
    \A i \in DOMAIN flight :
      flight[i].kind = "edit" =>
        /\ flight[i].host = flight[i].row.host
        /\ flight[i].id = flight[i].row.id

=============================================================================
