------------------------------- MODULE Players -------------------------------
(***************************************************************************)
(* What dunemgr does to a player: give (pkg/domain/grant), item edits      *)
(* (internal/pkg/dunemgr/command/item.go) and whispers, over the two       *)
(* transports they choose between: psql statements on the game database    *)
(* (pkg/domain/gamedb) and messages evaluated in the broker pod            *)
(* (pkg/domain/mq).                                                        *)
(*                                                                         *)
(* One player with one inventory row.  The running game holds a copy of    *)
(* the player from login on and writes it back; every call of an operator  *)
(* is one access to the database, the pod or the audit log at a time, and  *)
(* the game, other operators and failures come in between.                 *)
(*                                                                         *)
(* Amounts are abstracted to who granted: a balance is the set of calls    *)
(* whose grant it contains.  Adding is \cup, setting to a value computed   *)
(* from an earlier read is :=.  The arithmetic is in CharXP.               *)
(***************************************************************************)
EXTENDS Naturals, FiniteSets, Sequences

CONSTANTS
  Jobs,      \* operator calls
  Clusters,  \* what a look at the cluster may find, see Token and GamePod
  Faults,    \* what may fail: a statement or an exec is "refused" or its answer
             \* "lost", the "store" does not take an audit entry
  MaxLogins, \* how often the player logs in
  None       \* no call

ASSUME PlayersAssumption ==
  /\ None \notin Jobs
  /\ MaxLogins \in Nat
  /\ Faults \subseteq {"refused", "lost", "store"}

VARIABLES
  db,      \* the player as the game database has it
  live,    \* the player as the running game has it
  online,  \* does the running game have the player?
  logins,  \* how often the player has logged in
  file,    \* the two expression files in the broker pod
  job,     \* the calls
  sent,    \* how often the broker evaluated the expression of a call
  wrote,   \* calls with a statement the database executed (history)
  audit,   \* entries of the audit log
  unlogged, \* entries that the store did not take (history)
  met,     \* calls that shared a file in the pod with another call (history)
  excused  \* calls that met a documented way to lose a grant (history)

vars ==
  <<db, live, online, logins, file, job, sent, wrote, audit, unlogged, met, excused>>

-------------------------------------------------------------------------------
GiveVerbs == {"currency", "item", "skillpoints", "xp", "charxp"}

ItemVerbs == {"set", "delete"}

Verbs == GiveVerbs \cup ItemVerbs \cup {"whisper"}

Fields == {"balance", "points", "track", "level", "bag"}

(* The column or component a grant changes.                                  *)
FieldOf(verb) ==
  CASE verb = "currency"    -> "balance"
    [] verb = "skillpoints" -> "points"
    [] verb = "xp"          -> "track"
    [] verb = "charxp"      -> "level"
    [] OTHER                -> "bag"

(* there: is the row in the pawn's inventory?  qty, quality: who set them.   *)
NewPlayer ==
  [grants |-> [f \in Fields |-> {}], there |-> TRUE, qty |-> None, quality |-> None]

IdleJob ==
  [pc |-> "idle", verb |-> "none", force |-> FALSE, dry |-> FALSE, back |-> "none",
   base |-> {}, expr |-> None, accepted |-> FALSE, todo |-> {}, result |-> "none"]

Files == {"publish", "whisper"}

Init ==
  /\ db = NewPlayer
  /\ live = NewPlayer
  /\ online = FALSE
  /\ logins = 0
  /\ file = [f \in Files |-> None]
  /\ job = [j \in Jobs |-> IdleJob]
  /\ sent = [j \in Jobs |-> 0]
  /\ wrote = {}
  /\ audit = {}
  /\ unlogged = {}
  /\ met = {}
  /\ excused = {}

-------------------------------------------------------------------------------
(* Pure parts.                                                               *)

(* validate: the range of the amount of each verb.  n counts in the units    *)
(* of the verb's limit: 0, within it, or above it.                           *)
validate(verb, n) == n = "within" \/ (n = "negative" /\ verb = "currency")

(* The token of the director pod: literal, or by way of a secret.            *)
BGEnvToken(c) ==
  IF ~c.director THEN "" ELSE IF c.literal # "" THEN c.literal ELSE c.secret

BuiltinToken == "builtin"

(* ChainToken.Token over the default chain: the first source with a token.   *)
Token(c) == IF BGEnvToken(c) # "" THEN BGEnvToken(c) ELSE BuiltinToken

(* discoverGamePod: the first pod of the list that is a game broker.         *)
GamePod(c) == IF \E i \in DOMAIN c.pods : c.pods[i] THEN "pod" ELSE ""

(* Broken: no verb asks for an offline player.                               *)
BackendAnyPresence(verb, offline, force) ==
  IF verb \in {"item", "xp", "skillpoints"} /\ ~offline THEN "mq" ELSE "db"

(* Plan: which backend a grant uses, "refused" without one.                  *)
Backend(verb, offline, force) ==
  CASE verb \in {"item", "xp"}        -> IF offline THEN "db" ELSE "mq"
    [] verb \in {"currency", "charxp"} -> IF offline \/ force THEN "db" ELSE "refused"
    [] verb = "skillpoints"           -> IF offline THEN "db"
                                         ELSE IF force THEN "mq" ELSE "refused"

-------------------------------------------------------------------------------
To(j, pc) == job' = [job EXCEPT ![j].pc = pc]

(* A call returns.                                                           *)
End(j, result) == job' = [job EXCEPT ![j].pc = "done", ![j].result = result]

(* An entry is taken by the store or not: the callers drop its error.        *)
Note(e) ==
  \/ audit' = audit \cup {e} /\ UNCHANGED unlogged
  \/ "store" \in Faults /\ unlogged' = unlogged \cup {e} /\ UNCHANGED audit

RecordOk(j, what, result) == Note([job |-> j, what |-> what, result |-> "ok"])

Record(j, what, result) == Note([job |-> j, what |-> what, result |-> result])

OneFile(verb) == "publish"

(* /tmp/dunemgr-whisper.erl and /tmp/dunemgr-mq-publish.erl.                 *)
FileOf(verb) == IF verb = "whisper" THEN "whisper" ELSE "publish"

Log == <<audit, unlogged>>

Remote == <<db, live, online, logins, file, sent, wrote, met, excused>>

Unread == <<db, live, online, logins, file, sent, wrote, Log, met, excused>>

-------------------------------------------------------------------------------
(* The game: login loads the row, the running game spends, moves and saves,  *)
(* logout saves and releases.  Calls that found the player offline and have  *)
(* not written yet are late from now on.                                     *)

Late(j) ==
  /\ job[j].back = "db"
  /\ job[j].pc \in {"read", "write"}

Login ==
  /\ ~online
  /\ logins < MaxLogins
  /\ online' = TRUE
  /\ logins' = logins + 1
  /\ live' = db
  /\ excused' = excused \cup {j \in Jobs : Late(j)}
  /\ UNCHANGED <<db, file, job, sent, wrote, Log, met>>

Save ==
  /\ online
  /\ db' = live
  /\ UNCHANGED <<live, online, logins, file, job, sent, wrote, Log, met, excused>>

Logout ==
  /\ online
  /\ db' = live
  /\ online' = FALSE
  /\ UNCHANGED <<live, logins, file, job, sent, wrote, Log, met, excused>>

(* The player drops, sells or trades the item.                               *)
Part ==
  /\ online
  /\ live.there
  /\ live' = [live EXCEPT !.there = FALSE]
  /\ UNCHANGED <<db, online, logins, file, job, sent, wrote, Log, met, excused>>

-------------------------------------------------------------------------------
(* giveCmd, itemCmd, whisperCmd up to the first remote call.                 *)
Start(j) ==
  /\ job[j] = IdleJob
  /\ \E verb \in Verbs, force, dry \in BOOLEAN :
       /\ verb = "whisper" => ~dry
       /\ \E n \in {"zero", "negative", "within", "above"} :
            job' = [job EXCEPT ![j] =
              [IdleJob EXCEPT
                !.verb = verb, !.force = force, !.dry = dry,
                !.todo = IF verb = "set" THEN {"qty", "quality"} ELSE {},
                !.pc = IF validate(verb, n)
                       THEN IF verb \in ItemVerbs /\ dry THEN "done" ELSE "plan"
                       ELSE "done",
                !.result = IF validate(verb, n) THEN "none" ELSE "error"]]
  /\ UNCHANGED Unread

(* resolvePlayerArg or the presence check fails: nothing is audited.         *)
ReadFails(j) ==
  /\ job[j].pc \in {"plan", "read", "base"}
  /\ Faults # {}
  /\ End(j, "error")
  /\ UNCHANGED Unread

(* Granter.Plan on the presence of the moment; a dry run ends here.          *)
Plan(j) ==
  /\ job[j].pc = "plan"
  /\ job[j].verb \in GiveVerbs
  /\ LET b == Backend(job[j].verb, ~online, job[j].force) IN
       job' = [job EXCEPT
         ![j].back = IF b = "refused" THEN "none" ELSE b,
         ![j].pc = CASE b = "refused" \/ job[j].dry -> "done"
                     [] b = "mq" -> IF job[j].verb = "skillpoints" THEN "base" ELSE "find"
                     [] OTHER    -> IF job[j].verb = "charxp" THEN "read" ELSE "write",
         ![j].result = IF b = "refused" THEN "error" ELSE @]
  /\ UNCHANGED Unread

(* itemGate: without --force the owner must be known and offline.            *)
Gate(j) ==
  /\ job[j].pc = "plan"
  /\ job[j].verb \in ItemVerbs
  /\ IF job[j].force \/ (db.there /\ ~online)
     THEN job' = [job EXCEPT ![j].back = "db", ![j].pc = "write"]
     ELSE End(j, "error")
  /\ UNCHANGED Unread

(* whisperCmd: the target must be online, or the message forced.             *)
Address(j) ==
  /\ job[j].pc = "plan"
  /\ job[j].verb = "whisper"
  /\ IF online \/ job[j].force
     THEN \E persona \in BOOLEAN :
            job' = [job EXCEPT ![j].back = "mq",
                               ![j].pc = IF persona THEN "seed" ELSE "find"]
     ELSE End(j, "error")
  /\ UNCHANGED Unread

(* Persona.Seed: idempotent rows outside the player, audited either way.     *)
Seed(j) ==
  /\ job[j].pc = "seed"
  /\ \/ To(j, "find") /\ Record(j, "seed", "ok")
     \/ Faults # {} /\ End(j, "error") /\ Record(j, "seed", "error")
  /\ UNCHANGED Remote

(* GrantCharXP, read of the state and the keystones: everything the apply    *)
(* statement sets is computed from it.                                       *)
ReadState(j) ==
  /\ job[j].pc = "read"
  /\ job' = [job EXCEPT ![j].base = db.grants["level"], ![j].pc = "write"]
  /\ UNCHANGED Unread

(* UnspentSkillpoints: the base of the online path.                          *)
ReadBase(j) ==
  /\ job[j].pc = "base"
  /\ job' = [job EXCEPT ![j].base = db.grants["points"], ![j].pc = "find"]
  /\ UNCHANGED Unread

-------------------------------------------------------------------------------
(* Database writes.                                                          *)

(* The additive statements.                                                  *)
Credited(p, j) == [p EXCEPT !.grants["balance"] = @ \cup {j}]

Skilled(p, j) == [p EXCEPT !.grants["points"] = @ \cup {j}]

Trained(p, j) == [p EXCEPT !.grants["track"] = @ \cup {j}]

(* charxp_apply: the level, and with it the unspent points, are set.         *)
Recomputed(p, j) ==
  [p EXCEPT !.grants["level"] = job[j].base \cup {j}, !.grants["points"] = {}]

(* GrantItemDB.  The statement does not parse (grant_item_backpack.sql:12-13 *)
(* are // comments), psql goes on without ON_ERROR_STOP and prints nothing:  *)
(* the row is not inserted.                                                  *)
Inserted(p) == p

InsertExecutes == FALSE

(* The item statements reach rows in a pawn's inventory only.                *)
Edited(p, j) ==
  CASE job[j].verb = "delete"  -> [p EXCEPT !.there = FALSE]
    [] "qty" \in job[j].todo   -> [p EXCEPT !.qty = j]
    [] OTHER                   -> [p EXCEPT !.quality = j]

Granted(j) ==
  CASE job[j].verb = "currency"    -> Credited(db, j)
    [] job[j].verb = "skillpoints" -> Skilled(db, j)
    [] job[j].verb = "xp"          -> Trained(db, j)
    [] job[j].verb = "charxp"      -> Recomputed(db, j)
    [] job[j].verb = "item"        -> Inserted(db)

(* Calls whose grant the apply statement of j may undo: skill points, which  *)
(* it recomputes, and j's own when another call has read but not written.    *)
Overtaken(j) ==
  IF job[j].verb # "charxp" THEN {}
  ELSE {k \in Jobs : job[k].verb = "skillpoints"} \cup
       {i \in {j} : \E k \in Jobs \ {j} :
                      job[k].verb = "charxp" /\ job[k].pc = "write"}

(* A statement is executed and answered, executed with the answer lost, or   *)
(* not executed.                                                             *)
Replies == {"ok"} \cup (Faults \ {"store"})

Execute(j, runs, row) ==
  /\ db' = IF runs THEN row ELSE db
  /\ wrote' = IF runs THEN wrote \cup {j} ELSE wrote
  /\ excused' = IF runs THEN excused \cup Overtaken(j) ELSE excused
  /\ UNCHANGED <<live, online, logins, file, sent, Log, met>>

(* Granter.Apply over the database; its audit follows either way.            *)
Apply(j) ==
  /\ job[j].pc = "write"
  /\ job[j].verb \in GiveVerbs
  /\ \E reply \in Replies :
       LET runs == reply # "refused" /\ (job[j].verb = "item" => InsertExecutes) IN
         /\ Execute(j, runs, Granted(j))
         /\ job' = [job EXCEPT ![j].pc = "audit",
                               ![j].result = IF reply = "ok" /\ runs THEN "ok" ELSE "error"]

(* ApplyItemStack, ApplyItemQuality, ApplyItemDelete: an error or no row     *)
(* ends the call without an entry.                                           *)
ApplyItem(j) ==
  /\ job[j].pc = "write"
  /\ job[j].verb \in ItemVerbs
  /\ \E reply \in Replies :
       LET runs == reply # "refused" /\ db.there IN
         /\ Execute(j, runs, Edited(db, j))
         /\ job' = [job EXCEPT
              ![j].pc = IF reply = "ok" /\ runs THEN "audit" ELSE "done",
              ![j].result = IF reply = "ok" /\ runs THEN "ok" ELSE "error"]

(* Granter.audit: ok or error.                                               *)
AuditGrant(j) ==
  /\ job[j].pc = "audit"
  /\ job[j].verb \in GiveVerbs
  /\ Record(j, "give", job[j].result)
  /\ To(j, "done")
  /\ UNCHANGED Remote

(* The field of an item edit that has just been written.                     *)
Edit(j) ==
  IF job[j].verb = "delete" THEN "delete"
  ELSE IF "qty" \in job[j].todo THEN "qty" ELSE "quality"

(* itemAudit; item set goes on with the quality, through the gate again.     *)
AuditItem(j) ==
  /\ job[j].pc = "audit"
  /\ job[j].verb \in ItemVerbs
  /\ Record(j, Edit(j), "ok")
  /\ LET more == "qty" \in job[j].todo IN
       job' = [job EXCEPT ![j].todo = @ \ {"qty"},
                          ![j].pc = IF more THEN "plan" ELSE "done",
                          ![j].result = IF more THEN "none" ELSE "ok"]
  /\ UNCHANGED Remote

-------------------------------------------------------------------------------
(* Publisher.PublishInner and PublishWhisper.                                *)

(* Token and pod; without a pod the failure is audited.  A token the servers *)
(* do not know is not noticed here.                                          *)
Discover(j) ==
  /\ job[j].pc = "find"
  /\ job[j].verb # "whisper"
  /\ \E c \in Clusters :
       IF GamePod(c) = ""
       THEN Record(j, "publish", "error") /\ End(j, "error")
       ELSE /\ job' = [job EXCEPT ![j].pc = "put", ![j].accepted = Token(c) = c.expected]
            /\ UNCHANGED Log
  /\ UNCHANGED Remote

(* PublishWhisper up to the exec: no token, a hexadecimal target.            *)
DiscoverWhisper(j) ==
  /\ job[j].pc = "find"
  /\ job[j].verb = "whisper"
  /\ \E c \in Clusters, hex \in BOOLEAN :
       IF GamePod(c) = "" \/ ~hex
       THEN Record(j, "publish", "error") /\ End(j, "error")
       ELSE To(j, "put") /\ UNCHANGED Log
  /\ UNCHANGED Remote

(* Two whispers, or two grants.                                              *)
Alike(j, k) == (job[j].verb = "whisper") = (job[k].verb = "whisper")

(* Whose expression is replaced before it is read.                           *)
Ahead(j) == {k \in Jobs \ {j} : job[k].pc = "get" /\ Alike(j, k)}

(* The shell in the pod: cat > file; expr=$(cat file); rabbitmqctl eval      *)
(* "$expr"; rm -f file.  Nothing keeps two of them apart.                    *)
PutExpr(j) ==
  /\ job[j].pc = "put"
  /\ file' = [file EXCEPT ![FileOf(job[j].verb)] = j]
  /\ To(j, "get")
  /\ met' = IF Ahead(j) = {} THEN met ELSE met \cup Ahead(j) \cup {j}
  /\ UNCHANGED <<db, live, online, logins, sent, wrote, Log, excused>>

GetExpr(j) ==
  /\ job[j].pc = "get"
  /\ LET e == file[FileOf(job[j].verb)] IN
       job' = [job EXCEPT ![j].expr = e,
                          ![j].pc = IF e = None THEN "answer" ELSE "eval",
                          ![j].result = "unconfirmed"]
  /\ UNCHANGED Unread

(* The server commands.                                                      *)
AddItem(p, m) == [p EXCEPT !.grants["bag"] = @ \cup {m}]

AwardXP(p, m) == [p EXCEPT !.grants["track"] = @ \cup {m}]

SetUnspent(p, m) == [p EXCEPT !.grants["points"] = job[m].base \cup {m}]

(* The running game takes a command with the token it knows.                 *)
Received(p, m) ==
  CASE ~online \/ ~job[m].accepted   -> p
    [] job[m].verb = "item"          -> AddItem(p, m)
    [] job[m].verb = "xp"            -> AwardXP(p, m)
    [] job[m].verb = "skillpoints"   -> SetUnspent(p, m)

(* publish_at_most_once: the message is routed and whoever is online gets    *)
(* it, or the evaluation fails, in which case set -e leaves the file behind. *)
Eval(j) ==
  /\ job[j].pc = "eval"
  /\ job[j].verb # "whisper"
  /\ \/ LET m == job[j].expr IN
        /\ sent' = [sent EXCEPT ![m] = @ + 1]
        /\ live' = Received(live, m)
        /\ excused' = IF job[m].verb = "skillpoints"
                      THEN excused \cup {k \in Jobs : job[k].verb = "skillpoints"}
                      ELSE excused
        /\ job' = [job EXCEPT ![j].pc = "rm", ![j].result = "ok"]
     \/ /\ Faults # {}
        /\ To(j, "answer")
        /\ UNCHANGED <<sent, live, excused>>
  /\ UNCHANGED <<db, online, logins, file, wrote, Log, met>>

(* A chat message, which changes nothing of the player.                      *)
EvalWhisper(j) ==
  /\ job[j].pc = "eval"
  /\ job[j].verb = "whisper"
  /\ \/ /\ sent' = [sent EXCEPT ![job[j].expr] = @ + 1]
        /\ job' = [job EXCEPT ![j].pc = "rm", ![j].result = "ok"]
     \/ /\ Faults # {}
        /\ To(j, "answer")
        /\ UNCHANGED sent
  /\ UNCHANGED <<db, live, online, logins, file, wrote, Log, met, excused>>

RemoveExpr(j) ==
  /\ job[j].pc = "rm"
  /\ file' = [file EXCEPT ![FileOf(job[j].verb)] = None]
  /\ To(j, "answer")
  /\ UNCHANGED <<db, live, online, logins, sent, wrote, Log, met, excused>>

(* The answer of kubectl exec, or its loss; audited either way, unless the   *)
(* operator's process has ended meanwhile.  A publish that is not confirmed  *)
(* is an error of whisper; give prints "grant ok" (give.go:155).             *)
Answer(j) ==
  /\ job[j].pc = "answer"
  /\ \/ \E r \in {job[j].result} \cup (IF "lost" \in Faults THEN {"error"} ELSE {}) :
          /\ Record(j, "publish", IF r = "ok" THEN "ok" ELSE "error")
          /\ End(j, IF r = "unconfirmed" /\ job[j].verb = "whisper" THEN "error" ELSE r)
     \/ Faults # {} /\ To(j, "dead") /\ UNCHANGED Log
  /\ UNCHANGED Remote

(* The operator's process ends.                                              *)
Kill(j) ==
  /\ job[j].pc \in {"plan", "read", "base", "write", "audit", "seed", "find"}
  /\ Faults # {}
  /\ job' = [job EXCEPT ![j].pc = "dead"]
  /\ UNCHANGED Unread

Idle ==
  /\ \A j \in Jobs : job[j].pc \in {"done", "dead"}
  /\ UNCHANGED vars

JobStep(j) ==
  \/ Start(j) \/ ReadFails(j) \/ Plan(j) \/ Gate(j) \/ Address(j) \/ Seed(j)
  \/ ReadState(j) \/ ReadBase(j) \/ Apply(j) \/ ApplyItem(j) \/ AuditGrant(j)
  \/ AuditItem(j) \/ Discover(j) \/ DiscoverWhisper(j) \/ PutExpr(j) \/ GetExpr(j)
  \/ Eval(j) \/ EvalWhisper(j) \/ RemoveExpr(j) \/ Answer(j) \/ Kill(j)

Next == Login \/ Save \/ Logout \/ Part \/ Idle \/ \E j \in Jobs : JobStep(j)

Spec == Init /\ [][Next]_vars

-------------------------------------------------------------------------------
(* The player as everybody sees it.                                          *)
Current == IF online THEN live ELSE db

(* What an unforced call has written to the database and reported as done    *)
(* stays: the running game does not overwrite it, unless the player logged   *)
(* in between the presence check and the statement, or a recomputation of    *)
(* the level or a forced set of the points came over it (grant.go:164,       *)
(* item.go:46, charxp.go:26).                                                *)
OfflineWriteSticks ==
  \A j \in Jobs :
    (job[j].pc = "done" /\ job[j].result = "ok" /\ job[j].back = "db"
       /\ ~job[j].force /\ j \notin excused)
    => IF job[j].verb = "delete" THEN ~Current.there
       ELSE job[j].verb = "set" \/ j \in Current.grants[FieldOf(job[j].verb)]

(* A call of which no other replaced the expression between cat and cat has  *)
(* it evaluated at most once, and once when it is confirmed, whatever other  *)
(* calls do in the pod: whispers and grants keep out of each other's file.   *)
(* Calls that did meet may have confirmed another's message, but one of      *)
(* those who met, of the same kind (mq.go:414, whisper.go:137).              *)
Published(j) ==
  IF j \in met THEN \E m \in met : Alike(j, m) /\ sent[m] > 0 ELSE sent[j] = 1

OwnMessageOnce ==
  \A j \in Jobs :
    /\ j \notin met => sent[j] <= 1
    /\ (job[j].pc = "done" /\ job[j].back = "mq" /\ job[j].result = "ok") => Published(j)

(* A call that ended has had an entry written for what it changed, whether   *)
(* or not the store took it, and none says ok of a change that was not made: *)
(* of a publish, by the call or by one it met in the pod.  An item edit with *)
(* a lost answer is the exception: itemAudit runs on success only            *)
(* (grant.go:310, mq.go:433, item.go:159).                                   *)
AuditMatchesEffects ==
  /\ \A j \in Jobs :
       (job[j].pc = "done" /\ (j \in wrote \/ sent[j] > 0))
       => \/ \E e \in audit \cup unlogged : e.job = j /\ e.what # "seed"
          \/ job[j].verb \in ItemVerbs /\ job[j].result = "error"
  /\ \A e \in audit \cup unlogged :
       (e.result = "ok" /\ e.what # "seed") => e.job \in wrote \/ Published(e.job)
===============================================================================
