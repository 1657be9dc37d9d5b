-------------------------------- MODULE Archive --------------------------------
(***************************************************************************)
(* What dunemgr keeps of the hosts on the workstation and puts back:       *)
(* character exports (pkg/domain/avatar: export, import, transfer) and     *)
(* database backups (pkg/domain/backup: create, restore), with their files *)
(* and the records in the state store.                                     *)
(*                                                                         *)
(* One account, present on any of the hosts, one BattleGroup per host and  *)
(* one backup name.  The store is locked by the process that opened it     *)
(* (store.go:34), but one process runs several calls at a time: the TUI    *)
(* takes the next command while one is running (tui/model.go:768).         *)
(* Between the steps of a call other calls step, players play, hosts are   *)
(* patched, and a step may fail or the process end.  Files and records are *)
(* named by the second they are made in.                                   *)
(***************************************************************************)
EXTENDS Naturals, Sequences

CONSTANTS
  Hosts,       \* hosts of the inventory
  Starts,      \* what the operator calls, in the order of the starts, and how the
               \* hosts are then; what players and the vendor may do (bounds)
  Faulty,      \* may a step fail or the process end?
  MaxSeconds,  \* bound on the seconds in which calls take their stamps
  None         \* nothing there

ASSUME ArchiveAssumption ==
  /\ Faulty \in BOOLEAN
  /\ MaxSeconds \in Nat
  /\ Starts \subseteq [script : Seq({"export", "import", "transfer", "create", "restore"}),
                       players : SUBSET Hosts, build : [Hosts -> {0, 1}],
                       sessions : Nat, patches : Nat]
  /\ None \notin [char : Hosts \X Nat, build : 0..2]
                 \cup [char : Hosts \X Nat \cup {None}, run : Nat]
                 \cup Nat

VARIABLES
  script,   \* the calls of this behaviour
  game,     \* per host: the character, is it online, the build's checksum
  sessions, \* sessions the player still has: every one leaves a new character
  patches,  \* patches still to come
  clock,    \* the second of the last stamp
  exports,  \* per host and second: the export file
  pairs,    \* per host and second: the local .backup and .backup.yaml
  remote,   \* per host: the backup pair in the host's directory
  records,  \* the avatars and backups buckets of the store
  job,      \* the calls
  audit,    \* entries of the audit log
  unlogged, \* entries that the store did not take (history)
  last,     \* per host: the call that wrote the character last, or None (history)
  overtaken, \* calls whose host was patched after its checksum was read (history)
  crossed   \* calls whose pair on the host another call wrote to (history)

vars == <<script, game, sessions, patches, clock, exports, pairs, remote, records, job, audit,
          unlogged, last, overtaken, crossed>>

Log == <<audit, unlogged>>

Workstation == <<clock, exports, pairs, records>>

World == <<script, game, sessions, patches, remote, last, overtaken, crossed>>

-------------------------------------------------------------------------------
Jobs == 1..Len(script)

Seconds == 0..MaxSeconds

NoKey == <<None, 0>>

IdleJob ==
  [pc |-> "idle", verb |-> "none", host |-> None, src |-> None, key |-> NoKey,
   confirm |-> FALSE, check |-> FALSE, named |-> FALSE, todo |-> <<>>,
   rep |-> [name |-> FALSE, src |-> FALSE, dst |-> FALSE, srcSum |-> 0, dstSum |-> 0],
   data |-> None, sum |-> None, at |-> None, ran |-> <<>>, result |-> "none"]

NoPair == [backup |-> None, yaml |-> None]

Init ==
  /\ \E s \in Starts :
       /\ script = s.script
       /\ game = [h \in Hosts |-> [char |-> IF h \in s.players THEN <<h, s.sessions>> ELSE None,
                                   online |-> FALSE, build |-> s.build[h]]]
       /\ sessions = s.sessions
       /\ patches = s.patches
  /\ clock = 0
  /\ exports = [k \in Hosts \X Seconds |-> None]
  /\ pairs = [k \in Hosts \X Seconds |-> NoPair]
  /\ remote = [h \in Hosts |-> NoPair]
  /\ records = [exports |-> {}, backups |-> {}]
  /\ job = [j \in Jobs |-> IdleJob]
  /\ audit = {}
  /\ unlogged = {}
  /\ last = [h \in Hosts |-> None]
  /\ overtaken = {}
  /\ crossed = {}

-------------------------------------------------------------------------------
(* The hosts.                                                                *)

Login(h) ==
  /\ game[h].char # None
  /\ ~game[h].online
  /\ sessions > 0
  /\ game' = [game EXCEPT ![h].online = TRUE]
  /\ sessions' = sessions - 1
  /\ UNCHANGED <<Workstation, script, patches, remote, job, Log, last, overtaken, crossed>>

Logout(h) ==
  /\ game[h].online
  /\ game' = [game EXCEPT ![h].online = FALSE, ![h].char = <<h, sessions>>]
  /\ last' = [last EXCEPT ![h] = None]
  /\ UNCHANGED <<Workstation, script, sessions, patches, remote, job, Log, overtaken, crossed>>

(* The vendor updates a host: the checksum of its patches changes.           *)
Patch(h) ==
  /\ ~game[h].online
  /\ patches > 0
  /\ patches' = patches - 1
  /\ game' = [game EXCEPT ![h].build = 2]
  /\ overtaken' = overtaken \cup {j \in Jobs : job[j].pc = "load" /\ job[j].host = h}
  /\ UNCHANGED <<Workstation, script, sessions, remote, job, Log, last, crossed>>

-------------------------------------------------------------------------------
(* Calls.                                                                    *)

Running(j) == job[j].pc \notin {"idle", "done", "dead"}

To(j, pc) == job' = [job EXCEPT ![j].pc = pc]

(* What a call leaves behind: what it was, and what its statement met.       *)
Ended(call, pc, result) ==
  [IdleJob EXCEPT !.pc = pc, !.verb = call.verb, !.host = call.host, !.src = call.src,
                  !.key = call.key, !.at = call.at, !.ran = call.ran, !.result = result]

End(j, result) == job' = [job EXCEPT ![j] = Ended(@, "done", result)]

(* A step of a call fails without an entry in the audit log.                 *)
Fails(j) == Faulty /\ End(j, "error") /\ UNCHANGED Log

(* The store takes entries or not: the callers drop its error.               *)
Note(entries) ==
  \E refused \in SUBSET entries :
    /\ Faulty \/ refused = {}
    /\ audit' = audit \cup (entries \ refused)
    /\ unlogged' = unlogged \cup refused

Record(j, what, result) == Note({[job |-> j, what |-> what, result |-> result]})

FailsAudited(j) == End(j, "error") /\ Record(j, job[j].verb, "error")

LostUnaudited(j, met) ==
  /\ job' = [job EXCEPT ![j] = Ended([@ EXCEPT !.ran = met], "done", "error")]
  /\ UNCHANGED Log

(* A statement was executed and its answer lost.                             *)
AnswerLost(j, met) ==
  /\ job' = [job EXCEPT ![j] = Ended([@ EXCEPT !.ran = met], "done", "error")]
  /\ Record(j, job[j].verb, "error")

(* The second a call takes its stamp in; others may take theirs in it too.   *)
Now == {clock, clock + 1} \cap Seconds

StampLess(j, h) == <<h, 1>>

(* The key of a record holds the host and the second.                        *)
KeyOf(j, h) == <<h, job[j].at>>

(* The path of an export holds the host and the second.                      *)
ExportPath(j, h) == KeyOf(j, h)

(* The path of a local pair holds host, second and name.                     *)
LocalPair(j, h) == KeyOf(j, h)

(* A record replaces one of the same key.                                    *)
Put(bucket, rec) == {r \in bucket : r.key # rec.key} \cup {rec}

(* A call starts, while others are running or not.                           *)
Begin(j, call) ==
  /\ job[j] = IdleJob
  /\ call.verb = script[j]
  /\ \A k \in Jobs : k < j => job[k] # IdleJob
  /\ job' = [job EXCEPT ![j] = call]
  /\ UNCHANGED <<Workstation, World, Log>>

avatarExport(j) ==
  \E h \in Hosts :
    Begin(j, [IdleJob EXCEPT !.pc = "offline", !.verb = "export", !.host = h])

(* The key of an import is any export, of any host, or a mistyped one.       *)
avatarImport(j) ==
  \E h \in Hosts, confirm, named \in BOOLEAN,
     k \in {r.key : r \in records.exports} \cup {NoKey} :
    Begin(j, [IdleJob EXCEPT !.pc = "fetch", !.verb = "import", !.host = h, !.key = k,
                             !.confirm = confirm, !.named = named])

avatarTransfer(j) ==
  \E src, dst \in Hosts, confirm, check \in BOOLEAN :
    /\ src # dst
    /\ Begin(j, [IdleJob EXCEPT
         !.pc = "check", !.verb = "transfer", !.src = src, !.host = dst,
         !.confirm = confirm, !.check = check,
         !.todo = <<"name", "src", "dst", "srcSum", "dstSum">>])

(* backup create and backup restore; restore without --confirm ends here.    *)
backupCmd(j) ==
  \/ \E h \in Hosts :
       Begin(j, [IdleJob EXCEPT !.pc = "wrap", !.verb = "create", !.host = h])
  \/ \E k \in {r.key : r \in records.backups} \cup {NoKey} :
       Begin(j, [IdleJob EXCEPT !.pc = "stat", !.verb = "restore", !.host = k[1],
                                !.key = k, !.confirm = TRUE])

-------------------------------------------------------------------------------
(* Transfer: the gates, one query after the other.                           *)

Offline(h) == ~game[h].online

Read(j, what) ==
  CASE what = "name"   -> game[job[j].src].char # None
    [] what = "src"    -> Offline(job[j].src)
    [] what = "dst"    -> Offline(job[j].host)
    [] what = "srcSum" -> game[job[j].src].build
    [] what = "dstSum" -> game[job[j].host].build

Check(j) ==
  /\ job[j].pc = "check"
  /\ job[j].todo # <<>>
  /\ \/ /\ job' = [job EXCEPT ![j].rep[Head(job[j].todo)] = Read(j, Head(job[j].todo)),
                              ![j].todo = Tail(@)]
        /\ UNCHANGED Log
     \/ Fails(j)
  /\ UNCHANGED <<Workstation, World>>

OK(rep) == rep.src /\ rep.dst /\ rep.name /\ rep.srcSum = rep.dstSum

(* The name given to the import defaults to the one on the source.           *)
Transfer(j) ==
  /\ job[j].pc = "check"
  /\ job[j].todo = <<>>
  /\ IF job[j].check THEN End(j, "ok")
     ELSE IF OK(job[j].rep) /\ job[j].confirm
     THEN job' = [job EXCEPT ![j].pc = "offline", ![j].named = TRUE]
     ELSE End(j, "error")
  /\ UNCHANGED <<Workstation, World, Log>>

-------------------------------------------------------------------------------
(* Export.                                                                   *)

FromTarget(j) == job[j].host

(* The host that is exported: of a transfer, the source.                     *)
From(j) == IF job[j].verb = "transfer" THEN job[j].src ELSE job[j].host

IsPlayerOffline(j) ==
  /\ job[j].pc = "offline"
  /\ \/ /\ IF Offline(From(j)) THEN To(j, "name") ELSE End(j, "error")
        /\ UNCHANGED Log
     \/ Fails(j)
  /\ UNCHANGED <<Workstation, World>>

(* A label only: an error is dropped, and leaves the record without a name.  *)
CharacterName(j) ==
  /\ job[j].pc = "name"
  /\ \E found \in {game[From(j)].char # None} \cup (IF Faulty THEN {FALSE} ELSE {}) :
       job' = [job EXCEPT ![j].pc = "dump", ![j].rep.name = found]
  /\ UNCHANGED <<Workstation, World, Log>>

(* character_transfer_export raises for a player who is online or missing;   *)
(* the stamp is taken from its answer on.                                    *)
CharacterExport(j) ==
  /\ job[j].pc = "dump"
  /\ LET g == game[From(j)] IN
       \/ /\ Offline(From(j)) /\ g.char # None
          /\ \E t \in Now :
               /\ job' = [job EXCEPT ![j].pc = "file", ![j].at = t,
                                     ![j].data = [char |-> g.char, build |-> g.build]]
               /\ clock' = t
          /\ UNCHANGED Log
       \/ /\ ~Offline(From(j)) \/ g.char = None \/ Faulty
          /\ FailsAudited(j)
          /\ UNCHANGED clock
  /\ UNCHANGED <<exports, pairs, records, World>>

WriteFile(j) ==
  /\ job[j].pc = "file"
  /\ \/ /\ exports' = [exports EXCEPT ![ExportPath(j, From(j))] = job[j].data]
        /\ To(j, "record")
        /\ UNCHANGED Log
     \/ Fails(j) /\ UNCHANGED exports
  /\ UNCHANGED <<World, clock, pairs, records>>

PutExport(j) ==
  /\ job[j].pc = "record"
  /\ \/ /\ records' = [records EXCEPT !.exports =
             Put(@, [key |-> KeyOf(j, From(j)), path |-> ExportPath(j, From(j)),
                     named |-> job[j].rep.name, build |-> job[j].data.build])]
        /\ To(j, "exported")
        /\ UNCHANGED Log
     \/ Fails(j) /\ UNCHANGED records
  /\ UNCHANGED <<World, clock, exports, pairs>>

(* A transfer goes on with the import of the record it has just put.         *)
Export(j) ==
  /\ job[j].pc = "exported"
  /\ Record(j, "export", "ok")
  /\ IF job[j].verb = "transfer"
     THEN job' = [job EXCEPT ![j].pc = "fetch", ![j].key = KeyOf(j, From(j))]
     ELSE End(j, "ok")
  /\ UNCHANGED <<Workstation, World>>

-------------------------------------------------------------------------------
(* Import.                                                                   *)

ExportRecord(k) == CHOOSE r \in records.exports : r.key = k

Known(k) == \E r \in records.exports : r.key = k

(* Import up to the first query: confirmed, a record, a name, the file.      *)
GetExport(j) ==
  /\ job[j].pc = "fetch"
  /\ LET k == job[j].key IN
       IF job[j].confirm /\ Known(k) /\ (job[j].named \/ ExportRecord(k).named)
          /\ exports[ExportRecord(k).path] # None
       THEN job' = [job EXCEPT ![j].pc = "free", ![j].data = exports[ExportRecord(k).path],
                               ![j].sum = ExportRecord(k).build]
       ELSE End(j, "error")
  /\ UNCHANGED <<Workstation, World, Log>>

ImportGate(j) ==
  /\ job[j].pc = "free"
  /\ \/ /\ IF Offline(job[j].host) THEN To(j, "sum") ELSE End(j, "error")
        /\ UNCHANGED Log
     \/ Fails(j)
  /\ UNCHANGED <<Workstation, World>>

AnyBuild(j) == TRUE

(* The checksum in the record against the one of the target.                 *)
SameBuild(j) == job[j].sum = game[job[j].host].build

ChecksumGate(j) ==
  /\ job[j].pc = "sum"
  /\ \/ /\ IF SameBuild(j) THEN To(j, "load") ELSE End(j, "error")
        /\ UNCHANGED Log
     \/ Fails(j)
  /\ UNCHANGED <<Workstation, World>>

(* The statement replaces the account's character; it raises for a player    *)
(* who is online.  An error, and an answer that is lost, are audited.        *)
CharacterImport(j) ==
  /\ job[j].pc = "load"
  /\ LET h == job[j].host IN
     \/ /\ Offline(h)
        /\ game' = [game EXCEPT ![h].char = job[j].data.char]
        /\ last' = [last EXCEPT ![h] = j]
        /\ LET met == <<job[j].data.build, game[h].build>> IN
           \/ /\ job' = [job EXCEPT ![j].pc = "imported", ![j].ran = met]
              /\ UNCHANGED Log
           \/ Faulty /\ AnswerLost(j, met)
     \/ /\ ~Offline(h) \/ Faulty
        /\ FailsAudited(j)
        /\ UNCHANGED <<game, last>>
  /\ UNCHANGED <<Workstation, script, sessions, patches, remote, overtaken, crossed>>

(* The entries of a successful import, and of the transfer around it.        *)
Import(j) ==
  /\ job[j].pc = "imported"
  /\ Note({[job |-> j, what |-> w, result |-> "ok"] : w \in {"import", job[j].verb}})
  /\ End(j, "ok")
  /\ UNCHANGED <<Workstation, World>>

-------------------------------------------------------------------------------
(* The pair of the one name on the host.  A call that began to write it, and *)
(* is not through with it, is crossed when another writes or tries to.       *)

Using(j, h) ==
  job[j].host = h /\ job[j].pc \in {"wrapyaml", "pull", "pullyaml", "pushyaml", "restore"}

Writes(j) ==
  crossed' = crossed \cup {k \in Jobs \ {j} : Using(k, job[j].host)}

Written(j, file, data) == remote' = [remote EXCEPT ![job[j].host][file] = data]

PairsAside == <<Workstation, script, game, sessions, patches, last, overtaken>>

(* Backup.  The wrapper dumps the database, then describes the dump.         *)
Wrapped(j) == [char |-> game[job[j].host].char, run |-> j]

RunBackup(j) ==
  /\ job[j].pc = "wrap"
  /\ Writes(j)
  /\ \/ /\ Written(j, "backup", Wrapped(j))
        /\ job' = [job EXCEPT ![j].pc = "wrapyaml", ![j].data = Wrapped(j)]
        /\ UNCHANGED Log
     \/ Faulty /\ FailsAudited(j) /\ UNCHANGED remote
  /\ UNCHANGED PairsAside

(* The stamp is taken from the wrapper's answer on.                          *)
Describe(j) ==
  /\ job[j].pc = "wrapyaml"
  /\ Writes(j)
  /\ \/ /\ Written(j, "yaml", job[j].data)
        /\ \/ /\ \E t \in Now :
                  /\ job' = [job EXCEPT ![j].pc = "pull", ![j].at = t]
                  /\ clock' = t
              /\ UNCHANGED Log
           \/ Faulty /\ FailsAudited(j) /\ UNCHANGED clock
     \/ Faulty /\ FailsAudited(j) /\ UNCHANGED <<clock, remote>>
  /\ UNCHANGED <<exports, pairs, records, script, game, sessions, patches, last, overtaken>>

RecvBackup(j) ==
  /\ job[j].pc = "pull"
  /\ \/ /\ pairs' = [pairs EXCEPT ![LocalPair(j, job[j].host)].backup = remote[job[j].host].backup]
        /\ To(j, "pullyaml")
        /\ UNCHANGED Log
     \/ Faulty /\ FailsAudited(j) /\ UNCHANGED pairs
  /\ UNCHANGED <<World, clock, exports, records>>

(* Without the .yaml the .backup is removed again.                           *)
RecvYAML(j) ==
  /\ job[j].pc = "pullyaml"
  /\ \/ /\ pairs' = [pairs EXCEPT ![LocalPair(j, job[j].host)].yaml = remote[job[j].host].yaml]
        /\ To(j, "put")
        /\ UNCHANGED Log
     \/ /\ Faulty
        /\ pairs' = [pairs EXCEPT ![LocalPair(j, job[j].host)].backup = None]
        /\ FailsAudited(j)
  /\ UNCHANGED <<World, clock, exports, records>>

PutBackup(j) ==
  /\ job[j].pc = "put"
  /\ \/ /\ records' = [records EXCEPT !.backups =
             Put(@, [key |-> KeyOf(j, job[j].host), path |-> LocalPair(j, job[j].host)])]
        /\ To(j, "created")
        /\ UNCHANGED Log
     \/ Faulty /\ FailsAudited(j) /\ UNCHANGED records
  /\ UNCHANGED <<World, clock, exports, pairs>>

Create(j) ==
  /\ job[j].pc \in {"created", "restored"}
  /\ Record(j, job[j].verb, "ok")
  /\ End(j, "ok")
  /\ UNCHANGED <<Workstation, World>>

-------------------------------------------------------------------------------
(* Restore.                                                                  *)

BackupRecord(k) == CHOOSE r \in records.backups : r.key = k

PairOf(j) == pairs[BackupRecord(job[j].key).path]

(* A key the store does not have, and a pair with a file missing.            *)
GetBackup(j) ==
  /\ job[j].pc = "stat"
  /\ IF ~\E r \in records.backups : r.key = job[j].key
     THEN End(j, "error") /\ UNCHANGED Log
     ELSE IF PairOf(j).backup # None /\ PairOf(j).yaml # None
     THEN To(j, "push") /\ UNCHANGED Log
     ELSE FailsAudited(j)
  /\ UNCHANGED <<Workstation, World>>

(* A create that took the same key may have removed the local file since.    *)
SendBackup(j) ==
  /\ job[j].pc = "push"
  /\ Writes(j)
  /\ \/ /\ PairOf(j).backup # None
        /\ Written(j, "backup", PairOf(j).backup)
        /\ To(j, "pushyaml")
        /\ UNCHANGED Log
     \/ /\ Faulty \/ PairOf(j).backup = None
        /\ FailsAudited(j)
        /\ UNCHANGED remote
  /\ UNCHANGED PairsAside

SendYAMLAnyway(j) ==
  /\ job[j].pc = "pushyaml"
  /\ Writes(j)
  /\ \/ Written(j, "yaml", PairOf(j).yaml)
     \/ Faulty /\ UNCHANGED remote
  /\ To(j, "restore")
  /\ UNCHANGED Log
  /\ UNCHANGED PairsAside

SendYAML(j) ==
  /\ job[j].pc = "pushyaml"
  /\ Writes(j)
  /\ \/ /\ Written(j, "yaml", PairOf(j).yaml)
        /\ To(j, "restore")
        /\ UNCHANGED Log
     \/ Faulty /\ FailsAudited(j) /\ UNCHANGED remote
  /\ UNCHANGED PairsAside

(* The wrapper loads the host's pair into the database.                      *)
Restore(j) ==
  /\ job[j].pc = "restore"
  /\ LET h == job[j].host IN
     \/ /\ game' = [game EXCEPT ![h].char = remote[h].backup.char]
        /\ last' = [last EXCEPT ![h] = j]
        /\ LET met == <<remote[h].backup, remote[h].yaml>> IN
           \/ /\ job' = [job EXCEPT ![j].pc = "restored", ![j].ran = met]
              /\ UNCHANGED Log
           \/ Faulty /\ AnswerLost(j, met)
     \/ Faulty /\ FailsAudited(j) /\ UNCHANGED <<game, last>>
  /\ UNCHANGED <<Workstation, script, sessions, patches, remote, overtaken, crossed>>

-------------------------------------------------------------------------------
(* The process ends, and every call with it.                                 *)
Kill ==
  /\ Faulty
  /\ \E j \in Jobs : Running(j)
  /\ job' = [j \in Jobs |-> IF Running(j) THEN Ended(job[j], "dead", "none") ELSE job[j]]
  /\ UNCHANGED <<Workstation, World, Log>>

Idle ==
  /\ \A j \in Jobs : job[j].pc \in {"done", "dead"}
  /\ UNCHANGED vars

AvatarStep(j) ==
  \/ avatarExport(j) \/ avatarImport(j) \/ avatarTransfer(j) \/ Check(j) \/ Transfer(j)
  \/ IsPlayerOffline(j) \/ CharacterName(j) \/ CharacterExport(j) \/ WriteFile(j)
  \/ PutExport(j) \/ Export(j) \/ GetExport(j) \/ ImportGate(j) \/ ChecksumGate(j)
  \/ CharacterImport(j) \/ Import(j)

BackupStep(j) ==
  \/ backupCmd(j) \/ RunBackup(j) \/ Describe(j) \/ RecvBackup(j) \/ RecvYAML(j) \/ PutBackup(j)
  \/ Create(j) \/ GetBackup(j) \/ SendBackup(j) \/ SendYAML(j) \/ Restore(j)

Next ==
  \/ \E h \in Hosts : Login(h) \/ Logout(h) \/ Patch(h)
  \/ \E j \in Jobs : AvatarStep(j) \/ BackupStep(j)
  \/ Kill \/ Idle

Spec == Init /\ [][Next]_vars

-------------------------------------------------------------------------------
(* Two calls that took the same key, and with it the same path.              *)
Took(j, verbs, key) == job[j].verb \in verbs /\ job[j].at # None /\ KeyOf(j, From(j)) = key

Twice(verbs, key) ==
  \E j, k \in Jobs : j # k /\ Took(j, verbs, key) /\ Took(k, verbs, key)

Exporting == {"export", "transfer"}

(* What the store lists can be put back: the file of every export record is  *)
(* there and of the build the record says, and the two files of every backup *)
(* record are there and from one run of the wrapper, whatever failed or      *)
(* ended before, after and between (avatar.go:134-150, create.go:66-93).     *)
(* Excepted are keys that two calls took in one second, and of a pair that   *)
(* another call crossed on the host, that it is of one run.                  *)
RecordsKeepTheirFiles ==
  /\ \A r \in records.exports :
       Twice(Exporting, r.key) \/ (exports[r.path] # None /\ exports[r.path].build = r.build)
  /\ \A r \in records.backups :
       \/ Twice({"create"}, r.key)
       \/ /\ None \notin {pairs[r.path].backup, pairs[r.path].yaml}
          /\ \/ pairs[r.path].backup = pairs[r.path].yaml
             \/ \E j \in crossed : Took(j, {"create"}, r.key)

(* A character is not imported into a host of another build than it comes    *)
(* from, also when a host is patched between the gates of a transfer and its *)
(* import: only a patch after the import has read the checksum gets through, *)
(* and an export whose key two calls took (transfer.go:52-57).               *)
NeverAcrossBuilds ==
  \A j \in Jobs :
    (job[j].verb \in {"import", "transfer"} /\ job[j].ran # <<>> /\ j \notin overtaken)
    => job[j].ran[1] = job[j].ran[2] \/ Twice(Exporting, job[j].key)

(* What a call overwrites a character with is what it was asked to put back: *)
(* the record of the key, which of a transfer is one of the source, or the   *)
(* backup of the key, and it stays until the player plays or another call    *)
(* comes (transfer.go:99-103).  A restore pushes its two files one by one    *)
(* and may fail in between, and yet the wrapper's import finds the pair of   *)
(* one backup on the host, unless another call crossed it there              *)
(* (restore.go:55-67).  Keys that two calls took are excepted.               *)
PutBackAsRecorded ==
  /\ \A h \in Hosts :
       LET j == last[h] IN
       /\ (j # None /\ job[j].verb = "restore") =>
            \/ j \in crossed \/ Twice({"create"}, job[j].key)
            \/ game[h].char = PairOf(j).backup.char
       /\ (j # None /\ job[j].verb # "restore") =>
            \/ Twice(Exporting, job[j].key)
            \/ game[h].char = exports[ExportRecord(job[j].key).path].char
       /\ (j # None /\ job[j].verb = "transfer") => job[j].key[1] # h
  /\ \A j \in Jobs :
       (job[j].verb = "restore" /\ job[j].ran # <<>>)
       => \/ job[j].ran = <<PairOf(j).backup, PairOf(j).yaml>>
          \/ j \in crossed \/ Twice({"create"}, job[j].key)

(* Of a call that ended and overwrote a character an entry was written,      *)
(* whether or not the store took it, also when the answer of the statement   *)
(* was lost; and an entry that says ok of an import or a restore is of a     *)
(* call that did (transfer.go:61, restore.go:73, avatar.go:70).              *)
OverwritesAreAudited ==
  /\ \A j \in Jobs :
       (job[j].pc = "done" /\ job[j].ran # <<>>)
       => \E e \in audit \cup unlogged : e.job = j /\ e.what # "export"
  /\ \A e \in audit \cup unlogged :
       (e.result = "ok" /\ e.what \in {"import", "transfer", "restore"})
       => job[e.job].ran # <<>>
===============================================================================
