---------------------------- MODULE ArchiveProofs ----------------------------
(* What holds of any hosts and starts, with failures or without: the four    *)
(* properties that the run "archive" checks.                                 *)
EXTENDS Archive, TLAPS

-------------------------------------------------------------------------------
(* Which fields the records have, and what a step of a call may touch.       *)

JobFields ==
  {"pc", "verb", "host", "src", "key", "confirm", "check", "named", "todo", "rep", "data",
   "sum", "at", "ran", "result"}

Pair == {"backup", "yaml"}

ShapeInv ==
  /\ Len(script) \in Nat
  /\ DOMAIN job = Jobs
  /\ \A j \in Jobs : DOMAIN job[j] = JobFields
  /\ DOMAIN game = Hosts
  /\ \A h \in Hosts : DOMAIN game[h] = {"char", "online", "build"}
  /\ DOMAIN last = Hosts
  /\ DOMAIN exports = Hosts \X Seconds
  /\ DOMAIN pairs = Hosts \X Seconds
  /\ \A k \in Hosts \X Seconds : DOMAIN pairs[k] = Pair
  /\ DOMAIN remote = Hosts
  /\ \A h \in Hosts : DOMAIN remote[h] = Pair
  /\ DOMAIN records = {"exports", "backups"}

Called(j) == avatarExport(j) \/ avatarImport(j) \/ avatarTransfer(j) \/ backupCmd(j)

JobStep(j) == AvatarStep(j) \/ BackupStep(j)

(* Everything of a call but its point stays.                                 *)
Same(j) ==
  /\ job'[j].verb = job[j].verb /\ job'[j].host = job[j].host /\ job'[j].src = job[j].src
  /\ job'[j].key = job[j].key /\ job'[j].data = job[j].data /\ job'[j].ran = job[j].ran
  /\ job'[j].sum = job[j].sum /\ job'[j].at = job[j].at

(* What is left of it when it is over.                                       *)
Over(j) ==
  /\ job'[j].verb = job[j].verb /\ job'[j].host = job[j].host /\ job'[j].src = job[j].src
  /\ job'[j].key = job[j].key /\ job'[j].at = job[j].at

Others(j) ==
  /\ DOMAIN job' = Jobs /\ DOMAIN job'[j] = JobFields
  /\ \A k \in Jobs : k # j => job'[k] = job[k]

LEMMA ToMoves ==
  ASSUME ShapeInv, NEW j \in Jobs, NEW pc, To(j, pc)
  PROVE  Others(j) /\ Same(j) /\ job'[j].pc = pc
BY DEF ShapeInv, JobFields, To, Same, Others

LEMMA OverMoves ==
  ASSUME ShapeInv, NEW j \in Jobs, NEW pc, NEW r,
         job' = [job EXCEPT ![j] = Ended(@, pc, r)]
  PROVE  Others(j) /\ Over(j) /\ job'[j].pc = pc /\ job'[j].ran = job[j].ran
BY DEF ShapeInv, JobFields, Ended, IdleJob, Over, Others

LEMMA EndMoves ==
  ASSUME ShapeInv, NEW j \in Jobs, NEW r, End(j, r)
  PROVE  Others(j) /\ Over(j) /\ job'[j].pc = "done" /\ job'[j].ran = job[j].ran
BY OverMoves DEF End

LEMMA LostMoves ==
  ASSUME ShapeInv, NEW j \in Jobs, NEW met, AnswerLost(j, met)
  PROVE  /\ Others(j) /\ Over(j) /\ job'[j].pc = "done" /\ job'[j].ran = met
         /\ Record(j, job[j].verb, "error")
BY DEF ShapeInv, JobFields, AnswerLost, Ended, IdleJob, Over, Others

LEMMA StartMoves ==
  ASSUME ShapeInv, NEW j \in Jobs, Called(j)
  PROVE  /\ Others(j)
         /\ job[j].pc = "idle" /\ job[j].at = None
         /\ UNCHANGED <<World, Workstation, Log>>
         /\ job'[j].ran = <<>> /\ job'[j].at = None
         /\ \/ job'[j].pc = "offline" /\ job'[j].verb = "export" /\ job'[j].host \in Hosts
            \/ job'[j].pc = "fetch" /\ job'[j].verb = "import" /\ job'[j].host \in Hosts
            \/ /\ job'[j].pc = "check" /\ job'[j].verb = "transfer" /\ job'[j].host \in Hosts
               /\ job'[j].src \in Hosts /\ job'[j].src # job'[j].host
            \/ job'[j].pc = "wrap" /\ job'[j].verb = "create" /\ job'[j].host \in Hosts
            \/ job'[j].pc = "stat" /\ job'[j].verb = "restore" /\ job'[j].host = job'[j].key[1]
<1> USE DEF ShapeInv, JobFields, Others, Begin, IdleJob
<1>1. CASE avatarExport(j)
  BY <1>1 DEF avatarExport
<1>2. CASE avatarImport(j)
  BY <1>2 DEF avatarImport
<1>3. CASE avatarTransfer(j)
  BY <1>3 DEF avatarTransfer
<1>4. CASE \E h \in Hosts :
             Begin(j, [IdleJob EXCEPT !.pc = "wrap", !.verb = "create", !.host = h])
  BY <1>4
<1>5. ASSUME NEW k, Begin(j, [IdleJob EXCEPT !.pc = "stat", !.verb = "restore", !.host = k[1],
                                             !.key = k, !.confirm = TRUE])
      PROVE  /\ Others(j) /\ job[j].pc = "idle" /\ job[j].at = None
             /\ UNCHANGED <<World, Workstation, Log>>
             /\ job'[j].ran = <<>> /\ job'[j].at = None
             /\ job'[j].pc = "stat" /\ job'[j].verb = "restore"
             /\ job'[j].host = job'[j].key[1]
  BY <1>5
<1> QED
  BY <1>1, <1>2, <1>3, <1>4, <1>5 DEF Called, backupCmd

(* What a step of a call does to its record; what it does to the rest of the *)
(* state is left to the lemmas that follow.                                  *)
Goes(j, from, to) == job[j].pc = from /\ job'[j].pc = to /\ Same(j)

Framed(j) ==
  /\ Others(j) /\ script' = script
  /\ job[j].pc \notin {"done", "dead"} /\ job'[j].pc # "idle"
  /\ job[j].pc = "idle" => Called(j)
  /\ job[j].pc # "idle" =>
       /\ job'[j].verb = job[j].verb /\ job'[j].host = job[j].host /\ job'[j].src = job[j].src
       /\ job'[j].at = job[j].at \/ job[j].pc \in {"dump", "wrapyaml"}
  /\ overtaken' = overtaken /\ crossed \subseteq crossed'

(* The end of the process: every running call is left as it was.             *)
Dies ==
  /\ DOMAIN job' = Jobs
  /\ \A k \in Jobs :
       \/ job'[k] = job[k] /\ ~Running(k)
       \/ /\ Running(k) /\ DOMAIN job'[k] = JobFields /\ Over(k)
          /\ job'[k].pc = "dead" /\ job'[k].ran = job[k].ran
  /\ UNCHANGED <<Workstation, World, Log>>

LEMMA KillMoves == ASSUME ShapeInv, Kill PROVE Dies
<1>1. \A k \in Jobs :
        job'[k] = IF Running(k) THEN Ended(job[k], "dead", "none") ELSE job[k]
  BY DEF Kill
<1>2. DOMAIN job' = Jobs
  BY DEF Kill
<1> QED BY <1>1, <1>2 DEF Kill, Dies, ShapeInv, JobFields, Ended, IdleJob, Over

LEMMA StepFrames == ASSUME ShapeInv, NEW j \in Jobs, JobStep(j) PROVE Framed(j)
<1>1. ASSUME Called(j) PROVE Framed(j)
  BY <1>1, StartMoves DEF Framed, World
<1> USE ToMoves, OverMoves, EndMoves, LostMoves
    DEF Framed, Same, Over, World, Workstation, Fails, FailsAudited, PairsAside, Writes
<1>2. ASSUME Check(j) PROVE Framed(j)
  BY <1>2 DEF Check, ShapeInv, JobFields, Others
<1>3. ASSUME Transfer(j) PROVE Framed(j)
  BY <1>3 DEF Transfer, ShapeInv, JobFields, Others
<1>4. ASSUME IsPlayerOffline(j) PROVE Framed(j)
  BY <1>4 DEF IsPlayerOffline
<1>5. ASSUME CharacterName(j) PROVE Framed(j)
  BY <1>5 DEF CharacterName, ShapeInv, JobFields, Others
<1>6. ASSUME CharacterExport(j) PROVE Framed(j)
  <2>1. CASE FailsAudited(j)
    BY <1>6, <2>1 DEF CharacterExport
  <2>2. CASE ~FailsAudited(j)
    <3>1. PICK t \in Now :
            job' = [job EXCEPT ![j].pc = "file", ![j].at = t,
                               ![j].data = [char |-> game[From(j)].char,
                                            build |-> game[From(j)].build]]
      BY <1>6, <2>2 DEF CharacterExport
    <3>2. /\ Others(j) /\ job'[j].pc = "file" /\ job'[j].verb = job[j].verb
          /\ job'[j].host = job[j].host /\ job'[j].src = job[j].src
      BY <3>1 DEF ShapeInv, JobFields, Others
    <3> QED BY <1>6, <3>2 DEF CharacterExport
  <2> QED BY <2>1, <2>2
<1>7. ASSUME WriteFile(j) PROVE Framed(j)
  BY <1>7 DEF WriteFile
<1>8. ASSUME PutExport(j) PROVE Framed(j)
  BY <1>8 DEF PutExport
<1>9. ASSUME Export(j) PROVE Framed(j)
  BY <1>9 DEF Export, ShapeInv, JobFields, Others
<1>10. ASSUME GetExport(j) PROVE Framed(j)
  BY <1>10 DEF GetExport, ShapeInv, JobFields, Others
<1>11. ASSUME ImportGate(j) PROVE Framed(j)
  BY <1>11 DEF ImportGate
<1>12. ASSUME ChecksumGate(j) PROVE Framed(j)
  BY <1>12 DEF ChecksumGate
<1>13. ASSUME CharacterImport(j) PROVE Framed(j)
  BY <1>13 DEF CharacterImport, ShapeInv, JobFields, Others
<1>14. ASSUME Import(j) PROVE Framed(j)
  BY <1>14 DEF Import
<1>15. ASSUME RunBackup(j) PROVE Framed(j)
  BY <1>15 DEF RunBackup, ShapeInv, JobFields, Others
<1>25. ASSUME Describe(j) PROVE Framed(j)
  BY <1>25 DEF Describe, ShapeInv, JobFields, Others
<1>16. ASSUME RecvBackup(j) PROVE Framed(j)
  BY <1>16 DEF RecvBackup
<1>17. ASSUME RecvYAML(j) PROVE Framed(j)
  BY <1>17 DEF RecvYAML
<1>18. ASSUME PutBackup(j) PROVE Framed(j)
  BY <1>18 DEF PutBackup
<1>19. ASSUME Create(j) PROVE Framed(j)
  BY <1>19 DEF Create
<1>20. ASSUME GetBackup(j) PROVE Framed(j)
  BY <1>20 DEF GetBackup
<1>21. ASSUME SendBackup(j) PROVE Framed(j)
  BY <1>21 DEF SendBackup
<1>22. ASSUME SendYAML(j) PROVE Framed(j)
  BY <1>22 DEF SendYAML
<1>23. ASSUME Restore(j) PROVE Framed(j)
  BY <1>23 DEF Restore, ShapeInv, JobFields, Others
<1> QED
  BY <1>1, <1>2, <1>3, <1>4, <1>5, <1>6, <1>7, <1>8, <1>9, <1>10, <1>11,
     <1>12, <1>13, <1>14, <1>15, <1>16, <1>17, <1>18, <1>19, <1>20, <1>21,
     <1>22, <1>23, <1>25 DEF JobStep, AvatarStep, BackupStep, Called

(* What a step of a call may do to the stores, the hosts and their players.  *)
Meets(j) == \A k \in Jobs : k # j /\ Using(k, job[j].host) => k \in crossed'

Stores(j) ==
  /\ \/ exports' = exports
     \/ /\ job[j].pc = "file" /\ DOMAIN exports' = DOMAIN exports
        /\ \A k \in Hosts \X Seconds :
             k # KeyOf(j, From(j)) => exports'[k] = exports[k]
  /\ \/ pairs' = pairs
     \/ /\ job[j].pc \in {"pull", "pullyaml"} /\ DOMAIN pairs' = DOMAIN pairs
        /\ \A k \in Hosts \X Seconds :
             DOMAIN pairs'[k] = Pair /\ (k # KeyOf(j, job[j].host) => pairs'[k] = pairs[k])
  /\ \/ remote' = remote
     \/ /\ job[j].pc \in {"wrap", "wrapyaml", "push", "pushyaml"} /\ Meets(j)
        /\ DOMAIN remote' = DOMAIN remote
        /\ \A h \in Hosts :
             DOMAIN remote'[h] = Pair /\ (h # job[j].host => remote'[h] = remote[h])
  /\ sessions' = sessions

Lists(j) ==
  \/ records' = records
  \/ /\ Goes(j, "record", "exported")
     /\ DOMAIN records' = DOMAIN records /\ records'.backups = records.backups
     /\ records'.exports = Put(records.exports,
          [key |-> KeyOf(j, From(j)), path |-> KeyOf(j, From(j)),
           named |-> job[j].rep.name, build |-> job[j].data.build])
  \/ /\ Goes(j, "put", "created")
     /\ DOMAIN records' = DOMAIN records /\ records'.exports = records.exports
     /\ records'.backups = Put(records.backups,
          [key |-> KeyOf(j, job[j].host), path |-> KeyOf(j, job[j].host)])

Plays(j) ==
  \/ game' = game /\ last' = last
  \/ /\ job[j].pc \in {"load", "restore"}
     /\ DOMAIN game' = DOMAIN game /\ DOMAIN last' = DOMAIN last
     /\ \A h \in Hosts : DOMAIN game'[h] = DOMAIN game[h] /\ game'[h].build = game[h].build
     /\ \A h \in Hosts : h # job[j].host => game'[h] = game[h] /\ last'[h] = last[h]
     /\ job[j].host \in Hosts =>
          /\ last'[job[j].host] = j /\ job'[j].ran # <<>>
          /\ game'[job[j].host].char =
               IF job[j].pc = "load" THEN job[j].data.char ELSE remote[job[j].host].backup.char
     /\ job'[j].pc \in {"imported", "restored", "done"}

LEMMA StepStores == ASSUME ShapeInv, NEW j \in Jobs, JobStep(j) PROVE Stores(j)
<1>1. ASSUME Called(j) PROVE Stores(j)
  BY <1>1, StartMoves DEF Stores, World, Workstation
<1> USE DEF Stores, World, Workstation, PairsAside
<1>2. ASSUME Check(j) PROVE Stores(j)
  BY <1>2 DEF Check
<1>3. ASSUME Transfer(j) PROVE Stores(j)
  BY <1>3 DEF Transfer
<1>4. ASSUME IsPlayerOffline(j) PROVE Stores(j)
  BY <1>4 DEF IsPlayerOffline
<1>5. ASSUME CharacterName(j) PROVE Stores(j)
  BY <1>5 DEF CharacterName
<1>6. ASSUME CharacterExport(j) PROVE Stores(j)
  BY <1>6 DEF CharacterExport
<1>7. ASSUME WriteFile(j) PROVE Stores(j)
  BY <1>7 DEF WriteFile, ShapeInv, ExportPath
<1>8. ASSUME PutExport(j) PROVE Stores(j)
  BY <1>8 DEF PutExport
<1>9. ASSUME Export(j) PROVE Stores(j)
  BY <1>9 DEF Export
<1>10. ASSUME GetExport(j) PROVE Stores(j)
  BY <1>10 DEF GetExport
<1>11. ASSUME ImportGate(j) PROVE Stores(j)
  BY <1>11 DEF ImportGate
<1>12. ASSUME ChecksumGate(j) PROVE Stores(j)
  BY <1>12 DEF ChecksumGate
<1>13. ASSUME CharacterImport(j) PROVE Stores(j)
  BY <1>13 DEF CharacterImport
<1>14. ASSUME Import(j) PROVE Stores(j)
  BY <1>14 DEF Import
<1>15. ASSUME RunBackup(j) PROVE Stores(j)
  BY <1>15 DEF RunBackup, ShapeInv, Pair, Written, Writes, Meets
<1>25. ASSUME Describe(j) PROVE Stores(j)
  BY <1>25 DEF Describe, ShapeInv, Pair, Written, Writes, Meets
<1>16. ASSUME RecvBackup(j) PROVE Stores(j)
  BY <1>16 DEF RecvBackup, ShapeInv, LocalPair, Pair
<1>17. ASSUME RecvYAML(j) PROVE Stores(j)
  BY <1>17 DEF RecvYAML, ShapeInv, LocalPair, Pair
<1>18. ASSUME PutBackup(j) PROVE Stores(j)
  BY <1>18 DEF PutBackup
<1>19. ASSUME Create(j) PROVE Stores(j)
  BY <1>19 DEF Create
<1>20. ASSUME GetBackup(j) PROVE Stores(j)
  BY <1>20 DEF GetBackup
<1>21. ASSUME SendBackup(j) PROVE Stores(j)
  BY <1>21 DEF SendBackup, ShapeInv, Pair, Written, Writes, Meets
<1>22. ASSUME SendYAML(j) PROVE Stores(j)
  BY <1>22 DEF SendYAML, ShapeInv, Pair, Written, Writes, Meets
<1>23. ASSUME Restore(j) PROVE Stores(j)
  BY <1>23 DEF Restore
<1> QED
  BY <1>1, <1>2, <1>3, <1>4, <1>5, <1>6, <1>7, <1>8, <1>9, <1>10, <1>11,
     <1>12, <1>13, <1>14, <1>15, <1>16, <1>17, <1>18, <1>19, <1>20, <1>21,
     <1>22, <1>23, <1>25 DEF JobStep, AvatarStep, BackupStep, Called

LEMMA StepLists == ASSUME ShapeInv, NEW j \in Jobs, JobStep(j) PROVE Lists(j)
<1>1. ASSUME Called(j) PROVE Lists(j)
  BY <1>1, StartMoves DEF Lists, Workstation
<1> USE DEF Lists, World, Workstation, PairsAside
<1>2. ASSUME Check(j) PROVE Lists(j)
  BY <1>2 DEF Check
<1>3. ASSUME Transfer(j) PROVE Lists(j)
  BY <1>3 DEF Transfer
<1>4. ASSUME IsPlayerOffline(j) PROVE Lists(j)
  BY <1>4 DEF IsPlayerOffline
<1>5. ASSUME CharacterName(j) PROVE Lists(j)
  BY <1>5 DEF CharacterName
<1>6. ASSUME CharacterExport(j) PROVE Lists(j)
  BY <1>6 DEF CharacterExport
<1>7. ASSUME WriteFile(j) PROVE Lists(j)
  BY <1>7 DEF WriteFile
<1>8. ASSUME PutExport(j) PROVE Lists(j)
  BY <1>8, ToMoves DEF PutExport, ShapeInv, ExportPath, Goes
<1>9. ASSUME Export(j) PROVE Lists(j)
  BY <1>9 DEF Export
<1>10. ASSUME GetExport(j) PROVE Lists(j)
  BY <1>10 DEF GetExport
<1>11. ASSUME ImportGate(j) PROVE Lists(j)
  BY <1>11 DEF ImportGate
<1>12. ASSUME ChecksumGate(j) PROVE Lists(j)
  BY <1>12 DEF ChecksumGate
<1>13. ASSUME CharacterImport(j) PROVE Lists(j)
  BY <1>13 DEF CharacterImport
<1>14. ASSUME Import(j) PROVE Lists(j)
  BY <1>14 DEF Import
<1>15. ASSUME RunBackup(j) PROVE Lists(j)
  BY <1>15 DEF RunBackup
<1>25. ASSUME Describe(j) PROVE Lists(j)
  BY <1>25 DEF Describe
<1>16. ASSUME RecvBackup(j) PROVE Lists(j)
  BY <1>16 DEF RecvBackup
<1>17. ASSUME RecvYAML(j) PROVE Lists(j)
  BY <1>17 DEF RecvYAML
<1>18. ASSUME PutBackup(j) PROVE Lists(j)
  BY <1>18, ToMoves DEF PutBackup, ShapeInv, LocalPair, Goes
<1>19. ASSUME Create(j) PROVE Lists(j)
  BY <1>19 DEF Create
<1>20. ASSUME GetBackup(j) PROVE Lists(j)
  BY <1>20 DEF GetBackup
<1>21. ASSUME SendBackup(j) PROVE Lists(j)
  BY <1>21 DEF SendBackup
<1>22. ASSUME SendYAML(j) PROVE Lists(j)
  BY <1>22 DEF SendYAML
<1>23. ASSUME Restore(j) PROVE Lists(j)
  BY <1>23 DEF Restore
<1> QED
  BY <1>1, <1>2, <1>3, <1>4, <1>5, <1>6, <1>7, <1>8, <1>9, <1>10, <1>11,
     <1>12, <1>13, <1>14, <1>15, <1>16, <1>17, <1>18, <1>19, <1>20, <1>21,
     <1>22, <1>23, <1>25 DEF JobStep, AvatarStep, BackupStep, Called

LEMMA StepPlays == ASSUME ShapeInv, NEW j \in Jobs, JobStep(j) PROVE Plays(j)
<1>1. ASSUME Called(j) PROVE Plays(j)
  BY <1>1, StartMoves DEF Plays, World
<1> USE DEF Plays, World, Workstation, PairsAside
<1>2. ASSUME Check(j) PROVE Plays(j)
  BY <1>2 DEF Check
<1>3. ASSUME Transfer(j) PROVE Plays(j)
  BY <1>3 DEF Transfer
<1>4. ASSUME IsPlayerOffline(j) PROVE Plays(j)
  BY <1>4 DEF IsPlayerOffline
<1>5. ASSUME CharacterName(j) PROVE Plays(j)
  BY <1>5 DEF CharacterName
<1>6. ASSUME CharacterExport(j) PROVE Plays(j)
  BY <1>6 DEF CharacterExport
<1>7. ASSUME WriteFile(j) PROVE Plays(j)
  BY <1>7 DEF WriteFile
<1>8. ASSUME PutExport(j) PROVE Plays(j)
  BY <1>8 DEF PutExport
<1>9. ASSUME Export(j) PROVE Plays(j)
  BY <1>9 DEF Export
<1>10. ASSUME GetExport(j) PROVE Plays(j)
  BY <1>10 DEF GetExport
<1>11. ASSUME ImportGate(j) PROVE Plays(j)
  BY <1>11 DEF ImportGate
<1>12. ASSUME ChecksumGate(j) PROVE Plays(j)
  BY <1>12 DEF ChecksumGate
<1>13. ASSUME CharacterImport(j) PROVE Plays(j)
  <2> DEFINE h == job[j].host
  <2>1. CASE UNCHANGED <<game, last>>
    BY <2>1
  <2>2. CASE ~UNCHANGED <<game, last>>
    <3>1. /\ job[j].pc = "load"
          /\ game' = [game EXCEPT ![h].char = job[j].data.char]
          /\ last' = [last EXCEPT ![h] = j]
      BY <1>13, <2>2 DEF CharacterImport
    <3>2. job'[j].pc \in {"imported", "done"} /\ job'[j].ran = <<job[j].data.build, game[h].build>>
      BY <1>13, <2>2, LostMoves DEF CharacterImport, ShapeInv, JobFields
    <3>3. <<job[j].data.build, game[h].build>> # <<>>
      OBVIOUS
    <3> HIDE DEF h
    <3>4. /\ DOMAIN game' = DOMAIN game /\ DOMAIN last' = DOMAIN last
          /\ \A i \in Hosts : DOMAIN game'[i] = DOMAIN game[i] /\ game'[i].build = game[i].build
          /\ \A i \in Hosts : i # h => game'[i] = game[i] /\ last'[i] = last[i]
          /\ h \in Hosts => last'[h] = j /\ game'[h].char = job[j].data.char
      BY <3>1 DEF ShapeInv
    <3> QED BY <3>1, <3>2, <3>3, <3>4 DEF h
  <2> QED BY <2>1, <2>2
<1>14. ASSUME Import(j) PROVE Plays(j)
  BY <1>14 DEF Import
<1>15. ASSUME RunBackup(j) PROVE Plays(j)
  BY <1>15 DEF RunBackup
<1>25. ASSUME Describe(j) PROVE Plays(j)
  BY <1>25 DEF Describe
<1>16. ASSUME RecvBackup(j) PROVE Plays(j)
  BY <1>16 DEF RecvBackup
<1>17. ASSUME RecvYAML(j) PROVE Plays(j)
  BY <1>17 DEF RecvYAML
<1>18. ASSUME PutBackup(j) PROVE Plays(j)
  BY <1>18 DEF PutBackup
<1>19. ASSUME Create(j) PROVE Plays(j)
  BY <1>19 DEF Create
<1>20. ASSUME GetBackup(j) PROVE Plays(j)
  BY <1>20 DEF GetBackup
<1>21. ASSUME SendBackup(j) PROVE Plays(j)
  BY <1>21 DEF SendBackup
<1>22. ASSUME SendYAML(j) PROVE Plays(j)
  BY <1>22 DEF SendYAML
<1>23. ASSUME Restore(j) PROVE Plays(j)
  <2> DEFINE h == job[j].host
  <2>1. CASE UNCHANGED <<game, last>>
    BY <2>1
  <2>2. CASE ~UNCHANGED <<game, last>>
    <3>1. /\ job[j].pc = "restore"
          /\ game' = [game EXCEPT ![h].char = remote[h].backup.char]
          /\ last' = [last EXCEPT ![h] = j]
      BY <1>23, <2>2 DEF Restore
    <3>2. job'[j].pc \in {"restored", "done"} /\ job'[j].ran = <<remote[h].backup, remote[h].yaml>>
      BY <1>23, <2>2, LostMoves DEF Restore, ShapeInv, JobFields
    <3>3. <<remote[h].backup, remote[h].yaml>> # <<>>
      OBVIOUS
    <3> HIDE DEF h
    <3>4. /\ DOMAIN game' = DOMAIN game /\ DOMAIN last' = DOMAIN last
          /\ \A i \in Hosts : DOMAIN game'[i] = DOMAIN game[i] /\ game'[i].build = game[i].build
          /\ \A i \in Hosts : i # h => game'[i] = game[i] /\ last'[i] = last[i]
          /\ h \in Hosts => last'[h] = j /\ game'[h].char = remote[h].backup.char
      BY <3>1 DEF ShapeInv
    <3> QED BY <3>1, <3>2, <3>3, <3>4 DEF h
  <2> QED BY <2>1, <2>2
<1> QED
  BY <1>1, <1>2, <1>3, <1>4, <1>5, <1>6, <1>7, <1>8, <1>9, <1>10, <1>11,
     <1>12, <1>13, <1>14, <1>15, <1>16, <1>17, <1>18, <1>19, <1>20, <1>21,
     <1>22, <1>23, <1>25 DEF JobStep, AvatarStep, BackupStep, Called

LEMMA StepShape == ShapeInv /\ [Next]_vars => ShapeInv'
<1> SUFFICES ASSUME ShapeInv, [Next]_vars PROVE ShapeInv'
  OBVIOUS
<1>1. ASSUME NEW j \in Jobs, JobStep(j) PROVE ShapeInv'
  <2>1. Framed(j) /\ Stores(j) /\ Lists(j) /\ Plays(j)
    BY <1>1, StepFrames, StepStores, StepLists, StepPlays
  <2>2. Jobs' = Jobs /\ Len(script)' = Len(script)
    BY <2>1 DEF Framed, Jobs
  <2>3. DOMAIN job' = Jobs /\ \A k \in Jobs : DOMAIN job'[k] = JobFields
    BY <2>1 DEF ShapeInv, Framed, Others
  <2>4. DOMAIN game' = Hosts /\ DOMAIN last' = Hosts
        /\ \A h \in Hosts : DOMAIN game'[h] = {"char", "online", "build"}
    BY <2>1 DEF ShapeInv, Plays
  <2>5. /\ DOMAIN exports' = Hosts \X Seconds /\ DOMAIN pairs' = Hosts \X Seconds
        /\ \A k \in Hosts \X Seconds : DOMAIN pairs'[k] = Pair
        /\ DOMAIN remote' = Hosts /\ \A h \in Hosts : DOMAIN remote'[h] = Pair
    BY <2>1 DEF ShapeInv, Stores
  <2>6. DOMAIN records' = {"exports", "backups"}
    BY <2>1 DEF ShapeInv, Lists
  <2> QED BY <2>2, <2>3, <2>4, <2>5, <2>6 DEF ShapeInv
<1>2. ASSUME NEW h \in Hosts, Login(h) \/ Logout(h) \/ Patch(h) PROVE ShapeInv'
  BY <1>2 DEF ShapeInv, Jobs, Login, Logout, Patch, Workstation
<1>3. CASE UNCHANGED vars
  BY <1>3 DEF vars, ShapeInv, Jobs
<1>4. CASE Kill
  <2>1. Dies
    BY <1>4, KillMoves
  <2> QED BY <2>1 DEF Dies, ShapeInv, Jobs, Workstation, World
<1> QED
  BY <1>1, <1>2, <1>3, <1>4 DEF Next, Idle, JobStep

-------------------------------------------------------------------------------
(* Which points belong to which verb, what a call of it addresses, and when  *)
(* it has its stamp.                                                         *)
Early == {"idle", "check", "offline", "name", "dump", "wrap", "wrapyaml"}

Late == {"file", "record", "exported", "pull", "pullyaml", "put", "created"}

VerbOf(j) ==
  /\ job[j].at \in Seconds \cup {None}
  /\ job[j].pc \in Early => job[j].at = None
  /\ job[j].pc \in Late => job[j].at \in Seconds
  /\ job[j].pc = "check" => job[j].verb = "transfer"
  /\ job[j].pc \in {"offline", "name", "dump", "file", "record", "exported"}
       => job[j].verb \in {"export", "transfer"}
  /\ job[j].pc \in {"fetch", "free", "sum", "load", "imported"}
       => job[j].verb \in {"import", "transfer"}
  /\ job[j].pc \in {"wrap", "wrapyaml", "pull", "pullyaml", "put", "created"} => job[j].verb = "create"
  /\ job[j].pc \in {"stat", "push", "pushyaml", "restore", "restored"} => job[j].verb = "restore"
  /\ Running(j) /\ job[j].verb # "restore" => job[j].host \in Hosts
  /\ Running(j) /\ job[j].verb = "restore" => job[j].host = job[j].key[1]
  /\ Running(j) /\ job[j].verb = "transfer" => job[j].src \in Hosts /\ job[j].src # job[j].host
  /\ job[j].pc \in {"fetch", "free", "sum", "load", "imported"} /\ job[j].verb = "transfer"
       => job[j].key[1] = job[j].src

VerbInv == \A j \in Jobs : VerbOf(j)

LEMMA StepVerb == ASSUME ShapeInv, VerbInv, NEW j \in Jobs, JobStep(j) PROVE VerbOf(j)'
<1>1. ASSUME Called(j) PROVE VerbOf(j)'
  BY <1>1, StartMoves DEF VerbOf, Running, Early, Late
<1> VerbOf(j)
  BY DEF VerbInv
<1> USE ToMoves, OverMoves, EndMoves, LostMoves
    DEF VerbOf, Running, Same, Over, Fails, FailsAudited, Early, Late, Now
<1>2. ASSUME Check(j) PROVE VerbOf(j)'
  BY <1>2 DEF Check, ShapeInv, JobFields
<1>3. ASSUME Transfer(j) PROVE VerbOf(j)'
  BY <1>3 DEF Transfer, ShapeInv, JobFields
<1>4. ASSUME IsPlayerOffline(j) PROVE VerbOf(j)'
  BY <1>4 DEF IsPlayerOffline
<1>5. ASSUME CharacterName(j) PROVE VerbOf(j)'
  BY <1>5 DEF CharacterName, ShapeInv, JobFields
<1>6. ASSUME CharacterExport(j) PROVE VerbOf(j)'
  <2>1. CASE FailsAudited(j)
    BY <1>6, <2>1 DEF CharacterExport
  <2>2. CASE ~FailsAudited(j)
    <3>1. PICK t \in Now :
            job' = [job EXCEPT ![j].pc = "file", ![j].at = t,
                               ![j].data = [char |-> game[From(j)].char,
                                            build |-> game[From(j)].build]]
      BY <1>6, <2>2 DEF CharacterExport
    <3>2. /\ job'[j].pc = "file" /\ job'[j].verb = job[j].verb /\ job'[j].at = t
          /\ job'[j].host = job[j].host /\ job'[j].src = job[j].src /\ job'[j].key = job[j].key
      BY <3>1 DEF ShapeInv, JobFields
    <3> QED BY <1>6, <3>2 DEF CharacterExport
  <2> QED BY <2>1, <2>2
<1>7. ASSUME WriteFile(j) PROVE VerbOf(j)'
  BY <1>7 DEF WriteFile
<1>8. ASSUME PutExport(j) PROVE VerbOf(j)'
  BY <1>8 DEF PutExport
<1>9. ASSUME Export(j) PROVE VerbOf(j)'
  BY <1>9 DEF Export, ShapeInv, JobFields, From, KeyOf
<1>10. ASSUME GetExport(j) PROVE VerbOf(j)'
  BY <1>10 DEF GetExport, ShapeInv, JobFields
<1>11. ASSUME ImportGate(j) PROVE VerbOf(j)'
  BY <1>11 DEF ImportGate
<1>12. ASSUME ChecksumGate(j) PROVE VerbOf(j)'
  BY <1>12 DEF ChecksumGate
<1>13. ASSUME CharacterImport(j) PROVE VerbOf(j)'
  BY <1>13 DEF CharacterImport, ShapeInv, JobFields
<1>14. ASSUME Import(j) PROVE VerbOf(j)'
  BY <1>14 DEF Import
<1>15. ASSUME RunBackup(j) PROVE VerbOf(j)'
  BY <1>15 DEF RunBackup, ShapeInv, JobFields
<1>25. ASSUME Describe(j) PROVE VerbOf(j)'
  BY <1>25 DEF Describe, ShapeInv, JobFields
<1>16. ASSUME RecvBackup(j) PROVE VerbOf(j)'
  BY <1>16 DEF RecvBackup
<1>17. ASSUME RecvYAML(j) PROVE VerbOf(j)'
  BY <1>17 DEF RecvYAML
<1>18. ASSUME PutBackup(j) PROVE VerbOf(j)'
  BY <1>18 DEF PutBackup
<1>19. ASSUME Create(j) PROVE VerbOf(j)'
  BY <1>19 DEF Create
<1>20. ASSUME GetBackup(j) PROVE VerbOf(j)'
  BY <1>20 DEF GetBackup
<1>21. ASSUME SendBackup(j) PROVE VerbOf(j)'
  BY <1>21 DEF SendBackup
<1>22. ASSUME SendYAML(j) PROVE VerbOf(j)'
  BY <1>22 DEF SendYAML
<1>23. ASSUME Restore(j) PROVE VerbOf(j)'
  BY <1>23 DEF Restore, ShapeInv, JobFields
<1> QED
  BY <1>1, <1>2, <1>3, <1>4, <1>5, <1>6, <1>7, <1>8, <1>9, <1>10, <1>11,
     <1>12, <1>13, <1>14, <1>15, <1>16, <1>17, <1>18, <1>19, <1>20, <1>21,
     <1>22, <1>23, <1>25 DEF JobStep, AvatarStep, BackupStep, Called

(* What every step starts from.                                              *)
BaseInv == ShapeInv /\ VerbInv

LEMMA StepBase == BaseInv /\ [Next]_vars => BaseInv'
<1> SUFFICES ASSUME BaseInv, [Next]_vars PROVE VerbInv'
  BY StepShape DEF BaseInv
<1>1. ASSUME NEW j \in Jobs, JobStep(j) PROVE VerbInv'
  <2>1. Framed(j) /\ VerbOf(j)'
    BY <1>1, StepFrames, StepVerb DEF BaseInv
  <2>2. ASSUME NEW k \in Jobs, k # j PROVE VerbOf(k)'
    BY <2>1, <2>2 DEF BaseInv, VerbInv, VerbOf, Framed, Others, Running
  <2> QED BY <2>1, <2>2 DEF VerbInv, Framed, Jobs
<1>2. CASE UNCHANGED <<script, job>>
  BY <1>2 DEF BaseInv, VerbInv, VerbOf, Running, Jobs
<1>3. CASE Kill
  <2>1. Dies /\ Jobs' = Jobs
    BY <1>3, KillMoves DEF BaseInv, Dies, World, Jobs
  <2>2. ASSUME NEW k \in Jobs PROVE VerbOf(k)'
    BY <2>1, <2>2 DEF BaseInv, VerbInv, VerbOf, Dies, Over, Running, Early, Late
  <2> QED BY <2>1, <2>2 DEF VerbInv
<1> QED
  BY <1>1, <1>2, <1>3 DEF Next, Idle, JobStep, Login, Logout, Patch, vars

LEMMA InitBase == Init => BaseInv
<1> SUFFICES ASSUME Init PROVE BaseInv
  OBVIOUS
<1>1. Len(script) \in Nat /\ Jobs \subseteq Nat \ {0}
  BY ArchiveAssumption DEF Init, Jobs
<1>2. \A j \in Jobs : job[j] = IdleJob
  BY DEF Init
<1>3. ShapeInv
  BY <1>1 DEF Init, ShapeInv, IdleJob, JobFields, NoPair, Pair
<1>4. VerbInv
  BY <1>2 DEF VerbInv, VerbOf, Running, IdleJob, Early, Late
<1> QED BY <1>3, <1>4 DEF BaseInv

LEMMA Base == Spec => []BaseInv
BY InitBase, StepBase, PTL DEF Spec

-------------------------------------------------------------------------------
(* Keys that calls took.                                                     *)

LEMMA NoneIsNoSecond == None \notin Seconds
BY ArchiveAssumption DEF Seconds

(* What a step or the end of the process leaves of the calls.                *)
Goneby ==
  /\ Jobs' = Jobs /\ overtaken \subseteq overtaken' /\ crossed \subseteq crossed'
  /\ \A k \in Jobs : job[k].at # None =>
       /\ job'[k].verb = job[k].verb /\ job'[k].host = job[k].host
       /\ job'[k].src = job[k].src /\ job'[k].at = job[k].at

LEMMA StepGoneby == ASSUME BaseInv, NEW j \in Jobs, JobStep(j) PROVE Goneby
<1>1. Framed(j) /\ VerbOf(j)
  BY StepFrames DEF BaseInv, VerbInv
<1> QED BY <1>1 DEF Goneby, Framed, Others, VerbOf, Early, Jobs

LEMMA KillGoneby == ASSUME BaseInv, Kill PROVE Goneby
<1>1. Dies
  BY KillMoves DEF BaseInv
<1> QED BY <1>1 DEF Goneby, Dies, Over, World, Jobs

LEMMA TookStays ==
  ASSUME Goneby, NEW V, NEW key, NEW k \in Jobs, Took(k, V, key)
  PROVE  Took(k, V, key)'
BY DEF Took, KeyOf, From, Goneby

LEMMA TwiceStays ==
  ASSUME Goneby, NEW V, NEW key, Twice(V, key)
  PROVE  Twice(V, key)'
<1>1. PICK j \in Jobs, k \in Jobs : j # k /\ Took(j, V, key) /\ Took(k, V, key)
  BY DEF Twice
<1>2. Took(j, V, key)' /\ Took(k, V, key)' /\ Jobs' = Jobs
  BY <1>1, TookStays DEF Goneby
<1> QED BY <1>1, <1>2 DEF Twice

-------------------------------------------------------------------------------
(* What there may be of characters, exports and backups.                     *)

Chars == Hosts \X Nat

Content == [char : Chars, build : 0..2]

Dump == [char : Chars \cup {None}, run : Nat]

LEMMA NoneIsNothing == None \notin Content /\ None \notin Dump
BY ArchiveAssumption DEF Content, Dump, Chars

Kept(k) == \E r \in records.backups : r.key = k

DataOf(j) ==
  /\ job[j].pc \in {"file", "record", "free", "sum", "load"} => job[j].data \in Content
  /\ job[j].pc = "wrapyaml" => job[j].data \in Dump
  /\ job[j].pc \in {"wrapyaml", "pull", "pushyaml", "restore"} =>
       remote[job[j].host].backup \in Dump
  /\ job[j].pc \in {"pull", "pullyaml"} => remote[job[j].host].yaml \in Dump
  /\ job[j].pc \in {"push", "pushyaml", "restore"} =>
       Kept(job[j].key) /\ pairs[job[j].key].yaml \in Dump

TypeInv ==
  /\ sessions \in Nat
  /\ \A h \in Hosts : game[h].char \in Chars \cup {None} /\ game[h].build \in 0..2
  /\ \A k \in Hosts \X Seconds :
       /\ exports[k] \in Content \cup {None}
       /\ pairs[k].backup \in Dump \cup {None} /\ pairs[k].yaml \in Dump \cup {None}
  /\ \A h \in Hosts :
       remote[h].backup \in Dump \cup {None} /\ remote[h].yaml \in Dump \cup {None}
  /\ \A r \in records.exports \cup records.backups : r.path = r.key /\ r.key \in Hosts \X Seconds
  /\ \A j \in Jobs : DataOf(j)

LEMMA KnownPath ==
  ASSUME TypeInv, NEW k, Known(k)
  PROVE  /\ ExportRecord(k) \in records.exports /\ ExportRecord(k).key = k
         /\ ExportRecord(k).path = k /\ k \in Hosts \X Seconds
<1>1. ExportRecord(k) \in records.exports /\ ExportRecord(k).key = k
  BY DEF Known, ExportRecord
<1> QED BY <1>1 DEF TypeInv

LEMMA KeptPath ==
  ASSUME TypeInv, NEW k, Kept(k)
  PROVE  /\ BackupRecord(k) \in records.backups /\ BackupRecord(k).key = k
         /\ BackupRecord(k).path = k /\ k \in Hosts \X Seconds /\ k[1] \in Hosts
<1>1. BackupRecord(k) \in records.backups /\ BackupRecord(k).key = k
  BY DEF Kept, BackupRecord
<1> QED BY <1>1 DEF TypeInv

(* What a step writes where is of its kind, and nothing replaces no file on  *)
(* a host and no description.                                                *)
TypeStep(j) ==
  /\ \A h \in Hosts : game'[h].char \in Chars \cup {None} /\ game'[h].build \in 0..2
  /\ \A k \in Hosts \X Seconds :
       /\ exports'[k] \in Content \cup {None}
       /\ pairs'[k].backup \in Dump \cup {None} /\ pairs'[k].yaml \in Dump \cup {None}
       /\ pairs[k].yaml \in Dump => pairs'[k].yaml \in Dump
  /\ \A h \in Hosts :
       /\ remote'[h].backup \in Dump \cup {None} /\ remote'[h].yaml \in Dump \cup {None}
       /\ remote[h].backup \in Dump => remote'[h].backup \in Dump
       /\ remote[h].yaml \in Dump => remote'[h].yaml \in Dump
  /\ DataOf(j)'

(* A step that moves a call among points of no data, and nothing else of it. *)
LEMMA TypesKept ==
  ASSUME TypeInv, NEW j \in Jobs, UNCHANGED <<game, exports, pairs, remote>>, DataOf(j)'
  PROVE  TypeStep(j)
BY DEF TypeInv, TypeStep

Pointed == {"file", "record", "free", "sum", "load", "wrapyaml", "pull", "pullyaml", "push",
            "pushyaml", "restore"}

LEMMA NoData == ASSUME NEW j, job'[j].pc \notin Pointed PROVE DataOf(j)'
BY DEF DataOf, Pointed

LEMMA RecordedKeys ==
  ASSUME BaseInv, TypeInv, NEW j \in Jobs, JobStep(j)
  PROVE  \A r \in records'.exports \cup records'.backups :
           r.path = r.key /\ r.key \in Hosts \X Seconds
<1>1. Lists(j) /\ VerbOf(j)
  BY StepLists DEF BaseInv, VerbInv
<1>2. CASE records' = records
  BY <1>2 DEF TypeInv
<1>3. CASE Goes(j, "record", "exported") /\ records' # records
  <2>1. From(j) \in Hosts /\ job[j].at \in Seconds
    BY <1>1, <1>3 DEF Goes, VerbOf, From, Running, Late
  <2>2. KeyOf(j, From(j)) \in Hosts \X Seconds
    BY <2>1 DEF KeyOf
  <2> QED BY <1>1, <1>3, <2>2 DEF Lists, Goes, Put, TypeInv
<1>4. CASE Goes(j, "put", "created") /\ records' # records
  <2>1. job[j].host \in Hosts /\ job[j].at \in Seconds
    BY <1>1, <1>4 DEF Goes, VerbOf, Running, Late
  <2>2. KeyOf(j, job[j].host) \in Hosts \X Seconds
    BY <2>1 DEF KeyOf
  <2> QED BY <1>1, <1>4, <2>2 DEF Lists, Goes, Put, TypeInv
<1> QED BY <1>1, <1>2, <1>3, <1>4 DEF Lists

LEMMA StepKeys ==
  ASSUME ShapeInv, NEW j \in Jobs, JobStep(j)
  PROVE  /\ \A k : Known(k) => Known(k)'
         /\ \A k : Kept(k) => Kept(k)'
<1>1. Lists(j)
  BY StepLists
<1> QED BY <1>1 DEF Lists, Put, Known, Kept

LEMMA StepTypes == ASSUME BaseInv, TypeInv, NEW j \in Jobs, JobStep(j) PROVE TypeStep(j)
<1> USE ToMoves, OverMoves, EndMoves, LostMoves DEF Fails, FailsAudited, Pointed
<1> ShapeInv /\ VerbOf(j) /\ DataOf(j) /\ Stores(j) /\ Lists(j) /\ Plays(j)
  BY StepStores, StepLists, StepPlays DEF BaseInv, VerbInv, TypeInv
<1>0. ASSUME job'[j].pc \notin Pointed, UNCHANGED <<game, exports, pairs, remote>>
      PROVE  TypeStep(j)
  BY <1>0, NoData, TypesKept
<1>1. ASSUME Called(j) PROVE TypeStep(j)
  <2>1. job'[j].pc \notin Pointed \/ job'[j].pc = "stat"
    BY <1>1, StartMoves
  <2> QED BY <1>1, <2>1, StartMoves, <1>0 DEF World, Workstation
<1> USE DEF World, Workstation
<1>2. ASSUME Check(j) PROVE TypeStep(j)
  BY <1>2, <1>0 DEF Check, ShapeInv, JobFields
<1>3. ASSUME Transfer(j) PROVE TypeStep(j)
  BY <1>3, <1>0 DEF Transfer, ShapeInv, JobFields
<1>4. ASSUME IsPlayerOffline(j) PROVE TypeStep(j)
  BY <1>4, <1>0 DEF IsPlayerOffline
<1>5. ASSUME CharacterName(j) PROVE TypeStep(j)
  BY <1>5, <1>0 DEF CharacterName, ShapeInv, JobFields
<1>6. ASSUME CharacterExport(j) PROVE TypeStep(j)
  <2>0. UNCHANGED <<game, exports, pairs, remote>>
    BY <1>6 DEF CharacterExport
  <2>1. CASE FailsAudited(j)
    BY <2>0, <2>1, <1>0
  <2>2. CASE ~FailsAudited(j)
    <3>1. /\ game[From(j)].char # None /\ job[j].pc = "dump"
          /\ \E t \in Now : job' = [job EXCEPT ![j].pc = "file", ![j].at = t,
                               ![j].data = [char |-> game[From(j)].char,
                                            build |-> game[From(j)].build]]
      BY <1>6, <2>2 DEF CharacterExport
    <3>2. From(j) \in Hosts
      BY <3>1 DEF VerbOf, Running, From
    <3>3. job'[j].pc = "file"
          /\ job'[j].data = [char |-> game[From(j)].char, build |-> game[From(j)].build]
      BY <3>1 DEF ShapeInv, JobFields
    <3>4. job'[j].data \in Content
      BY <3>1, <3>2, <3>3 DEF TypeInv, Content
    <3>5. DataOf(j)'
      BY <3>3, <3>4 DEF DataOf
    <3> QED BY <2>0, <3>5, TypesKept
  <2> QED BY <2>1, <2>2
<1>7. ASSUME WriteFile(j) PROVE TypeStep(j)
  <2>0. UNCHANGED <<game, pairs, remote>>
    BY <1>7 DEF WriteFile
  <2>1. CASE exports' = exports
    <3>1. job'[j].pc \notin Pointed \/ (Same(j) /\ job'[j].pc = "record" /\ job[j].pc = "file")
      BY <1>7, <2>1 DEF WriteFile
    <3>2. DataOf(j)'
      BY <3>1, NoData DEF DataOf, Same
    <3> QED BY <2>0, <2>1, <3>2, TypesKept
  <2>2. CASE exports' # exports
    <3>1. /\ job[j].pc = "file" /\ job'[j].pc = "record" /\ Same(j)
          /\ exports' = [exports EXCEPT ![ExportPath(j, From(j))] = job[j].data]
      BY <1>7, <2>2 DEF WriteFile
    <3>2. job[j].data \in Content /\ DataOf(j)'
      BY <3>1 DEF DataOf, Same
    <3>3. \A k \in Hosts \X Seconds : exports'[k] \in Content \cup {None}
      BY <3>1, <3>2 DEF TypeInv, ShapeInv
    <3> QED BY <2>0, <3>2, <3>3 DEF TypeInv, TypeStep
  <2> QED BY <2>1, <2>2
<1>8. ASSUME PutExport(j) PROVE TypeStep(j)
  BY <1>8, <1>0 DEF PutExport
<1>9. ASSUME Export(j) PROVE TypeStep(j)
  BY <1>9, <1>0 DEF Export, ShapeInv, JobFields
<1>10. ASSUME GetExport(j) PROVE TypeStep(j)
  <2>0. UNCHANGED <<game, exports, pairs, remote>>
    BY <1>10 DEF GetExport
  <2>1. CASE End(j, "error")
    BY <2>0, <2>1, <1>0
  <2>2. CASE ~End(j, "error")
    <3>1. /\ Known(job[j].key) /\ job'[j].pc = "free"
          /\ job'[j].data = exports[ExportRecord(job[j].key).path]
          /\ exports[ExportRecord(job[j].key).path] # None
      BY <1>10, <2>2 DEF GetExport, ShapeInv, JobFields
    <3>2. job'[j].data \in Content
      BY <3>1, KnownPath DEF TypeInv
    <3>3. DataOf(j)'
      BY <3>1, <3>2 DEF DataOf
    <3> QED BY <2>0, <3>3, TypesKept
  <2> QED BY <2>1, <2>2
<1>11. ASSUME ImportGate(j) PROVE TypeStep(j)
  <2>1. UNCHANGED <<game, exports, pairs, remote>>
        /\ (job'[j].pc \notin Pointed \/ (Same(j) /\ job'[j].pc = "sum" /\ job[j].pc = "free"))
    BY <1>11 DEF ImportGate
  <2>2. DataOf(j)'
    BY <2>1, NoData DEF DataOf, Same
  <2> QED BY <2>1, <2>2, TypesKept
<1>12. ASSUME ChecksumGate(j) PROVE TypeStep(j)
  <2>1. UNCHANGED <<game, exports, pairs, remote>>
        /\ (job'[j].pc \notin Pointed \/ (Same(j) /\ job'[j].pc = "load" /\ job[j].pc = "sum"))
    BY <1>12 DEF ChecksumGate
  <2>2. DataOf(j)'
    BY <2>1, NoData DEF DataOf, Same
  <2> QED BY <2>1, <2>2, TypesKept
<1>13. ASSUME CharacterImport(j) \/ Restore(j) PROVE TypeStep(j)
  <2>1. /\ UNCHANGED <<exports, pairs, remote>> /\ job'[j].pc \notin Pointed
        /\ job[j].pc \in {"load", "restore"}
    BY <1>13 DEF CharacterImport, Restore, ShapeInv, JobFields
  <2>2. job[j].pc = "load" => job[j].data.char \in Chars
    BY DEF DataOf, Content
  <2>3. job[j].pc = "restore" => remote[job[j].host].backup.char \in Chars \cup {None}
    BY DEF DataOf, Dump
  <2>4. \A h \in Hosts : game'[h].char \in Chars \cup {None} /\ game'[h].build \in 0..2
    BY <2>1, <2>2, <2>3 DEF Plays, TypeInv
  <2> QED BY <2>1, <2>4, NoData DEF TypeInv, TypeStep
<1>14. ASSUME Import(j) PROVE TypeStep(j)
  BY <1>14, <1>0 DEF Import
<1>15. ASSUME RunBackup(j) PROVE TypeStep(j)
  <2>0. UNCHANGED <<game, exports, pairs>>
    BY <1>15 DEF RunBackup, PairsAside
  <2>1. CASE FailsAudited(j) /\ UNCHANGED remote
    BY <2>0, <2>1, <1>0
  <2>2. CASE ~(FailsAudited(j) /\ UNCHANGED remote)
    <3>1. /\ job[j].pc = "wrap" /\ remote' = [remote EXCEPT ![job[j].host].backup = Wrapped(j)]
          /\ job' = [job EXCEPT ![j].pc = "wrapyaml", ![j].data = Wrapped(j)]
      BY <1>15, <2>2 DEF RunBackup, Written
    <3>2. job[j].host \in Hosts /\ j \in Nat
      BY <3>1 DEF VerbOf, Running, Jobs, ShapeInv
    <3>3. Wrapped(j) \in Dump
      BY <3>2 DEF Wrapped, Dump, TypeInv
    <3>4. /\ job'[j].pc = "wrapyaml" /\ job'[j].data = Wrapped(j) /\ job'[j].host = job[j].host
      BY <3>1 DEF ShapeInv, JobFields
    <3>5. /\ remote'[job[j].host].backup = Wrapped(j)
          /\ remote'[job[j].host].yaml = remote[job[j].host].yaml
          /\ \A h \in Hosts : h # job[j].host => remote'[h] = remote[h]
      BY <3>1, <3>2 DEF ShapeInv, Pair
    <3>6. DataOf(j)'
      BY <3>3, <3>4, <3>5 DEF DataOf
    <3> QED BY <2>0, <3>3, <3>5, <3>6 DEF TypeInv, TypeStep
  <2> QED BY <2>1, <2>2
<1>25. ASSUME Describe(j) PROVE TypeStep(j)
  <2>0. UNCHANGED <<game, exports, pairs>> /\ job[j].pc = "wrapyaml"
    BY <1>25 DEF Describe
  <2>1. CASE UNCHANGED remote
    <3>1. CASE FailsAudited(j)
      BY <2>0, <2>1, <3>1, <1>0
    <3>2. CASE ~FailsAudited(j)
      <4>1. /\ remote' = [remote EXCEPT ![job[j].host].yaml = job[j].data]
            /\ \E t \in Now : job' = [job EXCEPT ![j].pc = "pull", ![j].at = t]
        BY <1>25, <3>2 DEF Describe, Written
      <4>2. job[j].host \in Hosts
        BY <2>0 DEF VerbOf, Running
      <4>3. job'[j].pc = "pull" /\ job'[j].host = job[j].host
        BY <4>1 DEF ShapeInv, JobFields
      <4>4. remote'[job[j].host].yaml = job[j].data
        BY <4>1, <4>2 DEF ShapeInv, Pair
      <4>5. DataOf(j)'
        BY <2>0, <2>1, <4>3, <4>4 DEF DataOf
      <4> QED BY <2>0, <2>1, <4>5, TypesKept
    <3> QED BY <3>1, <3>2
  <2>2. CASE ~UNCHANGED remote
    <3>1. remote' = [remote EXCEPT ![job[j].host].yaml = job[j].data]
      BY <1>25, <2>2 DEF Describe, Written
    <3>2. job[j].host \in Hosts /\ job[j].data \in Dump
      BY <2>0 DEF VerbOf, Running, DataOf
    <3>3. /\ remote'[job[j].host].yaml = job[j].data
          /\ remote'[job[j].host].backup = remote[job[j].host].backup
          /\ \A h \in Hosts : h # job[j].host => remote'[h] = remote[h]
      BY <3>1, <3>2 DEF ShapeInv, Pair
    <3>4. DataOf(j)'
      <4>1. CASE FailsAudited(j)
        BY <4>1, NoData
      <4>2. CASE ~FailsAudited(j)
        <5>1. \E t \in Now : job' = [job EXCEPT ![j].pc = "pull", ![j].at = t]
          BY <1>25, <4>2 DEF Describe
        <5>2. job'[j].pc = "pull" /\ job'[j].host = job[j].host
          BY <5>1 DEF ShapeInv, JobFields
        <5> QED BY <2>0, <3>2, <3>3, <5>2 DEF DataOf
      <4> QED BY <4>1, <4>2
    <3> QED BY <2>0, <3>2, <3>3, <3>4 DEF TypeInv, TypeStep
  <2> QED BY <2>1, <2>2
<1>16. ASSUME RecvBackup(j) PROVE TypeStep(j)
  <2>0. UNCHANGED <<game, exports, remote>> /\ job[j].pc = "pull"
    BY <1>16 DEF RecvBackup
  <2>1. CASE FailsAudited(j) /\ UNCHANGED pairs
    BY <2>0, <2>1, <1>0
  <2>2. CASE ~(FailsAudited(j) /\ UNCHANGED pairs)
    <3> DEFINE k == LocalPair(j, job[j].host)
    <3>1. /\ pairs' = [pairs EXCEPT ![k].backup = remote[job[j].host].backup]
          /\ job'[j].pc = "pullyaml" /\ Same(j)
      BY <1>16, <2>2 DEF RecvBackup
    <3>2. job[j].host \in Hosts /\ job[j].at \in Seconds
      BY <2>0 DEF VerbOf, Running, Late
    <3>3. k \in Hosts \X Seconds
      BY <3>2 DEF LocalPair, KeyOf
    <3>4. DataOf(j)'
      BY <2>0, <3>1 DEF DataOf, Same
    <3> HIDE DEF k
    <3>5. /\ pairs'[k].backup = remote[job[j].host].backup /\ pairs'[k].yaml = pairs[k].yaml
          /\ \A i \in Hosts \X Seconds : i # k => pairs'[i] = pairs[i]
      BY <3>1, <3>3 DEF ShapeInv, Pair
    <3> QED BY <2>0, <3>2, <3>4, <3>5 DEF TypeInv, TypeStep
  <2> QED BY <2>1, <2>2
<1>17. ASSUME RecvYAML(j) PROVE TypeStep(j)
  <2>0. UNCHANGED <<game, exports, remote>> /\ job[j].pc = "pullyaml"
        /\ job[j].host \in Hosts /\ job[j].at \in Seconds
    BY <1>17 DEF RecvYAML, VerbOf, Running, Late
  <2> DEFINE k == LocalPair(j, job[j].host)
  <2>3. k \in Hosts \X Seconds
    BY <2>0 DEF LocalPair, KeyOf
  <2>1. CASE pairs' = [pairs EXCEPT ![k].backup = None]
    <3> HIDE DEF k
    <3>1. /\ pairs'[k].backup = None /\ pairs'[k].yaml = pairs[k].yaml
          /\ \A i \in Hosts \X Seconds : i # k => pairs'[i] = pairs[i]
      BY <2>1, <2>3 DEF ShapeInv, Pair
    <3>2. job'[j].pc \notin Pointed
      BY <1>17 DEF RecvYAML
    <3> QED BY <2>0, <3>1, <3>2, NoData DEF TypeInv, TypeStep
  <2>2. CASE pairs' # [pairs EXCEPT ![k].backup = None]
    <3>1. /\ pairs' = [pairs EXCEPT ![k].yaml = remote[job[j].host].yaml]
          /\ job'[j].pc = "put"
      BY <1>17, <2>2 DEF RecvYAML
    <3> HIDE DEF k
    <3>2. /\ pairs'[k].yaml = remote[job[j].host].yaml /\ pairs'[k].backup = pairs[k].backup
          /\ \A i \in Hosts \X Seconds : i # k => pairs'[i] = pairs[i]
      BY <3>1, <2>3 DEF ShapeInv, Pair
    <3>3. remote[job[j].host].yaml \in Dump
      BY <2>0 DEF DataOf
    <3> QED BY <2>0, <3>1, <3>2, <3>3, NoData DEF TypeInv, TypeStep
  <2> QED BY <2>1, <2>2
<1>18. ASSUME PutBackup(j) PROVE TypeStep(j)
  BY <1>18, <1>0 DEF PutBackup
<1>19. ASSUME Create(j) PROVE TypeStep(j)
  BY <1>19, <1>0 DEF Create
<1>20. ASSUME GetBackup(j) PROVE TypeStep(j)
  <2>0. UNCHANGED <<game, exports, pairs, remote, records>>
    BY <1>20 DEF GetBackup
  <2>1. CASE job'[j].pc \notin Pointed
    BY <2>0, <2>1, <1>0
  <2>2. CASE job'[j].pc \in Pointed
    <3>1. /\ Goes(j, "stat", "push") /\ Kept(job[j].key) /\ PairOf(j).yaml # None
      BY <1>20, <2>2 DEF GetBackup, Goes, Kept
    <3>2. PairOf(j) = pairs[job[j].key] /\ job[j].key \in Hosts \X Seconds
      BY <3>1, KeptPath DEF PairOf
    <3>3. DataOf(j)'
      BY <2>0, <3>1, <3>2 DEF DataOf, Goes, Same, Kept, TypeInv
    <3> QED BY <2>0, <3>3, TypesKept
  <2> QED BY <2>1, <2>2
<1>21. ASSUME SendBackup(j) PROVE TypeStep(j)
  <2>0. UNCHANGED <<game, exports, pairs, records>> /\ job[j].pc = "push"
    BY <1>21 DEF SendBackup, PairsAside
  <2>1. CASE FailsAudited(j) /\ UNCHANGED remote
    BY <2>0, <2>1, <1>0
  <2>2. CASE ~(FailsAudited(j) /\ UNCHANGED remote)
    <3> DEFINE h == job[j].host
    <3>1. /\ Same(j) /\ job'[j].pc = "pushyaml" /\ PairOf(j).backup # None
          /\ remote' = [remote EXCEPT ![h].backup = PairOf(j).backup]
      BY <1>21, <2>2 DEF SendBackup, Written
    <3>2. /\ h = job[j].key[1] /\ Kept(job[j].key)
      BY <2>0 DEF VerbOf, DataOf, Running
    <3>3. PairOf(j) = pairs[job[j].key] /\ h \in Hosts /\ PairOf(j).backup \in Dump
      BY <3>1, <3>2, KeptPath DEF PairOf, TypeInv
    <3>4. /\ remote'[h].backup = PairOf(j).backup /\ remote'[h].yaml = remote[h].yaml
          /\ \A i \in Hosts : i # h => remote'[i] = remote[i]
      BY <3>1, <3>3 DEF ShapeInv, Pair
    <3>5. DataOf(j)'
      BY <2>0, <3>1, <3>3, <3>4 DEF DataOf, Same, Kept
    <3> QED BY <2>0, <3>3, <3>4, <3>5 DEF TypeInv, TypeStep
  <2> QED BY <2>1, <2>2
<1>22. ASSUME SendYAML(j) PROVE TypeStep(j)
  <2>0. UNCHANGED <<game, exports, pairs, records>> /\ job[j].pc = "pushyaml"
    BY <1>22 DEF SendYAML, PairsAside
  <2>1. CASE FailsAudited(j) /\ UNCHANGED remote
    BY <2>0, <2>1, <1>0
  <2>2. CASE ~(FailsAudited(j) /\ UNCHANGED remote)
    <3> DEFINE h == job[j].host
    <3>1. /\ Same(j) /\ job'[j].pc = "restore"
          /\ remote' = [remote EXCEPT ![h].yaml = PairOf(j).yaml]
      BY <1>22, <2>2 DEF SendYAML, Written
    <3>2. /\ h = job[j].key[1] /\ Kept(job[j].key) /\ pairs[job[j].key].yaml \in Dump
      BY <2>0 DEF VerbOf, DataOf, Running
    <3>3. PairOf(j) = pairs[job[j].key] /\ h \in Hosts
      BY <3>2, KeptPath DEF PairOf
    <3>4. /\ remote'[h].yaml = PairOf(j).yaml /\ remote'[h].backup = remote[h].backup
          /\ \A i \in Hosts : i # h => remote'[i] = remote[i]
      BY <3>1, <3>3 DEF ShapeInv, Pair
    <3>5. DataOf(j)'
      BY <2>0, <3>1, <3>4 DEF DataOf, Same, Kept
    <3> QED BY <2>0, <3>2, <3>3, <3>4, <3>5 DEF TypeInv, TypeStep
  <2> QED BY <2>1, <2>2
<1> QED
  BY <1>1, <1>2, <1>3, <1>4, <1>5, <1>6, <1>7, <1>8, <1>9, <1>10, <1>11,
     <1>12, <1>13, <1>14, <1>15, <1>16, <1>17, <1>18, <1>19, <1>20, <1>21,
     <1>22, <1>25 DEF JobStep, AvatarStep, BackupStep, Called

LEMMA StepTypeInv == BaseInv /\ TypeInv /\ [Next]_vars => TypeInv'
<1> SUFFICES ASSUME BaseInv, TypeInv, [Next]_vars PROVE TypeInv'
  OBVIOUS
<1>1. ASSUME NEW j \in Jobs, JobStep(j) PROVE TypeInv'
  <2>1. /\ Framed(j) /\ TypeStep(j) /\ sessions' = sessions /\ Goneby
        /\ \A k : Kept(k) => Kept(k)'
    BY <1>1, StepFrames, StepTypes, StepStores, StepGoneby, StepKeys DEF BaseInv, Stores
  <2>2. \A r \in records'.exports \cup records'.backups :
           r.path = r.key /\ r.key \in Hosts \X Seconds
    BY <1>1, RecordedKeys
  <2>3. ASSUME NEW k \in Jobs, k # j PROVE DataOf(k)'
    <3>1. job'[k] = job[k] /\ DataOf(k) /\ VerbOf(k)
      BY <2>1, <2>3 DEF Framed, Others, TypeInv, BaseInv, VerbInv
    <3>2. job[k].pc \in {"wrapyaml", "pull", "pullyaml"} => job[k].host \in Hosts
      BY <3>1 DEF VerbOf, Running
    <3>3. job[k].pc \in {"push", "pushyaml", "restore"} =>
            job[k].host = job[k].key[1] /\ Kept(job[k].key) /\ Kept(job[k].key)'
      BY <2>1, <3>1 DEF VerbOf, DataOf, Running
    <3>4. job[k].pc \in {"push", "pushyaml", "restore"} =>
            job[k].host \in Hosts /\ job[k].key \in Hosts \X Seconds
      BY <3>3, KeptPath
    <3>5. job[k].pc \in {"push", "pushyaml", "restore"} =>
            /\ \E r \in records'.backups : r.key = job'[k].key
            /\ pairs'[job'[k].key].yaml \in Dump
      BY <2>1, <3>1, <3>3, <3>4 DEF Kept, DataOf, TypeStep
    <3>6. /\ job[k].pc \in {"wrapyaml", "pull", "pushyaml", "restore"} =>
               remote'[job'[k].host].backup \in Dump
          /\ job[k].pc \in {"pull", "pullyaml"} => remote'[job'[k].host].yaml \in Dump
      BY <2>1, <3>1, <3>2, <3>4 DEF DataOf, TypeStep
    <3> QED BY <3>1, <3>5, <3>6 DEF DataOf, Kept
  <2>4. \A k \in Jobs' : DataOf(k)'
    BY <2>1, <2>3 DEF TypeStep, Goneby
  <2> QED BY <2>1, <2>2, <2>4 DEF TypeInv, TypeStep
<1>2. ASSUME NEW h \in Hosts, Login(h) \/ Logout(h) \/ Patch(h) PROVE TypeInv'
  <2>1. /\ UNCHANGED <<script, exports, pairs, records, remote, job>> /\ Jobs' = Jobs
        /\ sessions' \in Nat
    BY <1>2 DEF Login, Logout, Patch, Workstation, Jobs, TypeInv
  <2>2. \A i \in Hosts : game'[i].char \in Chars \cup {None} /\ game'[i].build \in 0..2
    BY <1>2 DEF TypeInv, Chars, BaseInv, ShapeInv, Login, Logout, Patch
  <2>3. \A j \in Jobs : DataOf(j)'
    BY <2>1 DEF TypeInv, DataOf, Kept
  <2> QED BY <2>1, <2>2, <2>3 DEF TypeInv
<1>3. CASE UNCHANGED vars
  BY <1>3 DEF vars, Jobs, TypeInv, DataOf, Kept
<1>4. CASE Kill
  <2>1. Dies /\ Goneby
    BY <1>4, KillMoves, KillGoneby DEF BaseInv
  <2>2. ASSUME NEW k \in Jobs PROVE DataOf(k)'
    BY <2>1, <2>2 DEF Dies, Workstation, World, TypeInv, DataOf, Kept
  <2> QED BY <2>1, <2>2 DEF Dies, Goneby, TypeInv, Workstation, World
<1> QED
  BY <1>1, <1>2, <1>3, <1>4 DEF Next, Idle, JobStep

LEMMA InitTypes == Init => TypeInv
<1> SUFFICES ASSUME Init PROVE TypeInv
  OBVIOUS
<1>1. PICK s \in Starts :
        /\ game = [h \in Hosts |-> [char |-> IF h \in s.players THEN <<h, s.sessions>> ELSE None,
                                    online |-> FALSE, build |-> s.build[h]]]
        /\ sessions = s.sessions
  BY DEF Init
<1>2. s.sessions \in Nat /\ s.build \in [Hosts -> {0, 1}]
  BY ArchiveAssumption
<1>3. \A h \in Hosts : game[h].char \in Chars \cup {None} /\ game[h].build \in 0..2
  <2> TAKE h \in Hosts
  <2>1. game[h] = [char |-> IF h \in s.players THEN <<h, s.sessions>> ELSE None,
                   online |-> FALSE, build |-> s.build[h]]
    BY <1>1
  <2>2. <<h, s.sessions>> \in Chars /\ s.build[h] \in 0..2
    BY <1>2 DEF Chars
  <2> QED BY <2>1, <2>2
<1>4. \A j \in Jobs : DataOf(j)
  BY DEF Init, DataOf, IdleJob
<1>5. /\ \A k \in Hosts \X Seconds :
           exports[k] = None /\ pairs[k].backup = None /\ pairs[k].yaml = None
      /\ \A h \in Hosts : remote[h].backup = None /\ remote[h].yaml = None
      /\ records.exports = {} /\ records.backups = {}
  BY DEF Init, NoPair
<1> QED BY <1>1, <1>2, <1>3, <1>4, <1>5 DEF TypeInv

-------------------------------------------------------------------------------
(* What is listed has its files, and what a running call has behind it.      *)

(* The points of a call that has listed nothing yet.                         *)
ToExport == {"idle", "check", "offline", "name", "dump", "file", "record"}

ToBackup == {"idle", "wrap", "wrapyaml", "pull", "pullyaml", "put"}

(* A listed key is that of a call which is through with its files.           *)
ListedExport(r) ==
  \E j \in Jobs :
    /\ Took(j, Exporting, r.key) /\ job[j].pc \notin ToExport
    /\ Twice(Exporting, r.key) \/ (exports[r.key] \in Content /\ exports[r.key].build = r.build)

(* The two files of a key, as the call j left them.                          *)
Whole(j, k) ==
  /\ pairs[k].backup \in Dump /\ pairs[k].yaml \in Dump
  /\ j \in crossed \/ pairs[k].yaml = pairs[k].backup

ListedBackup(r) ==
  \E j \in Jobs :
    /\ Took(j, {"create"}, r.key) /\ job[j].pc \notin ToBackup
    /\ Twice({"create"}, r.key) \/ Whole(j, r.key)

FilesInv ==
  /\ \A r \in records.exports : ListedExport(r)
  /\ \A r \in records.backups : ListedBackup(r)

PhaseOf(j) ==
  /\ job[j].pc = "record" =>
       \/ Twice(Exporting, KeyOf(j, From(j)))
       \/ exports[KeyOf(j, From(j))] = job[j].data
  /\ job[j].pc \in {"free", "sum", "load"} =>
       /\ Known(job[j].key)
       /\ \/ Twice(Exporting, job[j].key)
          \/ job[j].data = exports[job[j].key] /\ job[j].data.build = job[j].sum
  /\ job[j].pc = "load" =>
       \/ Twice(Exporting, job[j].key) \/ j \in overtaken
       \/ job[j].data.build = game[job[j].host].build
  /\ job[j].pc = "wrapyaml" => j \in crossed \/ remote[job[j].host].backup = job[j].data
  /\ job[j].pc \in {"pull", "pullyaml"} =>
       j \in crossed \/ remote[job[j].host].yaml = remote[job[j].host].backup
  /\ job[j].pc = "pullyaml" =>
       \/ Twice({"create"}, KeyOf(j, job[j].host))
       \/ /\ pairs[KeyOf(j, job[j].host)].backup \in Dump
          /\ j \in crossed \/ pairs[KeyOf(j, job[j].host)].backup = remote[job[j].host].backup
  /\ job[j].pc = "put" =>
       Twice({"create"}, KeyOf(j, job[j].host)) \/ Whole(j, KeyOf(j, job[j].host))
  /\ job[j].pc \in {"pushyaml", "restore"} =>
       \/ Twice({"create"}, job[j].key) \/ j \in crossed
       \/ remote[job[j].host].backup = pairs[job[j].key].backup
  /\ job[j].pc = "restore" =>
       \/ Twice({"create"}, job[j].key) \/ j \in crossed
       \/ remote[job[j].host].yaml = pairs[job[j].key].yaml

ArchiveInv == TypeInv /\ FilesInv /\ \A j \in Jobs : PhaseOf(j)

(* A step writes no file that is listed, and takes no key off the lists.     *)
Stays ==
  /\ \A k : Known(k) => Known(k)' /\ (exports'[k] = exports[k] \/ Twice(Exporting, k))
  /\ \A k : Kept(k) => Kept(k)' /\ (pairs'[k] = pairs[k] \/ Twice({"create"}, k))

(* The key of a call that writes an export, and of one that pulls a pair.    *)
LEMMA Exporter ==
  ASSUME BaseInv, NEW j \in Jobs, job[j].pc \in {"file", "record"}
  PROVE  Took(j, Exporting, KeyOf(j, From(j))) /\ KeyOf(j, From(j)) \in Hosts \X Seconds
<1>1. VerbOf(j)
  BY DEF BaseInv, VerbInv
<1>2. job[j].verb \in Exporting /\ job[j].at # None /\ From(j) \in Hosts /\ job[j].at \in Seconds
  BY <1>1, NoneIsNoSecond DEF VerbOf, Late, Exporting, From, Running
<1> QED BY <1>2 DEF Took, KeyOf

LEMMA Creator ==
  ASSUME BaseInv, NEW j \in Jobs, job[j].pc \in {"pull", "pullyaml", "put"}
  PROVE  /\ Took(j, {"create"}, KeyOf(j, job[j].host))
         /\ KeyOf(j, job[j].host) \in Hosts \X Seconds
<1>1. VerbOf(j)
  BY DEF BaseInv, VerbInv
<1>2. /\ job[j].verb = "create" /\ job[j].at # None /\ job[j].host \in Hosts
      /\ job[j].at \in Seconds
  BY <1>1, NoneIsNoSecond DEF VerbOf, Late, Running
<1> QED BY <1>2 DEF Took, KeyOf, From

LEMMA StepStays ==
  ASSUME BaseInv, TypeInv, FilesInv, NEW j \in Jobs, JobStep(j) PROVE Stays
<1>1. Stores(j)
  BY StepStores DEF BaseInv
<1>2. ASSUME NEW k, Known(k) PROVE exports'[k] = exports[k] \/ Twice(Exporting, k)
  <2>1. PICK r \in records.exports : r.key = k
    BY <1>2 DEF Known
  <2>2. k \in Hosts \X Seconds
    BY <2>1 DEF TypeInv
  <2>3. PICK i \in Jobs : Took(i, Exporting, k) /\ job[i].pc \notin ToExport
    BY <2>1 DEF FilesInv, ListedExport
  <2>4. CASE job[j].pc = "file" /\ k = KeyOf(j, From(j))
    <3>1. Took(j, Exporting, k) /\ i # j
      BY <2>3, <2>4, Exporter DEF ToExport
    <3> QED BY <2>3, <3>1 DEF Twice
  <2> QED BY <1>1, <2>2, <2>4 DEF Stores
<1>3. ASSUME NEW k, Kept(k) PROVE pairs'[k] = pairs[k] \/ Twice({"create"}, k)
  <2>1. PICK r \in records.backups : r.key = k
    BY <1>3 DEF Kept
  <2>2. k \in Hosts \X Seconds
    BY <2>1 DEF TypeInv
  <2>3. PICK i \in Jobs : Took(i, {"create"}, k) /\ job[i].pc \notin ToBackup
    BY <2>1 DEF FilesInv, ListedBackup
  <2>4. CASE job[j].pc \in {"pull", "pullyaml"} /\ k = KeyOf(j, job[j].host)
    <3>1. Took(j, {"create"}, k) /\ i # j
      BY <2>3, <2>4, Creator DEF ToBackup
    <3> QED BY <2>3, <3>1 DEF Twice
  <2> QED BY <1>1, <2>2, <2>4 DEF Stores
<1> QED
  BY <1>2, <1>3, StepKeys DEF Stays, BaseInv

(* No step leads back before what is written once.                           *)
LEMMA StepLater ==
  ASSUME ShapeInv, NEW j \in Jobs, JobStep(j)
  PROVE  /\ job[j].pc \notin ToExport =>
              job'[j].pc \notin ToExport
         /\ job[j].pc \notin ToBackup =>
              job'[j].pc \notin ToBackup
<1> DEFINE Later == /\ job[j].pc \notin ToExport =>
                         job'[j].pc \notin ToExport
                    /\ job[j].pc \notin ToBackup =>
                         job'[j].pc \notin ToBackup
<1>1. ASSUME Called(j) PROVE Later
  BY <1>1, StartMoves DEF ToExport, ToBackup
<1> USE ToMoves, OverMoves, EndMoves, LostMoves DEF Fails, FailsAudited, ToExport, ToBackup
<1>2. ASSUME Check(j) PROVE Later
  BY <1>2 DEF Check, ShapeInv, JobFields
<1>3. ASSUME Transfer(j) PROVE Later
  BY <1>3 DEF Transfer, ShapeInv, JobFields
<1>4. ASSUME IsPlayerOffline(j) PROVE Later
  BY <1>4 DEF IsPlayerOffline
<1>5. ASSUME CharacterName(j) PROVE Later
  BY <1>5 DEF CharacterName, ShapeInv, JobFields
<1>6. ASSUME CharacterExport(j) PROVE Later
  <2>1. CASE FailsAudited(j)
    BY <1>6, <2>1 DEF CharacterExport
  <2>2. CASE ~FailsAudited(j)
    <3>1. job[j].pc = "dump" /\ \E t \in Now :
            job' = [job EXCEPT ![j].pc = "file", ![j].at = t,
                               ![j].data = [char |-> game[From(j)].char,
                                            build |-> game[From(j)].build]]
      BY <1>6, <2>2 DEF CharacterExport
    <3>2. job'[j].pc = "file"
      BY <3>1 DEF ShapeInv, JobFields
    <3> QED BY <3>1, <3>2
  <2> QED BY <2>1, <2>2
<1>7. ASSUME WriteFile(j) PROVE Later
  BY <1>7 DEF WriteFile
<1>8. ASSUME PutExport(j) PROVE Later
  BY <1>8 DEF PutExport
<1>9. ASSUME Export(j) PROVE Later
  BY <1>9 DEF Export, ShapeInv, JobFields
<1>10. ASSUME GetExport(j) PROVE Later
  BY <1>10 DEF GetExport, ShapeInv, JobFields
<1>11. ASSUME ImportGate(j) PROVE Later
  BY <1>11 DEF ImportGate
<1>12. ASSUME ChecksumGate(j) PROVE Later
  BY <1>12 DEF ChecksumGate
<1>13. ASSUME CharacterImport(j) PROVE Later
  BY <1>13 DEF CharacterImport, ShapeInv, JobFields
<1>14. ASSUME Import(j) PROVE Later
  BY <1>14 DEF Import
<1>15. ASSUME RunBackup(j) PROVE Later
  BY <1>15 DEF RunBackup, ShapeInv, JobFields
<1>25. ASSUME Describe(j) PROVE Later
  <2>1. CASE FailsAudited(j)
    BY <1>25, <2>1 DEF Describe
  <2>2. CASE ~FailsAudited(j)
    <3>1. job[j].pc = "wrapyaml" /\ \E t \in Now : job' = [job EXCEPT ![j].pc = "pull", ![j].at = t]
      BY <1>25, <2>2 DEF Describe
    <3>2. job'[j].pc = "pull"
      BY <3>1 DEF ShapeInv, JobFields
    <3> QED BY <3>1, <3>2
  <2> QED BY <2>1, <2>2
<1>16. ASSUME RecvBackup(j) PROVE Later
  BY <1>16 DEF RecvBackup
<1>17. ASSUME RecvYAML(j) PROVE Later
  BY <1>17 DEF RecvYAML
<1>18. ASSUME PutBackup(j) PROVE Later
  BY <1>18 DEF PutBackup
<1>19. ASSUME Create(j) PROVE Later
  BY <1>19 DEF Create
<1>20. ASSUME GetBackup(j) PROVE Later
  BY <1>20 DEF GetBackup
<1>21. ASSUME SendBackup(j) PROVE Later
  BY <1>21 DEF SendBackup
<1>22. ASSUME SendYAML(j) PROVE Later
  BY <1>22 DEF SendYAML
<1>23. ASSUME Restore(j) PROVE Later
  BY <1>23 DEF Restore, ShapeInv, JobFields
<1> QED
  BY <1>1, <1>2, <1>3, <1>4, <1>5, <1>6, <1>7, <1>8, <1>9, <1>10, <1>11,
     <1>12, <1>13, <1>14, <1>15, <1>16, <1>17, <1>18, <1>19, <1>20, <1>21,
     <1>22, <1>23, <1>25 DEF JobStep, AvatarStep, BackupStep, Called


(* A record that a step put is of a call with the files behind it; one that  *)
(* it left has what it had.                                                  *)
LEMMA StepFiles ==
  ASSUME BaseInv, ArchiveInv, NEW j \in Jobs, JobStep(j) PROVE FilesInv'
<1>1. /\ Framed(j) /\ Lists(j) /\ Stores(j) /\ Stays /\ PhaseOf(j) /\ DataOf(j) /\ Goneby
      /\ FilesInv /\ TypeInv /\ Jobs' = Jobs
  BY StepFrames, StepLists, StepStores, StepStays, StepGoneby
     DEF BaseInv, ArchiveInv, TypeInv, Goneby
<1>2. ASSUME NEW k \in Jobs PROVE /\ job[k].pc \notin ToExport => job'[k].pc \notin ToExport
                                  /\ job[k].pc \notin ToBackup => job'[k].pc \notin ToBackup
  BY <1>1, StepLater DEF Framed, Others, BaseInv
<1>3. ASSUME NEW r \in records.exports PROVE ListedExport(r)'
  <2>1. PICK i \in Jobs :
          /\ Took(i, Exporting, r.key) /\ job[i].pc \notin ToExport
          /\ \/ Twice(Exporting, r.key)
             \/ exports[r.key] \in Content /\ exports[r.key].build = r.build
    BY <1>1 DEF FilesInv, ListedExport
  <2>2. Took(i, Exporting, r.key)' /\ job'[i].pc \notin ToExport
    BY <1>1, <1>2, <2>1, TookStays
  <2>3. exports'[r.key] = exports[r.key] \/ Twice(Exporting, r.key)
    BY <1>1 DEF Stays, Known
  <2>4. Twice(Exporting, r.key) => Twice(Exporting, r.key)'
    BY <1>1, TwiceStays
  <2> QED BY <1>1, <2>1, <2>2, <2>3, <2>4 DEF ListedExport
<1>4. ASSUME NEW r \in records.backups PROVE ListedBackup(r)'
  <2>1. PICK i \in Jobs :
          /\ Took(i, {"create"}, r.key) /\ job[i].pc \notin ToBackup
          /\ Twice({"create"}, r.key) \/ Whole(i, r.key)
    BY <1>1 DEF FilesInv, ListedBackup
  <2>2. Took(i, {"create"}, r.key)' /\ job'[i].pc \notin ToBackup
    BY <1>1, <1>2, <2>1, TookStays
  <2>3. pairs'[r.key] = pairs[r.key] \/ Twice({"create"}, r.key)
    BY <1>1 DEF Stays, Kept
  <2>4. Twice({"create"}, r.key) => Twice({"create"}, r.key)'
    BY <1>1, TwiceStays
  <2>5. Whole(i, r.key) /\ pairs'[r.key] = pairs[r.key] => Whole(i, r.key)'
    BY <1>1 DEF Whole, Goneby
  <2> QED BY <1>1, <2>1, <2>2, <2>3, <2>4, <2>5 DEF ListedBackup
<1>5. ASSUME NEW r \in records'.exports, r \notin records.exports PROVE ListedExport(r)'
  <2>0. PICK k : k = KeyOf(j, From(j))
    OBVIOUS
  <2>1. /\ Goes(j, "record", "exported")
        /\ r = [key |-> k, path |-> k, named |-> job[j].rep.name, build |-> job[j].data.build]
    BY <1>1, <1>5, <2>0 DEF Lists, Put
  <2>2. Took(j, Exporting, k) /\ r.key = k /\ r.build = job[j].data.build
    BY <2>0, <2>1, Exporter DEF Goes
  <2>3. exports' = exports /\ job[j].data \in Content
        /\ (Twice(Exporting, k) \/ exports[k] = job[j].data)
    BY <1>1, <2>0, <2>1 DEF Goes, Stores, PhaseOf, DataOf
  <2>4. Took(j, Exporting, k)' /\ (Twice(Exporting, k) => Twice(Exporting, k)')
    BY <1>1, <2>2, TookStays, TwiceStays
  <2>5. job'[j].pc \notin ToExport
    BY <2>1 DEF Goes, ToExport
  <2> QED BY <1>1, <2>2, <2>3, <2>4, <2>5 DEF ListedExport
<1>6. ASSUME NEW r \in records'.backups, r \notin records.backups PROVE ListedBackup(r)'
  <2>0. PICK k : k = KeyOf(j, job[j].host)
    OBVIOUS
  <2>1. Goes(j, "put", "created") /\ r = [key |-> k, path |-> k]
    BY <1>1, <1>6, <2>0 DEF Lists, Put
  <2>2. Took(j, {"create"}, k) /\ r.key = k
    BY <2>0, <2>1, Creator DEF Goes
  <2>3. pairs' = pairs /\ (Twice({"create"}, k) \/ Whole(j, k))
    BY <1>1, <2>0, <2>1 DEF Goes, Stores, PhaseOf
  <2>4. Took(j, {"create"}, k)' /\ (Twice({"create"}, k) => Twice({"create"}, k)')
    BY <1>1, <2>2, TookStays, TwiceStays
  <2>5. job'[j].pc \notin ToBackup
    BY <2>1 DEF Goes, ToBackup
  <2>6. Whole(j, k) => Whole(j, k)'
    BY <1>1, <2>3 DEF Whole, Goneby
  <2> QED BY <1>1, <2>2, <2>3, <2>4, <2>5, <2>6 DEF ListedBackup
<1> QED
  BY <1>3, <1>4, <1>5, <1>6 DEF FilesInv

(* The keys of a call, and that they were taken twice, through a step that   *)
(* leaves them.                                                              *)
Keyed(j) ==
  /\ job'[j].verb = job[j].verb /\ job'[j].host = job[j].host /\ job'[j].src = job[j].src
  /\ job'[j].key = job[j].key /\ job'[j].at = job[j].at

TwiceOf(j) ==
  /\ Twice(Exporting, job[j].key) => Twice(Exporting, job[j].key)'
  /\ Twice({"create"}, job[j].key) => Twice({"create"}, job[j].key)'
  /\ Twice(Exporting, KeyOf(j, From(j))) => Twice(Exporting, KeyOf(j, From(j)))'
  /\ Twice({"create"}, KeyOf(j, job[j].host)) => Twice({"create"}, KeyOf(j, job[j].host))'

LEMMA KeyedTwice == ASSUME Goneby, NEW j, Keyed(j) PROVE TwiceOf(j)
<1>1. PICK k : k = job[j].key
  OBVIOUS
<1>2. PICK f : f = KeyOf(j, From(j))
  OBVIOUS
<1>3. PICK p : p = KeyOf(j, job[j].host)
  OBVIOUS
<1>4. job'[j].key = k /\ KeyOf(j, From(j))' = f /\ KeyOf(j, job[j].host)' = p
  BY <1>1, <1>2, <1>3 DEF Keyed, KeyOf, From
<1>5. ASSUME Twice(Exporting, job[j].key) PROVE Twice(Exporting, job[j].key)'
  BY <1>1, <1>4, <1>5, TwiceStays
<1>6. ASSUME Twice({"create"}, job[j].key) PROVE Twice({"create"}, job[j].key)'
  BY <1>1, <1>4, <1>6, TwiceStays
<1>7. ASSUME Twice(Exporting, KeyOf(j, From(j))) PROVE Twice(Exporting, KeyOf(j, From(j)))'
  BY <1>2, <1>4, <1>7, TwiceStays
<1>8. ASSUME Twice({"create"}, KeyOf(j, job[j].host))
      PROVE  Twice({"create"}, KeyOf(j, job[j].host))'
  BY <1>3, <1>4, <1>8, TwiceStays
<1> QED BY <1>5, <1>6, <1>7, <1>8 DEF TwiceOf

(* What another call has behind it, a step leaves, or crosses.               *)
LEMMA OtherPhase ==
  ASSUME BaseInv, ArchiveInv, NEW j \in Jobs, JobStep(j), NEW k \in Jobs, k # j
  PROVE  PhaseOf(k)'
<1>1. /\ Stores(j) /\ Plays(j) /\ Stays /\ Goneby /\ TypeInv /\ PhaseOf(k) /\ VerbOf(k) /\ DataOf(k)
      /\ job'[k] = job[k]
  BY StepFrames, StepStores, StepPlays, StepStays, StepGoneby
     DEF BaseInv, ArchiveInv, TypeInv, VerbInv, Framed, Others
<1>2. Keyed(k) /\ TwiceOf(k) /\ KeyOf(k, From(k))' = KeyOf(k, From(k))
      /\ KeyOf(k, job[k].host)' = KeyOf(k, job[k].host)
  BY <1>1, KeyedTwice DEF Keyed, KeyOf, From
<1>3. ASSUME job[k].pc = "record"
      PROVE  \/ Twice(Exporting, KeyOf(k, From(k)))
             \/ exports'[KeyOf(k, From(k))] = exports[KeyOf(k, From(k))]
  <2>1. Took(k, Exporting, KeyOf(k, From(k))) /\ KeyOf(k, From(k)) \in Hosts \X Seconds
    BY <1>3, Exporter
  <2>2. ASSUME job[j].pc = "file", KeyOf(j, From(j)) = KeyOf(k, From(k))
        PROVE  Twice(Exporting, KeyOf(k, From(k)))
    <3>1. Took(j, Exporting, KeyOf(k, From(k)))
      BY <2>2, Exporter
    <3> QED BY <2>1, <3>1 DEF Twice
  <2> QED BY <1>1, <2>1, <2>2 DEF Stores
<1>4. ASSUME job[k].pc \in {"pullyaml", "put"}
      PROVE  \/ Twice({"create"}, KeyOf(k, job[k].host))
             \/ pairs'[KeyOf(k, job[k].host)] = pairs[KeyOf(k, job[k].host)]
  <2>1. /\ Took(k, {"create"}, KeyOf(k, job[k].host))
        /\ KeyOf(k, job[k].host) \in Hosts \X Seconds
    BY <1>4, Creator
  <2>2. ASSUME job[j].pc \in {"pull", "pullyaml"}, KeyOf(j, job[j].host) = KeyOf(k, job[k].host)
        PROVE  Twice({"create"}, KeyOf(k, job[k].host))
    <3>1. Took(j, {"create"}, KeyOf(k, job[k].host))
      BY <2>2, Creator
    <3> QED BY <2>1, <3>1 DEF Twice
  <2> QED BY <1>1, <2>1, <2>2 DEF Stores
<1>5. ASSUME job[k].pc \in {"wrapyaml", "pull", "pullyaml", "pushyaml", "restore"}
      PROVE  k \in crossed' \/ remote'[job[k].host] = remote[job[k].host]
  <2>1. job[k].host \in Hosts
    <3>1. CASE job[k].pc \in {"pushyaml", "restore"}
      <4>1. Kept(job[k].key) /\ job[k].host = job[k].key[1]
        BY <1>1, <3>1 DEF DataOf, VerbOf, Running
      <4> QED BY <1>1, <4>1, KeptPath
    <3>2. CASE job[k].pc \in {"wrapyaml", "pull", "pullyaml"}
      BY <1>1, <3>2 DEF VerbOf, Running
    <3> QED BY <1>5, <3>1, <3>2
  <2>2. Using(k, job[k].host)
    BY <1>5 DEF Using
  <2> QED BY <1>1, <2>1, <2>2 DEF Stores, Meets
<1>6. ASSUME job[k].pc \in {"free", "sum", "load"}
      PROVE  /\ Known(job[k].key)'
             /\ Twice(Exporting, job[k].key) \/ exports'[job[k].key] = exports[job[k].key]
  <2>1. PICK i : i = job[k].key
    OBVIOUS
  <2>2. Known(i) /\ Known(i)' /\ (Twice(Exporting, i) \/ exports'[i] = exports[i])
    BY <1>1, <1>6, <2>1 DEF PhaseOf, Stays
  <2> QED BY <1>1, <2>1, <2>2
<1>7. ASSUME job[k].pc \in {"pushyaml", "restore"}
      PROVE  Twice({"create"}, job[k].key) \/ pairs'[job[k].key] = pairs[job[k].key]
  BY <1>1, <1>7 DEF DataOf, Stays
<1>8. job[k].pc = "load" => game'[job[k].host].build = game[job[k].host].build
  BY <1>1 DEF Plays, VerbOf, Running
<1>9. ASSUME job[k].pc \in {"record", "free", "sum", "load"} PROVE PhaseOf(k)'
  BY <1>1, <1>2, <1>3, <1>6, <1>8, <1>9 DEF PhaseOf, TwiceOf, Keyed, Goneby
<1>10. ASSUME job[k].pc \in {"wrapyaml", "pull"} PROVE PhaseOf(k)'
  BY <1>1, <1>5, <1>10 DEF PhaseOf, Goneby
<1>11. ASSUME job[k].pc = "pullyaml" PROVE PhaseOf(k)'
  BY <1>1, <1>2, <1>4, <1>5, <1>11 DEF PhaseOf, TwiceOf, Goneby
<1>12. ASSUME job[k].pc = "put" PROVE PhaseOf(k)'
  BY <1>1, <1>2, <1>4, <1>12 DEF PhaseOf, TwiceOf, Goneby, Whole
<1>13. ASSUME job[k].pc \in {"pushyaml", "restore"} PROVE PhaseOf(k)'
  BY <1>1, <1>2, <1>5, <1>7, <1>13 DEF PhaseOf, TwiceOf, Goneby
<1> QED BY <1>1, <1>9, <1>10, <1>11, <1>12, <1>13 DEF PhaseOf

Phases == {"record", "free", "sum", "load", "wrapyaml", "pull", "pullyaml", "put", "pushyaml",
           "restore"}

LEMMA StepPhase ==
  ASSUME BaseInv, ArchiveInv, NEW j \in Jobs, JobStep(j) PROVE PhaseOf(j)'
<1> USE ToMoves, OverMoves, EndMoves, LostMoves DEF Fails, FailsAudited, Phases
<1> ShapeInv /\ PhaseOf(j) /\ VerbOf(j) /\ DataOf(j) /\ TypeInv /\ Stays /\ Goneby
    /\ Jobs' = Jobs /\ overtaken' = overtaken /\ crossed \subseteq crossed'
  BY StepStays, StepGoneby, StepFrames
     DEF BaseInv, ArchiveInv, TypeInv, VerbInv, Goneby, Framed
<1>0. ASSUME job'[j].pc \notin Phases PROVE PhaseOf(j)'
  BY <1>0 DEF PhaseOf
<1>1. ASSUME Called(j) PROVE PhaseOf(j)'
  BY <1>1, StartMoves, <1>0
<1>30. ASSUME Same(j) PROVE TwiceOf(j) /\ KeyOf(j, From(j))' = KeyOf(j, From(j))
                           /\ KeyOf(j, job[j].host)' = KeyOf(j, job[j].host)
  <2>1. Keyed(j)
    BY <1>30 DEF Same, Keyed
  <2> QED BY <2>1, KeyedTwice DEF Keyed, KeyOf, From
<1>2. ASSUME Check(j) PROVE PhaseOf(j)'
  BY <1>2, <1>0 DEF Check, ShapeInv, JobFields
<1>3. ASSUME Transfer(j) PROVE PhaseOf(j)'
  BY <1>3, <1>0 DEF Transfer, ShapeInv, JobFields
<1>4. ASSUME IsPlayerOffline(j) PROVE PhaseOf(j)'
  BY <1>4, <1>0 DEF IsPlayerOffline
<1>5. ASSUME CharacterName(j) PROVE PhaseOf(j)'
  BY <1>5, <1>0 DEF CharacterName, ShapeInv, JobFields
<1>6. ASSUME CharacterExport(j) PROVE PhaseOf(j)'
  <2>1. CASE FailsAudited(j)
    BY <2>1, <1>0
  <2>2. CASE ~FailsAudited(j)
    <3>1. \E t \in Now : job' = [job EXCEPT ![j].pc = "file", ![j].at = t,
                               ![j].data = [char |-> game[From(j)].char,
                                            build |-> game[From(j)].build]]
      BY <1>6, <2>2 DEF CharacterExport
    <3>2. job'[j].pc = "file"
      BY <3>1 DEF ShapeInv, JobFields
    <3> QED BY <3>2, <1>0
  <2> QED BY <2>1, <2>2
<1>7. ASSUME WriteFile(j) PROVE PhaseOf(j)'
  <2>1. CASE job'[j].pc = "done"
    BY <2>1, <1>0
  <2>2. CASE job'[j].pc # "done"
    <3>1. /\ job[j].pc = "file" /\ job'[j].pc = "record" /\ Same(j)
          /\ exports' = [exports EXCEPT ![KeyOf(j, From(j))] = job[j].data]
      BY <1>7, <2>2 DEF WriteFile, ExportPath
    <3>2. KeyOf(j, From(j)) \in Hosts \X Seconds
      BY <3>1, Exporter
    <3>3. exports'[KeyOf(j, From(j))] = job[j].data
      BY <3>1, <3>2 DEF ShapeInv
    <3> QED BY <3>1, <3>3, <1>30 DEF PhaseOf, Same
  <2> QED BY <2>1, <2>2
<1>8. ASSUME PutExport(j) PROVE PhaseOf(j)'
  BY <1>8, <1>0 DEF PutExport
<1>9. ASSUME Export(j) PROVE PhaseOf(j)'
  BY <1>9, <1>0 DEF Export, ShapeInv, JobFields
<1>10. ASSUME GetExport(j) PROVE PhaseOf(j)'
  <2>1. CASE job'[j].pc = "done"
    BY <2>1, <1>0
  <2>2. CASE job'[j].pc # "done"
    <3>1. /\ Known(job[j].key) /\ job'[j].pc = "free"
          /\ job'[j].data = exports[ExportRecord(job[j].key).path]
          /\ job'[j].sum = ExportRecord(job[j].key).build
          /\ Keyed(j) /\ UNCHANGED <<exports, records>>
      BY <1>10, <2>2 DEF GetExport, ShapeInv, JobFields, Keyed, Workstation
    <3>2. TwiceOf(j)
      BY <3>1, KeyedTwice
    <3>3. /\ ExportRecord(job[j].key) \in records.exports
          /\ ExportRecord(job[j].key).key = job[j].key /\ ExportRecord(job[j].key).path = job[j].key
      BY <3>1, KnownPath
    <3>4. \/ Twice(Exporting, job[j].key)
          \/ exports[job[j].key].build = ExportRecord(job[j].key).build
      BY <3>3 DEF ArchiveInv, FilesInv, ListedExport
    <3>5. \/ Twice(Exporting, job[j].key)'
          \/ job'[j].data = exports'[job'[j].key] /\ job'[j].data.build = job'[j].sum
      BY <3>1, <3>2, <3>3, <3>4 DEF TwiceOf, Keyed
    <3>6. Known(job[j].key)'
      BY <3>1 DEF Known, Keyed
    <3> QED BY <3>1, <3>5, <3>6 DEF PhaseOf
  <2> QED BY <2>1, <2>2
<1>11. ASSUME ImportGate(j) PROVE PhaseOf(j)'
  <2>1. CASE job'[j].pc = "done"
    BY <2>1, <1>0
  <2>2. CASE job'[j].pc # "done"
    <3>1. Goes(j, "free", "sum") /\ UNCHANGED <<exports, records>>
      BY <1>11, <2>2 DEF ImportGate, Goes, Workstation
    <3>2. TwiceOf(j)
      BY <3>1, <1>30 DEF Goes
    <3>3. Known(job[j].key)'
      BY <3>1 DEF Known, Goes, Same, PhaseOf
    <3> QED BY <3>1, <3>2, <3>3 DEF PhaseOf, Goes, Same, TwiceOf
  <2> QED BY <2>1, <2>2
<1>12. ASSUME ChecksumGate(j) PROVE PhaseOf(j)'
  <2>1. CASE job'[j].pc = "done"
    BY <2>1, <1>0
  <2>2. CASE job'[j].pc # "done"
    <3>1. Goes(j, "sum", "load") /\ SameBuild(j) /\ UNCHANGED <<game, exports, records>>
      BY <1>12, <2>2 DEF ChecksumGate, Goes, World, Workstation
    <3>2. TwiceOf(j)
      BY <3>1, <1>30 DEF Goes
    <3>3. Known(job[j].key)'
      BY <3>1 DEF Known, Goes, Same, PhaseOf
    <3>4. Twice(Exporting, job[j].key) \/ job[j].data.build = game[job[j].host].build
      BY <3>1 DEF PhaseOf, Goes, SameBuild
    <3> QED BY <3>1, <3>2, <3>3, <3>4 DEF PhaseOf, Goes, Same, TwiceOf
  <2> QED BY <2>1, <2>2
<1>13. ASSUME CharacterImport(j) PROVE PhaseOf(j)'
  BY <1>13, <1>0 DEF CharacterImport, ShapeInv, JobFields
<1>14. ASSUME Import(j) PROVE PhaseOf(j)'
  BY <1>14, <1>0 DEF Import
<1>15. ASSUME RunBackup(j) PROVE PhaseOf(j)'
  <2>1. CASE job'[j].pc = "done"
    BY <2>1, <1>0
  <2>2. CASE job'[j].pc # "done"
    <3>1. /\ job[j].pc = "wrap" /\ remote' = [remote EXCEPT ![job[j].host].backup = Wrapped(j)]
          /\ job' = [job EXCEPT ![j].pc = "wrapyaml", ![j].data = Wrapped(j)]
      BY <1>15, <2>2 DEF RunBackup, Written
    <3>2. job[j].host \in Hosts
      BY <3>1 DEF VerbOf, Running
    <3>3. /\ job'[j].pc = "wrapyaml" /\ job'[j].data = Wrapped(j) /\ job'[j].host = job[j].host
      BY <3>1 DEF ShapeInv, JobFields
    <3>4. remote'[job[j].host].backup = Wrapped(j)
      BY <3>1, <3>2 DEF ShapeInv, Pair
    <3> QED BY <3>3, <3>4 DEF PhaseOf
  <2> QED BY <2>1, <2>2
<1>25. ASSUME Describe(j) PROVE PhaseOf(j)'
  <2>1. CASE FailsAudited(j)
    BY <2>1, <1>0
  <2>2. CASE ~FailsAudited(j)
    <3>1. /\ job[j].pc = "wrapyaml" /\ remote' = [remote EXCEPT ![job[j].host].yaml = job[j].data]
          /\ \E t \in Now : job' = [job EXCEPT ![j].pc = "pull", ![j].at = t]
      BY <1>25, <2>2 DEF Describe, Written
    <3>2. job[j].host \in Hosts
      BY <3>1 DEF VerbOf, Running
    <3>3. job'[j].pc = "pull" /\ job'[j].host = job[j].host
      BY <3>1 DEF ShapeInv, JobFields
    <3>4. /\ remote'[job[j].host].yaml = job[j].data
          /\ remote'[job[j].host].backup = remote[job[j].host].backup
      BY <3>1, <3>2 DEF ShapeInv, Pair
    <3> QED BY <3>1, <3>3, <3>4 DEF PhaseOf
  <2> QED BY <2>1, <2>2
<1>16. ASSUME RecvBackup(j) PROVE PhaseOf(j)'
  <2>1. CASE job'[j].pc = "done"
    BY <2>1, <1>0
  <2>2. CASE job'[j].pc # "done"
    <3>1. /\ Goes(j, "pull", "pullyaml") /\ remote' = remote
          /\ pairs' = [pairs EXCEPT ![KeyOf(j, job[j].host)].backup = remote[job[j].host].backup]
      BY <1>16, <2>2 DEF RecvBackup, Goes, LocalPair, World
    <3>2. PICK k : k = KeyOf(j, job[j].host)
      OBVIOUS
    <3>3. k \in Hosts \X Seconds /\ KeyOf(j, job[j].host)' = k
      BY <3>1, <3>2, <1>30, Creator DEF Goes
    <3>4. pairs'[k].backup = remote[job[j].host].backup
      BY <3>1, <3>2, <3>3 DEF ShapeInv, Pair
    <3>5. remote[job[j].host].backup \in Dump
      BY <3>1 DEF DataOf, Goes
    <3> QED BY <3>1, <3>3, <3>4, <3>5 DEF PhaseOf, Goes, Same
  <2> QED BY <2>1, <2>2
<1>17. ASSUME RecvYAML(j) PROVE PhaseOf(j)'
  <2>1. CASE job'[j].pc = "done"
    BY <2>1, <1>0
  <2>2. CASE job'[j].pc # "done"
    <3>1. /\ Goes(j, "pullyaml", "put") /\ remote' = remote
          /\ pairs' = [pairs EXCEPT ![KeyOf(j, job[j].host)].yaml = remote[job[j].host].yaml]
      BY <1>17, <2>2 DEF RecvYAML, Goes, LocalPair, World
    <3>2. PICK k : k = KeyOf(j, job[j].host)
      OBVIOUS
    <3>3. /\ k \in Hosts \X Seconds /\ KeyOf(j, job[j].host)' = k
          /\ Twice({"create"}, k) => Twice({"create"}, k)'
      BY <3>1, <3>2, <1>30, Creator, TwiceStays DEF Goes
    <3>4. pairs'[k].yaml = remote[job[j].host].yaml /\ pairs'[k].backup = pairs[k].backup
      BY <3>1, <3>2, <3>3 DEF ShapeInv, Pair
    <3>5. remote[job[j].host].yaml \in Dump
      BY <3>1 DEF DataOf, Goes
    <3>6. Twice({"create"}, k) \/ Whole(j, k)'
      BY <3>1, <3>2, <3>4, <3>5 DEF PhaseOf, Goes, Whole
    <3>7. Twice({"create"}, k)' \/ Whole(j, k)'
      BY <3>3, <3>6
    <3>8. Twice({"create"}, KeyOf(j, job[j].host))' \/ Whole(j, KeyOf(j, job[j].host))'
      BY <3>3, <3>7
    <3> QED BY <3>1, <3>8 DEF PhaseOf, Goes
  <2> QED BY <2>1, <2>2
<1>18. ASSUME PutBackup(j) PROVE PhaseOf(j)'
  BY <1>18, <1>0 DEF PutBackup
<1>19. ASSUME Create(j) PROVE PhaseOf(j)'
  BY <1>19, <1>0 DEF Create
<1>20. ASSUME GetBackup(j) PROVE PhaseOf(j)'
  BY <1>20, <1>0 DEF GetBackup
<1>21. ASSUME SendBackup(j) PROVE PhaseOf(j)'
  <2>1. CASE job'[j].pc = "done"
    BY <2>1, <1>0
  <2>2. CASE job'[j].pc # "done"
    <3>1. /\ Goes(j, "push", "pushyaml") /\ UNCHANGED pairs
          /\ remote' = [remote EXCEPT ![job[j].host].backup = PairOf(j).backup]
      BY <1>21, <2>2 DEF SendBackup, Goes, Written, PairsAside, Workstation
    <3>2. Kept(job[j].key) /\ job[j].host = job[j].key[1]
      BY <3>1 DEF VerbOf, DataOf, Running, Goes
    <3>3. PairOf(j) = pairs[job[j].key] /\ job[j].host \in Hosts
      BY <3>2, KeptPath DEF PairOf
    <3>4. remote'[job[j].host].backup = pairs[job[j].key].backup
      BY <3>1, <3>3 DEF ShapeInv, Pair
    <3> QED BY <3>1, <3>4 DEF PhaseOf, Goes, Same
  <2> QED BY <2>1, <2>2
<1>22. ASSUME SendYAML(j) PROVE PhaseOf(j)'
  <2>1. CASE job'[j].pc = "done"
    BY <2>1, <1>0
  <2>2. CASE job'[j].pc # "done"
    <3>1. /\ Goes(j, "pushyaml", "restore") /\ UNCHANGED pairs
          /\ remote' = [remote EXCEPT ![job[j].host].yaml = PairOf(j).yaml]
      BY <1>22, <2>2 DEF SendYAML, Goes, Written, PairsAside, Workstation
    <3>2. Kept(job[j].key) /\ job[j].host = job[j].key[1]
      BY <3>1 DEF VerbOf, DataOf, Running, Goes
    <3>3. PairOf(j) = pairs[job[j].key] /\ job[j].host \in Hosts
      BY <3>2, KeptPath DEF PairOf
    <3>4. /\ remote'[job[j].host].yaml = pairs[job[j].key].yaml
          /\ remote'[job[j].host].backup = remote[job[j].host].backup
      BY <3>1, <3>3 DEF ShapeInv, Pair
    <3>5. TwiceOf(j)
      BY <3>1, <1>30 DEF Goes
    <3> QED BY <3>1, <3>4, <3>5 DEF PhaseOf, Goes, Same, TwiceOf
  <2> QED BY <2>1, <2>2
<1>23. ASSUME Restore(j) PROVE PhaseOf(j)'
  BY <1>23, <1>0 DEF Restore, ShapeInv, JobFields
<1> QED
  BY <1>1, <1>2, <1>3, <1>4, <1>5, <1>6, <1>7, <1>8, <1>9, <1>10, <1>11,
     <1>12, <1>13, <1>14, <1>15, <1>16, <1>17, <1>18, <1>19, <1>20, <1>21,
     <1>22, <1>23, <1>25 DEF JobStep, AvatarStep, BackupStep, Called

(* What an environment step or the end of the process leaves of it all.      *)
LEMMA FilesKept ==
  ASSUME BaseInv, ArchiveInv, Goneby, UNCHANGED <<exports, pairs, records>>,
         \A k \in Jobs : job'[k].pc = job[k].pc \/ job'[k].pc = "dead"
  PROVE  FilesInv'
<1>1. FilesInv
  BY DEF ArchiveInv
<1>2. ASSUME NEW r \in records.exports PROVE ListedExport(r)'
  <2>1. PICK i \in Jobs :
          /\ Took(i, Exporting, r.key) /\ job[i].pc \notin ToExport
          /\ \/ Twice(Exporting, r.key)
             \/ exports[r.key] \in Content /\ exports[r.key].build = r.build
    BY <1>1 DEF FilesInv, ListedExport
  <2>2. Took(i, Exporting, r.key)' /\ job'[i].pc \notin ToExport /\ Jobs' = Jobs
    BY <2>1, TookStays DEF ToExport, Goneby
  <2>3. Twice(Exporting, r.key) => Twice(Exporting, r.key)'
    BY TwiceStays
  <2> QED BY <2>1, <2>2, <2>3 DEF ListedExport
<1>3. ASSUME NEW r \in records.backups PROVE ListedBackup(r)'
  <2>1. PICK i \in Jobs :
          /\ Took(i, {"create"}, r.key) /\ job[i].pc \notin ToBackup
          /\ Twice({"create"}, r.key) \/ Whole(i, r.key)
    BY <1>1 DEF FilesInv, ListedBackup
  <2>2. Took(i, {"create"}, r.key)' /\ job'[i].pc \notin ToBackup /\ Jobs' = Jobs
    BY <2>1, TookStays DEF ToBackup, Goneby
  <2>3. Twice({"create"}, r.key) => Twice({"create"}, r.key)'
    BY TwiceStays
  <2>4. Whole(i, r.key) => Whole(i, r.key)'
    BY DEF Whole, Goneby
  <2> QED BY <2>1, <2>2, <2>3, <2>4 DEF ListedBackup
<1> QED BY <1>2, <1>3 DEF FilesInv

LEMMA StepArchive == BaseInv /\ ArchiveInv /\ [Next]_vars => ArchiveInv'
<1> SUFFICES ASSUME BaseInv, ArchiveInv, [Next]_vars PROVE FilesInv' /\ \A j \in Jobs' : PhaseOf(j)'
  BY StepTypeInv DEF ArchiveInv
<1>1. ASSUME NEW j \in Jobs, JobStep(j) PROVE FilesInv' /\ \A k \in Jobs' : PhaseOf(k)'
  BY <1>1, StepFiles, StepPhase, OtherPhase, StepGoneby DEF Goneby
<1>2. ASSUME NEW h \in Hosts, Login(h) \/ Logout(h) \/ Patch(h)
      PROVE  FilesInv' /\ \A k \in Jobs' : PhaseOf(k)'
  <2>1. /\ UNCHANGED <<script, exports, pairs, records, remote, job, crossed>>
        /\ Jobs' = Jobs /\ overtaken \subseteq overtaken'
    BY <1>2 DEF Login, Logout, Patch, Workstation, Jobs
  <2>2. FilesInv'
    BY <2>1 DEF ArchiveInv, FilesInv, ListedExport, ListedBackup, Whole, Took, Twice, KeyOf, From
  <2>3. ASSUME NEW j \in Jobs, job[j].pc = "load", PhaseOf(j)
        PROVE  \/ Twice(Exporting, job[j].key) \/ j \in overtaken'
               \/ job[j].data.build = game'[job[j].host].build
    <3>1. job[j].host \in Hosts
      BY <2>3 DEF BaseInv, VerbInv, VerbOf, Running
    <3>2. CASE Login(h) \/ Logout(h)
      BY <2>1, <2>3, <3>1, <3>2 DEF PhaseOf, Login, Logout, BaseInv, ShapeInv
    <3>3. CASE Patch(h)
      BY <2>3, <3>1, <3>3 DEF PhaseOf, Patch, BaseInv, ShapeInv
    <3> QED BY <1>2, <3>2, <3>3
  <2>4. ASSUME NEW j \in Jobs PROVE PhaseOf(j)'
    <3>1. PhaseOf(j)
      BY DEF ArchiveInv
    <3>2. TwiceOf(j) /\ KeyOf(j, From(j))' = KeyOf(j, From(j))
          /\ KeyOf(j, job[j].host)' = KeyOf(j, job[j].host)
      BY <2>1 DEF TwiceOf, Twice, Took, KeyOf, From
    <3> QED BY <2>1, <2>3, <3>1, <3>2 DEF PhaseOf, TwiceOf, Known, Whole
  <2> QED BY <2>1, <2>2, <2>4
<1>3. CASE UNCHANGED vars
  <2>1. UNCHANGED <<script, exports, pairs, records, remote, job, game, crossed, overtaken>>
    BY <1>3 DEF vars
  <2>2. FilesInv'
    BY <2>1 DEF ArchiveInv, FilesInv, ListedExport, ListedBackup, Whole, Took, Twice, KeyOf, From,
       Jobs
  <2>3. Jobs' = Jobs
    BY <2>1 DEF Jobs
  <2>4. ASSUME NEW j \in Jobs PROVE PhaseOf(j)'
    <3>1. PhaseOf(j)
      BY DEF ArchiveInv
    <3>2. TwiceOf(j) /\ KeyOf(j, From(j))' = KeyOf(j, From(j))
          /\ KeyOf(j, job[j].host)' = KeyOf(j, job[j].host)
      BY <2>1, <2>3 DEF TwiceOf, Twice, Took, KeyOf, From
    <3> QED BY <2>1, <3>1, <3>2 DEF PhaseOf, TwiceOf, Known, Whole
  <2> QED BY <2>2, <2>3, <2>4
<1>4. CASE Kill
  <2>1. Dies /\ Goneby /\ Jobs' = Jobs /\ UNCHANGED <<exports, pairs, records, remote, game>>
    BY <1>4, KillMoves, KillGoneby DEF BaseInv, Dies, Goneby, Workstation, World
  <2>2. FilesInv'
    BY <2>1, FilesKept DEF Dies
  <2>3. ASSUME NEW k \in Jobs PROVE PhaseOf(k)'
    <3>1. CASE job'[k].pc = "dead"
      BY <3>1 DEF PhaseOf
    <3>2. CASE job'[k].pc # "dead"
      <4>1. job'[k] = job[k] /\ ~Running(k)
        BY <2>1, <3>2 DEF Dies
      <4> QED BY <4>1 DEF PhaseOf, Running
    <3> QED BY <3>1, <3>2
  <2> QED BY <2>1, <2>2, <2>3
<1> QED
  BY <1>1, <1>2, <1>3, <1>4 DEF Next, Idle, JobStep

LEMMA Archived == Spec => []ArchiveInv
<1>1. Init => FilesInv /\ \A j \in Jobs : PhaseOf(j)
  <2> SUFFICES ASSUME Init PROVE FilesInv /\ \A j \in Jobs : PhaseOf(j)
    OBVIOUS
  <2>1. records.exports = {} /\ records.backups = {} /\ \A j \in Jobs : job[j].pc = "idle"
    BY DEF Init, IdleJob
  <2> QED BY <2>1 DEF FilesInv, PhaseOf
<1>2. Init => ArchiveInv
  BY <1>1, InitTypes DEF ArchiveInv
<1> QED
  BY <1>2, StepArchive, Base, PTL DEF Spec

(* What is listed can be put back, whatever failed or ended between the      *)
(* writing of the files and that of the record, and whatever calls ran at a  *)
(* time, but for keys of two calls, and a pair that was crossed on its host  *)
(* may be of two runs (avatar.go:134, create.go:66).                         *)
THEOREM ListedIsAlwaysThere == Spec => []RecordsKeepTheirFiles
<1>1. ArchiveInv => RecordsKeepTheirFiles
  <2> SUFFICES ASSUME ArchiveInv PROVE RecordsKeepTheirFiles
    OBVIOUS
  <2>1. ASSUME NEW r \in records.exports
        PROVE  \/ Twice(Exporting, r.key)
               \/ exports[r.path] # None /\ exports[r.path].build = r.build
    BY NoneIsNothing DEF ArchiveInv, TypeInv, FilesInv, ListedExport
  <2>2. ASSUME NEW r \in records.backups, ~Twice({"create"}, r.key)
        PROVE  /\ None \notin {pairs[r.path].backup, pairs[r.path].yaml}
               /\ \/ pairs[r.path].backup = pairs[r.path].yaml
                  \/ \E j \in crossed : Took(j, {"create"}, r.key)
    BY <2>2, NoneIsNothing DEF ArchiveInv, TypeInv, FilesInv, ListedBackup, Whole
  <2> QED BY <2>1, <2>2 DEF RecordsKeepTheirFiles
<1> QED
  BY <1>1, Archived, PTL

-------------------------------------------------------------------------------
(* What a call overwrote a character with.                                   *)

Imports(j) ==
  /\ job[j].pc = "load" /\ job'[j].pc \in {"imported", "done"}
  /\ job'[j].ran = <<job[j].data.build, game[job[j].host].build>>

Restores(j) ==
  /\ job[j].pc = "restore" /\ job'[j].pc \in {"restored", "done"}
  /\ job'[j].ran = <<remote[job[j].host].backup, remote[job[j].host].yaml>>

Overwrites(j) ==
  /\ \/ Called(j)
     \/ /\ job'[j].ran = job[j].ran /\ job'[j].pc \notin {"imported", "restored"}
        /\ UNCHANGED <<game, last>>
     \/ Imports(j) \/ Restores(j)
  /\ job[j].pc \notin {"idle", "exported"} => job'[j].key = job[j].key
  /\ job[j].pc \in {"imported", "restored"} => job'[j].pc \in {"done", "dead"}

LEMMA StepOverwrites == ASSUME ShapeInv, NEW j \in Jobs, JobStep(j) PROVE Overwrites(j)
<1>1. ASSUME Called(j) PROVE Overwrites(j)
  BY <1>1, StartMoves DEF Overwrites
<1> USE ToMoves, OverMoves, EndMoves, LostMoves
    DEF Overwrites, Same, Over, World, Workstation, Fails, FailsAudited, PairsAside
<1>2. ASSUME Check(j) PROVE Overwrites(j)
  BY <1>2 DEF Check, ShapeInv, JobFields
<1>3. ASSUME Transfer(j) PROVE Overwrites(j)
  BY <1>3 DEF Transfer, ShapeInv, JobFields
<1>4. ASSUME IsPlayerOffline(j) PROVE Overwrites(j)
  BY <1>4 DEF IsPlayerOffline
<1>5. ASSUME CharacterName(j) PROVE Overwrites(j)
  BY <1>5 DEF CharacterName, ShapeInv, JobFields
<1>6. ASSUME CharacterExport(j) PROVE Overwrites(j)
  <2>1. CASE FailsAudited(j)
    BY <1>6, <2>1 DEF CharacterExport
  <2>2. CASE ~FailsAudited(j)
    <3>1. PICK t \in Now :
            job' = [job EXCEPT ![j].pc = "file", ![j].at = t,
                               ![j].data = [char |-> game[From(j)].char,
                                            build |-> game[From(j)].build]]
      BY <1>6, <2>2 DEF CharacterExport
    <3>2. job'[j].pc = "file" /\ job'[j].key = job[j].key /\ job'[j].ran = job[j].ran
      BY <3>1 DEF ShapeInv, JobFields
    <3> QED BY <1>6, <3>2 DEF CharacterExport
  <2> QED BY <2>1, <2>2
<1>7. ASSUME WriteFile(j) PROVE Overwrites(j)
  BY <1>7 DEF WriteFile
<1>8. ASSUME PutExport(j) PROVE Overwrites(j)
  BY <1>8 DEF PutExport
<1>9. ASSUME Export(j) PROVE Overwrites(j)
  BY <1>9 DEF Export, ShapeInv, JobFields
<1>10. ASSUME GetExport(j) PROVE Overwrites(j)
  BY <1>10 DEF GetExport, ShapeInv, JobFields
<1>11. ASSUME ImportGate(j) PROVE Overwrites(j)
  BY <1>11 DEF ImportGate
<1>12. ASSUME ChecksumGate(j) PROVE Overwrites(j)
  BY <1>12 DEF ChecksumGate
<1>13. ASSUME CharacterImport(j) PROVE Overwrites(j)
  BY <1>13 DEF CharacterImport, ShapeInv, JobFields, Imports
<1>14. ASSUME Import(j) PROVE Overwrites(j)
  BY <1>14 DEF Import
<1>15. ASSUME RunBackup(j) PROVE Overwrites(j)
  BY <1>15 DEF RunBackup, ShapeInv, JobFields
<1>25. ASSUME Describe(j) PROVE Overwrites(j)
  BY <1>25 DEF Describe, ShapeInv, JobFields
<1>16. ASSUME RecvBackup(j) PROVE Overwrites(j)
  BY <1>16 DEF RecvBackup
<1>17. ASSUME RecvYAML(j) PROVE Overwrites(j)
  BY <1>17 DEF RecvYAML
<1>18. ASSUME PutBackup(j) PROVE Overwrites(j)
  BY <1>18 DEF PutBackup
<1>19. ASSUME Create(j) PROVE Overwrites(j)
  BY <1>19 DEF Create
<1>20. ASSUME GetBackup(j) PROVE Overwrites(j)
  BY <1>20 DEF GetBackup
<1>21. ASSUME SendBackup(j) PROVE Overwrites(j)
  BY <1>21 DEF SendBackup
<1>22. ASSUME SendYAML(j) PROVE Overwrites(j)
  BY <1>22 DEF SendYAML
<1>23. ASSUME Restore(j) PROVE Overwrites(j)
  BY <1>23 DEF Restore, ShapeInv, JobFields, Restores
<1> QED
  BY <1>1, <1>2, <1>3, <1>4, <1>5, <1>6, <1>7, <1>8, <1>9, <1>10, <1>11,
     <1>12, <1>13, <1>14, <1>15, <1>16, <1>17, <1>18, <1>19, <1>20, <1>21,
     <1>22, <1>23, <1>25 DEF JobStep, AvatarStep, BackupStep, Called

RanOf(j) ==
  /\ job[j].pc \notin {"imported", "restored", "done", "dead"} => job[j].ran = <<>>
  /\ job[j].pc \in {"imported", "restored"} => job[j].ran # <<>>
  /\ job[j].verb \in {"import", "transfer"} /\ job[j].ran # <<>> /\ j \notin overtaken
       => job[j].ran[1] = job[j].ran[2] \/ Twice(Exporting, job[j].key)
  /\ job[j].verb = "restore" /\ job[j].ran # <<>>
       => /\ Kept(job[j].key)
          /\ \/ job[j].ran = <<pairs[job[j].key].backup, pairs[job[j].key].yaml>>
             \/ j \in crossed \/ Twice({"create"}, job[j].key)

RanInv == \A j \in Jobs : RanOf(j)

(* What a call ran on stays what it was, as long as the call keeps its keys. *)
LEMMA RanStays ==
  ASSUME Goneby, Stays, NEW j \in Jobs, RanOf(j), Keyed(j), job'[j].ran = job[j].ran
  PROVE  /\ job'[j].verb \in {"import", "transfer"} /\ job'[j].ran # <<>> /\ j \notin overtaken'
              => job'[j].ran[1] = job'[j].ran[2] \/ Twice(Exporting, job[j].key)'
         /\ job'[j].verb = "restore" /\ job'[j].ran # <<>>
              => /\ Kept(job[j].key)'
                 /\ \/ job'[j].ran = <<pairs'[job'[j].key].backup, pairs'[job'[j].key].yaml>>
                    \/ j \in crossed' \/ Twice({"create"}, job[j].key)'
<1>1. TwiceOf(j)
  BY KeyedTwice
<1>2. PICK k : k = job[j].key
  OBVIOUS
<1>3. job'[j].key = k /\ (Kept(k) => Kept(k)')
  BY <1>2 DEF Keyed, Stays
<1>4. Kept(job[j].key) => Kept(job[j].key)'
  BY <1>2, <1>3
<1>5. Kept(job[j].key) =>
        pairs'[job[j].key] = pairs[job[j].key] \/ Twice({"create"}, job[j].key)
  BY DEF Stays
<1> QED BY <1>1, <1>4, <1>5 DEF RanOf, Keyed, Goneby, TwiceOf

LEMMA StepRanOf ==
  ASSUME BaseInv, ArchiveInv, RanInv, NEW j \in Jobs, JobStep(j) PROVE RanOf(j)'
<1>1. /\ Framed(j) /\ Overwrites(j) /\ Stays /\ VerbOf(j) /\ PhaseOf(j) /\ DataOf(j) /\ RanOf(j)
      /\ Goneby
  BY StepFrames, StepOverwrites, StepStays, StepGoneby
     DEF BaseInv, ArchiveInv, TypeInv, VerbInv, RanInv
<1>2. CASE Called(j)
  BY <1>2, StartMoves DEF RanOf, BaseInv
<1>3. CASE job'[j].ran = job[j].ran /\ job'[j].pc \notin {"imported", "restored"} /\ ~Called(j)
  <2>1. job'[j].verb = job[j].verb /\ job[j].pc \notin {"idle", "done", "dead"}
    BY <1>1, <1>3 DEF Framed
  <2>2. CASE job[j].ran = <<>>
    BY <1>1, <1>3, <2>1, <2>2 DEF RanOf
  <2>3. CASE job[j].ran # <<>>
    <3>1. job[j].pc \in {"imported", "restored"} /\ job'[j].pc \in {"done", "dead"}
      BY <1>1, <2>1, <2>3 DEF RanOf, Overwrites
    <3>2. Keyed(j)
      BY <1>1, <3>1 DEF Overwrites, Framed, Keyed
    <3> QED BY <1>1, <1>3, <3>1, <3>2, RanStays DEF RanOf
  <2> QED BY <2>2, <2>3
<1>6. ASSUME job[j].pc \in {"load", "restore"} PROVE Keyed(j) /\ TwiceOf(j)
  <2>1. Keyed(j)
    BY <1>1, <1>6 DEF Overwrites, Framed, Keyed
  <2> QED BY <1>1, <2>1, KeyedTwice
<1>4. CASE Imports(j)
  <2>1. \/ job[j].data.build = game[job[j].host].build \/ j \in overtaken
        \/ Twice(Exporting, job[j].key)
    BY <1>1, <1>4 DEF Imports, PhaseOf
  <2>2. job'[j].verb \in {"import", "transfer"}
    BY <1>1, <1>4 DEF Imports, VerbOf, Framed
  <2>3. job'[j].ran # <<>> /\ job'[j].ran[1] = job[j].data.build
        /\ job'[j].ran[2] = game[job[j].host].build
    BY <1>4 DEF Imports
  <2>4. TwiceOf(j)
    BY <1>4, <1>6 DEF Imports
  <2> QED BY <1>1, <1>4, <2>1, <2>2, <2>3, <2>4 DEF RanOf, Imports, TwiceOf, Goneby
<1>5. CASE Restores(j)
  <2>1. /\ Kept(job[j].key)
        /\ \/ Twice({"create"}, job[j].key) \/ j \in crossed
           \/ /\ remote[job[j].host].backup = pairs[job[j].key].backup
              /\ remote[job[j].host].yaml = pairs[job[j].key].yaml
    BY <1>1, <1>5 DEF Restores, PhaseOf, DataOf
  <2>2. job'[j].verb = "restore" /\ Keyed(j) /\ TwiceOf(j)
    BY <1>1, <1>5, <1>6 DEF Restores, VerbOf, Framed
  <2>3. /\ job'[j].ran # <<>>
        /\ \/ Twice({"create"}, job[j].key) \/ j \in crossed
           \/ job'[j].ran = <<pairs[job[j].key].backup, pairs[job[j].key].yaml>>
    BY <1>5, <2>1 DEF Restores
  <2>4. PICK k : k = job[j].key
    OBVIOUS
  <2>5. Kept(k)' /\ job'[j].key = k /\ (pairs'[k] = pairs[k] \/ Twice({"create"}, k))
    BY <1>1, <2>1, <2>2, <2>4 DEF Stays, Keyed
  <2>6. Kept(job[j].key)'
    BY <2>4, <2>5
  <2>7. \/ Twice({"create"}, job[j].key)' \/ j \in crossed'
        \/ job'[j].ran = <<pairs'[job'[j].key].backup, pairs'[job'[j].key].yaml>>
    BY <1>1, <2>2, <2>3, <2>4, <2>5 DEF TwiceOf, Goneby
  <2> QED BY <1>5, <2>2, <2>3, <2>6, <2>7 DEF RanOf, Restores
<1> QED
  BY <1>1, <1>2, <1>3, <1>4, <1>5 DEF Overwrites

LEMMA StepRan == BaseInv /\ ArchiveInv /\ RanInv /\ [Next]_vars => RanInv'
<1> SUFFICES ASSUME BaseInv, ArchiveInv, RanInv, [Next]_vars PROVE RanInv'
  OBVIOUS
<1>1. ASSUME NEW j \in Jobs, JobStep(j) PROVE RanInv'
  <2>1. Framed(j) /\ Stays /\ RanOf(j)' /\ Goneby
    BY <1>1, StepFrames, StepStays, StepRanOf, StepGoneby DEF BaseInv, ArchiveInv
  <2>2. ASSUME NEW k \in Jobs, k # j PROVE RanOf(k)'
    <3>1. job'[k] = job[k] /\ RanOf(k) /\ Keyed(k)
      BY <2>1, <2>2 DEF Framed, Others, RanInv, Keyed
    <3> QED BY <2>1, <3>1, RanStays DEF RanOf
  <2> QED BY <2>1, <2>2 DEF RanInv, Goneby
<1>2. CASE UNCHANGED <<script, job, pairs, records, crossed>> /\ overtaken \subseteq overtaken'
  <2>1. Jobs' = Jobs
    BY <1>2 DEF Jobs
  <2>2. ASSUME NEW k \in Jobs PROVE RanOf(k)'
    BY <1>2, <2>1, <2>2 DEF RanInv, RanOf, Kept, Twice, Took, KeyOf, From
  <2> QED BY <2>1, <2>2 DEF RanInv
<1>3. CASE Kill
  <2>1. Dies /\ Goneby /\ UNCHANGED <<exports, pairs, records>>
    BY <1>3, KillMoves, KillGoneby DEF BaseInv, Dies, Workstation
  <2>2. Stays
    BY <2>1 DEF Stays, Known, Kept
  <2>3. ASSUME NEW k \in Jobs PROVE RanOf(k)'
    <3>1. Keyed(k) /\ job'[k].ran = job[k].ran /\ job'[k].pc \in {job[k].pc, "dead"} /\ RanOf(k)
      BY <2>1 DEF Dies, Over, Keyed, RanInv
    <3> QED BY <2>1, <2>2, <3>1, RanStays DEF RanOf
  <2> QED BY <2>1, <2>3 DEF RanInv, Goneby
<1> QED
  BY <1>1, <1>2, <1>3 DEF Next, Idle, JobStep, Login, Logout, Patch, vars, Workstation

LEMMA Ran == Spec => []RanInv
<1>1. Init => RanInv
  <2> SUFFICES ASSUME Init, NEW j \in Jobs PROVE RanOf(j)
    BY DEF RanInv
  <2>1. job[j].pc = "idle" /\ job[j].ran = <<>>
    BY DEF Init, IdleJob
  <2> QED BY <2>1 DEF RanOf
<1> QED
  BY <1>1, StepRan, Base, Archived, PTL DEF Spec

(* A character comes into a host of its own build, also when the host is     *)
(* patched between a transfer's gates and its import, unless that is after   *)
(* the import read the checksum, or two calls took the export's key          *)
(* (transfer.go:52).                                                         *)
THEOREM AlwaysSameBuild == Spec => []NeverAcrossBuilds
<1>1. RanInv => NeverAcrossBuilds
  BY DEF RanInv, RanOf, NeverAcrossBuilds
<1> QED
  BY <1>1, Ran, PTL

-------------------------------------------------------------------------------
(* The call that wrote a character last.                                     *)

Through == {"imported", "restored", "done", "dead"}

LastOf(h) ==
  \A i \in Jobs : last[h] = i =>
    /\ job[i].pc \in Through
    /\ job[i].verb = "restore" =>
         /\ Kept(job[i].key)
         /\ \/ i \in crossed \/ Twice({"create"}, job[i].key)
            \/ game[h].char = pairs[job[i].key].backup.char
    /\ job[i].verb # "restore" =>
         /\ Known(job[i].key)
         /\ Twice(Exporting, job[i].key) \/ game[h].char = exports[job[i].key].char
    /\ job[i].verb = "transfer" => job[i].key[1] # h

LastInv == \A h \in Hosts : LastOf(h) /\ last[h] \in Jobs \cup {None}

(* It stays what was put back, as long as the call keeps its keys.           *)
LEMMA LastStays ==
  ASSUME Goneby, Stays, NEW h \in Hosts, LastOf(h), last'[h] = last[h],
         game'[h].char = game[h].char,
         \A i \in Jobs : job[i].pc \in Through => Keyed(i) /\ job'[i].pc \in Through
  PROVE  LastOf(h)'
<1> SUFFICES ASSUME NEW i \in Jobs, last[h] = i
             PROVE  (/\ job[i].pc \in Through
                     /\ job[i].verb = "restore" =>
                          /\ Kept(job[i].key)
                          /\ \/ i \in crossed \/ Twice({"create"}, job[i].key)
                             \/ game[h].char = pairs[job[i].key].backup.char
                     /\ job[i].verb # "restore" =>
                          /\ Known(job[i].key)
                          /\ Twice(Exporting, job[i].key) \/ game[h].char = exports[job[i].key].char
                     /\ job[i].verb = "transfer" => job[i].key[1] # h)'
  BY DEF LastOf, Goneby
<1>1. job[i].pc \in Through /\ Keyed(i) /\ job'[i].pc \in Through
  BY DEF LastOf
<1>2. TwiceOf(i)
  BY <1>1, KeyedTwice
<1>3. PICK k : k = job[i].key
  OBVIOUS
<1>4. /\ Kept(k) => Kept(k)' /\ (pairs'[k] = pairs[k] \/ Twice({"create"}, k))
      /\ Known(k) => Known(k)' /\ (exports'[k] = exports[k] \/ Twice(Exporting, k))
      /\ job'[i].key = k
  BY <1>1, <1>3 DEF Stays, Keyed
<1>5. /\ Kept(job[i].key) => Kept(job[i].key)'
      /\ Known(job[i].key) => Known(job[i].key)'
  BY <1>3, <1>4
<1>6. CASE job[i].verb = "restore"
  BY <1>1, <1>2, <1>3, <1>4, <1>5, <1>6 DEF LastOf, TwiceOf, Keyed, Goneby
<1>7. CASE job[i].verb # "restore"
  BY <1>1, <1>2, <1>3, <1>4, <1>5, <1>7 DEF LastOf, TwiceOf, Keyed
<1> QED BY <1>6, <1>7

LEMMA StepLastOf ==
  ASSUME BaseInv, ArchiveInv, LastInv, NEW j \in Jobs, JobStep(j), NEW h \in Hosts
  PROVE  LastOf(h)' /\ last'[h] \in Jobs \cup {None}
<1>1. /\ Framed(j) /\ Overwrites(j) /\ Stays /\ VerbOf(j) /\ PhaseOf(j) /\ DataOf(j) /\ Plays(j)
      /\ LastOf(h) /\ last[h] \in Jobs \cup {None} /\ Goneby
  BY StepFrames, StepOverwrites, StepStays, StepPlays, StepGoneby
     DEF BaseInv, ArchiveInv, TypeInv, VerbInv, LastInv
<1>2. CASE last'[h] = last[h] /\ game'[h] = game[h]
  <2>1. ASSUME NEW i \in Jobs, job[i].pc \in Through PROVE Keyed(i) /\ job'[i].pc \in Through
    BY <1>1, <2>1 DEF Framed, Others, Overwrites, Through, Keyed
  <2> QED BY <1>1, <1>2, <2>1, LastStays
<1>3. CASE h = job[j].host /\ job[j].pc = "load" /\ game'[h].char = job[j].data.char /\ last'[h] = j
           /\ job'[j].pc \in {"imported", "restored", "done"}
  <2>1. Keyed(j) /\ job[j].verb \in {"import", "transfer"}
    BY <1>1, <1>3 DEF Framed, Overwrites, VerbOf, Keyed
  <2>2. PICK k : k = job[j].key
    OBVIOUS
  <2>3. /\ Known(k) /\ Known(k)' /\ (exports'[k] = exports[k] \/ Twice(Exporting, k))
        /\ Twice(Exporting, k) \/ job[j].data = exports[k]
    BY <1>1, <1>3, <2>2 DEF PhaseOf, Stays
  <2>4. job[j].verb = "transfer" => k[1] # h
    BY <1>1, <1>3, <2>2 DEF VerbOf, Running
  <2>5. job'[j].key = k /\ (Twice(Exporting, k) => Twice(Exporting, k)')
    BY <1>1, <2>1, <2>2, TwiceStays DEF Keyed
  <2>6. Known(job[j].key)' /\ (Twice(Exporting, k)' => Twice(Exporting, job[j].key)')
    BY <2>3, <2>5
  <2> QED BY <1>1, <1>3, <2>1, <2>3, <2>4, <2>5, <2>6 DEF LastOf, Keyed, Through
<1>4. CASE h = job[j].host /\ job[j].pc = "restore" /\ game'[h].char = remote[h].backup.char
           /\ last'[h] = j /\ job'[j].pc \in {"imported", "restored", "done"}
  <2>1. Keyed(j) /\ job[j].verb = "restore"
    BY <1>1, <1>4 DEF Framed, Overwrites, VerbOf, Keyed
  <2>2. PICK k : k = job[j].key
    OBVIOUS
  <2>3. /\ Kept(k) /\ Kept(k)' /\ (pairs'[k] = pairs[k] \/ Twice({"create"}, k))
        /\ Twice({"create"}, k) \/ j \in crossed \/ remote[h].backup = pairs[k].backup
    BY <1>1, <1>4, <2>2 DEF PhaseOf, Stays, DataOf
  <2>5. job'[j].key = k /\ (Twice({"create"}, k) => Twice({"create"}, k)')
    BY <1>1, <2>1, <2>2, TwiceStays DEF Keyed
  <2>6. Kept(job[j].key)' /\ (Twice({"create"}, k)' => Twice({"create"}, job[j].key)')
    BY <2>3, <2>5
  <2> QED BY <1>1, <1>4, <2>1, <2>3, <2>5, <2>6 DEF LastOf, Keyed, Through, Goneby
<1> QED
  BY <1>1, <1>2, <1>3, <1>4 DEF Plays

LEMMA StepLast == BaseInv /\ ArchiveInv /\ LastInv /\ [Next]_vars => LastInv'
<1> SUFFICES ASSUME BaseInv, ArchiveInv, LastInv, [Next]_vars PROVE LastInv'
  OBVIOUS
<1>1. ASSUME NEW j \in Jobs, JobStep(j) PROVE LastInv'
  BY <1>1, StepLastOf, StepGoneby DEF LastInv, Goneby
<1>2. ASSUME NEW h \in Hosts, Login(h) \/ Logout(h) \/ Patch(h) PROVE LastInv'
  <2>1. Goneby /\ UNCHANGED <<job, pairs, exports, records>>
    BY <1>2 DEF Login, Logout, Patch, Workstation, Jobs, Goneby
  <2>2. \A i \in Hosts : last'[i] = None \/ (last'[i] = last[i] /\ game'[i].char = game[i].char)
    BY <1>2 DEF Login, Logout, Patch, BaseInv, ShapeInv
  <2>3. None \notin Jobs
    BY ArchiveAssumption DEF BaseInv, ShapeInv, Jobs
  <2>4. Stays /\ \A i \in Jobs : job[i].pc \in Through => Keyed(i) /\ job'[i].pc \in Through
    BY <2>1 DEF Stays, Known, Kept, Keyed, Through, BaseInv, VerbInv, VerbOf
  <2>5. ASSUME NEW i \in Hosts, last'[i] = None PROVE LastOf(i)' /\ last'[i] \in Jobs \cup {None}
    BY <2>1, <2>3, <2>5 DEF LastOf, Goneby
  <2>6. ASSUME NEW i \in Hosts, last'[i] # None PROVE LastOf(i)' /\ last'[i] \in Jobs \cup {None}
    BY <2>1, <2>2, <2>4, <2>6, LastStays DEF LastInv
  <2> QED BY <2>1, <2>5, <2>6 DEF LastInv, Goneby
<1>3. CASE UNCHANGED vars
  <2>1. Goneby /\ UNCHANGED <<job, pairs, exports, records, game, last>>
    BY <1>3 DEF vars, Jobs, Goneby
  <2>2. Stays /\ \A i \in Jobs : job[i].pc \in Through => Keyed(i) /\ job'[i].pc \in Through
    BY <2>1 DEF Stays, Known, Kept, Keyed, Through, BaseInv, VerbInv, VerbOf
  <2>3. ASSUME NEW i \in Hosts PROVE LastOf(i)' /\ last'[i] \in Jobs \cup {None}
    BY <2>1, <2>2, LastStays DEF LastInv
  <2> QED BY <2>1, <2>3 DEF LastInv, Goneby
<1>4. CASE Kill
  <2>1. Dies /\ Goneby /\ UNCHANGED <<exports, pairs, records, game, last>>
    BY <1>4, KillMoves, KillGoneby DEF BaseInv, Dies, Workstation, World
  <2>2. Stays
    BY <2>1 DEF Stays, Known, Kept
  <2>3. ASSUME NEW i \in Jobs, job[i].pc \in Through PROVE Keyed(i) /\ job'[i].pc \in Through
    BY <2>1, <2>3 DEF Dies, Over, Keyed, Through
  <2>4. ASSUME NEW h \in Hosts PROVE LastOf(h)' /\ last'[h] \in Jobs \cup {None}
    BY <2>1, <2>2, <2>3, LastStays DEF LastInv
  <2> QED BY <2>1, <2>4 DEF LastInv, Goneby
<1> QED
  BY <1>1, <1>2, <1>3, <1>4 DEF Next, Idle, JobStep

(* What a host has is what it was asked to take, and a restore ran on one    *)
(* backup's pair, wherever calls failed or ended, unless another call        *)
(* crossed the pair on the host or two calls took the key (transfer.go:99,   *)
(* restore.go:55).                                                           *)
THEOREM AlwaysAsRecorded == Spec => []PutBackAsRecorded
<1>1. ArchiveInv /\ RanInv /\ LastInv => PutBackAsRecorded
  <2> SUFFICES ASSUME ArchiveInv, RanInv, LastInv PROVE PutBackAsRecorded
    OBVIOUS
  <2>1. \A k : Known(k) => ExportRecord(k).path = k
    BY KnownPath DEF ArchiveInv
  <2>2. \A k : Kept(k) => BackupRecord(k).path = k
    BY KeptPath DEF ArchiveInv
  <2>3. ASSUME NEW h \in Hosts, last[h] # None
        PROVE  LET j == last[h] IN
               /\ job[j].verb = "restore" =>
                    \/ j \in crossed \/ Twice({"create"}, job[j].key)
                    \/ game[h].char = PairOf(j).backup.char
               /\ job[j].verb # "restore" =>
                    \/ Twice(Exporting, job[j].key)
                    \/ game[h].char = exports[ExportRecord(job[j].key).path].char
               /\ job[j].verb = "transfer" => job[j].key[1] # h
    BY <2>1, <2>2, <2>3 DEF LastInv, LastOf, PairOf
  <2>4. ASSUME NEW j \in Jobs, job[j].verb = "restore", job[j].ran # <<>>
        PROVE  \/ job[j].ran = <<PairOf(j).backup, PairOf(j).yaml>>
               \/ j \in crossed \/ Twice({"create"}, job[j].key)
    BY <2>2, <2>4 DEF RanInv, RanOf, PairOf
  <2> QED BY <2>3, <2>4 DEF PutBackAsRecorded
<1>2. Init => LastInv
  <2> SUFFICES ASSUME Init PROVE LastInv
    OBVIOUS
  <2>1. \A h \in Hosts : last[h] = None
    BY DEF Init
  <2>2. None \notin Jobs
    BY InitBase, ArchiveAssumption DEF BaseInv, ShapeInv, Jobs
  <2> QED BY <2>1, <2>2 DEF LastInv, LastOf
<1> QED
  BY <1>1, <1>2, StepLast, Ran, Base, Archived, PTL DEF Spec

-------------------------------------------------------------------------------
(* The audit log and what was overwritten.                                   *)

Overwriting == {"import", "transfer", "restore"}

Entries == audit \cup unlogged

(* An entry that says ok is made by a call that has overwritten.             *)
Notes(j) ==
  /\ Entries \subseteq Entries'
  /\ \A e \in Entries' : e \in Entries \/
       /\ e.job = j
       /\ e.result = "ok" /\ e.what \in Overwriting => job[j].pc \in {"imported", "restored"}
  /\ job'[j].pc = "done" /\ job'[j].ran # <<>> =>
       \E e \in Entries' : e.job = j /\ e.what # "export"

LEMMA Noted == ASSUME NEW S, Note(S) PROVE Entries' = Entries \cup S
BY DEF Note, Entries

LEMMA Silent == ASSUME UNCHANGED Log PROVE Entries' = Entries
BY DEF Log, Entries

LEMMA Recorded ==
  ASSUME NEW j, NEW what, NEW r, Record(j, what, r)
  PROVE  /\ Entries \subseteq Entries'
         /\ \A e \in Entries' : e \in Entries \/ (e.job = j /\ e.what = what /\ e.result = r)
         /\ \E e \in Entries' : e.job = j /\ e.what = what /\ e.result = r
<1> DEFINE n == [job |-> j, what |-> what, result |-> r]
<1>1. Entries' = Entries \cup {n}
  BY Noted DEF Record
<1>2. n.job = j /\ n.what = what /\ n.result = r
  OBVIOUS
<1> HIDE DEF n
<1> QED BY <1>1, <1>2

LEMMA StepNotes ==
  ASSUME BaseInv, RanInv, NEW j \in Jobs, JobStep(j) PROVE Notes(j)
<1>1. Framed(j) /\ Overwrites(j) /\ VerbOf(j) /\ RanOf(j) /\ ShapeInv
  BY StepFrames, StepOverwrites DEF BaseInv, VerbInv, RanInv
<1>0. ASSUME UNCHANGED Log, job'[j].pc # "done" \/ job'[j].ran = <<>> PROVE Notes(j)
  BY <1>0, Silent DEF Notes
<1>31. ASSUME FailsAudited(j), job[j].pc \notin {"imported", "restored", "idle"} PROVE Notes(j)
  <2>1. job'[j].ran = <<>> /\ Record(j, job[j].verb, "error")
    BY <1>1, <1>31, EndMoves DEF FailsAudited, RanOf, Framed
  <2> QED BY <2>1, Recorded DEF Notes
<1>32. ASSUME NEW met, AnswerLost(j, met), job[j].pc \in {"load", "restore"} PROVE Notes(j)
  <2>1. Record(j, job[j].verb, "error") /\ job[j].verb # "export"
    BY <1>1, <1>32, LostMoves DEF VerbOf
  <2> QED BY <2>1, Recorded DEF Notes
<1>33. ASSUME Called(j) PROVE Notes(j)
  BY <1>1, <1>33, <1>0, StartMoves
<1>34. ASSUME End(j, "error") \/ End(j, "ok"), UNCHANGED Log,
              job[j].pc \notin {"imported", "restored", "idle"}
       PROVE  Notes(j)
  BY <1>1, <1>34, <1>0, EndMoves DEF RanOf, Framed
<1>35. ASSUME NEW pc, pc # "done", To(j, pc), UNCHANGED Log PROVE Notes(j)
  BY <1>1, <1>35, <1>0, ToMoves
<1>2. ASSUME Check(j) PROVE Notes(j)
  BY <1>2, <1>1, <1>34, <1>0 DEF Check, Fails, ShapeInv, JobFields
<1>3. ASSUME Transfer(j) PROVE Notes(j)
  BY <1>3, <1>1, <1>34, <1>0 DEF Transfer, ShapeInv, JobFields
<1>4. ASSUME IsPlayerOffline(j) PROVE Notes(j)
  BY <1>4, <1>34, <1>35 DEF IsPlayerOffline, Fails
<1>5. ASSUME CharacterName(j) PROVE Notes(j)
  BY <1>5, <1>1, <1>0 DEF CharacterName, ShapeInv, JobFields
<1>6. ASSUME CharacterExport(j) PROVE Notes(j)
  <2>1. CASE FailsAudited(j)
    BY <1>6, <2>1, <1>31 DEF CharacterExport
  <2>2. CASE ~FailsAudited(j)
    <3>1. /\ \E t \in Now :
               job' = [job EXCEPT ![j].pc = "file", ![j].at = t,
                                  ![j].data = [char |-> game[From(j)].char,
                                               build |-> game[From(j)].build]]
          /\ UNCHANGED Log
      BY <1>6, <2>2 DEF CharacterExport
    <3>2. job'[j].pc = "file"
      BY <3>1, <1>1 DEF ShapeInv, JobFields
    <3> QED BY <3>1, <3>2, <1>0
  <2> QED BY <2>1, <2>2
<1>7. ASSUME WriteFile(j) PROVE Notes(j)
  BY <1>7, <1>34, <1>35 DEF WriteFile, Fails
<1>8. ASSUME PutExport(j) PROVE Notes(j)
  BY <1>8, <1>34, <1>35 DEF PutExport, Fails
<1>9. ASSUME Export(j) PROVE Notes(j)
  <2>1. Record(j, "export", "ok") /\ job[j].pc = "exported"
    BY <1>9 DEF Export
  <2>2. job'[j].ran = <<>>
    BY <1>9, <1>1, <2>1, EndMoves DEF Export, RanOf, ShapeInv, JobFields
  <2> QED BY <2>1, <2>2, Recorded DEF Notes, Overwriting
<1>10. ASSUME GetExport(j) PROVE Notes(j)
  BY <1>10, <1>1, <1>34, <1>0 DEF GetExport, ShapeInv, JobFields
<1>11. ASSUME ImportGate(j) PROVE Notes(j)
  BY <1>11, <1>34, <1>35 DEF ImportGate, Fails
<1>12. ASSUME ChecksumGate(j) PROVE Notes(j)
  BY <1>12, <1>34, <1>35 DEF ChecksumGate, Fails
<1>13. ASSUME CharacterImport(j) PROVE Notes(j)
  BY <1>13, <1>1, <1>0, <1>31, <1>32 DEF CharacterImport, ShapeInv, JobFields
<1>14. ASSUME Import(j) PROVE Notes(j)
  <2> DEFINE n(w) == [job |-> j, what |-> w, result |-> "ok"]
  <2>1. job[j].pc = "imported" /\ Note({n(w) : w \in {"import", job[j].verb}})
    BY <1>14 DEF Import
  <2>2. \A w : n(w).job = j /\ n(w).what = w
    OBVIOUS
  <2> HIDE DEF n
  <2>5. Entries' = Entries \cup {n(w) : w \in {"import", job[j].verb}}
    BY <2>1, Noted
  <2>3. n("import") \in Entries' /\ n("import").job = j /\ n("import").what = "import"
    BY <2>2, <2>5
  <2>4. \A e \in Entries' : e \in Entries \/ e.job = j
    BY <2>2, <2>5
  <2> QED BY <2>1, <2>3, <2>4, <2>5 DEF Notes
<1>15. ASSUME RunBackup(j) PROVE Notes(j)
  <2>1. CASE FailsAudited(j)
    BY <1>15, <2>1, <1>31 DEF RunBackup
  <2>2. CASE ~FailsAudited(j)
    <3>1. /\ job' = [job EXCEPT ![j].pc = "wrapyaml", ![j].data = Wrapped(j)]
          /\ UNCHANGED Log
      BY <1>15, <2>2 DEF RunBackup
    <3>2. job'[j].pc = "wrapyaml"
      BY <3>1, <1>1 DEF ShapeInv, JobFields
    <3> QED BY <3>1, <3>2, <1>0
  <2> QED BY <2>1, <2>2
<1>25. ASSUME Describe(j) PROVE Notes(j)
  <2>1. CASE FailsAudited(j)
    BY <1>25, <2>1, <1>31 DEF Describe
  <2>2. CASE ~FailsAudited(j)
    <3>1. /\ \E t \in Now : job' = [job EXCEPT ![j].pc = "pull", ![j].at = t]
          /\ UNCHANGED Log
      BY <1>25, <2>2 DEF Describe
    <3>2. job'[j].pc = "pull"
      BY <3>1, <1>1 DEF ShapeInv, JobFields
    <3> QED BY <3>1, <3>2, <1>0
  <2> QED BY <2>1, <2>2
<1>16. ASSUME RecvBackup(j) PROVE Notes(j)
  BY <1>16, <1>31, <1>35 DEF RecvBackup
<1>17. ASSUME RecvYAML(j) PROVE Notes(j)
  BY <1>17, <1>31, <1>35 DEF RecvYAML
<1>18. ASSUME PutBackup(j) PROVE Notes(j)
  BY <1>18, <1>31, <1>35 DEF PutBackup
<1>19. ASSUME Create(j) PROVE Notes(j)
  <2>1. Record(j, job[j].verb, "ok") /\ job[j].pc \in {"created", "restored"}
    BY <1>19 DEF Create
  <2>2. job[j].pc = "created" => job[j].verb = "create"
    BY <1>1 DEF VerbOf
  <2>3. job[j].pc = "restored" => job[j].verb = "restore"
    BY <1>1 DEF VerbOf
  <2> QED BY <2>1, <2>2, <2>3, Recorded DEF Notes, Overwriting
<1>20. ASSUME GetBackup(j) PROVE Notes(j)
  BY <1>20, <1>31, <1>34, <1>35 DEF GetBackup
<1>21. ASSUME SendBackup(j) PROVE Notes(j)
  BY <1>21, <1>31, <1>35 DEF SendBackup
<1>22. ASSUME SendYAML(j) PROVE Notes(j)
  BY <1>22, <1>31, <1>35 DEF SendYAML
<1>23. ASSUME Restore(j) PROVE Notes(j)
  BY <1>23, <1>1, <1>0, <1>31, <1>32 DEF Restore, ShapeInv, JobFields
<1> QED
  BY <1>33, <1>2, <1>3, <1>4, <1>5, <1>6, <1>7, <1>8, <1>9, <1>10, <1>11,
     <1>12, <1>13, <1>14, <1>15, <1>16, <1>17, <1>18, <1>19, <1>20, <1>21,
     <1>22, <1>23, <1>25 DEF JobStep, AvatarStep, BackupStep, Called

LogInv ==
  /\ \A e \in Entries : e.job \in Jobs
  /\ \A j \in Jobs :
       job[j].pc = "done" /\ job[j].ran # <<>> => \E e \in Entries : e.job = j /\ e.what # "export"
  /\ \A e \in Entries :
       e.result = "ok" /\ e.what \in Overwriting => job[e.job].ran # <<>>

LEMMA StepLog == BaseInv /\ RanInv /\ LogInv /\ [Next]_vars => LogInv'
<1> SUFFICES ASSUME BaseInv, RanInv, LogInv, [Next]_vars PROVE LogInv'
  OBVIOUS
<1>1. ASSUME NEW j \in Jobs, JobStep(j) PROVE LogInv'
  <2>1. Framed(j) /\ Overwrites(j) /\ Notes(j) /\ RanOf(j) /\ Jobs' = Jobs
    BY <1>1, StepFrames, StepOverwrites, StepNotes DEF BaseInv, RanInv, Framed, Jobs
  <2>2. job[j].ran # <<>> => job[j].pc \in {"imported", "restored"}
    BY <2>1 DEF RanOf, Framed
  <2>3. job[j].ran # <<>> => job'[j].ran # <<>>
    BY <2>1, <2>2, StartMoves DEF Overwrites, Imports, Restores, BaseInv
  <2>4. job[j].pc \in {"imported", "restored"} => job'[j].ran # <<>>
    BY <2>1, <2>3 DEF RanOf
  <2>5. \A e \in Entries' : e.job \in Jobs
    BY <2>1 DEF Notes, LogInv
  <2>6. ASSUME NEW k \in Jobs, job'[k].pc = "done", job'[k].ran # <<>>
        PROVE  \E e \in Entries' : e.job = k /\ e.what # "export"
    <3>1. CASE k = j
      BY <2>1, <2>6, <3>1 DEF Notes
    <3>2. CASE k # j
      BY <2>1, <2>6, <3>2 DEF Notes, LogInv, Framed, Others
    <3> QED BY <3>1, <3>2
  <2>7. ASSUME NEW e \in Entries', e.result = "ok", e.what \in Overwriting
        PROVE  job'[e.job].ran # <<>>
    <3>1. CASE e \in Entries
      BY <2>1, <2>3, <2>7, <3>1 DEF LogInv, Framed, Others
    <3>2. CASE e \notin Entries
      BY <2>1, <2>4, <2>7, <3>2 DEF Notes
    <3> QED BY <3>1, <3>2
  <2> QED BY <2>1, <2>5, <2>6, <2>7 DEF LogInv
<1>2. CASE UNCHANGED <<script, job, Log>>
  <2>1. Entries' = Entries /\ Jobs' = Jobs /\ job' = job
    BY <1>2, Silent DEF Jobs
  <2> QED BY <2>1 DEF LogInv
<1>3. CASE Kill
  <2>1. Dies /\ Entries' = Entries /\ Jobs' = Jobs
    BY <1>3, KillMoves, Silent DEF BaseInv, Dies, World, Jobs
  <2>2. \A k \in Jobs : job'[k].ran = job[k].ran /\ (job'[k].pc = "done" => job[k].pc = "done")
    BY <2>1 DEF Dies
  <2> QED BY <2>1, <2>2 DEF LogInv
<1> QED
  BY <1>1, <1>2, <1>3 DEF Next, Idle, JobStep, Login, Logout, Patch, vars, Log

(* Of a call that ended and overwrote a character an entry was written, also *)
(* when the answer was lost; the store may have refused it (avatar.go:70).   *)
(* No entry that says ok is of a call that did not (transfer.go:61).         *)
THEOREM OverwritesAlwaysAudited == Spec => []OverwritesAreAudited
<1>1. LogInv => OverwritesAreAudited
  BY DEF LogInv, OverwritesAreAudited, Overwriting, Entries
<1>2. Init => LogInv
  BY DEF Init, LogInv, IdleJob, Entries
<1> QED
  BY <1>1, <1>2, StepLog, Ran, Base, PTL DEF Spec
===============================================================================
