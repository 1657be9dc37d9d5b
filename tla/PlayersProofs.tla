---------------------------- MODULE PlayersProofs ----------------------------
(* What holds of every number of calls on the player, of clusters, faults    *)
(* and logins: the three properties that the run "players" checks.  Then     *)
(* what the calls rely on, for every experience table and every crowd: the   *)
(* arithmetic of a grant, and the lookup of the player who is granted.       *)
EXTENDS Players, Awards, Lookup, FiniteSetTheorems, WellFoundedInduction, TLAPS

-------------------------------------------------------------------------------
(* Which fields the records have, which steps belong to which verbs, and     *)
(* whose message can be in which file.                                       *)

JobFields == {"pc", "verb", "force", "dry", "back", "base", "expr", "accepted", "todo", "result"}

PlayerFields == {"grants", "there", "qty", "quality"}

ShapeInv ==
  /\ DOMAIN job = Jobs
  /\ \A j \in Jobs : DOMAIN job[j] = JobFields
  /\ DOMAIN file = Files
  /\ DOMAIN sent = Jobs
  /\ \A j \in Jobs : sent[j] \in Nat
  /\ DOMAIN db = PlayerFields /\ DOMAIN db.grants = Fields
  /\ DOMAIN live = PlayerFields /\ DOMAIN live.grants = Fields

MessageVerbs == {"item", "xp", "skillpoints"}

VerbOf(j) ==
  /\ job[j].pc # "idle" => job[j].verb \in Verbs
  /\ job[j].pc \in {"find", "put", "get", "eval", "rm", "answer"}
       => job[j].back = "mq" /\ job[j].verb \in MessageVerbs \cup {"whisper"}
  /\ job[j].pc = "base" => job[j].back = "mq" /\ job[j].verb = "skillpoints"
  /\ job[j].pc = "seed" => job[j].back = "mq" /\ job[j].verb = "whisper"
  /\ job[j].pc = "read" => job[j].back = "db" /\ job[j].verb = "charxp"
  /\ job[j].pc \in {"write", "audit"}
       => job[j].back = "db" /\ job[j].verb \in GiveVerbs \cup ItemVerbs

VerbInv == \A j \in Jobs : VerbOf(j)

(* m is a message whose call has found the pod, of the kind that goes        *)
(* through file f.                                                           *)
Message(m, f) ==
  /\ job[m].pc \notin {"idle", "plan"}
  /\ job[m].back = "mq"
  /\ job[m].verb \in IF f = "whisper" THEN {"whisper"} ELSE MessageVerbs

FileInv ==
  /\ \A f \in Files : file[f] \in Jobs \cup {None}
  /\ \A f \in Files, m \in Jobs : file[f] = m => Message(m, f)
  /\ \A j \in Jobs : job[j].pc = "eval" => job[j].expr \in Jobs
  /\ \A j, m \in Jobs, f \in Files :
       job[j].pc = "eval" /\ FileOf(job[j].verb) = f /\ job[j].expr = m => Message(m, f)

(* A step of a call is one of its own record; verb and flags are given once. *)
Framed(j) ==
  /\ DOMAIN job' = Jobs
  /\ DOMAIN job'[j] = JobFields
  /\ \A k \in Jobs : k # j => job'[k] = job[k]
  /\ job[j].pc # "idle" => job'[j].verb = job[j].verb /\ job'[j].force = job[j].force
  /\ job[j].pc \notin {"idle", "plan"} => job'[j].back = job[j].back /\ job'[j].pc # "idle"
  /\ job[j].pc \notin {"idle", "audit"} => job'[j].pc # "plan"

Same(j) ==
  /\ job'[j].verb = job[j].verb /\ job'[j].force = job[j].force
  /\ job'[j].back = job[j].back /\ job'[j].base = job[j].base
  /\ job'[j].expr = job[j].expr /\ job'[j].todo = job[j].todo

LEMMA ToMoves ==
  ASSUME ShapeInv, NEW j \in Jobs, NEW pc, To(j, pc)
  PROVE  Same(j) /\ job'[j].pc = pc /\ job'[j].result = job[j].result
BY DEF ShapeInv, JobFields, To, Same

LEMMA EndMoves ==
  ASSUME ShapeInv, NEW j \in Jobs, NEW r, End(j, r)
  PROVE  Same(j) /\ job'[j].pc = "done" /\ job'[j].result = r
BY DEF ShapeInv, JobFields, End, Same

LEMMA FoundMoves ==
  ASSUME ShapeInv, NEW j \in Jobs, Discover(j)
  PROVE  /\ Same(j) /\ job[j].pc = "find"
         /\ \/ job'[j].pc = "done" /\ job'[j].result = "error"
            \/ job'[j].pc = "put" /\ job'[j].result = job[j].result
<1>1. ASSUME NEW c \in Clusters,
             job' = [job EXCEPT ![j].pc = "put", ![j].accepted = Token(c) = c.expected]
      PROVE  Same(j) /\ job'[j].pc = "put" /\ job'[j].result = job[j].result
  BY <1>1 DEF ShapeInv, JobFields, Same
<1> QED BY <1>1, EndMoves DEF Discover

LEMMA PlanMoves ==
  ASSUME ShapeInv, NEW j \in Jobs, Plan(j)
  PROVE  /\ job[j].pc = "plan" /\ job[j].verb \in GiveVerbs
         /\ job'[j].verb = job[j].verb /\ job'[j].force = job[j].force
         /\ job'[j].todo = job[j].todo /\ job'[j].result \in {job[j].result, "error"}
         /\ job'[j].pc \in {"done", "base", "find", "read", "write"}
         /\ job'[j].pc \in {"base", "find"} => job'[j].back = "mq" /\ job[j].verb \in {"item", "xp", "skillpoints"}
         /\ job'[j].pc \in {"read", "write"} => job'[j].back = "db" /\ (~online \/ job[j].force)
         /\ job'[j].pc = "base" => job[j].verb = "skillpoints"
         /\ job'[j].pc = "read" <=> job'[j].pc \in {"read", "write"} /\ job[j].verb = "charxp"
<1> DEFINE b == Backend(job[j].verb, ~online, job[j].force)
<1>1. /\ b \in {"db", "mq", "refused"}
      /\ b = "mq" => job[j].verb \in {"item", "xp", "skillpoints"}
      /\ b = "db" => ~online \/ job[j].force
  BY DEF Backend, Plan, GiveVerbs
<1>2. /\ job[j].pc = "plan" /\ job[j].verb \in GiveVerbs
      /\ job'[j].verb = job[j].verb /\ job'[j].force = job[j].force
      /\ job'[j].todo = job[j].todo /\ job'[j].result \in {job[j].result, "error"}
      /\ job'[j].back = IF b = "refused" THEN "none" ELSE b
  BY DEF Plan, ShapeInv, JobFields
<1>3. job'[j].pc = CASE b = "refused" \/ job[j].dry -> "done"
                     [] b = "mq" -> IF job[j].verb = "skillpoints" THEN "base" ELSE "find"
                     [] OTHER    -> IF job[j].verb = "charxp" THEN "read" ELSE "write"
  BY DEF Plan, ShapeInv, JobFields
<1> HIDE DEF b
<1>4. \/ job'[j].pc = "done"
      \/ b = "mq" /\ job'[j].pc = IF job[j].verb = "skillpoints" THEN "base" ELSE "find"
      \/ b = "db" /\ job'[j].pc = IF job[j].verb = "charxp" THEN "read" ELSE "write"
  BY <1>1, <1>3
<1> QED
  BY <1>1, <1>2, <1>4

LEMMA WhisperMoves ==
  ASSUME ShapeInv, NEW j \in Jobs, DiscoverWhisper(j)
  PROVE  /\ Same(j) /\ job[j].pc = "find"
         /\ \/ job'[j].pc = "done" /\ job'[j].result = "error"
            \/ job'[j].pc = "put" /\ job'[j].result = job[j].result
<1>1. job[j].pc = "find" /\ (To(j, "put") \/ End(j, "error"))
  BY DEF DiscoverWhisper
<1> QED BY <1>1, ToMoves, EndMoves

LEMMA SeedMoves ==
  ASSUME ShapeInv, NEW j \in Jobs, Seed(j)
  PROVE  /\ Same(j) /\ job[j].pc = "seed"
         /\ \/ job'[j].pc = "done" /\ job'[j].result = "error"
            \/ job'[j].pc = "find" /\ job'[j].result = job[j].result
BY ToMoves, EndMoves DEF Seed

LEMMA ToFrames ==
  ASSUME ShapeInv, NEW j \in Jobs, NEW pc \in {"find", "put"}, To(j, pc) PROVE Framed(j)
BY DEF ShapeInv, Framed, JobFields, To

LEMMA EndFrames ==
  ASSUME ShapeInv, NEW j \in Jobs, NEW r, End(j, r) PROVE Framed(j)
BY DEF ShapeInv, Framed, JobFields, End

LEMMA StepFrames == ASSUME ShapeInv, NEW j \in Jobs, JobStep(j) PROVE Framed(j)
<1> USE DEF ShapeInv, Framed, JobFields
<1>1. ASSUME Start(j) PROVE Framed(j)
  BY <1>1 DEF Start, IdleJob
<1>2. ASSUME ReadFails(j) PROVE Framed(j)
  BY <1>2 DEF ReadFails, End
<1>3. ASSUME Plan(j) PROVE Framed(j)
  BY <1>3 DEF Plan, Backend
<1>4. ASSUME Gate(j) PROVE Framed(j)
  BY <1>4 DEF Gate, End
<1>5. ASSUME Address(j) PROVE Framed(j)
  BY <1>5 DEF Address, End
<1>7. ASSUME ReadState(j) PROVE Framed(j)
  BY <1>7 DEF ReadState
<1>8. ASSUME ReadBase(j) PROVE Framed(j)
  BY <1>8 DEF ReadBase
<1>9. ASSUME Apply(j) PROVE Framed(j)
  BY <1>9 DEF Apply, Execute
<1>10. ASSUME ApplyItem(j) PROVE Framed(j)
  BY <1>10 DEF ApplyItem, Execute
<1>11. ASSUME AuditGrant(j) PROVE Framed(j)
  BY <1>11 DEF AuditGrant, To, Remote
<1>12. ASSUME AuditItem(j) PROVE Framed(j)
  BY <1>12 DEF AuditItem, Remote
<1>15. ASSUME PutExpr(j) PROVE Framed(j)
  BY <1>15 DEF PutExpr, To
<1>16. ASSUME GetExpr(j) PROVE Framed(j)
  BY <1>16 DEF GetExpr
<1>17. ASSUME Eval(j) PROVE Framed(j)
  BY <1>17 DEF Eval, To
<1>18. ASSUME EvalWhisper(j) PROVE Framed(j)
  BY <1>18 DEF EvalWhisper, To
<1>19. ASSUME RemoveExpr(j) PROVE Framed(j)
  BY <1>19 DEF RemoveExpr, To
<1>20. ASSUME Answer(j) PROVE Framed(j)
  BY <1>20 DEF Answer, End, To, Remote
<1>21. ASSUME Kill(j) PROVE Framed(j)
  BY <1>21 DEF Kill
<1>6. ASSUME Seed(j) PROVE Framed(j)
  BY <1>6, ToFrames, EndFrames DEF Seed
<1>13. ASSUME Discover(j) PROVE Framed(j)
  <2>1. ASSUME NEW c \in Clusters,
               job' = [job EXCEPT ![j].pc = "put", ![j].accepted = Token(c) = c.expected]
        PROVE  Framed(j)
    BY <2>1
  <2> QED BY <1>13, <2>1, EndFrames DEF Discover
<1>14. ASSUME DiscoverWhisper(j) PROVE Framed(j)
  BY <1>14, ToFrames, EndFrames DEF DiscoverWhisper
<1> QED
  BY <1>1, <1>2, <1>3, <1>4, <1>5, <1>6, <1>7, <1>8, <1>9, <1>10, <1>11, <1>12,
     <1>13, <1>14, <1>15, <1>16, <1>17, <1>18, <1>19, <1>20, <1>21 DEF JobStep

LEMMA StepVerb == ASSUME ShapeInv, VerbInv, NEW j \in Jobs, JobStep(j) PROVE VerbOf(j)'
<1> USE DEF ShapeInv, VerbInv, VerbOf, JobFields, Verbs, GiveVerbs, ItemVerbs, MessageVerbs
<1>1. ASSUME Start(j) PROVE VerbOf(j)'
  BY <1>1 DEF Start, IdleJob
<1>2. ASSUME ReadFails(j) PROVE VerbOf(j)'
  BY <1>2 DEF ReadFails, End
<1>3. ASSUME Plan(j) PROVE VerbOf(j)'
  BY <1>3, PlanMoves
<1>4. ASSUME Gate(j) PROVE VerbOf(j)'
  BY <1>4 DEF Gate, End
<1>5. ASSUME Address(j) PROVE VerbOf(j)'
  BY <1>5 DEF Address, End
<1>6. ASSUME Seed(j) PROVE VerbOf(j)'
  BY <1>6, SeedMoves DEF Same
<1>7. ASSUME ReadState(j) PROVE VerbOf(j)'
  BY <1>7 DEF ReadState
<1>8. ASSUME ReadBase(j) PROVE VerbOf(j)'
  BY <1>8 DEF ReadBase
<1>9. ASSUME Apply(j) PROVE VerbOf(j)'
  BY <1>9 DEF Apply, Execute
<1>10. ASSUME ApplyItem(j) PROVE VerbOf(j)'
  BY <1>10 DEF ApplyItem, Execute
<1>11. ASSUME AuditGrant(j) PROVE VerbOf(j)'
  BY <1>11 DEF AuditGrant, To, Remote
<1>12. ASSUME AuditItem(j) PROVE VerbOf(j)'
  BY <1>12 DEF AuditItem, Remote
<1>13. ASSUME Discover(j) PROVE VerbOf(j)'
  BY <1>13, FoundMoves DEF Same
<1>14. ASSUME DiscoverWhisper(j) PROVE VerbOf(j)'
  BY <1>14, WhisperMoves DEF Same
<1>15. ASSUME PutExpr(j) PROVE VerbOf(j)'
  BY <1>15 DEF PutExpr, To
<1>16. ASSUME GetExpr(j) PROVE VerbOf(j)'
  BY <1>16 DEF GetExpr
<1>17. ASSUME Eval(j) PROVE VerbOf(j)'
  BY <1>17 DEF Eval, To
<1>18. ASSUME EvalWhisper(j) PROVE VerbOf(j)'
  BY <1>18 DEF EvalWhisper, To
<1>19. ASSUME RemoveExpr(j) PROVE VerbOf(j)'
  BY <1>19 DEF RemoveExpr, To
<1>20. ASSUME Answer(j) PROVE VerbOf(j)'
  BY <1>20 DEF Answer, End, To, Remote
<1>21. ASSUME Kill(j) PROVE VerbOf(j)'
  BY <1>21 DEF Kill
<1> QED
  BY <1>1, <1>2, <1>3, <1>4, <1>5, <1>6, <1>7, <1>8, <1>9, <1>10, <1>11, <1>12,
     <1>13, <1>14, <1>15, <1>16, <1>17, <1>18, <1>19, <1>20, <1>21 DEF JobStep

(* What a step does with the expression it has read, with the files, and     *)
(* with who met whom.                                                        *)
Reads(j) ==
  job'[j].pc = "eval" =>
    /\ job[j].pc = "get"
    /\ job'[j].expr = file[FileOf(job[j].verb)] /\ job'[j].expr # None

Touches(j) ==
  \/ file' = file /\ met' = met
  \/ /\ job[j].pc = "put" /\ job'[j].pc = "get"
     /\ file' = [file EXCEPT ![FileOf(job[j].verb)] = j]
     /\ met' = IF Ahead(j) = {} THEN met ELSE met \cup Ahead(j) \cup {j}
  \/ /\ job[j].pc = "rm" /\ job'[j].pc = "answer"
     /\ file' = [file EXCEPT ![FileOf(job[j].verb)] = None]
     /\ met' = met

LEMMA StepReads == ASSUME ShapeInv, NEW j \in Jobs, JobStep(j) PROVE Reads(j)
<1> USE DEF ShapeInv, JobFields, Reads
<1>1. ASSUME Start(j) PROVE Reads(j)
  BY <1>1 DEF Start, IdleJob
<1>2. ASSUME ReadFails(j) PROVE Reads(j)
  BY <1>2 DEF ReadFails, End
<1>3. ASSUME Plan(j) PROVE Reads(j)
  BY <1>3 DEF Plan, Backend
<1>4. ASSUME Gate(j) PROVE Reads(j)
  BY <1>4 DEF Gate, End
<1>5. ASSUME Address(j) PROVE Reads(j)
  BY <1>5 DEF Address, End
<1>6. ASSUME Seed(j) PROVE Reads(j)
  BY <1>6, SeedMoves
<1>7. ASSUME ReadState(j) PROVE Reads(j)
  BY <1>7 DEF ReadState
<1>8. ASSUME ReadBase(j) PROVE Reads(j)
  BY <1>8 DEF ReadBase
<1>9. ASSUME Apply(j) PROVE Reads(j)
  BY <1>9 DEF Apply, Execute
<1>10. ASSUME ApplyItem(j) PROVE Reads(j)
  BY <1>10 DEF ApplyItem, Execute
<1>11. ASSUME AuditGrant(j) PROVE Reads(j)
  BY <1>11 DEF AuditGrant, To, Remote
<1>12. ASSUME AuditItem(j) PROVE Reads(j)
  BY <1>12 DEF AuditItem, Remote
<1>13. ASSUME Discover(j) PROVE Reads(j)
  BY <1>13, FoundMoves
<1>14. ASSUME DiscoverWhisper(j) PROVE Reads(j)
  BY <1>14, WhisperMoves
<1>15. ASSUME PutExpr(j) PROVE Reads(j)
  BY <1>15 DEF PutExpr, To
<1>16. ASSUME GetExpr(j) PROVE Reads(j)
  BY <1>16 DEF GetExpr
<1>17. ASSUME Eval(j) PROVE Reads(j)
  BY <1>17 DEF Eval, To
<1>18. ASSUME EvalWhisper(j) PROVE Reads(j)
  BY <1>18 DEF EvalWhisper, To
<1>19. ASSUME RemoveExpr(j) PROVE Reads(j)
  BY <1>19 DEF RemoveExpr, To
<1>20. ASSUME Answer(j) PROVE Reads(j)
  BY <1>20 DEF Answer, End, To, Remote
<1>21. ASSUME Kill(j) PROVE Reads(j)
  BY <1>21 DEF Kill
<1> QED
  BY <1>1, <1>2, <1>3, <1>4, <1>5, <1>6, <1>7, <1>8, <1>9, <1>10, <1>11, <1>12,
     <1>13, <1>14, <1>15, <1>16, <1>17, <1>18, <1>19, <1>20, <1>21 DEF JobStep

LEMMA StepTouches == ASSUME ShapeInv, NEW j \in Jobs, JobStep(j) PROVE Touches(j)
<1> USE DEF ShapeInv, JobFields, Touches
<1>1. ASSUME Start(j) PROVE Touches(j)
  BY <1>1 DEF Start, IdleJob, Unread
<1>2. ASSUME ReadFails(j) PROVE Touches(j)
  BY <1>2 DEF ReadFails, End, Unread
<1>3. ASSUME Plan(j) PROVE Touches(j)
  BY <1>3 DEF Plan, Backend, Unread
<1>4. ASSUME Gate(j) PROVE Touches(j)
  BY <1>4 DEF Gate, End, Unread
<1>5. ASSUME Address(j) PROVE Touches(j)
  BY <1>5 DEF Address, End, Unread
<1>6. ASSUME Seed(j) PROVE Touches(j)
  BY <1>6 DEF Seed, To, Remote, Remote
<1>7. ASSUME ReadState(j) PROVE Touches(j)
  BY <1>7 DEF ReadState, Unread
<1>8. ASSUME ReadBase(j) PROVE Touches(j)
  BY <1>8 DEF ReadBase, Unread
<1>9. ASSUME Apply(j) PROVE Touches(j)
  BY <1>9 DEF Apply, Execute, Execute
<1>10. ASSUME ApplyItem(j) PROVE Touches(j)
  BY <1>10 DEF ApplyItem, Execute, Execute
<1>11. ASSUME AuditGrant(j) PROVE Touches(j)
  BY <1>11 DEF AuditGrant, To, Remote, Remote
<1>12. ASSUME AuditItem(j) PROVE Touches(j)
  BY <1>12 DEF AuditItem, Remote, Remote
<1>13. ASSUME Discover(j) PROVE Touches(j)
  BY <1>13 DEF Discover, End, Remote, Remote
<1>14. ASSUME DiscoverWhisper(j) PROVE Touches(j)
  BY <1>14 DEF DiscoverWhisper, End, To, Remote, Remote
<1>15. ASSUME PutExpr(j) PROVE Touches(j)
  BY <1>15 DEF PutExpr, To
<1>16. ASSUME GetExpr(j) PROVE Touches(j)
  BY <1>16 DEF GetExpr, Unread
<1>17. ASSUME Eval(j) PROVE Touches(j)
  BY <1>17 DEF Eval, To
<1>18. ASSUME EvalWhisper(j) PROVE Touches(j)
  BY <1>18 DEF EvalWhisper, To
<1>19. ASSUME RemoveExpr(j) PROVE Touches(j)
  BY <1>19 DEF RemoveExpr, To
<1>20. ASSUME Answer(j) PROVE Touches(j)
  BY <1>20 DEF Answer, End, To, Remote, Remote
<1>21. ASSUME Kill(j) PROVE Touches(j)
  BY <1>21 DEF Kill, Unread
<1> QED
  BY <1>1, <1>2, <1>3, <1>4, <1>5, <1>6, <1>7, <1>8, <1>9, <1>10, <1>11, <1>12,
     <1>13, <1>14, <1>15, <1>16, <1>17, <1>18, <1>19, <1>20, <1>21 DEF JobStep

LEMMA StepFile ==
  ASSUME ShapeInv, VerbInv, FileInv, NEW j \in Jobs, JobStep(j), Framed(j) PROVE FileInv'
<1>1. \A m \in Jobs, f \in Files : Message(m, f) => Message(m, f)'
  BY DEF Message, Framed, VerbInv, VerbOf
<1>2. job[j].pc = "put" => Message(j, FileOf(job[j].verb))
  BY DEF Message, FileOf, VerbInv, VerbOf
<1>3. \A k \in Jobs : FileOf(job[k].verb) \in Files
  BY DEF FileOf, Files
<1>4. \A f \in Files : file'[f] \in Jobs \cup {None}
  BY StepTouches DEF Touches, ShapeInv, FileInv
<1>5. \A f \in Files, m \in Jobs : file'[f] = m => Message(m, f)'
  <2>1. CASE file' = file
    BY <1>1, <2>1 DEF FileInv
  <2>2. ASSUME NEW g \in Files, file' = [file EXCEPT ![g] = None]
        PROVE  \A f \in Files, m \in Jobs : file'[f] = m => Message(m, f)'
    BY <1>1, <2>2, PlayersAssumption DEF ShapeInv, FileInv
  <2>3. ASSUME job[j].pc = "put", NEW g \in Files, g = FileOf(job[j].verb), file' = [file EXCEPT ![g] = j]
        PROVE \A f \in Files, m \in Jobs : file'[f] = m => Message(m, f)'
    BY <1>1, <1>2, <2>3 DEF ShapeInv, FileInv
  <2> QED BY <1>3, <2>1, <2>2, <2>3, StepTouches DEF Touches
<1>6. \A k \in Jobs : job'[k].pc = "eval" => job'[k].expr \in Jobs
  BY <1>3, StepReads DEF Reads, FileInv, Framed
<1>7. \A k, m \in Jobs, f \in Files :
        job'[k].pc = "eval" /\ FileOf(job'[k].verb) = f /\ job'[k].expr = m => Message(m, f)'
  BY <1>1, <1>3, StepReads DEF Reads, FileInv, Framed
<1> QED
  BY <1>4, <1>5, <1>6, <1>7 DEF FileInv

(* Only three steps of a call reach the rows.                                *)
Rests == UNCHANGED <<db, live, online, wrote, excused>>

LEMMA StepRests ==
  ASSUME NEW j \in Jobs, JobStep(j)
  PROVE  Rests \/ Apply(j) \/ ApplyItem(j) \/ Eval(j)
<1> USE DEF Rests
<1>1. ASSUME Start(j) PROVE Rests
  BY <1>1 DEF Start, IdleJob, Unread
<1>2. ASSUME ReadFails(j) PROVE Rests
  BY <1>2 DEF ReadFails, Unread
<1>3. ASSUME Plan(j) PROVE Rests
  BY <1>3 DEF Plan, Backend, Unread
<1>4. ASSUME Gate(j) PROVE Rests
  BY <1>4 DEF Gate, Unread
<1>5. ASSUME Address(j) PROVE Rests
  BY <1>5 DEF Address, Unread
<1>6. ASSUME Seed(j) PROVE Rests
  BY <1>6 DEF Seed, Remote
<1>7. ASSUME ReadState(j) PROVE Rests
  BY <1>7 DEF ReadState, Unread
<1>8. ASSUME ReadBase(j) PROVE Rests
  BY <1>8 DEF ReadBase, Unread
<1>11. ASSUME AuditGrant(j) PROVE Rests
  BY <1>11 DEF AuditGrant, Remote
<1>12. ASSUME AuditItem(j) PROVE Rests
  BY <1>12 DEF AuditItem, Remote
<1>13. ASSUME Discover(j) PROVE Rests
  BY <1>13 DEF Discover, Remote
<1>14. ASSUME DiscoverWhisper(j) PROVE Rests
  BY <1>14 DEF DiscoverWhisper, Remote
<1>15. ASSUME PutExpr(j) PROVE Rests
  BY <1>15 DEF PutExpr
<1>16. ASSUME GetExpr(j) PROVE Rests
  BY <1>16 DEF GetExpr, Unread
<1>18. ASSUME EvalWhisper(j) PROVE Rests
  BY <1>18 DEF EvalWhisper
<1>19. ASSUME RemoveExpr(j) PROVE Rests
  BY <1>19 DEF RemoveExpr
<1>20. ASSUME Answer(j) PROVE Rests
  BY <1>20 DEF Answer, Remote
<1>21. ASSUME Kill(j) PROVE Rests
  BY <1>21 DEF Kill, Unread
<1> QED
  BY <1>1, <1>2, <1>3, <1>4, <1>5, <1>6, <1>7, <1>8, <1>11, <1>12, <1>13, <1>14,
     <1>15, <1>16, <1>18, <1>19, <1>20, <1>21 DEF JobStep

(* An expression is evaluated once at a time.                                *)
Sends(j) ==
  \/ sent' = sent
  \/ job[j].pc = "eval" /\ job'[j].pc = "rm" /\ sent' = [sent EXCEPT ![job[j].expr] = @ + 1]

LEMMA StepSends == ASSUME ShapeInv, NEW j \in Jobs, JobStep(j) PROVE Sends(j)
<1> USE DEF ShapeInv, JobFields, Sends
<1>1. ASSUME Start(j) PROVE Sends(j)
  BY <1>1 DEF Start, IdleJob, Unread
<1>2. ASSUME ReadFails(j) PROVE Sends(j)
  BY <1>2 DEF ReadFails, Unread
<1>3. ASSUME Plan(j) PROVE Sends(j)
  BY <1>3 DEF Plan, Backend, Unread
<1>4. ASSUME Gate(j) PROVE Sends(j)
  BY <1>4 DEF Gate, Unread
<1>5. ASSUME Address(j) PROVE Sends(j)
  BY <1>5 DEF Address, Unread
<1>6. ASSUME Seed(j) PROVE Sends(j)
  BY <1>6 DEF Seed, To, Remote
<1>7. ASSUME ReadState(j) PROVE Sends(j)
  BY <1>7 DEF ReadState, Unread
<1>8. ASSUME ReadBase(j) PROVE Sends(j)
  BY <1>8 DEF ReadBase, Unread
<1>9. ASSUME Apply(j) PROVE Sends(j)
  BY <1>9 DEF Apply, Execute
<1>10. ASSUME ApplyItem(j) PROVE Sends(j)
  BY <1>10 DEF ApplyItem, Execute
<1>11. ASSUME AuditGrant(j) PROVE Sends(j)
  BY <1>11 DEF AuditGrant, To, Remote
<1>12. ASSUME AuditItem(j) PROVE Sends(j)
  BY <1>12 DEF AuditItem, Remote
<1>13. ASSUME Discover(j) PROVE Sends(j)
  BY <1>13 DEF Discover, Remote
<1>14. ASSUME DiscoverWhisper(j) PROVE Sends(j)
  BY <1>14 DEF DiscoverWhisper, To, Remote
<1>15. ASSUME PutExpr(j) PROVE Sends(j)
  BY <1>15 DEF PutExpr, To
<1>16. ASSUME GetExpr(j) PROVE Sends(j)
  BY <1>16 DEF GetExpr, Unread
<1>17. ASSUME Eval(j) PROVE Sends(j)
  BY <1>17 DEF Eval, To
<1>18. ASSUME EvalWhisper(j) PROVE Sends(j)
  BY <1>18 DEF EvalWhisper, To
<1>19. ASSUME RemoveExpr(j) PROVE Sends(j)
  BY <1>19 DEF RemoveExpr, To
<1>20. ASSUME Answer(j) PROVE Sends(j)
  BY <1>20 DEF Answer, To, Remote
<1>21. ASSUME Kill(j) PROVE Sends(j)
  BY <1>21 DEF Kill, Unread
<1> QED
  BY <1>1, <1>2, <1>3, <1>4, <1>5, <1>6, <1>7, <1>8, <1>9, <1>10, <1>11, <1>12,
     <1>13, <1>14, <1>15, <1>16, <1>17, <1>18, <1>19, <1>20, <1>21 DEF JobStep

(* No statement, command or step of the game changes the shape of a row.     *)
LEMMA RowShapes ==
  ASSUME ShapeInv, NEW j \in Jobs
  PROVE  /\ DOMAIN Granted(j) = PlayerFields \/ job[j].verb \notin GiveVerbs
         /\ job[j].verb \in GiveVerbs => DOMAIN Granted(j).grants = Fields
         /\ DOMAIN Edited(db, j) = PlayerFields /\ DOMAIN Edited(db, j).grants = Fields
         /\ job[j].verb \in MessageVerbs =>
              DOMAIN Received(live, j) = PlayerFields /\ DOMAIN Received(live, j).grants = Fields
BY DEF ShapeInv, PlayerFields, GiveVerbs, MessageVerbs, Granted, Credited, Skilled,
   Trained, Recomputed,
   Inserted, Edited, Received, AddItem, AwardXP, SetUnspent

Rows ==
  /\ DOMAIN db = PlayerFields /\ DOMAIN db.grants = Fields
  /\ DOMAIN live = PlayerFields /\ DOMAIN live.grants = Fields

LEMMA StepRows == ASSUME ShapeInv, FileInv, NEW j \in Jobs, JobStep(j) PROVE Rows'
<1>1. CASE Rests
  BY <1>1 DEF Rests, ShapeInv, Rows
<1>2. CASE Apply(j)
  BY <1>2, RowShapes DEF Apply, Execute, ShapeInv, Rows
<1>3. CASE ApplyItem(j)
  BY <1>3, RowShapes DEF ApplyItem, Execute, ShapeInv, Rows
<1>4. CASE Eval(j)
  <2>1. live' = live \/ live' = Received(live, job[j].expr)
    BY <1>4 DEF Eval
  <2>2. job[j].expr \in Jobs /\ job[job[j].expr].verb \in MessageVerbs
    BY <1>4 DEF Eval, FileInv, Message, FileOf, Files
  <2> QED BY <1>4, <2>1, <2>2, RowShapes DEF Eval, ShapeInv, Rows
<1> QED
  BY <1>1, <1>2, <1>3, <1>4, StepRests

LEMMA StepSent ==
  ASSUME ShapeInv, NEW j \in Jobs, JobStep(j)
  PROVE  DOMAIN sent' = Jobs /\ \A k \in Jobs : sent'[k] \in Nat /\ sent'[k] >= sent[k]
BY StepSends DEF Sends, ShapeInv

LEMMA StepShape ==
  ShapeInv /\ VerbInv /\ FileInv /\ [Next]_vars => ShapeInv' /\ VerbInv' /\ FileInv'
<1> SUFFICES ASSUME ShapeInv, VerbInv, FileInv, [Next]_vars
             PROVE  ShapeInv' /\ VerbInv' /\ FileInv'
  OBVIOUS
<1>1. ASSUME NEW j \in Jobs, JobStep(j) PROVE ShapeInv' /\ VerbInv' /\ FileInv'
  <2>1. Framed(j)
    BY <1>1, StepFrames
  <2>2. VerbInv'
    BY <1>1, <2>1, StepVerb DEF VerbInv, VerbOf, Framed
  <2>3. DOMAIN file' = Files
    BY <1>1, StepTouches DEF Touches, ShapeInv
  <2>4. ShapeInv'
    BY <1>1, <2>1, <2>3, StepRows, StepSent DEF ShapeInv, Rows, Framed
  <2> QED BY <1>1, <2>1, <2>2, <2>4, StepFile
<1>2. CASE Login \/ Save \/ Logout \/ Part
  <2>1. UNCHANGED <<job, file, sent>>
    BY <1>2 DEF Login, Save, Logout, Part
  <2>2. ShapeInv'
    BY <1>2, <2>1 DEF ShapeInv, Login, Save, Logout, Part, PlayerFields
  <2> QED BY <2>1, <2>2 DEF VerbInv, VerbOf, FileInv, Message
<1>3. CASE UNCHANGED vars
  BY <1>3 DEF vars, ShapeInv, VerbInv, VerbOf, FileInv, Message
<1> QED
  BY <1>1, <1>2, <1>3 DEF Next, Idle

LEMMA Shape == Spec => [](ShapeInv /\ VerbInv /\ FileInv)
<1>1. Init => ShapeInv /\ VerbInv /\ FileInv
  BY PlayersAssumption DEF Init, ShapeInv, VerbInv, VerbOf, FileInv, Message, IdleJob,
     NewPlayer, JobFields, PlayerFields, Files
<1> QED
  BY <1>1, StepShape, PTL DEF Spec

-------------------------------------------------------------------------------
(* The message a call has evaluated is its own, or that of a call it met.    *)

Fresh(j) ==
  job[j].pc \in {"idle", "plan", "seed", "base", "find", "put", "get", "eval"}
    => job[j].result # "ok"

Confirmed(j) == job[j].pc = "done" /\ job[j].back = "mq" /\ job[j].result = "ok"

InPod(j) == job[j].pc \in {"get", "eval", "rm", "answer", "done", "dead"}

Sure(j) ==
  job[j].pc \in {"rm", "answer", "done"} /\ job[j].back = "mq" /\ job[j].result = "ok"

OwnOrMet(j, m) == m = j \/ (j \in met /\ m \in met)

PubOf(j) ==
  /\ Fresh(j)
  /\ job[j].pc = "get" =>
       file[FileOf(job[j].verb)] = None \/ OwnOrMet(j, file[FileOf(job[j].verb)])
  /\ job[j].pc = "eval" => OwnOrMet(j, job[j].expr)
  /\ j \in met => InPod(j)
  /\ j \notin met /\ job[j].pc \notin {"rm", "answer", "done", "dead"} => sent[j] = 0
  /\ j \notin met => sent[j] <= 1
  /\ Sure(j) => Published(j)

PubInv == met \subseteq Jobs /\ \A j \in Jobs : PubOf(j)

(* A call moves on, and is sure of its message from the evaluation on.       *)
Onward(j) ==
  /\ Fresh(j)'
  /\ job[j].pc \notin {"done", "dead"}
  /\ job[j].pc \in {"get", "eval"} => job'[j].pc \in {"eval", "rm", "answer"}
  /\ job[j].pc = "rm" => job'[j].pc = "answer"
  /\ job[j].pc = "answer" => job'[j].pc \in {"done", "dead"}
  /\ job'[j].pc = "get" => PutExpr(j)
  /\ Sure(j)' => Sure(j) \/ (job[j].pc = "eval" /\ sent' = [sent EXCEPT ![job[j].expr] = @ + 1])

LEMMA StepOnward ==
  ASSUME ShapeInv, VerbInv, NEW j \in Jobs, JobStep(j), Fresh(j)
  PROVE  Onward(j)
<1> USE DEF ShapeInv, JobFields, VerbInv, VerbOf, Fresh, Onward, Sure
<1>1. ASSUME Start(j) PROVE Onward(j)
  BY <1>1 DEF Start, IdleJob
<1>2. ASSUME ReadFails(j) PROVE Onward(j)
  BY <1>2 DEF ReadFails, End
<1>3. ASSUME Plan(j) PROVE Onward(j)
  BY <1>3, PlanMoves
<1>4. ASSUME Gate(j) PROVE Onward(j)
  BY <1>4 DEF Gate, End
<1>5. ASSUME Address(j) PROVE Onward(j)
  BY <1>5 DEF Address, End
<1>6. ASSUME Seed(j) PROVE Onward(j)
  BY <1>6, SeedMoves DEF Same
<1>7. ASSUME ReadState(j) PROVE Onward(j)
  BY <1>7 DEF ReadState
<1>8. ASSUME ReadBase(j) PROVE Onward(j)
  BY <1>8 DEF ReadBase
<1>9. ASSUME Apply(j) PROVE Onward(j)
  BY <1>9 DEF Apply
<1>10. ASSUME ApplyItem(j) PROVE Onward(j)
  BY <1>10 DEF ApplyItem
<1>11. ASSUME AuditGrant(j) PROVE Onward(j)
  BY <1>11 DEF AuditGrant, To
<1>12. ASSUME AuditItem(j) PROVE Onward(j)
  BY <1>12 DEF AuditItem
<1>13. ASSUME Discover(j) PROVE Onward(j)
  BY <1>13, FoundMoves DEF Same
<1>14. ASSUME DiscoverWhisper(j) PROVE Onward(j)
  BY <1>14, WhisperMoves DEF Same
<1>15. ASSUME PutExpr(j) PROVE Onward(j)
  BY <1>15 DEF PutExpr, To
<1>16. ASSUME GetExpr(j) PROVE Onward(j)
  BY <1>16 DEF GetExpr
<1>17. ASSUME Eval(j) PROVE Onward(j)
  BY <1>17 DEF Eval, To
<1>18. ASSUME EvalWhisper(j) PROVE Onward(j)
  BY <1>18 DEF EvalWhisper, To
<1>19. ASSUME RemoveExpr(j) PROVE Onward(j)
  BY <1>19 DEF RemoveExpr, To
<1>20. ASSUME Answer(j) PROVE Onward(j)
  BY <1>20 DEF Answer, End, To
<1>21. ASSUME Kill(j) PROVE Onward(j)
  BY <1>21 DEF Kill
<1> QED
  BY <1>1, <1>2, <1>3, <1>4, <1>5, <1>6, <1>7, <1>8, <1>9, <1>10, <1>11, <1>12,
     <1>13, <1>14, <1>15, <1>16, <1>17, <1>18, <1>19, <1>20, <1>21 DEF JobStep

(* Whoever joins those who met is about to read; nobody leaves them.         *)
LEMMA Meetings ==
  ASSUME NEW j \in Jobs, Touches(j)
  PROVE  /\ met \subseteq met'
         /\ \A k \in Jobs : k \in met' /\ k \notin met /\ k # j => job[k].pc = "get"
         /\ j \in met' /\ j \notin met => job'[j].pc = "get" /\ job[j].pc = "put"
BY DEF Touches, Ahead

LEMMA StepPubOf ==
  ASSUME ShapeInv, VerbInv, FileInv, PubInv, NEW j \in Jobs, JobStep(j),
         Framed(j), Touches(j), Sends(j), Reads(j), Onward(j)
  PROVE  PubOf(j)'
<1>1. PubOf(j)
  BY DEF PubInv
<1>2. /\ met \subseteq met'
      /\ j \in met' /\ j \notin met => job'[j].pc = "get" /\ job[j].pc = "put"
  BY Meetings
<1>3. FileOf(job[j].verb) \in Files
  BY DEF FileOf, Files
<1>4. job[j].pc # "idle" => FileOf(job'[j].verb) = FileOf(job[j].verb)
  BY DEF Framed
<1>5. job'[j].pc = "get" => file'[FileOf(job'[j].verb)] = j
  <2> SUFFICES ASSUME job'[j].pc = "get" PROVE file'[FileOf(job'[j].verb)] = j
    OBVIOUS
  <2>1. job[j].pc = "put" /\ file' = [file EXCEPT ![FileOf(job[j].verb)] = j]
    BY DEF Onward, PutExpr
  <2> QED BY <1>3, <1>4, <2>1 DEF ShapeInv
<1>6. job'[j].pc = "eval" => OwnOrMet(j, job[j].expr)'
  <2>1. job'[j].pc = "eval" => met' = met /\ job[j].pc = "get"
    BY DEF Reads, Touches
  <2>2. job'[j].pc = "eval" => job'[j].expr = j \/ (j \in met /\ job'[j].expr \in met)
    BY <1>1 DEF Reads, PubOf, OwnOrMet
  <2> QED BY <2>1, <2>2 DEF OwnOrMet
<1>7. j \in met' => InPod(j)'
  BY <1>1, <1>2 DEF PubOf, InPod, Onward
<1>8. /\ j \notin met' /\ job'[j].pc \notin {"rm", "answer", "done", "dead"} => sent'[j] = 0
      /\ j \notin met' => sent'[j] <= 1
  <2>1. j \notin met' => j \notin met
    BY <1>2
  <2>2. job'[j].pc \notin {"rm", "answer", "done", "dead"}
          => job[j].pc \notin {"rm", "answer", "done", "dead"} /\ sent' = sent
    BY DEF Sends, Onward
  <2>3. \/ sent'[j] = sent[j]
        \/ job[j].pc = "eval" /\ sent'[j] = sent[j] + 1
    BY DEF Sends, ShapeInv
  <2> QED BY <1>1, <2>1, <2>2, <2>3 DEF PubOf
<1>9. ASSUME Sure(j)' PROVE Published(j)'
  <2>1. met' = met
    BY <1>9 DEF Sure, Touches, Onward
  <2>2. CASE Sure(j)
    <3>1. Published(j) /\ sent' = sent
      BY <1>1, <2>2 DEF PubOf, Sends, Sure
    <3>2. job[j].pc # "idle" /\ \A m \in met : m \in Jobs => job[m].pc # "idle"
      BY <2>2 DEF Sure, PubInv, PubOf, InPod
    <3>3. \A m \in met \cap Jobs : Alike(j, m) => Alike(j, m)'
      BY <3>2 DEF Alike, Framed
    <3>4. met \subseteq Jobs
      BY DEF PubInv
    <3> QED BY <2>1, <3>1, <3>3, <3>4 DEF Published
  <2>3. CASE job[j].pc = "eval" /\ sent' = [sent EXCEPT ![job[j].expr] = @ + 1]
    <3>0. PICK m \in Jobs : m = job[j].expr
      BY <2>3 DEF FileInv
    <3>1. Message(m, FileOf(job[j].verb))
      BY <1>3, <2>3, <3>0 DEF FileInv
    <3>2. sent'[m] = sent[m] + 1 /\ sent[m] \in Nat
      BY <2>3, <3>0 DEF ShapeInv
    <3>3. OwnOrMet(j, m)
      BY <1>1, <2>3, <3>0 DEF PubOf
    <3>4. Alike(j, m)'
      <4>1. Alike(j, m) /\ job[m].pc # "idle" /\ job[j].pc # "idle"
        BY <2>3, <3>1 DEF Alike, Message, FileOf, MessageVerbs
      <4>2. job'[m].verb = job[m].verb /\ job'[j].verb = job[j].verb
        BY <4>1 DEF Framed
      <4> QED BY <4>1, <4>2 DEF Alike
    <3>5. CASE j \in met
      <4>1. m \in met' /\ j \in met'
        BY <2>1, <3>3, <3>5 DEF OwnOrMet
      <4>2. sent'[m] > 0
        BY <3>2
      <4> QED BY <3>4, <4>1, <4>2 DEF Published
    <3>6. CASE j \notin met
      <4>1. m = j /\ sent[j] = 0
        BY <1>1, <2>3, <3>3, <3>6 DEF OwnOrMet, PubOf
      <4>2. sent'[j] = 1 /\ j \notin met'
        BY <2>1, <3>2, <3>6, <4>1
      <4> QED BY <4>2 DEF Published
    <3> QED BY <3>5, <3>6
  <2> QED BY <1>9, <2>2, <2>3 DEF Onward
<1> QED
  BY <1>5, <1>6, <1>7, <1>8, <1>9 DEF PubOf, OwnOrMet, Onward

LEMMA OthersPubOf ==
  ASSUME ShapeInv, VerbInv, FileInv, PubInv, NEW j \in Jobs,
         Framed(j), Touches(j), Sends(j), NEW k \in Jobs, k # j
  PROVE  PubOf(k)'
<1>1. job'[k] = job[k] /\ PubOf(k) /\ PubOf(j)
  BY DEF Framed, PubInv
<1>2. /\ met \subseteq met'
      /\ k \in met' /\ k \notin met => job[k].pc = "get"
  BY Meetings
<1>3. k \notin met => sent'[k] = sent[k]
  BY <1>1 DEF Sends, PubOf, OwnOrMet, ShapeInv
<1>4. sent[k] \in Nat /\ sent'[k] >= sent[k] /\ \A m \in Jobs : sent[m] > 0 => sent'[m] > 0
  BY DEF Sends, ShapeInv
<1>5. job[k].pc = "get" =>
        file'[FileOf(job[k].verb)] = None \/ OwnOrMet(k, file[FileOf(job[k].verb)])'
  <2> SUFFICES ASSUME job[k].pc = "get"
               PROVE  file'[FileOf(job[k].verb)] = None \/ OwnOrMet(k, file[FileOf(job[k].verb)])'
    OBVIOUS
  <2>1. file[FileOf(job[k].verb)] = None \/ OwnOrMet(k, file[FileOf(job[k].verb)])
    BY <1>1 DEF PubOf
  <2>2. CASE file'[FileOf(job[k].verb)] = file[FileOf(job[k].verb)]
    BY <1>1, <1>2, <2>1, <2>2 DEF OwnOrMet
  <2>3. CASE file'[FileOf(job[k].verb)] # file[FileOf(job[k].verb)]
    <3>1. FileOf(job[k].verb) \in Files /\ FileOf(job[j].verb) \in Files
      BY DEF FileOf, Files
    <3>2. CASE file' = [file EXCEPT ![FileOf(job[j].verb)] = None]
      BY <2>3, <3>1, <3>2 DEF ShapeInv
    <3>3. CASE /\ file' = [file EXCEPT ![FileOf(job[j].verb)] = j]
               /\ met' = IF Ahead(j) = {} THEN met ELSE met \cup Ahead(j) \cup {j}
      <4>1. FileOf(job[k].verb) = FileOf(job[j].verb) /\ file'[FileOf(job[k].verb)] = j
        BY <2>3, <3>1, <3>3 DEF ShapeInv
      <4>2. k \in Ahead(j)
        BY <4>1 DEF Ahead, Alike, FileOf
      <4> QED BY <1>1, <3>3, <4>1, <4>2 DEF OwnOrMet
    <3> QED BY <2>3, <3>2, <3>3 DEF Touches
  <2> QED BY <2>2, <2>3
<1>6. ASSUME Sure(k)' PROVE Published(k)'
  <2>1. Sure(k) /\ Published(k) /\ job[k].pc \notin {"idle", "get"}
    BY <1>1, <1>6 DEF Sure, PubOf
  <2>2. CASE k \notin met
    BY <1>2, <1>3, <2>1, <2>2 DEF Published
  <2>3. CASE k \in met
    <3>1. PICK m \in met : Alike(k, m) /\ sent[m] > 0
      BY <2>1, <2>3 DEF Published
    <3>2. m \in Jobs /\ job[m].pc # "idle"
      BY <3>1 DEF PubInv, PubOf, InPod
    <3>3. Alike(k, m)' /\ sent'[m] > 0
      BY <1>1, <1>4, <3>1, <3>2 DEF Alike, Framed
    <3> QED BY <1>2, <2>3, <3>1, <3>3 DEF Published
  <2> QED BY <2>2, <2>3
<1>7. Fresh(k)' /\ (k \in met' => InPod(k)')
  BY <1>1, <1>2 DEF PubOf, Fresh, InPod
<1>8. job'[k].pc = "eval" => OwnOrMet(k, job[k].expr)'
  BY <1>1, <1>2 DEF PubOf, OwnOrMet
<1>9. /\ k \notin met' /\ job'[k].pc \notin {"rm", "answer", "done", "dead"} => sent'[k] = 0
      /\ k \notin met' => sent'[k] <= 1
  BY <1>1, <1>2, <1>3 DEF PubOf
<1> QED
  BY <1>1, <1>5, <1>6, <1>7, <1>8, <1>9 DEF PubOf, OwnOrMet

LEMMA StepPub ==
  ShapeInv /\ VerbInv /\ FileInv /\ PubInv /\ [Next]_vars => PubInv'
<1> SUFFICES ASSUME ShapeInv, VerbInv, FileInv, PubInv, [Next]_vars PROVE PubInv'
  OBVIOUS
<1>1. ASSUME NEW j \in Jobs, JobStep(j) PROVE PubInv'
  <2>1. Framed(j) /\ Touches(j) /\ Sends(j) /\ Reads(j) /\ Onward(j)
    BY <1>1, StepFrames, StepTouches, StepSends, StepReads, StepOnward DEF PubInv, PubOf
  <2>2. PubOf(j)'
    BY <1>1, <2>1, StepPubOf
  <2>3. \A k \in Jobs : k # j => PubOf(k)'
    BY <2>1, OthersPubOf
  <2>4. met' \subseteq Jobs
    BY <2>1 DEF PubInv, Touches, Ahead
  <2> QED BY <2>2, <2>3, <2>4 DEF PubInv
<1>2. CASE Login \/ Save \/ Logout \/ Part \/ UNCHANGED vars
  <2>1. UNCHANGED <<job, file, sent, met>>
    BY <1>2 DEF Login, Save, Logout, Part, vars
  <2> QED BY <2>1 DEF PubInv, PubOf, Fresh, InPod, Sure, OwnOrMet, Published, Alike
<1> QED
  BY <1>1, <1>2 DEF Next, Idle

LEMMA Pub == Spec => []PubInv
<1>1. Init => PubInv
  BY DEF Init, IdleJob, PubInv, PubOf, Fresh, InPod, Sure
<1> QED
  BY <1>1, StepPub, Shape, PTL DEF Spec

(* However many calls are in the pod at once: one whose expression no other  *)
(* replaced before it was read has its own message evaluated, once, when it  *)
(* is confirmed, and never twice; of those who met one had its own           *)
(* (mq.go:414).                                                              *)
THEOREM ConfirmedIsOwn == Spec => []OwnMessageOnce
<1>1. PubInv => OwnMessageOnce
  BY DEF PubInv, PubOf, Sure, OwnMessageOnce
<1> QED
  BY <1>1, Pub, PTL

-------------------------------------------------------------------------------
(* The entries the calls have written, and what was done.                    *)

Entries == audit \cup unlogged

Logged(j) == \E e \in Entries : e.job = j /\ e.what # "seed"

(* A message that is in the pod, or was, and that its call will report or    *)
(* has reported, unless its process ends.                                    *)
Placed(m) == Logged(m) \/ job[m].pc \in {"get", "eval", "rm", "answer", "dead"}

PlaceInv ==
  /\ \A f \in Files : file[f] \in Jobs => Placed(file[f])
  /\ \A k \in Jobs : job[k].pc = "eval" => Placed(job[k].expr)
  /\ \A m \in Jobs : sent[m] > 0 => Placed(m)

AuditOf(j) ==
  /\ j \in wrote =>
       \/ Logged(j) \/ job[j].pc \in {"audit", "dead"}
       \/ job[j].pc = "done" /\ job[j].verb \in ItemVerbs /\ job[j].result = "error"
  /\ job[j].pc = "audit" /\ job[j].result = "ok" => j \in wrote
  /\ job[j].pc = "audit" /\ job[j].verb \in ItemVerbs => job[j].result = "ok"

EntryInv ==
  \A e \in Entries :
    e.result = "ok" /\ e.what # "seed" => e.job \in Jobs /\ (e.job \in wrote \/ Confirmed(e.job))

AuditInv == EntryInv /\ PlaceInv /\ \A j \in Jobs : AuditOf(j)

(* What a step of a call notes, when it has to, and what it writes.          *)
Adds(j) ==
  \/ Entries' = Entries
  \/ \E what \in {"give", "qty", "quality", "delete", "seed", "publish"}, r \in {job[j].result, "ok", "error"} :
       /\ Entries' = Entries \cup {[job |-> j, what |-> what, result |-> r]}
       /\ r = "ok" /\ what # "seed" =>
            (job[j].pc = "audit" /\ job[j].result = "ok") \/ Confirmed(j)'

Notes(j) ==
  /\ job[j].pc \notin {"done", "dead"}
  /\ job[j].pc \in {"audit", "answer"} /\ job'[j].pc # "dead" => Logged(j)'
  /\ job[j].pc = "rm" => job'[j].pc = "answer"
  /\ job'[j].pc = "rm" => job[j].pc = "eval"

Writes(j) ==
  /\ \/ wrote' = wrote
     \/ /\ job[j].pc = "write" /\ wrote' = wrote \cup {j}
        /\ \/ job'[j].pc = "audit"
           \/ job'[j].pc = "done" /\ job[j].verb \in ItemVerbs /\ job'[j].result = "error"
  /\ job'[j].pc = "audit" =>
       /\ job[j].pc = "write"
       /\ job'[j].result = "ok" => j \in wrote'
       /\ job[j].verb \in ItemVerbs => job'[j].result = "ok"

LEMMA SameLog == UNCHANGED Log => Entries' = Entries
BY DEF Log, Entries

LEMMA SameElsewhere == UNCHANGED Unread => Entries' = Entries
BY SameLog DEF Unread

LEMMA Notices ==
  ASSUME NEW j, NEW what, NEW r, Record(j, what, r)
  PROVE  Entries' = Entries \cup {[job |-> j, what |-> what, result |-> r]}
BY DEF Record, Note, Entries

LEMMA Recorded == ASSUME NEW j, NEW what, what # "seed", NEW r, Record(j, what, r)
                  PROVE  Logged(j)'
<1> DEFINE e == [job |-> j, what |-> what, result |-> r]
<1>1. e \in Entries' /\ e.job = j /\ e.what = what
  BY Notices
<1> HIDE DEF e
<1> QED BY <1>1 DEF Logged

LEMMA StepAdds ==
  ASSUME ShapeInv, VerbInv, NEW j \in Jobs, AuditOf(j), JobStep(j)
  PROVE  Adds(j)
<1> USE DEF Adds
<1>1. ASSUME Start(j) PROVE Adds(j)
  BY <1>1, SameElsewhere DEF Start
<1>2. ASSUME ReadFails(j) PROVE Adds(j)
  BY <1>2, SameElsewhere DEF ReadFails
<1>3. ASSUME Plan(j) PROVE Adds(j)
  BY <1>3, SameElsewhere DEF Plan
<1>4. ASSUME Gate(j) PROVE Adds(j)
  BY <1>4, SameElsewhere DEF Gate
<1>5. ASSUME Address(j) PROVE Adds(j)
  BY <1>5, SameElsewhere DEF Address
<1>6. ASSUME Seed(j) PROVE Adds(j)
  BY <1>6, Notices DEF Seed
<1>7. ASSUME ReadState(j) PROVE Adds(j)
  BY <1>7, SameElsewhere DEF ReadState
<1>8. ASSUME ReadBase(j) PROVE Adds(j)
  BY <1>8, SameElsewhere DEF ReadBase
<1>9. ASSUME Apply(j) PROVE Adds(j)
  BY <1>9, SameLog DEF Apply, Execute
<1>10. ASSUME ApplyItem(j) PROVE Adds(j)
  BY <1>10, SameLog DEF ApplyItem, Execute
<1>11. ASSUME AuditGrant(j) PROVE Adds(j)
  BY <1>11, Notices DEF AuditGrant
<1>12. ASSUME AuditItem(j) PROVE Adds(j)
  <2>1. Edit(j) \in {"qty", "quality", "delete"}
    BY DEF Edit
  <2>2. /\ Entries' = Entries \cup {[job |-> j, what |-> Edit(j), result |-> "ok"]}
        /\ job[j].pc = "audit" /\ job[j].verb \in ItemVerbs
    BY <1>12, Notices DEF AuditItem
  <2> QED BY <2>1, <2>2 DEF AuditOf
<1>13. ASSUME Discover(j) PROVE Adds(j)
  BY <1>13, Notices, SameLog DEF Discover
<1>14. ASSUME DiscoverWhisper(j) PROVE Adds(j)
  BY <1>14, Notices, SameLog DEF DiscoverWhisper
<1>15. ASSUME PutExpr(j) PROVE Adds(j)
  BY <1>15, SameLog DEF PutExpr
<1>16. ASSUME GetExpr(j) PROVE Adds(j)
  BY <1>16, SameElsewhere DEF GetExpr
<1>17. ASSUME Eval(j) PROVE Adds(j)
  BY <1>17, SameLog DEF Eval
<1>18. ASSUME EvalWhisper(j) PROVE Adds(j)
  BY <1>18, SameLog DEF EvalWhisper
<1>19. ASSUME RemoveExpr(j) PROVE Adds(j)
  BY <1>19, SameLog DEF RemoveExpr
<1>20. ASSUME Answer(j) PROVE Adds(j)
  <2>1. ASSUME NEW r \in {job[j].result} \cup {"error"},
               Record(j, "publish", IF r = "ok" THEN "ok" ELSE "error"),
               End(j, IF r = "unconfirmed" /\ job[j].verb = "whisper" THEN "error" ELSE r)
        PROVE  Adds(j)
    <3>1. Entries' = Entries \cup {[job |-> j, what |-> "publish", result |-> IF r = "ok" THEN "ok" ELSE "error"]}
      BY <2>1, Notices
    <3>2. r = "ok" => Confirmed(j)'
      BY <1>20, <2>1, EndMoves DEF Answer, Confirmed, Same, VerbInv, VerbOf
    <3> QED BY <3>1, <3>2
  <2> QED BY <1>20, <2>1, SameLog DEF Answer
<1>21. ASSUME Kill(j) PROVE Adds(j)
  BY <1>21, SameElsewhere DEF Kill
<1> QED
  BY <1>1, <1>2, <1>3, <1>4, <1>5, <1>6, <1>7, <1>8, <1>9, <1>10, <1>11, <1>12,
     <1>13, <1>14, <1>15, <1>16, <1>17, <1>18, <1>19, <1>20, <1>21 DEF JobStep

LEMMA StepNotes == ASSUME ShapeInv, NEW j \in Jobs, JobStep(j) PROVE Notes(j)
<1> USE DEF ShapeInv, JobFields, Notes
<1>1. ASSUME Start(j) PROVE Notes(j)
  BY <1>1 DEF Start, IdleJob
<1>2. ASSUME ReadFails(j) PROVE Notes(j)
  BY <1>2 DEF ReadFails, End
<1>3. ASSUME Plan(j) PROVE Notes(j)
  BY <1>3 DEF Plan, Backend
<1>4. ASSUME Gate(j) PROVE Notes(j)
  BY <1>4 DEF Gate, End
<1>5. ASSUME Address(j) PROVE Notes(j)
  BY <1>5 DEF Address, End
<1>6. ASSUME Seed(j) PROVE Notes(j)
  BY <1>6, SeedMoves DEF Seed
<1>7. ASSUME ReadState(j) PROVE Notes(j)
  BY <1>7 DEF ReadState
<1>8. ASSUME ReadBase(j) PROVE Notes(j)
  BY <1>8 DEF ReadBase
<1>9. ASSUME Apply(j) PROVE Notes(j)
  BY <1>9 DEF Apply, Execute
<1>10. ASSUME ApplyItem(j) PROVE Notes(j)
  BY <1>10 DEF ApplyItem, Execute
<1>11. ASSUME AuditGrant(j) PROVE Notes(j)
  <2>1. Logged(j)'
    BY <1>11, Recorded DEF AuditGrant
  <2>2. job[j].pc = "audit" /\ job'[j].pc = "done"
    BY <1>11, ToMoves DEF AuditGrant
  <2> QED BY <2>1, <2>2
<1>12. ASSUME AuditItem(j) PROVE Notes(j)
  <2>1. Edit(j) # "seed"
    BY DEF Edit
  <2>2. Logged(j)'
    BY <1>12, <2>1, Recorded DEF AuditItem
  <2>3. job[j].pc = "audit" /\ job'[j].pc \in {"plan", "done"}
    BY <1>12 DEF AuditItem
  <2> QED BY <2>2, <2>3
<1>13. ASSUME Discover(j) PROVE Notes(j)
  BY <1>13, FoundMoves DEF Discover
<1>14. ASSUME DiscoverWhisper(j) PROVE Notes(j)
  BY <1>14, WhisperMoves DEF DiscoverWhisper
<1>15. ASSUME PutExpr(j) PROVE Notes(j)
  BY <1>15 DEF PutExpr, To
<1>16. ASSUME GetExpr(j) PROVE Notes(j)
  BY <1>16 DEF GetExpr
<1>17. ASSUME Eval(j) PROVE Notes(j)
  BY <1>17 DEF Eval, To
<1>18. ASSUME EvalWhisper(j) PROVE Notes(j)
  BY <1>18 DEF EvalWhisper, To
<1>19. ASSUME RemoveExpr(j) PROVE Notes(j)
  BY <1>19 DEF RemoveExpr, To
<1>20. ASSUME Answer(j) PROVE Notes(j)
  <2>1. ASSUME NEW r, NEW s, Record(j, "publish", r), End(j, s)
        PROVE  Logged(j)' /\ job'[j].pc = "done"
    BY <2>1, EndMoves, Recorded
  <2>2. To(j, "dead") => job'[j].pc = "dead"
    BY ToMoves
  <2> QED BY <1>20, <2>1, <2>2 DEF Answer
<1>21. ASSUME Kill(j) PROVE Notes(j)
  BY <1>21 DEF Kill
<1> QED
  BY <1>1, <1>2, <1>3, <1>4, <1>5, <1>6, <1>7, <1>8, <1>9, <1>10, <1>11, <1>12,
     <1>13, <1>14, <1>15, <1>16, <1>17, <1>18, <1>19, <1>20, <1>21 DEF JobStep

LEMMA StepWrites == ASSUME ShapeInv, NEW j \in Jobs, JobStep(j) PROVE Writes(j)
<1> USE DEF ShapeInv, JobFields, Writes
<1>1. ASSUME Start(j) PROVE Writes(j)
  BY <1>1 DEF Start, IdleJob, Unread
<1>2. ASSUME ReadFails(j) PROVE Writes(j)
  BY <1>2 DEF ReadFails, End, Unread
<1>3. ASSUME Plan(j) PROVE Writes(j)
  BY <1>3 DEF Plan, Backend, Unread
<1>4. ASSUME Gate(j) PROVE Writes(j)
  BY <1>4 DEF Gate, End, Unread
<1>5. ASSUME Address(j) PROVE Writes(j)
  BY <1>5 DEF Address, End, Unread
<1>6. ASSUME Seed(j) PROVE Writes(j)
  BY <1>6, SeedMoves DEF Seed, Remote
<1>7. ASSUME ReadState(j) PROVE Writes(j)
  BY <1>7 DEF ReadState, Unread
<1>8. ASSUME ReadBase(j) PROVE Writes(j)
  BY <1>8 DEF ReadBase, Unread
<1>9. ASSUME Apply(j) PROVE Writes(j)
  <2>1. job[j].pc = "write" /\ job[j].verb \in GiveVerbs /\ job'[j].pc = "audit"
    BY <1>9 DEF Apply
  <2>2. (wrote' = wrote \/ wrote' = wrote \cup {j}) /\ (job'[j].result = "ok" => j \in wrote')
    BY <1>9 DEF Apply, Execute
  <2> QED BY <2>1, <2>2 DEF GiveVerbs, ItemVerbs
<1>10. ASSUME ApplyItem(j) PROVE Writes(j)
  BY <1>10 DEF ApplyItem, Execute
<1>11. ASSUME AuditGrant(j) PROVE Writes(j)
  BY <1>11 DEF AuditGrant, To, Remote
<1>12. ASSUME AuditItem(j) PROVE Writes(j)
  BY <1>12 DEF AuditItem, Remote
<1>13. ASSUME Discover(j) PROVE Writes(j)
  BY <1>13, FoundMoves DEF Discover, Remote
<1>14. ASSUME DiscoverWhisper(j) PROVE Writes(j)
  BY <1>14, WhisperMoves DEF DiscoverWhisper, Remote
<1>15. ASSUME PutExpr(j) PROVE Writes(j)
  BY <1>15 DEF PutExpr, To
<1>16. ASSUME GetExpr(j) PROVE Writes(j)
  BY <1>16 DEF GetExpr, Unread
<1>17. ASSUME Eval(j) PROVE Writes(j)
  BY <1>17 DEF Eval, To
<1>18. ASSUME EvalWhisper(j) PROVE Writes(j)
  BY <1>18 DEF EvalWhisper, To
<1>19. ASSUME RemoveExpr(j) PROVE Writes(j)
  BY <1>19 DEF RemoveExpr, To
<1>20. ASSUME Answer(j) PROVE Writes(j)
  BY <1>20, ToMoves, EndMoves DEF Answer, Remote
<1>21. ASSUME Kill(j) PROVE Writes(j)
  BY <1>21 DEF Kill, Unread
<1> QED
  BY <1>1, <1>2, <1>3, <1>4, <1>5, <1>6, <1>7, <1>8, <1>9, <1>10, <1>11, <1>12,
     <1>13, <1>14, <1>15, <1>16, <1>17, <1>18, <1>19, <1>20, <1>21 DEF JobStep

LEMMA StepPlace ==
  ASSUME ShapeInv, FileInv, AuditInv, NEW j \in Jobs, Framed(j), Touches(j), Sends(j),
         Reads(j), Notes(j), Onward(j), \A k \in Jobs : Logged(k) => Logged(k)'
  PROVE  PlaceInv'
<1>1. \A m \in Jobs : Placed(m) => Placed(m)'
  BY DEF Placed, Framed, Notes, Onward
<1>2. \A f \in Files : file'[f] \in Jobs => Placed(file[f])'
  <2> SUFFICES ASSUME NEW f \in Files, file'[f] \in Jobs PROVE Placed(file[f])'
    OBVIOUS
  <2>1. CASE file'[f] = file[f]
    BY <1>1, <2>1 DEF AuditInv, PlaceInv
  <2>2. CASE file'[f] # file[f]
    <3>1. file'[f] = j /\ job'[j].pc = "get"
      BY <2>2, PlayersAssumption DEF Touches, ShapeInv
    <3> QED BY <3>1 DEF Placed
  <2> QED BY <2>1, <2>2
<1>3. \A k \in Jobs : job'[k].pc = "eval" => Placed(job[k].expr)'
  <2> SUFFICES ASSUME NEW k \in Jobs, job'[k].pc = "eval" PROVE Placed(job[k].expr)'
    OBVIOUS
  <2>1. CASE k # j
    BY <1>1, <2>1 DEF Framed, FileInv, AuditInv, PlaceInv
  <2>2. CASE k = j
    <3>1. FileOf(job[j].verb) \in Files
      BY DEF FileOf, Files
    <3>2. job'[j].expr \in Jobs /\ Placed(job'[j].expr)
      BY <2>2, <3>1 DEF Reads, FileInv, AuditInv, PlaceInv
    <3> QED BY <1>1, <2>2, <3>2
  <2> QED BY <2>1, <2>2
<1>4. \A m \in Jobs : sent'[m] > 0 => Placed(m)'
  <2> SUFFICES ASSUME NEW m \in Jobs, sent'[m] > 0 PROVE Placed(m)'
    OBVIOUS
  <2>1. sent[m] > 0 \/ (job[j].pc = "eval" /\ job[j].expr = m)
    BY DEF Sends, ShapeInv
  <2> QED BY <1>1, <2>1 DEF AuditInv, PlaceInv
<1> QED
  BY <1>2, <1>3, <1>4 DEF PlaceInv

LEMMA StepAudit ==
  ShapeInv /\ VerbInv /\ FileInv /\ PubInv /\ AuditInv /\ [Next]_vars => AuditInv'
<1> SUFFICES ASSUME ShapeInv, VerbInv, FileInv, PubInv, AuditInv, [Next]_vars PROVE AuditInv'
  OBVIOUS
<1>1. ASSUME NEW j \in Jobs, JobStep(j) PROVE AuditInv'
  <2>1. Framed(j) /\ Touches(j) /\ Sends(j) /\ Reads(j)
    BY <1>1, StepFrames, StepTouches, StepSends, StepReads
  <2>2. Onward(j) /\ Adds(j) /\ Notes(j) /\ Writes(j)
    BY <1>1, StepOnward, StepAdds, StepNotes, StepWrites DEF AuditInv, PubInv, PubOf
  <2>3. \A k \in Jobs : Logged(k) => Logged(k)'
    BY <2>2 DEF Adds, Logged
  <2>4. EntryInv'
    <3>1. job[j].pc = "audit" /\ job[j].result = "ok" => j \in wrote
      BY DEF AuditInv, AuditOf
    <3>2. wrote \subseteq wrote'
      BY <2>2 DEF Writes
    <3>3. \A k \in Jobs : Confirmed(k) => Confirmed(k)'
      BY <2>1, <2>2 DEF Confirmed, Framed, Onward
    <3>4. \A e \in Entries : e.result = "ok" /\ e.what # "seed" =>
            e.job \in Jobs /\ (e.job \in wrote' \/ Confirmed(e.job)')
      BY <3>2, <3>3 DEF AuditInv, EntryInv
    <3>5. \A e \in Entries' : e.result = "ok" /\ e.what # "seed" =>
            e.job \in Jobs /\ (e.job \in wrote' \/ Confirmed(e.job)')
      BY <2>2, <3>1, <3>2, <3>4 DEF Adds
    <3> QED BY <3>5 DEF EntryInv
  <2>5. AuditOf(j)'
    BY <2>1, <2>2, <2>3 DEF AuditInv, AuditOf, Framed, Notes, Writes
  <2>6. \A k \in Jobs : k # j => AuditOf(k)'
    <3> SUFFICES ASSUME NEW k \in Jobs, k # j PROVE AuditOf(k)'
      OBVIOUS
    <3>1. job'[k] = job[k] /\ AuditOf(k) /\ (k \in wrote' <=> k \in wrote)
      BY <2>1, <2>2 DEF Framed, AuditInv, Writes
    <3> QED BY <2>3, <3>1 DEF AuditOf
  <2>7. PlaceInv'
    BY <2>1, <2>2, <2>3, StepPlace
  <2> QED BY <2>4, <2>5, <2>6, <2>7 DEF AuditInv
<1>2. CASE Login \/ Save \/ Logout \/ Part \/ UNCHANGED vars
  <2>1. UNCHANGED <<job, file, wrote, sent, audit, unlogged>>
    BY <1>2 DEF Login, Save, Logout, Part, Log, vars
  <2> QED BY <2>1 DEF AuditInv, EntryInv, PlaceInv, AuditOf, Placed, Logged, Entries, Confirmed
<1> QED
  BY <1>1, <1>2 DEF Next, Idle

(* Of every call that ended and changed something an entry was written,      *)
(* which the store may still have refused, but for an item edit whose answer *)
(* was lost; and none says ok of what did not happen, calls that met in the  *)
(* pod taken together (grant.go:305, mq.go:438).                             *)
THEOREM AuditAlwaysMatches == Spec => []AuditMatchesEffects
<1>1. Init => AuditInv
  BY PlayersAssumption DEF Init, IdleJob, AuditInv, EntryInv, PlaceInv, AuditOf, Entries
<1>2. PubInv /\ AuditInv => AuditMatchesEffects
  <2> SUFFICES ASSUME PubInv, AuditInv PROVE AuditMatchesEffects
    OBVIOUS
  <2>1. \A j \in Jobs :
          (job[j].pc = "done" /\ (j \in wrote \/ sent[j] > 0))
          => Logged(j) \/ (job[j].verb \in ItemVerbs /\ job[j].result = "error")
    BY DEF AuditInv, AuditOf, PlaceInv, Placed
  <2>2. \A j \in Jobs : Confirmed(j) => Published(j)
    BY DEF PubInv, PubOf, Confirmed, Sure
  <2>3. \A e \in Entries : e.result = "ok" /\ e.what # "seed" => e.job \in wrote \/ Published(e.job)
    BY <2>2 DEF AuditInv, EntryInv
  <2> QED BY <2>1, <2>3 DEF AuditMatchesEffects, Logged, Entries
<1> QED
  BY <1>1, <1>2, StepAudit, Shape, Pub, PTL DEF Spec

-------------------------------------------------------------------------------
(* What was written to an offline player stays.                              *)

Additive == {"currency", "skillpoints", "xp", "charxp"}

GateOf(j) ==
  /\ job[j].back = "db" /\ ~job[j].force /\ job[j].pc \in {"read", "write"} /\ j \notin excused => ~online
  /\ "qty" \in job[j].todo => job[j].verb = "set"
  /\ j \in wrote => job[j].verb \in Additive \cup ItemVerbs
  /\ j \in wrote => (job[j].pc \in {"audit", "done", "dead"} \/ job[j].verb = "set")
  /\ j \in wrote => job[j].pc # "idle"
  /\ job[j].back = "db" /\ job[j].result = "ok" /\ job[j].pc \in {"audit", "done"} => j \in wrote
  /\ job[j].pc \in {"idle", "plan", "read", "write"} => job[j].result # "ok"

Pending(i) == job[i].verb = "charxp" /\ job[i].pc = "write"

(* The database has it, the running game has it, and no call is about to     *)
(* set the level without it.                                                 *)
Kept(k) ==
  /\ job[k].verb = "delete" => ~db.there /\ (online => ~live.there)
  /\ job[k].verb \in Additive =>
       /\ k \in db.grants[FieldOf(job[k].verb)]
       /\ online => k \in live.grants[FieldOf(job[k].verb)]
  /\ job[k].verb = "charxp" =>
       \A i \in Jobs : Pending(i) => k \in job[i].base

KeptInv == \A k \in wrote : k \in Jobs /\ (~job[k].force /\ k \notin excused => Kept(k))

StickInv == KeptInv /\ \A j \in Jobs : GateOf(j)

(* Presence is read on the way to a statement, and so is the level.          *)
Gates(j) ==
  /\ job'[j].pc \in {"read", "write"} /\ job'[j].back = "db" /\ ~job'[j].force =>
       ~online \/ (job[j].pc = "read" /\ ~job[j].force /\ job[j].back = "db")
  /\ job'[j].pc = "write" /\ job'[j].verb = "charxp" => job'[j].base = db.grants["level"]
  /\ job'[j].pc \in {"idle", "plan", "read", "write"} => job'[j].result # "ok"
  /\ job'[j].pc \in {"audit", "done"} /\ job'[j].back = "db" /\ job'[j].result = "ok"
       => (job[j].back = "db" /\ job[j].pc = "audit" /\ job[j].result = "ok") \/ j \in wrote'
  /\ job[j].pc \in {"read", "write"} => job'[j].pc \notin {"read", "plan"}
  /\ job'[j].pc # "idle" /\ job[j].pc \notin {"done", "dead"}
  /\ job[j].pc = "audit" => job'[j].pc \in {"done", "dead"} \/ job[j].verb = "set"
  /\ "qty" \in job'[j].todo => job'[j].verb = "set"
  /\ j \in wrote' => j \in wrote \/ job[j].verb \in Additive \cup ItemVerbs

LEMMA StepGates ==
  ASSUME ShapeInv, VerbInv, NEW j \in Jobs, GateOf(j), JobStep(j)
  PROVE  Gates(j)
<1> USE DEF ShapeInv, VerbInv, VerbOf, JobFields, Gates, GateOf, GiveVerbs, ItemVerbs, Additive
<1>1. ASSUME Start(j) PROVE Gates(j)
  BY <1>1 DEF Start, IdleJob, Unread
<1>2. ASSUME ReadFails(j) PROVE Gates(j)
  BY <1>2 DEF ReadFails, End, Unread
<1>3. ASSUME Plan(j) PROVE Gates(j)
  <2>1. wrote' = wrote
    BY <1>3 DEF Plan, Unread
  <2> QED BY <1>3, <2>1, PlanMoves
<1>4. ASSUME Gate(j) PROVE Gates(j)
  BY <1>4 DEF Gate, End, Unread
<1>5. ASSUME Address(j) PROVE Gates(j)
  BY <1>5 DEF Address, End, Unread
<1>6. ASSUME Seed(j) PROVE Gates(j)
  BY <1>6, SeedMoves DEF Seed, Same, Remote
<1>7. ASSUME ReadState(j) PROVE Gates(j)
  BY <1>7 DEF ReadState, Unread
<1>8. ASSUME ReadBase(j) PROVE Gates(j)
  BY <1>8 DEF ReadBase, Unread
<1>9. ASSUME Apply(j) PROVE Gates(j)
  BY <1>9 DEF Apply, Execute, InsertExecutes
<1>10. ASSUME ApplyItem(j) PROVE Gates(j)
  BY <1>10 DEF ApplyItem, Execute
<1>11. ASSUME AuditGrant(j) PROVE Gates(j)
  BY <1>11 DEF AuditGrant, To, Remote
<1>12. ASSUME AuditItem(j) PROVE Gates(j)
  BY <1>12 DEF AuditItem, Remote
<1>13. ASSUME Discover(j) PROVE Gates(j)
  BY <1>13, FoundMoves DEF Discover, Same, Remote
<1>14. ASSUME DiscoverWhisper(j) PROVE Gates(j)
  BY <1>14, WhisperMoves DEF DiscoverWhisper, Same, Remote
<1>15. ASSUME PutExpr(j) PROVE Gates(j)
  BY <1>15 DEF PutExpr, To
<1>16. ASSUME GetExpr(j) PROVE Gates(j)
  BY <1>16 DEF GetExpr, Unread
<1>17. ASSUME Eval(j) PROVE Gates(j)
  BY <1>17 DEF Eval, To
<1>18. ASSUME EvalWhisper(j) PROVE Gates(j)
  BY <1>18 DEF EvalWhisper, To
<1>19. ASSUME RemoveExpr(j) PROVE Gates(j)
  BY <1>19 DEF RemoveExpr, To
<1>20. ASSUME Answer(j) PROVE Gates(j)
  BY <1>20 DEF Answer, End, To, Remote
<1>21. ASSUME Kill(j) PROVE Gates(j)
  BY <1>21 DEF Kill, Unread
<1> QED
  BY <1>1, <1>2, <1>3, <1>4, <1>5, <1>6, <1>7, <1>8, <1>9, <1>10, <1>11, <1>12,
     <1>13, <1>14, <1>15, <1>16, <1>17, <1>18, <1>19, <1>20, <1>21 DEF JobStep

LEMMA StepOnline ==
  ASSUME NEW j \in Jobs, JobStep(j) PROVE online' = online /\ excused \subseteq excused'
BY StepRests DEF Rests, Apply, ApplyItem, Execute, Eval

(* What the three do to a row.                                               *)
LEMMA ApplyKeeps ==
  ASSUME ShapeInv, VerbInv, StickInv, NEW j \in Jobs, Framed(j), Gates(j), Apply(j)
  PROVE  KeptInv'
<1>1. /\ job[j].pc = "write" /\ job[j].verb \in GiveVerbs /\ job'[j].pc = "audit" /\ online' = online /\ live' = live
      /\ job[j].back = "db"
  <2>1. job'[j].pc = "audit"
    BY DEF Apply, ShapeInv, JobFields
  <2> QED BY <2>1 DEF Apply, Execute, VerbInv, VerbOf
<1>2. CASE UNCHANGED <<db, wrote, excused>>
  BY <1>1, <1>2 DEF StickInv, KeptInv, Kept, Pending, Framed, GateOf
<1>3. CASE /\ db' = Granted(j) /\ wrote' = wrote \cup {j} /\ excused' = excused \cup Overtaken(j)
           /\ job[j].verb # "item"
  <2>1. db'.there = db.there
    BY <1>1, <1>3 DEF Granted, Credited, Skilled, Trained, Recomputed, GiveVerbs,
       ShapeInv, PlayerFields
  <2>2. job[j].verb \in Additive /\ j \in db'.grants[FieldOf(job[j].verb)]
    BY <1>1, <1>3 DEF Granted, Credited, Skilled, Trained, Recomputed, GiveVerbs,
       ShapeInv, PlayerFields, Fields, FieldOf, Additive
  <2>3. ASSUME NEW k \in wrote, k # j, ~job[k].force, k \notin excused' PROVE Kept(k)'
    <3>1. k \in Jobs /\ k \notin excused /\ Kept(k) /\ job'[k] = job[k] /\ GateOf(k)
      BY <1>3, <2>3 DEF StickInv, KeptInv, Framed
    <3>2. job[k].verb \in Additive => k \in db'.grants[FieldOf(job[k].verb)]
      <4>1. CASE job[j].verb = "charxp"
        <5>1. job[k].verb # "skillpoints"
          BY <1>3, <2>3, <3>1, <4>1 DEF Overtaken
        <5>2. job[k].verb = "charxp" => k \in job[j].base
          BY <1>1, <3>1, <4>1 DEF Kept, Pending
        <5> QED
          BY <1>3, <3>1, <4>1, <5>1, <5>2 DEF Kept, Granted, Recomputed, Additive,
             FieldOf, ShapeInv, PlayerFields, Fields
      <4>2. CASE job[j].verb # "charxp"
        BY <1>1, <1>3, <3>1, <4>2 DEF Kept, Granted, Credited, Skilled, Trained,
           GiveVerbs, Additive, FieldOf, ShapeInv, PlayerFields, Fields
      <4> QED BY <4>1, <4>2
    <3>3. \A i \in Jobs : Pending(i)' => Pending(i) /\ job'[i].base = job[i].base
      BY <1>1 DEF Framed, Pending
    <3> QED BY <1>1, <2>1, <3>1, <3>2, <3>3 DEF Kept
  <2>4. ASSUME ~job[j].force, j \notin excused' PROVE Kept(j)'
    <3>1. ~online
      BY <1>1, <1>3, <2>4 DEF StickInv, GateOf
    <3>2. job'[j].verb = job[j].verb
      BY <1>1 DEF Framed
    <3>3. job[j].verb = "charxp" => \A i \in Jobs : ~Pending(i)'
      BY <1>1, <1>3, <2>4 DEF Overtaken, Framed, Pending
    <3> QED BY <1>1, <2>2, <3>1, <3>2, <3>3 DEF Kept, Additive
  <2>5. \A k \in wrote' : k \in Jobs /\ job'[k].force = job[k].force
    BY <1>1, <1>3 DEF Framed, StickInv, KeptInv
  <2> QED BY <1>3, <2>3, <2>4, <2>5 DEF KeptInv
<1> QED
  BY <1>2, <1>3 DEF Apply, Execute, InsertExecutes

LEMMA EditKeeps ==
  ASSUME ShapeInv, VerbInv, StickInv, NEW j \in Jobs, Framed(j), Gates(j), ApplyItem(j)
  PROVE  KeptInv'
<1>1. /\ job[j].pc = "write" /\ job[j].verb \in ItemVerbs /\ job'[j].pc \in {"audit", "done"} /\ online' = online /\ live' = live
      /\ job[j].back = "db"
  <2>1. job'[j].pc \in {"audit", "done"}
    BY DEF ApplyItem, ShapeInv, JobFields
  <2> QED BY <2>1 DEF ApplyItem, Execute, VerbInv, VerbOf
<1>2. \A i \in Jobs : Pending(i)' => Pending(i) /\ job'[i].base = job[i].base
  BY <1>1 DEF Framed, Pending
<1>3. CASE UNCHANGED <<db, wrote, excused>>
  BY <1>1, <1>2, <1>3 DEF StickInv, KeptInv, Kept, Pending, Framed, GateOf
<1>4. CASE db' = Edited(db, j) /\ wrote' = wrote \cup {j} /\ excused \subseteq excused'
  <2>1. db'.grants = db.grants /\ (~db.there => ~db'.there) /\ (job[j].verb = "delete" => ~db'.there)
    <3>1. CASE job[j].verb = "delete"
      <4>1. db' = [db EXCEPT !.there = FALSE]
        BY <1>4, <3>1 DEF Edited, StickInv, GateOf
      <4>2. db'.there = FALSE /\ db'.grants = db.grants
        BY <4>1 DEF ShapeInv, PlayerFields
      <4> QED BY <4>2
    <3>2. CASE job[j].verb # "delete"
      BY <1>4, <3>2 DEF Edited, ShapeInv, PlayerFields
    <3> QED BY <3>1, <3>2
  <2>2. ASSUME NEW k \in wrote, k # j, ~job[k].force, k \notin excused' PROVE Kept(k)'
    <3>1. k \in Jobs /\ k \notin excused /\ Kept(k) /\ job'[k] = job[k]
      BY <1>4, <2>2 DEF StickInv, KeptInv, Framed
    <3> QED BY <1>1, <1>2, <2>1, <3>1 DEF Kept
  <2>3. ASSUME ~job[j].force, j \notin excused' PROVE Kept(j)'
    <3>1. ~online
      BY <1>1, <1>4, <2>3 DEF StickInv, GateOf
    <3>2. job'[j].verb = job[j].verb
      BY <1>1 DEF Framed
    <3> QED BY <1>1, <2>1, <3>1, <3>2 DEF Kept, Additive, ItemVerbs
  <2>4. \A k \in wrote' : k \in Jobs /\ job'[k].force = job[k].force
    BY <1>1, <1>4 DEF Framed, StickInv, KeptInv
  <2> QED BY <1>4, <2>2, <2>3, <2>4 DEF KeptInv
<1> QED
  BY <1>3, <1>4 DEF ApplyItem, Execute

LEMMA EvalKeeps ==
  ASSUME ShapeInv, VerbInv, FileInv, StickInv, NEW j \in Jobs, Framed(j), Gates(j), Eval(j)
  PROVE  KeptInv'
<1>1. /\ job[j].pc = "eval" /\ job'[j].pc \in {"rm", "answer"}
      /\ UNCHANGED <<db, online, wrote>> /\ excused \subseteq excused'
  BY DEF Eval, To, ShapeInv, JobFields
<1>2. \A i \in Jobs : Pending(i)' => Pending(i) /\ job'[i].base = job[i].base
  BY <1>1 DEF Framed, Pending
<1>3. \A k \in wrote : k \in Jobs /\ job'[k].force = job[k].force /\ job'[k].verb = job[k].verb
  BY <1>1 DEF Framed, StickInv, KeptInv
<1>4. CASE live' = live
  BY <1>1, <1>2, <1>3, <1>4 DEF StickInv, KeptInv, Kept, Pending
<1>5. ASSUME NEW m, m = job[j].expr, live' = Received(live, m),
             job[m].verb = "skillpoints" => \A k \in Jobs : job[k].verb = "skillpoints" => k \in excused'
      PROVE  KeptInv'
  <2>1. m \in Jobs /\ job[m].verb \in MessageVerbs
    BY <1>1, <1>5 DEF FileInv, Message, FileOf, Files, Eval
  <2>2. live'.there = live.there
    BY <1>5, <2>1 DEF Received, AddItem, AwardXP, SetUnspent, MessageVerbs, ShapeInv,
       PlayerFields
  <2>3. \A f \in Fields : f # "points" \/ job[m].verb # "skillpoints" => live.grants[f] \subseteq live'.grants[f]
    BY <1>5, <2>1 DEF Received, AddItem, AwardXP, SetUnspent, MessageVerbs, ShapeInv,
       PlayerFields, Fields
  <2>4. ASSUME NEW k \in wrote, ~job[k].force, k \notin excused' PROVE Kept(k)'
    <3>1. k \in Jobs /\ Kept(k)
      BY <1>1, <2>4 DEF StickInv, KeptInv
    <3>2. job[k].verb \in Additive /\ online => k \in live'.grants[FieldOf(job[k].verb)]
      BY <1>5, <2>3, <2>4, <3>1 DEF Kept, Additive, FieldOf, Fields
    <3> QED BY <1>1, <1>2, <1>3, <2>2, <3>1, <3>2 DEF Kept
  <2> QED BY <1>1, <1>3, <2>4 DEF KeptInv
<1> QED
  BY <1>4, <1>5 DEF Eval

LEMMA StepStick ==
  ShapeInv /\ VerbInv /\ FileInv /\ StickInv /\ [Next]_vars => StickInv'
<1> SUFFICES ASSUME ShapeInv, VerbInv, FileInv, StickInv, [Next]_vars PROVE StickInv'
  OBVIOUS
<1>1. ASSUME NEW j \in Jobs, JobStep(j) PROVE StickInv'
  <2>1. Framed(j) /\ Writes(j) /\ GateOf(j)
    BY <1>1, StepFrames, StepWrites DEF StickInv
  <2>2. Gates(j)
    BY <1>1, <2>1, StepGates
  <2>3. KeptInv'
    <3>1. CASE Rests
      <4>1. online' = online
        BY <1>1, StepOnline
      <4>2. \A k \in wrote : job'[k].verb = job[k].verb /\ job'[k].force = job[k].force
        BY <2>1, <3>1 DEF Framed, StickInv, KeptInv, GateOf
      <4>3. ASSUME NEW k \in wrote, k \in Jobs, Kept(k) PROVE Kept(k)'
        <5>1. job[k].verb = "charxp" => \A i \in Jobs : Pending(i)' => k \in job'[i].base
          BY <2>1, <2>2, <4>3 DEF Kept, Pending, Framed, Gates, Additive, FieldOf
        <5> QED BY <3>1, <4>1, <4>2, <4>3, <5>1 DEF Rests, Kept
      <4> QED BY <3>1, <4>2, <4>3 DEF Rests, StickInv, KeptInv
    <3> QED BY <1>1, <2>1, <2>2, <3>1, StepRests, ApplyKeeps, EditKeeps, EvalKeeps
  <2>4. GateOf(j)'
    BY <1>1, <2>1, <2>2, StepOnline DEF GateOf, Gates, Writes, Framed
  <2>5. \A k \in Jobs : k # j => GateOf(k)'
    BY <1>1, <2>1, StepOnline DEF GateOf, Framed, Writes, StickInv
  <2> QED BY <2>3, <2>4, <2>5 DEF StickInv
<1>2. CASE Login
  <2>1. KeptInv'
    BY <1>2 DEF Login, StickInv, KeptInv, Kept, Pending
  <2>2. \A j \in Jobs : GateOf(j)'
    BY <1>2 DEF Login, Late, StickInv, GateOf
  <2> QED BY <2>1, <2>2 DEF StickInv
<1>3. CASE Save \/ Logout
  <2>1. KeptInv'
    BY <1>3 DEF Save, Logout, StickInv, KeptInv, Kept, Pending
  <2>2. \A j \in Jobs : GateOf(j)'
    BY <1>3 DEF Save, Logout, StickInv, GateOf
  <2> QED BY <2>1, <2>2 DEF StickInv
<1>4. CASE Part
  <2>1. UNCHANGED <<db, online, job, wrote, excused>> /\ live'.grants = live.grants /\ ~live'.there
    BY <1>4 DEF Part, ShapeInv, PlayerFields
  <2> QED BY <2>1 DEF StickInv, KeptInv, Kept, Pending, GateOf
<1>5. CASE UNCHANGED vars
  BY <1>5 DEF vars, StickInv, KeptInv, Kept, Pending, GateOf
<1> QED
  BY <1>1, <1>2, <1>3, <1>4, <1>5 DEF Next, Idle

(* What an unforced call wrote and reported stays, for any number of calls   *)
(* and logins, save for the races the code leaves open (grant.go:164,        *)
(* item.go:46, charxp.go:26).                                                *)
THEOREM OfflineWriteAlwaysSticks == Spec => []OfflineWriteSticks
<1>1. Init => StickInv
  BY DEF Init, IdleJob, StickInv, KeptInv, GateOf
<1>2. VerbInv /\ StickInv => OfflineWriteSticks
  <2> SUFFICES ASSUME StickInv, NEW j \in Jobs, job[j].pc = "done", job[j].result = "ok",
                      job[j].back = "db", ~job[j].force, j \notin excused
               PROVE  IF job[j].verb = "delete" THEN ~Current.there
                      ELSE job[j].verb = "set" \/ j \in Current.grants[FieldOf(job[j].verb)]
    BY DEF OfflineWriteSticks
  <2>1. j \in wrote /\ job[j].verb \in Additive \cup ItemVerbs
    BY DEF StickInv, GateOf
  <2>2. Kept(j)
    BY <2>1 DEF StickInv, KeptInv
  <2> QED BY <2>1, <2>2 DEF Kept, Current, ItemVerbs
<1> QED
  BY <1>1, <1>2, StepStick, Shape, PTL DEF Spec

-------------------------------------------------------------------------------
(* A set of numbers has a smallest one.                                      *)
LEMMA MinExists ==
  ASSUME NEW T, T \subseteq Nat, NEW n \in T
  PROVE  \E m \in T : \A k \in T : m <= k
<1> DEFINE Ranges == {0..k : k \in {k \in T : k <= n}}
<1>1. n \in Nat
  OBVIOUS
<1>2. IsFiniteSet(0..n)
  BY <1>1, FS_Interval
<1>3. Ranges \subseteq SUBSET (0..n)
  <2>1. ASSUME NEW k \in T, k <= n PROVE 0..k \subseteq 0..n
    BY <1>1, <2>1
  <2> QED BY <2>1
<1>4. 0..n \in Ranges
  <2>1. n \in {k \in T : k <= n}
    BY <1>1
  <2> QED BY <2>1
<1>5. Ranges \subseteq FiniteSubsetsOf(0..n) /\ Ranges # {}
  BY <1>2, <1>3, <1>4, FS_Subset, Zenon DEF FiniteSubsetsOf
<1> HIDE DEF Ranges
<1>6. PICK X \in Ranges : \A Y \in Ranges : <<Y, X>> \notin StrictSubsetOrdering(0..n)
  BY <1>2, <1>5, FS_StrictSubsetOrderingWellFounded, WFMin
<1>7. PICK m \in T : m <= n /\ X = 0..m
  BY <1>6 DEF Ranges
<1>8. ASSUME NEW k \in T, k < m PROVE FALSE
  <2>1. 0..k \in Ranges
    BY <1>1, <1>7, <1>8 DEF Ranges
  <2>2. 0..k \subseteq 0..m /\ 0..k # 0..m
    BY <1>7, <1>8
  <2>3. 0..k \in SUBSET (0..n) /\ X \in SUBSET (0..n)
    BY <1>3, <1>6, <2>1
  <2> QED BY <1>6, <1>7, <2>1, <2>2, <2>3 DEF StrictSubsetOrdering
<1> QED BY <1>7, <1>8

-------------------------------------------------------------------------------
(* One round of the binary search: search is what the rounds below it find.  *)
Round(search, t, xp, lo, hi) ==
  IF lo >= hi THEN lo
  ELSE LET mid == (lo + hi + 1) \div 2 IN
       IF t[mid] <= xp THEN search[mid][hi] ELSE search[lo][mid - 1]

Rounds(search, t, xp) == [lo \in 1..Top |-> [hi \in 0..Top |-> Round(search, t, xp, lo, hi)]]

(* What a round looks at lies in the table, and on less of it.               *)
LEMMA Middle ==
  ASSUME NEW lo \in 1..Top, NEW hi \in 0..Top, lo < hi
  PROVE  /\ (lo + hi + 1) \div 2 \in 1..Top /\ (lo + hi + 1) \div 2 - 1 \in 0..Top
         /\ lo < (lo + hi + 1) \div 2 /\ (lo + hi + 1) \div 2 <= hi
BY TopAssumption

(* f is the search wherever fewer than n levels are left.                    *)
Below(f, t, xp, n) ==
  \A lo \in 1..Top, hi \in 0..Top : hi - lo < n => f[lo][hi] = Round(f, t, xp, lo, hi)

LEMMA RoundsGo ==
  ASSUME NEW t, NEW xp, NEW n \in Nat, NEW f, Below(f, t, xp, n)
  PROVE  Below(Rounds(f, t, xp), t, xp, n + 1)
<1> DEFINE g == Rounds(f, t, xp)
<1>1. ASSUME NEW lo \in 1..Top, NEW hi \in 0..Top PROVE g[lo][hi] = Round(f, t, xp, lo, hi)
  BY DEF Rounds
<1> HIDE DEF g
<1>2. ASSUME NEW lo \in 1..Top, NEW hi \in 0..Top, hi - lo < n PROVE g[lo][hi] = f[lo][hi]
  BY <1>1, <1>2 DEF Below
<1>3. ASSUME NEW lo \in 1..Top, NEW hi \in 0..Top, hi - lo < n + 1
      PROVE  Round(f, t, xp, lo, hi) = Round(g, t, xp, lo, hi)
  <2>1. CASE lo >= hi
    BY <2>1 DEF Round
  <2>2. CASE lo < hi
    <3>1. PICK mid \in 1..Top : /\ mid = (lo + hi + 1) \div 2 /\ mid - 1 \in 0..Top
                                /\ lo < mid /\ mid <= hi
      BY <2>2, Middle
    <3>2. g[mid][hi] = f[mid][hi] /\ g[lo][mid - 1] = f[lo][mid - 1]
      BY <1>2, <1>3, <3>1
    <3>3. Round(f, t, xp, lo, hi) = IF t[mid] <= xp THEN f[mid][hi] ELSE f[lo][mid - 1]
      BY <2>2, <3>1 DEF Round
    <3>4. Round(g, t, xp, lo, hi) = IF t[mid] <= xp THEN g[mid][hi] ELSE g[lo][mid - 1]
      BY <2>2, <3>1 DEF Round
    <3> QED BY <3>2, <3>3, <3>4
  <2> QED BY <2>1, <2>2
<1> QED BY <1>1, <1>3, Zenon DEF Below, g

(* There is a search: the definition of xpToLevel is not empty.              *)
LEMMA SearchExists == ASSUME NEW t, NEW xp PROVE \E f : f = Rounds(f, t, xp)
<1> DEFINE T == {n \in Nat : ~\E f : Below(f, t, xp, n)}
<1>1. T = {}
  <2> SUFFICES ASSUME T # {} PROVE FALSE
    OBVIOUS
  <2>1. PICK m \in T : \A k \in T : m <= k
    BY MinExists
  <2>2. CASE m = 0
    <3> DEFINE f == [lo \in 1..Top |-> [hi \in 0..Top |-> lo]]
    <3>1. Below(f, t, xp, 0)
      BY DEF Below, Round
    <3> QED BY <2>1, <2>2, <3>1
  <2>3. CASE m # 0
    <3>1. m - 1 \in Nat /\ m - 1 \notin T
      BY <2>1, <2>3
    <3>2. PICK f : Below(f, t, xp, m - 1)
      BY <3>1
    <3>3. Below(Rounds(f, t, xp), t, xp, (m - 1) + 1)
      BY <3>1, <3>2, RoundsGo
    <3> QED BY <2>1, <3>3
  <2> QED BY <2>2, <2>3
<1>2. PICK f : Below(f, t, xp, Top)
  BY <1>1, TopAssumption
<1> DEFINE g == Rounds(f, t, xp)
<1>3. Below(g, t, xp, Top + 1)
  BY <1>2, RoundsGo, TopAssumption
<1>4. \A lo \in 1..Top, hi \in 0..Top : g[lo][hi] = f[lo][hi]
  BY <1>2, TopAssumption DEF Rounds, Below
<1>5. ASSUME NEW lo \in 1..Top, NEW hi \in 0..Top
      PROVE  Round(f, t, xp, lo, hi) = Round(g, t, xp, lo, hi)
  <2>1. g[lo][hi] = Round(f, t, xp, lo, hi)
    BY DEF Rounds
  <2>2. g[lo][hi] = Round(g, t, xp, lo, hi)
    BY <1>3, TopAssumption DEF Below
  <2> QED BY <2>1, <2>2
<1>6. g = Rounds(g, t, xp)
  BY <1>5, Zenon DEF Rounds
<1> QED BY <1>6

Search(t, xp) == CHOOSE f : f = Rounds(f, t, xp)

LEMMA LevelIsASearch ==
  ASSUME NEW t, NEW xp
  PROVE  xpToLevel(t, xp) = IF xp <= 0 THEN 0 ELSE Search(t, xp)[1][Top]
BY DEF xpToLevel, Search, Rounds, Round

LEMMA SearchRounds ==
  ASSUME NEW t, NEW xp, NEW lo \in 1..Top, NEW hi \in 0..Top
  PROVE  Search(t, xp)[lo][hi] = Round(Search(t, xp), t, xp, lo, hi)
<1>1. Search(t, xp) = Rounds(Search(t, xp), t, xp)
  BY SearchExists, Zenon DEF Search
<1> DEFINE s == Search(t, xp)
<1> HIDE DEF s
<1>2. s = Rounds(s, t, xp)
  BY <1>1 DEF s
<1>3. ASSUME NEW f, f = Rounds(s, t, xp) PROVE f[lo][hi] = Round(s, t, xp, lo, hi)
  BY <1>3 DEF Rounds
<1>4. s[lo][hi] = Round(s, t, xp, lo, hi)
  BY <1>2, <1>3
<1> QED BY <1>4 DEF s

-------------------------------------------------------------------------------
(* The level lies between lo and hi: lo is reached, what is above hi is not. *)
Between(t, xp, lo, hi) ==
  /\ lo <= hi
  /\ lo = 1 \/ t[lo] <= xp
  /\ \A l \in 1..Top : hi < l => ~(t[l] <= xp)

Highest(t, xp, level) ==
  /\ level \in 1..Top
  /\ level = 1 \/ t[level] <= xp
  /\ \A l \in 1..Top : level < l => ~(t[l] <= xp)

LEMMA SearchFinds ==
  ASSUME NEW t, t \in [0..Top -> Nat], \A k, l \in 0..Top : k < l => t[k] < t[l],
         NEW xp \in Nat, NEW lo \in 1..Top, NEW hi \in 0..Top, Between(t, xp, lo, hi)
  PROVE  Highest(t, xp, Search(t, xp)[lo][hi])
<1> DEFINE s == Search(t, xp)
           Misses(n) == \E l \in 1..Top, h \in 0..Top :
                          h - l = n /\ Between(t, xp, l, h) /\ ~Highest(t, xp, s[l][h])
           T == {n \in Nat : Misses(n)}
<1>1. \A l \in 1..Top, h \in 0..Top : s[l][h] = Round(s, t, xp, l, h)
  BY SearchRounds
<1> HIDE DEF s
<1>2. T = {}
  <2> SUFFICES ASSUME T # {} PROVE FALSE
    OBVIOUS
  <2>1. PICK n \in T : \A k \in T : n <= k
    BY MinExists
  <2>2. PICK l \in 1..Top, h \in 0..Top :
          h - l = n /\ Between(t, xp, l, h) /\ ~Highest(t, xp, s[l][h])
    BY <2>1
  <2>5. ASSUME NEW a \in 1..Top, NEW b \in 0..Top, a <= b, b - a < h - l,
               Between(t, xp, a, b)
        PROVE  Highest(t, xp, s[a][b])
    <3> HIDE DEF T, Misses
    <3>1. a \in Int /\ b \in Int /\ l \in Int /\ h \in Int
      BY TopAssumption
    <3>2. b - a \in Nat /\ b - a < n
      BY <2>2, <2>5, <3>1
    <3>3. b - a \notin T
      BY <2>1, <2>2, <3>1, <3>2
    <3>4. ~Misses(b - a)
      BY <3>2, <3>3 DEF T
    <3> QED BY <2>5, <3>4 DEF Misses
  <2>3. CASE l >= h
    <3>1. s[l][h] = l /\ l = h
      BY <1>1, <2>2, <2>3 DEF Round, Between
    <3> QED BY <2>2, <3>1 DEF Between, Highest
  <2>4. CASE l < h
    <3>1. PICK mid \in 1..Top : /\ mid = (l + h + 1) \div 2 /\ mid - 1 \in 0..Top
                                /\ l < mid /\ mid <= h
      BY <2>4, Middle
    <3>2. s[l][h] = IF t[mid] <= xp THEN s[mid][h] ELSE s[l][mid - 1]
      BY <1>1, <2>4, <3>1 DEF Round
    <3>3. CASE t[mid] <= xp
      <4>1. Between(t, xp, mid, h)
        BY <2>2, <3>1, <3>3 DEF Between
      <4>2. mid <= h /\ h - mid < h - l
        BY <3>1, TopAssumption
      <4>3. Highest(t, xp, s[mid][h])
        BY <2>5, <4>1, <4>2, Zenon
      <4> QED BY <2>2, <3>2, <3>3, <4>3
    <3>4. CASE ~(t[mid] <= xp)
      <4>1. \A k \in 1..Top : mid <= k => ~(t[k] <= xp)
        <5> SUFFICES ASSUME NEW k \in 1..Top, mid <= k PROVE ~(t[k] <= xp)
          OBVIOUS
        <5>2. CASE k = mid
          BY <3>4, <5>2
        <5>3. CASE mid < k
          <6>1. mid \in 0..Top /\ k \in 0..Top
            BY TopAssumption
          <6>2. t[mid] < t[k]
            BY <5>3, <6>1
          <6>3. t[mid] \in Nat /\ t[k] \in Nat
            BY <6>1
          <6> QED BY <3>4, <6>2, <6>3
        <5> QED BY <3>1, <5>2, <5>3
      <4>2. Between(t, xp, l, mid - 1)
        BY <2>2, <3>1, <4>1 DEF Between
      <4>3. l <= mid - 1 /\ (mid - 1) - l < h - l
        BY <3>1, TopAssumption
      <4>4. Highest(t, xp, s[l][mid - 1])
        BY <2>5, <3>1, <4>2, <4>3, Zenon
      <4> QED BY <2>2, <3>2, <3>4, <4>4
    <3> QED BY <3>3, <3>4
  <2> QED BY <2>2, <2>3, <2>4
<1>3. hi - lo \in Nat
  BY DEF Between
<1>4. Highest(t, xp, s[lo][hi])
  BY <1>2, <1>3
<1> QED BY <1>4 DEF s

(* Increasing from each level to the next is increasing.                     *)
LEMMA TablesIncrease ==
  ASSUME NEW t \in Tables
  PROVE  /\ t \in [0..Top -> Nat]
         /\ \A k, l \in 0..Top : k < l => t[k] < t[l]
<1>1. t \in [0..Top -> Nat]
  BY AwardsAssumption DEF Tables
<1>2. ASSUME NEW k \in 0..Top PROVE \A l \in 0..Top : k < l => t[k] < t[l]
  <2> DEFINE T == {l \in Nat : l \in 0..Top /\ k < l /\ ~(t[k] < t[l])}
  <2> SUFFICES ASSUME T # {} PROVE FALSE
    BY TopAssumption
  <2>1. PICK m \in T : \A l \in T : m <= l
    BY MinExists
  <2>2. m - 1 \in 0..Top /\ m \in 1..Top
    BY <2>1, TopAssumption
  <2>6. t[m - 1] < t[m]
    BY <2>2 DEF Tables
  <2>3. t[k] \in Nat /\ t[m] \in Nat /\ t[m - 1] \in Nat
    BY <1>1, <2>1, <2>2
  <2>4. CASE k = m - 1
    BY <2>1, <2>6, <2>4
  <2>5. CASE k < m - 1
    <3>1. m - 1 \notin T
      BY <2>1, <2>2
    <3>2. t[k] < t[m - 1]
      BY <2>2, <2>5, <3>1
    <3> QED BY <2>1, <2>6, <2>3, <3>2
  <2> QED BY <2>1, <2>4, <2>5
<1> QED BY <1>1, <1>2

LEMMA LevelFound ==
  ASSUME NEW t \in Tables, NEW xp \in Nat PROVE LevelIsTheHighestReached(t, xp)
<1>1. t \in [0..Top -> Nat] /\ \A k, l \in 0..Top : k < l => t[k] < t[l]
  BY TablesIncrease
<1>2. Between(t, xp, 1, Top)
  BY TopAssumption DEF Between
<1>3. Highest(t, xp, Search(t, xp)[1][Top])
  BY <1>1, <1>2, SearchFinds, TopAssumption
<1>4. CASE xp = 0
  BY <1>4, LevelIsASearch DEF LevelIsTheHighestReached
<1>5. CASE xp # 0
  <2> DEFINE level == xpToLevel(t, xp)
             reached == {l \in 1..Top : l = 1 \/ t[l] <= xp}
  <2>1. level = Search(t, xp)[1][Top]
    BY <1>5, LevelIsASearch
  <2> HIDE DEF level
  <2>2. level \in reached /\ \A l \in reached : l <= level
    BY <1>3, <2>1 DEF Highest
  <2> QED BY <1>5, <2>2 DEF LevelIsTheHighestReached, level
<1> QED BY <1>4, <1>5

-------------------------------------------------------------------------------
LEMMA PointsAreNumbers == ASSUME NEW kind PROVE KeystonePoints(kind) \in Nat
BY DEF KeystonePoints

(* sum is the sum over the keystones before the n-th.                        *)
SumsTo(sum, kinds, n) ==
  \A i \in 0..Len(kinds) :
    i < n => sum[i] = IF i = 0 THEN 0 ELSE sum[i - 1] + KeystonePoints(kinds[i])

Sums(sum, kinds) ==
  [i \in 0..Len(kinds) |-> IF i = 0 THEN 0 ELSE sum[i - 1] + KeystonePoints(kinds[i])]

LEMMA SumsGo ==
  ASSUME NEW kinds, Len(kinds) \in Nat, NEW n \in Nat, NEW sum, SumsTo(sum, kinds, n)
  PROVE  SumsTo(Sums(sum, kinds), kinds, n + 1)
<1> DEFINE g == Sums(sum, kinds)
<1>1. ASSUME NEW i \in 0..Len(kinds)
      PROVE  g[i] = IF i = 0 THEN 0 ELSE sum[i - 1] + KeystonePoints(kinds[i])
  BY DEF Sums
<1> HIDE DEF g
<1>2. ASSUME NEW i \in 0..Len(kinds), i < n PROVE g[i] = sum[i]
  BY <1>1, <1>2 DEF SumsTo
<1>3. ASSUME NEW i \in 0..Len(kinds), i < n + 1
      PROVE  g[i] = IF i = 0 THEN 0 ELSE g[i - 1] + KeystonePoints(kinds[i])
  <2>1. CASE i = 0
    BY <1>1, <2>1
  <2>2. CASE i # 0
    <3>1. i - 1 \in 0..Len(kinds) /\ i - 1 < n
      BY <1>3, <2>2
    <3>2. g[i - 1] = sum[i - 1]
      BY <1>2, <3>1
    <3> QED BY <1>1, <2>2, <3>2
  <2> QED BY <2>1, <2>2
<1> QED BY <1>3, Zenon DEF SumsTo, g

LEMMA BonusIsANumber ==
  ASSUME NEW kinds, Len(kinds) \in Nat PROVE keystoneSPBonus(kinds) \in Nat
<1> DEFINE T == {n \in Nat : ~\E sum : SumsTo(sum, kinds, n)}
<1>1. T = {}
  <2> SUFFICES ASSUME T # {} PROVE FALSE
    OBVIOUS
  <2>1. PICK m \in T : \A k \in T : m <= k
    BY MinExists
  <2>2. CASE m = 0
    <3>1. SumsTo(0, kinds, 0)
      BY DEF SumsTo
    <3> QED BY <2>1, <2>2, <3>1
  <2>3. CASE m # 0
    <3>1. m - 1 \in Nat /\ m - 1 \notin T
      BY <2>1, <2>3
    <3>2. PICK sum : SumsTo(sum, kinds, m - 1)
      BY <3>1
    <3>3. SumsTo(Sums(sum, kinds), kinds, (m - 1) + 1)
      BY <3>1, <3>2, SumsGo
    <3> QED BY <2>1, <3>3
  <2> QED BY <2>2, <2>3
<1>2. PICK f : SumsTo(f, kinds, Len(kinds) + 1)
  <2>1. Len(kinds) + 1 \in Nat /\ Len(kinds) + 1 \notin T
    BY <1>1
  <2> QED BY <2>1
<1> DEFINE g == Sums(f, kinds)
           Sum == CHOOSE sum : sum = Sums(sum, kinds)
<1>3. g = Sums(g, kinds)
  <2>1. ASSUME NEW i \in 0..Len(kinds) PROVE g[i] = f[i]
    BY <1>2 DEF Sums, SumsTo
  <2>2. ASSUME NEW i \in 0..Len(kinds), i # 0 PROVE g[i - 1] = f[i - 1]
    <3>1. i - 1 \in 0..Len(kinds)
      BY <2>2
    <3> QED BY <2>1, <3>1
  <2> HIDE DEF g
  <2>3. ASSUME NEW i \in 0..Len(kinds)
        PROVE  (IF i = 0 THEN 0 ELSE f[i - 1] + KeystonePoints(kinds[i]))
                 = IF i = 0 THEN 0 ELSE g[i - 1] + KeystonePoints(kinds[i])
    BY <2>2
  <2>4. Sums(f, kinds) = Sums(g, kinds)
    BY <2>3, Zenon DEF Sums
  <2> QED BY <2>4 DEF g
<1> HIDE DEF g
<1>4. Sum = Sums(Sum, kinds)
  BY <1>3, Zenon
<1>5. keystoneSPBonus(kinds) = Sum[Len(kinds)]
  BY DEF keystoneSPBonus, Sums
<1> HIDE DEF Sum
<1>6. ASSUME NEW i \in 0..Len(kinds)
      PROVE  Sum[i] = IF i = 0 THEN 0 ELSE Sum[i - 1] + KeystonePoints(kinds[i])
  <2>1. ASSUME NEW h, h = Sums(Sum, kinds)
        PROVE  h[i] = IF i = 0 THEN 0 ELSE Sum[i - 1] + KeystonePoints(kinds[i])
    BY <2>1 DEF Sums
  <2> QED BY <1>4, <2>1
<1> DEFINE U == {n \in Nat : n \in 0..Len(kinds) /\ Sum[n] \notin Nat}
<1>7. U = {}
  <2> SUFFICES ASSUME U # {} PROVE FALSE
    OBVIOUS
  <2>1. PICK m \in U : \A k \in U : m <= k
    BY MinExists
  <2>2. m # 0
    BY <1>6, <2>1
  <2>3. m - 1 \in 0..Len(kinds) /\ m - 1 \notin U
    BY <2>1, <2>2
  <2>4. Sum[m - 1] \in Nat /\ KeystonePoints(kinds[m]) \in Nat
    BY <2>3, PointsAreNumbers
  <2> QED BY <1>6, <2>1, <2>2, <2>4
<1> QED BY <1>5, <1>7

-------------------------------------------------------------------------------
LEMMA IntelAddsUp == IntelIsTheSumOfRewards
<1> SUFFICES ASSUME NEW level \in 0..200
             PROVE  intelAtLevel(level + 1) - intelAtLevel(level) = Reward(level + 1)
  BY DEF IntelIsTheSumOfRewards
<1> QED BY DEF intelAtLevel, Reward

LEMMA LevelIsANumber ==
  ASSUME NEW t \in Tables, NEW xp \in Nat PROVE xpToLevel(t, xp) \in Nat
<1>1. CASE xp = 0
  BY <1>1, LevelIsASearch
<1>2. CASE xp # 0
  BY <1>2, LevelFound, TopAssumption DEF LevelIsTheHighestReached
<1> QED BY <1>1, <1>2

LEMMA AwardsGo ==
  ASSUME NEW t \in Tables, NEW xp \in Nat, xp <= t[Top] PROVE AwardsAddUp(t, xp)
<1> SUFFICES ASSUME NEW a \in 1..MaxTable, NEW b \in 1..MaxTable, NEW spent \in 0..MaxSpent,
                    NEW kinds \in SeqOf({"Super", "Major", "Plain", "Other"}, MaxKeystones)
    PROVE
    LET bonus == keystoneSPBonus(kinds)
        one   == computeAwardCharXPOutcome(t, xp, spent, bonus, a)
        two   == computeAwardCharXPOutcome(t, one.xp, spent, bonus, b)
        both  == computeAwardCharXPOutcome(t, xp, spent, bonus, a + b)
    IN /\ two = both
       /\ TrackXP(t[Top], TrackXP(t[Top], xp, a), b) = TrackXP(t[Top], xp, a + b)
       /\ one.xp >= xp
       /\ one.unspent + spent + 1 = Most(one.total, spent + 1)
  BY DEF AwardsAddUp
<1>1. a \in Nat /\ b \in Nat /\ spent \in Nat
  BY AwardsAssumption
<1>2. PICK bonus \in Nat : bonus = keystoneSPBonus(kinds)
  <2>1. Len(kinds) \in Nat
    BY AwardsAssumption DEF SeqOf
  <2> QED BY <2>1, BonusIsANumber
<1>3. PICK cap \in Nat : cap = t[Top]
  BY TablesIncrease, TopAssumption
<1> DEFINE one == computeAwardCharXPOutcome(t, xp, spent, bonus, a)
<1>4. PICK x \in Nat : x = Least(xp + a, cap)
  BY <1>1, <1>3 DEF Least
<1>5. x >= xp /\ Least(x + b, cap) = Least(xp + (a + b), cap)
  BY <1>1, <1>3, <1>4 DEF Least
<1>6. PICK level \in Nat : level = xpToLevel(t, x)
  BY LevelIsANumber
<1>7. /\ one.xp = x /\ one.total = level + bonus
      /\ one.unspent = Most(0, level + bonus - spent - 1)
  BY <1>3, <1>4, <1>6 DEF computeAwardCharXPOutcome
<1> HIDE DEF one
<1>8. computeAwardCharXPOutcome(t, x, spent, bonus, b)
        = computeAwardCharXPOutcome(t, xp, spent, bonus, a + b)
  BY <1>3, <1>5, Zenon DEF computeAwardCharXPOutcome
<1>9. TrackXP(cap, TrackXP(cap, xp, a), b) = TrackXP(cap, xp, a + b)
  BY <1>1, <1>3 DEF TrackXP, Most, Least
<1>10. one.unspent + spent + 1 = Most(one.total, spent + 1)
  BY <1>1, <1>7 DEF Most
<1> QED BY <1>2, <1>3, <1>5, <1>7, <1>8, <1>9, <1>10 DEF one

(* A grant of experience comes out right for every number of levels, every   *)
(* experience table, every experience and any number of keystones            *)
(* (gamedb/charxp_calc.go): the search finds the highest level reached, two  *)
(* grants are one grant of the sum, and no point is lost or invented.        *)
THEOREM GrantsAlwaysAddUp == GrantSpec => []GrantsAddUp
<1>1. input \in Grants => GrantsAddUp
  <2> SUFFICES ASSUME input \in Grants PROVE GrantsAddUp
    OBVIOUS
  <2>1. input.table \in Tables /\ input.xp \in Nat
    BY AwardsAssumption DEF Grants
  <2> QED BY <2>1, LevelFound, AwardsGo, IntelAddsUp DEF GrantsAddUp
<1>2. input \in Grants /\ [FALSE]_input => (input \in Grants)'
  OBVIOUS
<1> QED BY <1>1, <1>2, PTL DEF GrantSpec

-------------------------------------------------------------------------------
LEMMA OneMember ==
  ASSUME NEW S, Cardinality(S) = 1, IsFiniteSet(S) PROVE \E x : S = {x}
BY FS_Singleton

LEMMA NamesAreLetters ==
  ASSUME NEW name \in Names PROVE name \in Seq(Letters) /\ DOMAIN name = 1..Len(name)
BY LookupAssumption DEF Names

(* Who is called what was typed matches it.                                  *)
LEMMA ExactIsLike ==
  ASSUME NEW ref \in Names, NEW name \in Names, EqualFold(name, ref) PROVE Like(ref, name)
<1>1. Len(name) = Len(ref) /\ DOMAIN name = DOMAIN ref
  BY NamesAreLetters DEF EqualFold
<1>2. \A i \in DOMAIN name : Fold(name[i]) = Fold(ref[i])
  BY DEF EqualFold
<1>3. Len(ref) <= Len(name)
  BY <1>1, NamesAreLetters
<1> QED BY <1>1, <1>2, <1>3 DEF Like

(* The limit leaves one row only where one player matches.                   *)
LEMMA LoneRow ==
  ASSUME NEW rows, rows \subseteq Nat, IsFiniteSet(rows), NEW i,
         {k \in rows : Cardinality({j \in rows : j < k}) < Limit} = {i}
  PROVE  rows = {i}
<1> DEFINE Before(k) == {j \in rows : j < k}
           kept == {k \in rows : Cardinality(Before(k)) < Limit}
<1>1. i \in rows
  OBVIOUS
<1>2. SUFFICES ASSUME NEW n \in rows \ {i} PROVE FALSE
  BY <1>1
<1>3. PICK m \in rows \ {i} : \A k \in rows \ {i} : m <= k
  BY MinExists
<1>4. Before(m) \subseteq {i}
  <2> SUFFICES ASSUME NEW j \in rows, j < m, j # i PROVE FALSE
    OBVIOUS
  <2>1. m <= j /\ m \in Nat /\ j \in Nat
    BY <1>3
  <2> QED BY <2>1
<1> HIDE DEF Before
<1>5. Cardinality(Before(m)) <= 1 /\ Cardinality(Before(m)) \in Nat
  <2>1. IsFiniteSet({i}) /\ Cardinality({i}) = 1
    BY FS_Singleton
  <2> QED BY <1>4, <2>1, FS_Subset, FS_CardinalityType
<1>6. m \in kept
  BY <1>3, <1>5, LimitAssumption
<1>7. kept = {i}
  BY DEF Before
<1> QED BY <1>3, <1>6, <1>7

LEMMA RostersAreRosters ==
  ASSUME NEW players \in Rosters
  PROVE  /\ DOMAIN players \subseteq Nat /\ IsFiniteSet(DOMAIN players)
         /\ \A i \in DOMAIN players : players[i].fls = i /\ players[i].name \in Names
<1>1. PICK names \in SeqOf(Names, Crowd), ids \in FuncomIds : players = Roster(names, ids)
  BY DEF Rosters
<1>2. PICK n \in Nat : names \in [1..n -> Names]
  BY <1>1, LookupAssumption DEF SeqOf
<1>3. Len(names) = n
  BY <1>2
<1>4. DOMAIN players = 1..n /\ \A i \in 1..n : players[i].fls = i /\ players[i].name = names[i]
  BY <1>1, <1>3 DEF Roster
<1>5. IsFiniteSet(1..n)
  BY FS_Interval
<1> QED BY <1>2, <1>4, <1>5

LEMMA ExactWins ==
  ASSUME NEW players \in Rosters, NEW ref \in Names,
         NEW one \in DOMAIN players, EqualFold(players[one].name, ref),
         ResolvePlayerRef(players, ref) # Nobody
  PROVE  \E i \in DOMAIN players :
           EqualFold(players[i].name, ref) /\ ResolvePlayerRef(players, ref) = i
<1> DEFINE all   == {i \in DOMAIN players :
                       Like(ref, players[i].name) \/ Like(ref, players[i].funcom)}
           rows  == PlayerSearch(players, ref, Limit)
           exact == {i \in rows : EqualFold(players[i].name, ref)}
           First(S) == CHOOSE i \in S : TRUE
<1>1. /\ DOMAIN players \subseteq Nat /\ IsFiniteSet(DOMAIN players)
      /\ \A i \in DOMAIN players : players[i].fls = i /\ players[i].name \in Names
  BY RostersAreRosters
<1>2. rows = {i \in all : Cardinality({j \in all : j < i}) < Limit}
  BY DEF PlayerSearch
<1>3. all \subseteq Nat /\ IsFiniteSet(all) /\ one \in all
  BY <1>1, FS_Subset, ExactIsLike
<1>4. rows \subseteq DOMAIN players /\ exact \subseteq rows
  BY <1>2
<1>5. ResolvePlayerRef(players, ref) =
        CASE Cardinality(exact) = 1 -> players[First(exact)].fls
          [] exact = {} /\ Cardinality(rows) = 1 -> players[First(rows)].fls
          [] OTHER -> Nobody
  BY DEF ResolvePlayerRef
<1> HIDE DEF all, rows
<1>6. IsFiniteSet(rows) /\ IsFiniteSet(exact)
  BY <1>1, <1>4, FS_Subset
<1>7. CASE Cardinality(exact) = 1
  <2>1. PICK i : exact = {i}
    BY <1>6, <1>7, OneMember
  <2>2. First(exact) = i
    BY <2>1
  <2>3. i \in DOMAIN players /\ EqualFold(players[i].name, ref)
    BY <1>4, <2>1
  <2>4. exact # {}
    BY <2>1
  <2>5. ResolvePlayerRef(players, ref) = players[i].fls
    <3> HIDE DEF exact, First
    <3> QED BY <1>5, <1>7, <2>2, <2>4
  <2> QED BY <1>1, <2>3, <2>5
<1>8. CASE Cardinality(exact) # 1
  <2>1. exact = {} /\ Cardinality(rows) = 1
    BY <1>5, <1>8
  <2>2. PICK i : rows = {i}
    BY <1>6, <2>1, OneMember
  <2>3. all = {i}
    BY <1>2, <1>3, <2>2, LoneRow
  <2>4. one \in exact
    BY <1>3, <2>2, <2>3
  <2> QED BY <2>1, <2>4
<1> QED BY <1>7, <1>8

(* For every number of players and length of names and every limit above     *)
(* one: the account found is never another than one that is called exactly   *)
(* what was typed (gamedb/resolve.go).                                       *)
THEOREM ExactNameAlwaysWins == CrowdSpec => []ExactNameIsNeverAnother
<1>1. input \in Crowds => ExactNameIsNeverAnother
  <2> SUFFICES ASSUME input \in Crowds PROVE ExactNameIsNeverAnother
    OBVIOUS
  <2>1. input.players \in Rosters
    BY DEF Crowds
  <2> QED BY <2>1, ExactWins DEF ExactNameIsNeverAnother
<1>2. input \in Crowds /\ [FALSE]_input => (input \in Crowds)'
  OBVIOUS
<1> QED BY <1>1, <1>2, PTL DEF CrowdSpec
===============================================================================
