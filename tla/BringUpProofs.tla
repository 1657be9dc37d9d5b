----------------------------- MODULE BringUpProofs -----------------------------
(* Proofs about BringUp for any administrators, nodes, maps and names, and   *)
(* any number of runs.  Then about the edits that a bring-up and the other   *)
(* commands make (Edits), of any resource and of any file.                   *)
EXTENDS BringUp, Edits, FiniteSetTheorems, WellFoundedInduction, SequenceTheorems, TLAPS

(* The shape of an invocation, of a world and of a configuration.            *)
RunFields   == {"pc", "cfg", "ns", "dir", "own", "todo"}
WorldFields == {"id", "title", "has", "tag", "role", "patched", "ports", "enabled"}
CfgFields   == {"name", "sets", "game", "igw"}

ShapeInv ==
  /\ DOMAIN run = Admins
  /\ \A a \in Admins : DOMAIN run[a] = RunFields

(* How much of a world is there: its templates are created in their order.   *)
Created == { {}, {"fls-secret"}, {"fls-secret", "rmq-secret"},
             {"fls-secret", "rmq-secret", "world-template"} }

WorldInv ==
  worlds # <<>> =>
    /\ worlds = <<worlds[1]>> /\ DOMAIN worlds[1] = WorldFields
    /\ worlds[1].has \in Created
    /\ worlds[1].patched \in 0..3

ConfigInv ==
  /\ config # <<>> => config = <<config[1]>> /\ "name" \in DOMAIN config[1]
  /\ config = <<>> => worlds = <<>>
  /\ ~overruled /\ worlds # <<>> => config[1].name = worlds[1].title

Dirs == {"battlegroup", "prerequisites"}

(* The images that a run has fetched once it goes on: all that the depot has. *)
Fetched ==
  /\ Nodes \X {"prerequisites"} \subseteq images
  /\ tars => Nodes \X {"battlegroup"} \subseteq images

(* The points of a run, and what each has behind it.                         *)
Patching == {"reconcile", "patch", "ports", "sets"}
Tagged   == {"init-db"} \cup Patching
Loaded   == {"tags"} \cup Tagged
Loading  == {"serve", "import"}
Gated    == {"create", "template"} \cup Loading \cup Loaded
Kept     == {"secret", "gate"} \cup Gated

RunOf(a) ==
  /\ run[a].pc \in {"idle", "failed", "ok", "resolve", "promote"} \cup Kept
  /\ run[a].pc \in {"promote"} \cup Kept => DOMAIN run[a].cfg = CfgFields
  /\ run[a].pc = "promote" /\ ~overruled /\ config # <<>> => run[a].cfg.name = config[1].name
  /\ run[a].pc \in Kept => config = <<ToData(run[a].cfg)>>
  /\ run[a].pc \in {"gate"} \cup Gated => secret
  /\ run[a].pc = "create" => worlds = <<>>
  /\ run[a].pc = "template" => worlds # <<>> /\ ~HasResource(worlds[1])
  /\ run[a].pc \in Loading => run[a].dir \in Dirs
  /\ run[a].pc = "import" /\ (tars \/ run[a].dir = "prerequisites") =>
       \A n \in Nodes \ run[a].todo : <<n, run[a].dir>> \in images
  /\ run[a].pc \in Loading /\ run[a].dir = "prerequisites" /\ tars =>
       \A n \in Nodes : <<n, "battlegroup">> \in images
  /\ run[a].pc \in Loaded => Fetched
  /\ run[a].pc \in Loaded \ {"sets"} => run[a].todo = {}
  /\ run[a].pc \in Tagged => worlds # <<>> /\ HasResource(worlds[1]) /\ worlds[1].tag # "placeholder"
  /\ run[a].pc \in Patching => worlds[1].role
  /\ run[a].pc \in {"ports", "sets"} => worlds[1].patched = 3
  /\ run[a].pc = "sets" =>
       /\ run[a].cfg.game /\ run[a].cfg.igw => worlds[1].ports
       /\ run[a].todo \subseteq worlds[1].enabled

(* While no two runs overlapped, at most one is active.                      *)
Sole == \A a, b \in Admins : Active(a) /\ Active(b) => a = b

Serial == Sole /\ WorldInv /\ ConfigInv /\ \A a \in Admins : RunOf(a)

SerialInv == ShapeInv /\ (~overlapped => Serial)

USE DEF ShapeInv, RunFields, WorldFields, CfgFields, Created, Active, At, Go, Fetched

(* What is replaced in a sequence of one, and what is put before or after    *)
(* none.                                                                     *)
LEMMA OneExcept ==
  ASSUME NEW s, s = <<s[1]>>, NEW w
  PROVE  /\ [s EXCEPT ![1] = w] = <<w>> /\ DOMAIN s = {1}
         /\ s # <<>> /\ Len(s) = 1
OBVIOUS

LEMMA OneAdded == ASSUME NEW w PROVE <<w>> \o <<>> = <<w>> /\ <<>> \o <<w>> = <<w>> /\ <<w>> # <<>>
OBVIOUS

(* The record of a configuration has its name.                               *)
LEMMA DataName ==
  ASSUME NEW c PROVE "name" \in DOMAIN ToData(c) /\ ToData(c).name = c.name
BY DEF ToData

LEMMA NoConfigName ==
  ASSUME NEW d, "name" \in DOMAIN d PROVE FromData(d).name = d.name
BY DEF FromData, Blank

LEMMA InitSerial == Init => SerialInv
<1> SUFFICES ASSUME Init PROVE SerialInv
  OBVIOUS
<1>1. ConfigInv
  <2>1. CASE config = <<>>
    BY <2>1 DEF Init, ConfigInv
  <2>2. ASSUME NEW n, NEW p, config = <<ToData([name |-> n, sets |-> Maps, game |-> TRUE, igw |-> p])>>
        PROVE  ConfigInv
    <3> DEFINE c == [name |-> n, sets |-> Maps, game |-> TRUE, igw |-> p]
    <3>1. config = <<ToData(c)>> /\ "name" \in DOMAIN ToData(c)
      BY <2>2, DataName
    <3> HIDE DEF c
    <3>2. config # <<>> /\ config[1] = ToData(c) /\ config = <<config[1]>>
      BY <3>1
    <3>3. worlds = <<>>
      BY DEF Init
    <3> QED BY <3>1, <3>2, <3>3 DEF ConfigInv
  <2> QED BY <2>1, <2>2 DEF Init
<1> QED
  BY <1>1 DEF Init, Idle, SerialInv, Serial, Sole, WorldInv, RunOf, Kept, Gated, Loading, Loaded,
              Tagged, Patching

-----------------------------------------------------------------------------
(* A step of a run: the run is active, and no other is touched.              *)
Step(a) ==
  \/ \E name \in Names \cup {NoName} : Resolve(a, name)
  \/ SaveConfigMap(a) \/ SaveSecret(a) \/ Gate(a) \/ CreateNamespace(a) \/ CreateWorld(a) \/ Serve(a) \/ LoadViaHTTP(a)
  \/ KillServer(a) \/ ReconcileImageTags(a) \/ InitDB(a) \/ PatchBattleGroup(a) \/ PatchGamePorts(a)
  \/ EnableSet(a) \/ Done(a) \/ Abort(a)

Framed(a) ==
  /\ Active(a)
  /\ DOMAIN run' = Admins /\ DOMAIN run'[a] = RunFields
  /\ \A b \in Admins : b # a => run'[b] = run[b]
  /\ UNCHANGED <<staged, tars, overlapped>>

USE DEF OnFirst, Cluster, Rest

LEMMA StepFrames == ASSUME ShapeInv, NEW a \in Admins, Step(a) PROVE Framed(a)
<1> USE DEF Framed
<1>1. ASSUME NEW name, Resolve(a, name) PROVE Framed(a)
  BY <1>1 DEF Resolve
<1>2. ASSUME SaveConfigMap(a) PROVE Framed(a)
  BY <1>2 DEF SaveConfigMap
<1>3. ASSUME SaveSecret(a) PROVE Framed(a)
  BY <1>3 DEF SaveSecret
<1>4. ASSUME Gate(a) PROVE Framed(a)
  BY <1>4 DEF Gate
<1>5. ASSUME CreateNamespace(a) PROVE Framed(a)
  BY <1>5 DEF CreateNamespace
<1>6. ASSUME CreateWorld(a) PROVE Framed(a)
  BY <1>6 DEF CreateWorld
<1>7. ASSUME Serve(a) PROVE Framed(a)
  BY <1>7 DEF Serve
<1>8. ASSUME LoadViaHTTP(a) PROVE Framed(a)
  BY <1>8 DEF LoadViaHTTP
<1>9. ASSUME KillServer(a) PROVE Framed(a)
  BY <1>9 DEF KillServer
<1>10. ASSUME ReconcileImageTags(a) PROVE Framed(a)
  BY <1>10 DEF ReconcileImageTags
<1>11. ASSUME InitDB(a) PROVE Framed(a)
  BY <1>11 DEF InitDB
<1>12. ASSUME PatchBattleGroup(a) PROVE Framed(a)
  BY <1>12 DEF PatchBattleGroup
<1>13. ASSUME PatchGamePorts(a) PROVE Framed(a)
  BY <1>13 DEF PatchGamePorts
<1>14. ASSUME EnableSet(a) PROVE Framed(a)
  BY <1>14 DEF EnableSet
<1>15. ASSUME Done(a) PROVE Framed(a)
  BY <1>15 DEF Done, Idle
<1>16. ASSUME Abort(a) PROVE Framed(a)
  BY <1>16 DEF Abort, Idle
<1> QED
  BY <1>1, <1>2, <1>3, <1>4, <1>5, <1>6, <1>7, <1>8, <1>9, <1>10, <1>11, <1>12, <1>13, <1>14, <1>15, <1>16 DEF Step

(* The runs that are not under way stay as they are.                         *)
LEMMA OthersKept ==
  ASSUME ShapeInv, Serial, NEW a \in Admins, Framed(a), NEW b \in Admins, b # a
  PROVE  RunOf(b)'
BY DEF Framed, Serial, Sole, RunOf, Kept, Gated, Loading, Loaded, Tagged, Patching

LEMMA StillSole == ASSUME ShapeInv, Sole, NEW a \in Admins, Framed(a) PROVE Sole'
BY DEF Framed, Sole

(* The one world that is there is replaced by itself, further on.            *)
LEMMA FirstKept ==
  ASSUME WorldInv, ConfigInv, worlds # <<>>, UNCHANGED <<config, overruled>>,
         NEW w, worlds' = [worlds EXCEPT ![1] = w],
         DOMAIN w = WorldFields, w.title = worlds[1].title, w.has \in Created, w.patched \in 0..3
  PROVE  worlds' # <<>> /\ worlds'[1] = w /\ WorldInv' /\ ConfigInv'
<1>1. worlds' = <<w>> /\ worlds' # <<>> /\ worlds'[1] = w
  BY OneExcept DEF WorldInv
<1> QED
  BY <1>1 DEF WorldInv, ConfigInv

LEMMA TwoNames == Cardinality({"fls-secret", "rmq-secret"}) = 2
<1>1. IsFiniteSet({"fls-secret"}) /\ Cardinality({"fls-secret"}) = 1
  BY FS_Singleton
<1>2. {"fls-secret", "rmq-secret"} = {"fls-secret"} \cup {"rmq-secret"}
  OBVIOUS
<1> QED
  BY <1>1, <1>2, FS_AddElement

(* What every step keeps of the world and of the configuration.              *)
Behind == WorldInv' /\ ConfigInv'

LEMMA StepKeeps ==
  ASSUME ShapeInv, Serial, NEW a \in Admins, Step(a)
  PROVE  Behind /\ RunOf(a)'
<1> DEFINE Goal == Behind /\ RunOf(a)'
<1> USE DEF RunOf, Kept, Gated, Loading, Loaded, Tagged, Patching
<1>0. WorldInv /\ ConfigInv /\ RunOf(a)
  BY DEF Serial
<1>1. ASSUME NEW name, Resolve(a, name) PROVE Goal
  <2>1. UNCHANGED <<config, worlds, secret, staged, tars>> /\ run'[a].pc = "promote"
    BY <1>1 DEF Resolve
  <2>2. run'[a].cfg = Merge(IF config = <<>> THEN Blank ELSE FromData(config[1]), name)
    BY <1>1 DEF Resolve
  <2>3. ~overruled' => ~overruled
    BY <1>1 DEF Resolve
  <2>4. DOMAIN run'[a].cfg = CfgFields
    BY <2>2 DEF Merge, FromData, Blank
  <2>5. ASSUME ~overruled', config # <<>> PROVE run'[a].cfg.name = config[1].name
    <3>1. FromData(config[1]).name = config[1].name
      BY <1>0, <2>5, NoConfigName DEF ConfigInv
    <3>2. ~diffKeys(name, FromData(config[1]))
      BY <1>1, <2>5 DEF Resolve
    <3>3. DOMAIN FromData(config[1]) = CfgFields
      BY DEF FromData, Blank
    <3> QED BY <2>2, <2>5, <3>1, <3>2, <3>3 DEF Merge, diffKeys
  <2>6. Behind
    BY <1>0, <2>1, <2>3 DEF Behind, WorldInv, ConfigInv
  <2> QED BY <2>1, <2>4, <2>5, <2>6
<1>2. ASSUME SaveConfigMap(a) PROVE Goal
  <2>1. /\ config' = <<ToData(run[a].cfg)>> /\ UNCHANGED <<worlds, secret, staged, tars, overruled>>
        /\ run'[a].pc = "secret" /\ run'[a].cfg = run[a].cfg
    BY <1>2 DEF SaveConfigMap
  <2>2. config' # <<>> /\ config'[1] = ToData(run[a].cfg)
    BY <2>1
  <2>3. "name" \in DOMAIN config'[1] /\ config'[1].name = run[a].cfg.name
    BY <2>2, DataName
  <2>4. ~overruled /\ worlds # <<>> => run[a].cfg.name = worlds[1].title
    BY <1>0, <1>2 DEF SaveConfigMap, ConfigInv
  <2>5. Behind
    BY <1>0, <2>1, <2>2, <2>3, <2>4 DEF Behind, WorldInv, ConfigInv
  <2> QED BY <1>0, <2>1, <2>5, <1>2 DEF SaveConfigMap
<1>3. ASSUME CreateNamespace(a) PROVE Goal
  <2> DEFINE new == [id |-> uniqueName, title |-> run[a].cfg.name, has |-> {},
                     tag |-> "placeholder", role |-> FALSE, patched |-> 0, ports |-> FALSE,
                     enabled |-> {}]
  <2>1. worlds = <<>>
    BY <1>0, <1>3 DEF CreateNamespace
  <2>2. worlds' = <<new>>
    BY <2>1, <1>3, OneAdded DEF CreateNamespace
  <2>3. /\ UNCHANGED <<config, secret, staged, tars, overruled>>
        /\ run'[a].pc = "template" /\ run'[a].cfg = run[a].cfg
    BY <1>3 DEF CreateNamespace
  <2>4. /\ DOMAIN new = WorldFields /\ new.title = run[a].cfg.name /\ new.has = {}
        /\ new.patched = 0
    OBVIOUS
  <2> HIDE DEF new
  <2>5. worlds' # <<>> /\ worlds'[1] = new
    BY <2>2
  <2>6. config[1] = ToData(run[a].cfg) /\ config # <<>>
    BY <1>0, <1>3 DEF CreateNamespace
  <2>7. config[1].name = new.title
    BY <2>4, <2>6, DataName
  <2>8. Behind
    BY <1>0, <2>2, <2>3, <2>4, <2>5, <2>6, <2>7 DEF Behind, WorldInv, ConfigInv
  <2> QED BY <1>0, <2>3, <2>4, <2>5, <2>8, <1>3 DEF CreateNamespace, HasResource
<1>4. ASSUME CreateWorld(a) PROVE Goal
  <2>1. worlds # <<>> /\ ~HasResource(worlds[1]) /\ worlds = <<worlds[1]>> /\ DOMAIN worlds = {1}
    BY <1>0, <1>4, OneExcept DEF CreateWorld, WorldInv
  <2> DEFINE name == templateNames[Cardinality(worlds[1].has) + 1]
             w    == [worlds[1] EXCEPT !.has = @ \cup {name}]
             last == Cardinality(worlds[1].has) + 1 = Len(templateNames)
  <2> PICK i \in DOMAIN worlds :
        LET next == worlds[i].has
            nm   == templateNames[Cardinality(next) + 1]
        IN /\ At(a, "template") /\ staged
           /\ worlds[i].id = run[a].ns
           /\ worlds' = [worlds EXCEPT ![i].has = @ \cup {nm}]
           /\ run' = IF Cardinality(next) + 1 = Len(templateNames)
                     THEN [run EXCEPT ![a].pc = "serve", ![a].dir = "battlegroup"]
                     ELSE run
           /\ UNCHANGED <<config, secret, images, http, Rest, overruled>>
    BY <1>4 DEF CreateWorld
  <2>0. i = 1
    BY <2>1
  <2>2. /\ worlds' = [worlds EXCEPT ![1].has = @ \cup {name}]
        /\ run' = IF last THEN [run EXCEPT ![a].pc = "serve", ![a].dir = "battlegroup"] ELSE run
        /\ UNCHANGED <<config, secret, images, staged, tars, overruled>> /\ At(a, "template")
    BY <2>0
  <2>3. worlds' = [worlds EXCEPT ![1] = w]
    BY <2>2
  <2>4. /\ worlds[1].has = {} => name = "fls-secret" /\ ~last
        /\ worlds[1].has = {"fls-secret"} => name = "rmq-secret" /\ ~last
        /\ worlds[1].has = {"fls-secret", "rmq-secret"} => name = "world-template" /\ last
    <3>1. Len(templateNames) = 3 /\ templateNames[1] = "fls-secret"
          /\ templateNames[2] = "rmq-secret" /\ templateNames[3] = "world-template"
      BY DEF templateNames
    <3>2. /\ Cardinality({}) = 0 /\ Cardinality({"fls-secret"}) = 1
          /\ Cardinality({"fls-secret", "rmq-secret"}) = 2
      BY FS_EmptySet, FS_Singleton, TwoNames
    <3>3. CASE worlds[1].has = {}
      BY <3>1, <3>2, <3>3
    <3>4. CASE worlds[1].has = {"fls-secret"}
      BY <3>1, <3>2, <3>4
    <3>5. CASE worlds[1].has = {"fls-secret", "rmq-secret"}
      BY <3>1, <3>2, <3>5
    <3> QED BY <3>3, <3>4, <3>5
  <2>5. /\ DOMAIN w = WorldFields /\ w.title = worlds[1].title /\ w.patched = worlds[1].patched
        /\ w.has = worlds[1].has \cup {name}
    BY <1>0, <2>1 DEF WorldInv
  <2>6. w.has \in Created /\ (~last => ~HasResource(w))
    BY <1>0, <2>1, <2>4, <2>5 DEF WorldInv, HasResource
  <2> HIDE DEF w, last, name
  <2>7. Behind /\ worlds' # <<>> /\ worlds'[1] = w
    BY <1>0, <2>1, <2>2, <2>3, <2>5, <2>6, FirstKept DEF Behind, WorldInv
  <2>8. CASE last
    <3>1. run' = [run EXCEPT ![a].pc = "serve", ![a].dir = "battlegroup"]
      BY <2>2, <2>8
    <3>2. run'[a].pc = "serve" /\ run'[a].dir = "battlegroup" /\ run'[a].cfg = run[a].cfg
      BY <3>1
    <3> QED BY <1>0, <2>2, <2>7, <3>2 DEF Dirs
  <2>9. CASE ~last
    <3>1. run' = run /\ run[a].pc = "template"
      BY <2>2, <2>9
    <3>2. ~HasResource(worlds'[1])
      BY <2>6, <2>7, <2>9 DEF HasResource
    <3> QED BY <1>0, <2>2, <2>7, <3>1, <3>2 DEF HasResource
  <2> QED BY <2>8, <2>9
<1>5. ASSUME ReconcileImageTags(a) PROVE Goal
  <2>1. worlds # <<>> /\ HasResource(worlds[1]) /\ UNCHANGED <<config, secret, images, staged, tars, overruled>>
    BY <1>5 DEF ReconcileImageTags
  <2> DEFINE w == [worlds[1] EXCEPT !.tag = IF @ = "placeholder" THEN "depot" ELSE @]
  <2>2. worlds' = [worlds EXCEPT ![1] = w]
    BY <1>5 DEF ReconcileImageTags
  <2>3. /\ DOMAIN w = WorldFields /\ w.title = worlds[1].title /\ w.has = worlds[1].has
        /\ w.patched \in 0..3
    BY <1>0, <2>1, <1>5 DEF WorldInv, ReconcileImageTags
  <2>4. Behind /\ worlds' # <<>> /\ worlds'[1] = w
    BY <1>0, <2>1, <2>2, <2>3, FirstKept DEF Behind, WorldInv
  <2> QED BY <1>0, <2>1, <2>3, <2>4, <1>5 DEF ReconcileImageTags, HasResource, WorldInv
<1>6. ASSUME InitDB(a) PROVE Goal
  <2>1. worlds # <<>> /\ HasResource(worlds[1]) /\ UNCHANGED <<config, secret, images, staged, tars, overruled>>
    BY <1>6 DEF InitDB
  <2> DEFINE w == [worlds[1] EXCEPT !.role = TRUE]
  <2>2. worlds' = [worlds EXCEPT ![1] = w]
    BY <1>6 DEF InitDB
  <2>3. /\ DOMAIN w = WorldFields /\ w.title = worlds[1].title /\ w.has = worlds[1].has
        /\ w.patched \in 0..3
    BY <1>0, <2>1, <1>6 DEF WorldInv, InitDB
  <2>4. Behind /\ worlds' # <<>> /\ worlds'[1] = w
    BY <1>0, <2>1, <2>2, <2>3, FirstKept DEF Behind, WorldInv
  <2> QED BY <1>0, <2>1, <2>3, <2>4, <1>6 DEF InitDB, HasResource, WorldInv
<1>7. ASSUME PatchBattleGroup(a), worlds[1].patched < Len(HostPatches) PROVE Goal
  <2>1. worlds # <<>> /\ HasResource(worlds[1]) /\ UNCHANGED <<config, secret, images, staged, tars, overruled>>
    BY <1>7 DEF PatchBattleGroup, HostPatches
  <2> DEFINE w == [worlds[1] EXCEPT !.patched = @ + 1]
  <2>2. worlds' = [worlds EXCEPT ![1] = w]
    BY <1>7 DEF PatchBattleGroup, HostPatches
  <2>3. /\ DOMAIN w = WorldFields /\ w.title = worlds[1].title /\ w.has = worlds[1].has
        /\ w.patched \in 0..3
    BY <1>0, <2>1, <1>7 DEF WorldInv, PatchBattleGroup, HostPatches
  <2>4. Behind /\ worlds' # <<>> /\ worlds'[1] = w
    BY <1>0, <2>1, <2>2, <2>3, FirstKept DEF Behind, WorldInv
  <2> QED BY <1>0, <2>1, <2>3, <2>4, <1>7 DEF PatchBattleGroup, HostPatches, HasResource, WorldInv
<1>8. ASSUME PatchBattleGroup(a), ~(worlds[1].patched < Len(HostPatches)) PROVE Goal
  <2>1. /\ worlds # <<>> /\ HasResource(worlds[1])
        /\ UNCHANGED <<config, secret, images, staged, tars, overruled>>
        /\ worlds' = [worlds EXCEPT ![1] = worlds[1]]
        /\ Go(a, AfterPatches(run[a].cfg)) /\ At(a, "patch")
    BY <1>8 DEF PatchBattleGroup
  <2>2. worlds[1].patched = 3
    BY <1>0, <2>1, <1>8 DEF WorldInv, HostPatches
  <2>3. Behind /\ worlds' # <<>> /\ worlds'[1] = worlds[1]
    BY <1>0, <2>1, <2>2, FirstKept DEF Behind, WorldInv
  <2> QED BY <1>0, <2>1, <2>2, <2>3 DEF AfterPatches
<1>9. ASSUME PatchGamePorts(a) PROVE Goal
  <2>1. worlds # <<>> /\ HasResource(worlds[1]) /\ UNCHANGED <<config, secret, images, staged, tars, overruled>>
    BY <1>9 DEF PatchGamePorts
  <2> DEFINE w == [worlds[1] EXCEPT !.ports = TRUE]
  <2>2. worlds' = [worlds EXCEPT ![1] = w]
    BY <1>9 DEF PatchGamePorts
  <2>3. /\ DOMAIN w = WorldFields /\ w.title = worlds[1].title /\ w.has = worlds[1].has
        /\ w.patched \in 0..3
    BY <1>0, <2>1, <1>9 DEF WorldInv, PatchGamePorts
  <2>4. Behind /\ worlds' # <<>> /\ worlds'[1] = w
    BY <1>0, <2>1, <2>2, <2>3, FirstKept DEF Behind, WorldInv
  <2> QED BY <1>0, <2>1, <2>3, <2>4, <1>9 DEF PatchGamePorts, HasResource, WorldInv
<1>10. ASSUME EnableSet(a) PROVE Goal
  <2>1. PICK m \in run[a].cfg.sets \ run[a].todo :
          OnFirst(a, "sets", run' = [run EXCEPT ![a].todo = @ \cup {m}],
                  [worlds[1] EXCEPT !.enabled = @ \cup {m}])
    BY <1>10 DEF EnableSet
  <2> DEFINE w == [worlds[1] EXCEPT !.enabled = @ \cup {m}]
  <2>2. /\ DOMAIN w = WorldFields /\ w.title = worlds[1].title /\ w.has = worlds[1].has
        /\ w.patched = worlds[1].patched /\ w.tag = worlds[1].tag /\ w.role = worlds[1].role
        /\ w.ports = worlds[1].ports /\ w.enabled = worlds[1].enabled \cup {m}
    BY <1>0, <2>1 DEF WorldInv
  <2>3. worlds' = [worlds EXCEPT ![1] = w] /\ UNCHANGED <<config, secret, images, staged, tars, overruled>>
        /\ run'[a].todo = run[a].todo \cup {m} /\ run'[a].pc = "sets" /\ run'[a].cfg = run[a].cfg
        /\ At(a, "sets")
    BY <2>1
  <2> HIDE DEF w
  <2>4. Behind /\ worlds' # <<>> /\ worlds'[1] = w
    BY <1>0, <2>2, <2>3, FirstKept DEF Behind, WorldInv
  <2> QED BY <1>0, <2>2, <2>3, <2>4 DEF HasResource
<1>11. ASSUME SaveSecret(a) PROVE Goal
  BY <1>11, <1>0 DEF SaveSecret, Behind, WorldInv, ConfigInv
<1>12. ASSUME Gate(a) PROVE Goal
  BY <1>12, <1>0 DEF Gate, ListBattleGroupNamespaces, Dirs, Behind, WorldInv, ConfigInv
<1>13. ASSUME Serve(a) PROVE Goal
  BY <1>13, <1>0 DEF Serve, Behind, WorldInv, ConfigInv
<1>14. ASSUME LoadViaHTTP(a) PROVE Goal
  BY <1>14, <1>0 DEF LoadViaHTTP, Behind, WorldInv, ConfigInv
<1>15. ASSUME KillServer(a) PROVE Goal
  BY <1>15, <1>0 DEF KillServer, Dirs, Behind, WorldInv, ConfigInv
<1>16. ASSUME Done(a) PROVE Goal
  BY <1>16, <1>0 DEF Done, Idle, Behind, WorldInv, ConfigInv
<1>17. ASSUME Abort(a) PROVE Goal
  BY <1>17, <1>0 DEF Abort, Idle, Behind, WorldInv, ConfigInv
<1>18. Goal
  <2>1. ASSUME PatchBattleGroup(a) PROVE Goal
    BY <2>1, <1>8, <1>7
  <2> QED BY <2>1, <1>1, <1>2, <1>3, <1>4, <1>5, <1>6, <1>7, <1>8, <1>9, <1>10, <1>11, <1>12, <1>13, <1>14, <1>15, <1>16, <1>17 DEF Step
<1> QED
  BY <1>18

-----------------------------------------------------------------------------
(* Of the world, a depot of another revision moves the tag alone.            *)
LEMMA OutdatedKept ==
  ASSUME WorldInv
  PROVE  /\ worlds = <<>> => Outdated = <<>>
         /\ worlds # <<>> => /\ Outdated = <<Outdated[1]>> /\ Outdated # <<>>
                            /\ DOMAIN Outdated[1] = WorldFields
                            /\ Outdated[1].has = worlds[1].has
                            /\ Outdated[1].patched = worlds[1].patched
                            /\ Outdated[1].title = worlds[1].title
<1>1. CASE worlds = <<>>
  BY <1>1 DEF Outdated
<1>2. CASE worlds # <<>>
  <2>1. worlds = <<worlds[1]>> /\ DOMAIN worlds = {1} /\ DOMAIN worlds[1] = WorldFields
    BY <1>2, OneExcept DEF WorldInv
  <2> DEFINE w == [worlds[1] EXCEPT !.tag = IF @ = "placeholder" THEN @ ELSE "older"]
  <2>2. Outdated = [i \in {1} |-> w]
    BY <2>1 DEF Outdated
  <2>3. /\ DOMAIN w = WorldFields /\ w.has = worlds[1].has
        /\ w.patched = worlds[1].patched /\ w.title = worlds[1].title
    BY <2>1
  <2> HIDE DEF w
  <2>4. <<w>> = [i \in 1..1 |-> w] /\ 1..1 = {1}
    OBVIOUS
  <2>5. Outdated = <<w>>
    BY <2>2, <2>4
  <2> QED BY <1>2, <2>3, <2>5
<1> QED BY <1>1, <1>2

LEMMA StepSerial == SerialInv /\ [Next]_vars => SerialInv'
<1> SUFFICES ASSUME SerialInv, [Next]_vars PROVE SerialInv'
  OBVIOUS
<1>1. ASSUME NEW a \in Admins, Step(a) PROVE SerialInv'
  <2>1. ShapeInv /\ Framed(a)
    BY <1>1, StepFrames DEF SerialInv
  <2>2. ShapeInv'
    BY <2>1 DEF Framed
  <2>3. ASSUME ~overlapped' PROVE Serial'
    <3>1. Serial
      BY <2>1, <2>3 DEF SerialInv, Framed
    <3>2. Sole'
      BY <2>1, <3>1, StillSole DEF Serial
    <3>3. WorldInv' /\ ConfigInv' /\ RunOf(a)'
      BY <1>1, <2>1, <3>1, StepKeeps DEF Behind
    <3>4. \A b \in Admins : b # a => RunOf(b)'
      BY <2>1, <3>1, OthersKept
    <3> QED BY <3>2, <3>3, <3>4 DEF Serial
  <2> QED BY <2>2, <2>3 DEF SerialInv
<1>2. ASSUME NEW a \in Admins, Begin(a) PROVE SerialInv'
  <2>1. /\ run'[a].pc = "resolve" /\ DOMAIN run' = Admins /\ DOMAIN run'[a] = RunFields
        /\ \A b \in Admins : b # a => run'[b] = run[b]
        /\ UNCHANGED <<config, secret, worlds, images, staged, tars, overruled>>
    BY <1>2 DEF Begin, Idle, SerialInv
  <2>2. ASSUME ~overlapped' PROVE Serial'
    <3>1. Serial /\ \A b \in Admins : b # a => ~Active(b)
      BY <1>2, <2>2 DEF Begin, SerialInv
    <3>2. Sole'
      BY <2>1, <3>1 DEF Sole
    <3>3. WorldInv' /\ ConfigInv'
      BY <2>1, <3>1 DEF Serial, WorldInv, ConfigInv
    <3>4. \A b \in Admins : RunOf(b)'
      BY <2>1, <3>1 DEF RunOf, Kept, Gated, Loading, Loaded, Tagged, Patching
    <3> QED BY <3>2, <3>3, <3>4 DEF Serial
  <2> QED BY <2>1, <2>2 DEF SerialInv
<1>3. ASSUME Stage PROVE SerialInv'
  <2>1. /\ UNCHANGED <<config, secret, run, overlapped, overruled>>
        /\ \A a \in Admins : ~Active(a)
        /\ UNCHANGED worlds \/ worlds' = Outdated
    BY <1>3 DEF Stage
  <2>2. ShapeInv'
    BY <2>1 DEF SerialInv
  <2>3. ASSUME ~overlapped' PROVE Serial'
    <3>1. Serial
      BY <2>1, <2>3 DEF SerialInv
    <3>2. WorldInv' /\ ConfigInv'
      <4>1. CASE UNCHANGED worlds
        BY <2>1, <3>1, <4>1 DEF Serial, WorldInv, ConfigInv
      <4>2. CASE worlds' = Outdated
        BY <2>1, <3>1, <4>2, OutdatedKept DEF Serial, WorldInv, ConfigInv
      <4> QED BY <2>1, <4>1, <4>2
    <3>3. Sole' /\ \A a \in Admins : RunOf(a)'
      BY <2>1, <3>1 DEF Serial, Sole, RunOf, Kept, Gated, Loading, Loaded, Tagged, Patching
    <3> QED BY <3>2, <3>3 DEF Serial
  <2> QED BY <2>2, <2>3 DEF SerialInv
<1>4. CASE UNCHANGED vars
  BY <1>4 DEF vars, SerialInv, Serial, Sole, WorldInv, ConfigInv, RunOf, Kept, Gated, Loading,
     Loaded, Tagged, Patching
<1> QED
  BY <1>1, <1>2, <1>3, <1>4 DEF Next, Step

LEMMA AlwaysSerial == Spec => []SerialInv
BY InitSerial, StepSerial, PTL DEF Spec

(* However often bring-ups fail, anywhere, and are run again, the gate keeps *)
(* every one after the first from creating a world (bringup.go:82).          *)
THEOREM AlwaysOneWorld == Spec => []OneWorld
<1>1. SerialInv => OneWorld
  <2>1. CASE worlds = <<>>
    BY <2>1 DEF OneWorld
  <2>2. CASE worlds # <<>> /\ WorldInv
    BY <2>2, OneExcept DEF WorldInv, OneWorld
  <2> QED BY <2>1, <2>2 DEF SerialInv, Serial, OneWorld
<1> QED
  BY <1>1, AlwaysSerial, PTL

(* The configuration that the cluster keeps is that of the world it has,     *)
(* unless runs overlapped or an administrator overruled it (bringup.go:74).  *)
THEOREM ConfigAlwaysDescribesWorld == Spec => []ConfigDescribesWorld
<1>1. SerialInv => ConfigDescribesWorld
  <2> SUFFICES ASSUME SerialInv, ~overlapped, ~overruled, NEW i \in DOMAIN worlds, NEW c \in DOMAIN config
               PROVE  config[c].name = worlds[i].title
    BY DEF ConfigDescribesWorld
  <2>1. worlds # <<>> /\ config # <<>>
    BY DEF SerialInv, Serial, ConfigInv
  <2>2. i = 1 /\ c = 1
    BY <2>1, OneExcept DEF SerialInv, Serial, ConfigInv, WorldInv
  <2> QED BY <2>1, <2>2 DEF SerialInv, Serial, ConfigInv
<1> QED
  BY <1>1, AlwaysSerial, PTL

(* A run that becomes "ok" was at its last step, with nothing to enable.     *)
LEMMA OkIsDone ==
  ASSUME ShapeInv, NEW a \in Admins, Active(a), run'[a].pc = "ok", [Next]_vars
  PROVE  Done(a)
<1>1. ASSUME NEW b \in Admins, b # a, Step(b) PROVE FALSE
  BY <1>1, StepFrames DEF Framed
<1>2. ASSUME Step(a) PROVE Done(a)
  <2>1. CASE SaveConfigMap(a) \/ SaveSecret(a) \/ Gate(a)
    BY <2>1 DEF SaveConfigMap, SaveSecret, Gate
  <2>2. ASSUME CreateNamespace(a) \/ CreateWorld(a) \/ Serve(a) \/ LoadViaHTTP(a) \/ KillServer(a)
        PROVE  FALSE
    BY <2>2 DEF CreateNamespace, CreateWorld, Serve, LoadViaHTTP, KillServer
  <2>3. ASSUME ReconcileImageTags(a) \/ InitDB(a) \/ PatchBattleGroup(a) \/ PatchGamePorts(a)
        PROVE  FALSE
    BY <2>3 DEF ReconcileImageTags, InitDB, PatchBattleGroup, AfterPatches, PatchGamePorts
  <2>4. ASSUME EnableSet(a) \/ Abort(a) PROVE FALSE
    BY <2>4 DEF EnableSet, Abort, Idle
  <2>5. ASSUME NEW name \in Names \cup {NoName}, Resolve(a, name) PROVE FALSE
    BY <2>5 DEF Resolve
  <2> QED BY <1>2, <2>1, <2>2, <2>3, <2>4, <2>5 DEF Step
<1>3. ASSUME NEW b \in Admins, Begin(b) PROVE FALSE
  BY <1>3 DEF Begin, Idle
<1>4. ASSUME Stage \/ UNCHANGED vars PROVE FALSE
  BY <1>4 DEF Stage, vars
<1> QED
  BY <1>1, <1>2, <1>3, <1>4 DEF Next, Step

(* "done" is true of the whole cluster, whatever earlier runs left half done *)
(* (bringup.go:82-110).                                                      *)
THEOREM DoneAlwaysMeansUp == Spec => DoneMeansUp
<1>1. SerialInv /\ [Next]_vars =>
        [\A a \in Admins :
           Active(a) /\ run'[a].pc = "ok" /\ ~overlapped =>
             LET w == worlds[1] IN
               /\ w.has = {templateNames[i] : i \in 1..Len(templateNames)}
               /\ w.tag # "placeholder" /\ w.role /\ w.patched = Len(HostPatches)
               /\ run[a].cfg.game /\ run[a].cfg.igw => w.ports
               /\ run[a].cfg.sets \subseteq w.enabled
               /\ Nodes \X {"prerequisites"} \subseteq images
               /\ tars => Nodes \X {"battlegroup"} \subseteq images
               /\ config = <<ToData(run[a].cfg)>> /\ secret]_vars
  <2> SUFFICES ASSUME SerialInv, [Next]_vars, NEW a \in Admins,
                      Active(a), run'[a].pc = "ok", ~overlapped
               PROVE  /\ worlds[1].has = {templateNames[i] : i \in 1..Len(templateNames)}
                      /\ worlds[1].tag # "placeholder" /\ worlds[1].role
                      /\ worlds[1].patched = Len(HostPatches)
                      /\ run[a].cfg.game /\ run[a].cfg.igw => worlds[1].ports
                      /\ run[a].cfg.sets \subseteq worlds[1].enabled
                      /\ Nodes \X {"prerequisites"} \subseteq images
                      /\ tars => Nodes \X {"battlegroup"} \subseteq images
                      /\ config = <<ToData(run[a].cfg)>> /\ secret
    OBVIOUS
  <2>1. WorldInv /\ RunOf(a)
    BY DEF SerialInv, Serial
  <2>2. Done(a)
    BY OkIsDone DEF SerialInv
  <2>3. run[a].pc = "sets" /\ run[a].cfg.sets \subseteq run[a].todo
    BY <2>2 DEF Done
  <2>4. worlds[1].has = {"fls-secret", "rmq-secret", "world-template"}
    BY <2>1, <2>3 DEF RunOf, Tagged, Patching, HasResource, WorldInv
  <2>5. {templateNames[i] : i \in 1..Len(templateNames)} = {"fls-secret", "rmq-secret", "world-template"}
    <3>1. Len(templateNames) = 3 /\ templateNames[1] = "fls-secret"
          /\ templateNames[2] = "rmq-secret" /\ templateNames[3] = "world-template"
      BY DEF templateNames
    <3>2. 1..3 = {1, 2, 3}
      OBVIOUS
    <3> QED BY <3>1, <3>2
  <2> QED BY <2>1, <2>3, <2>4, <2>5 DEF RunOf, Kept, Gated, Loaded, Tagged, Patching, HostPatches
<1> QED
  BY <1>1, AlwaysSerial, PTL DEF Spec, DoneMeansUp

-------------------------------------------------------------------------------
(* A set of numbers has a smallest one.                                      *)
LEMMA MinExists ==
  ASSUME NEW T, T \subseteq Nat, NEW n \in T
  PROVE  \E m \in T : \A k \in T : m <= k
<1> DEFINE Ranges == {0..k : k \in {k \in T : k <= n}}
<1>1. n \in Nat
  OBVIOUS
<1>2. IsFiniteSet(0..n)
  BY <1>1, FS_Interval
<1>3. Ranges \subseteq SUBSET (0..n)
  <2>1. ASSUME NEW k \in T, k <= n PROVE 0..k \subseteq 0..n
    BY <1>1, <2>1
  <2> QED BY <2>1
<1>4. 0..n \in Ranges
  <2>1. n \in {k \in T : k <= n}
    BY <1>1
  <2> QED BY <2>1
<1>5. Ranges \subseteq FiniteSubsetsOf(0..n) /\ Ranges # {}
  BY <1>2, <1>3, <1>4, FS_Subset, Zenon DEF FiniteSubsetsOf
<1> HIDE DEF Ranges
<1>6. PICK X \in Ranges : \A Y \in Ranges : <<Y, X>> \notin StrictSubsetOrdering(0..n)
  BY <1>2, <1>5, FS_StrictSubsetOrderingWellFounded, WFMin
<1>7. PICK m \in T : m <= n /\ X = 0..m
  BY <1>6 DEF Ranges
<1>8. ASSUME NEW k \in T, k < m PROVE FALSE
  <2>1. 0..k \in Ranges
    BY <1>1, <1>7, <1>8 DEF Ranges
  <2>2. 0..k \subseteq 0..m /\ 0..k # 0..m
    BY <1>7, <1>8
  <2>3. 0..k \in SUBSET (0..n) /\ X \in SUBSET (0..n)
    BY <1>3, <1>6, <2>1
  <2> QED BY <1>6, <1>7, <2>1, <2>2, <2>3 DEF StrictSubsetOrdering
<1> QED BY <1>7, <1>8

-------------------------------------------------------------------------------
(* The resource after each operation: the definition of After is not empty.  *)
States(f, cr, ops) ==
  [i \in 0..Len(ops) |-> IF i = 0 THEN cr ELSE Applied(f[i - 1], ops[i])]

StatesTo(f, cr, ops, n) ==
  \A i \in 0..Len(ops) : i < n => f[i] = IF i = 0 THEN cr ELSE Applied(f[i - 1], ops[i])

LEMMA StatesGo ==
  ASSUME NEW cr, NEW ops, Len(ops) \in Nat, NEW n \in Nat, NEW f, StatesTo(f, cr, ops, n)
  PROVE  StatesTo(States(f, cr, ops), cr, ops, n + 1)
<1> DEFINE g == States(f, cr, ops)
<1>1. ASSUME NEW i \in 0..Len(ops) PROVE g[i] = IF i = 0 THEN cr ELSE Applied(f[i - 1], ops[i])
  BY DEF States
<1> HIDE DEF g
<1>2. ASSUME NEW i \in 0..Len(ops), i < n PROVE g[i] = f[i]
  BY <1>1, <1>2 DEF StatesTo
<1>3. ASSUME NEW i \in 0..Len(ops), i < n + 1
      PROVE  g[i] = IF i = 0 THEN cr ELSE Applied(g[i - 1], ops[i])
  <2>1. CASE i = 0
    BY <1>1, <2>1
  <2>2. CASE i # 0
    <3>1. i - 1 \in 0..Len(ops) /\ i - 1 < n
      BY <1>3, <2>2
    <3>2. g[i - 1] = f[i - 1]
      BY <1>2, <3>1
    <3> QED BY <1>1, <2>2, <3>2
  <2> QED BY <2>1, <2>2
<1> QED BY <1>3, Zenon DEF StatesTo, g

LEMMA StatesExist ==
  ASSUME NEW cr, NEW ops, Len(ops) \in Nat PROVE \E f : f = States(f, cr, ops)
<1> DEFINE T == {n \in Nat : ~\E f : StatesTo(f, cr, ops, n)}
<1>1. T = {}
  <2> SUFFICES ASSUME T # {} PROVE FALSE
    OBVIOUS
  <2>1. PICK m \in T : \A k \in T : m <= k
    BY MinExists
  <2>2. CASE m = 0
    <3>1. StatesTo(0, cr, ops, 0)
      BY DEF StatesTo
    <3> QED BY <2>1, <2>2, <3>1
  <2>3. CASE m # 0
    <3>1. m - 1 \in Nat /\ m - 1 \notin T
      BY <2>1, <2>3
    <3>2. PICK f : StatesTo(f, cr, ops, m - 1)
      BY <3>1
    <3>3. StatesTo(States(f, cr, ops), cr, ops, (m - 1) + 1)
      BY <3>1, <3>2, StatesGo
    <3> QED BY <2>1, <3>3
  <2> QED BY <2>2, <2>3
<1>2. PICK f : StatesTo(f, cr, ops, Len(ops) + 1)
  <2>1. Len(ops) + 1 \in Nat /\ Len(ops) + 1 \notin T
    BY <1>1
  <2> QED BY <2>1
<1> DEFINE g == States(f, cr, ops)
<1>3. ASSUME NEW i \in 0..Len(ops), i # 0 PROVE g[i - 1] = f[i - 1]
  <2>1. i - 1 \in 0..Len(ops)
    BY <1>3
  <2> QED BY <1>2, <2>1 DEF States, StatesTo
<1> HIDE DEF g
<1>4. ASSUME NEW i \in 0..Len(ops)
      PROVE  (IF i = 0 THEN cr ELSE Applied(f[i - 1], ops[i]))
               = IF i = 0 THEN cr ELSE Applied(g[i - 1], ops[i])
  BY <1>3
<1>5. States(f, cr, ops) = States(g, cr, ops)
  BY <1>4, Zenon DEF States
<1> QED BY <1>5, Zenon DEF g

(* What After promises: an operation more is the operation applied.          *)
Stepwise(cr, ops) ==
  /\ After(cr, ops, 0) = cr
  /\ \A n \in 1..Len(ops) : After(cr, ops, n) = Applied(After(cr, ops, n - 1), ops[n])

LEMMA AfterIsStepwise ==
  ASSUME NEW cr, NEW ops, Len(ops) \in Nat PROVE Stepwise(cr, ops)
<1> DEFINE s == CHOOSE f : f = States(f, cr, ops)
<1>1. s = States(s, cr, ops)
  BY StatesExist, Zenon
<1>2. \A n : After(cr, ops, n) = s[n]
  BY DEF After, States
<1> HIDE DEF s
<1>3. ASSUME NEW i \in 0..Len(ops) PROVE s[i] = IF i = 0 THEN cr ELSE Applied(s[i - 1], ops[i])
  <2>1. ASSUME NEW h, h = States(s, cr, ops)
        PROVE  h[i] = IF i = 0 THEN cr ELSE Applied(s[i - 1], ops[i])
    BY <2>1 DEF States
  <2> QED BY <1>1, <2>1
<1>4. 0 \in 0..Len(ops) /\ 1..Len(ops) \subseteq 0..Len(ops) /\ 0 \notin 1..Len(ops)
  OBVIOUS
<1>5. s[0] = cr
  BY <1>3, <1>4
<1>6. ASSUME NEW n \in 1..Len(ops) PROVE s[n] = Applied(s[n - 1], ops[n])
  <2>1. n \in 0..Len(ops) /\ n # 0
    BY <1>4
  <2> QED BY <1>3, <2>1
<1> QED BY <1>2, <1>5, <1>6 DEF Stepwise

LEMMA AfterSteps ==
  ASSUME NEW cr, NEW ops, Len(ops) \in Nat
  PROVE  /\ After(cr, ops, 0) = cr
         /\ \A n \in 1..Len(ops) : After(cr, ops, n) = Applied(After(cr, ops, n - 1), ops[n])
<1>1. Stepwise(cr, ops)
  BY ONLY Len(ops) \in Nat, AfterIsStepwise, Zenon
<1> QED BY ONLY <1>1 DEF Stepwise

LEMMA AfterStep ==
  ASSUME NEW cr, NEW ops, Len(ops) \in Nat, NEW m, m \in 1..Len(ops)
  PROVE  After(cr, ops, m) = Applied(After(cr, ops, m - 1), ops[m])
<1>1. Stepwise(cr, ops)
  BY ONLY Len(ops) \in Nat, AfterIsStepwise, Zenon
<1> QED BY ONLY <1>1, m \in 1..Len(ops) DEF Stepwise

-------------------------------------------------------------------------------
(* The parts joined so far: the definition of Concat is not empty.           *)
Joined(f, parts) ==
  [i \in 0..Len(parts) |-> IF i = 0 THEN <<>> ELSE f[i - 1] \o parts[i]]

JoinedTo(f, parts, n) ==
  \A i \in 0..Len(parts) : i < n => f[i] = IF i = 0 THEN <<>> ELSE f[i - 1] \o parts[i]

LEMMA JoinedGo ==
  ASSUME NEW parts, Len(parts) \in Nat, NEW n \in Nat, NEW f, JoinedTo(f, parts, n)
  PROVE  JoinedTo(Joined(f, parts), parts, n + 1)
<1> DEFINE g == Joined(f, parts)
<1>1. ASSUME NEW i \in 0..Len(parts) PROVE g[i] = IF i = 0 THEN <<>> ELSE f[i - 1] \o parts[i]
  BY DEF Joined
<1> HIDE DEF g
<1>2. ASSUME NEW i \in 0..Len(parts), i < n PROVE g[i] = f[i]
  BY <1>1, <1>2 DEF JoinedTo
<1>3. ASSUME NEW i \in 0..Len(parts), i < n + 1
      PROVE  g[i] = IF i = 0 THEN <<>> ELSE g[i - 1] \o parts[i]
  <2>1. CASE i = 0
    BY <1>1, <2>1
  <2>2. CASE i # 0
    <3>1. i - 1 \in 0..Len(parts) /\ i - 1 < n
      BY <1>3, <2>2
    <3>2. g[i - 1] = f[i - 1]
      BY <1>2, <3>1
    <3> QED BY <1>1, <2>2, <3>2
  <2> QED BY <2>1, <2>2
<1> QED BY <1>3, Zenon DEF JoinedTo, g

LEMMA JoinedExist ==
  ASSUME NEW parts, Len(parts) \in Nat PROVE \E f : f = Joined(f, parts)
<1> DEFINE T == {n \in Nat : ~\E f : JoinedTo(f, parts, n)}
<1>1. T = {}
  <2> SUFFICES ASSUME T # {} PROVE FALSE
    OBVIOUS
  <2>1. PICK m \in T : \A k \in T : m <= k
    BY MinExists
  <2>2. CASE m = 0
    <3>1. JoinedTo(0, parts, 0)
      BY DEF JoinedTo
    <3> QED BY <2>1, <2>2, <3>1
  <2>3. CASE m # 0
    <3>1. m - 1 \in Nat /\ m - 1 \notin T
      BY <2>1, <2>3
    <3>2. PICK f : JoinedTo(f, parts, m - 1)
      BY <3>1
    <3>3. JoinedTo(Joined(f, parts), parts, (m - 1) + 1)
      BY <3>1, <3>2, JoinedGo
    <3> QED BY <2>1, <3>3
  <2> QED BY <2>2, <2>3
<1>2. PICK f : JoinedTo(f, parts, Len(parts) + 1)
  <2>1. Len(parts) + 1 \in Nat /\ Len(parts) + 1 \notin T
    BY <1>1
  <2> QED BY <2>1
<1> DEFINE g == Joined(f, parts)
<1>3. ASSUME NEW i \in 0..Len(parts), i # 0 PROVE g[i - 1] = f[i - 1]
  <2>1. i - 1 \in 0..Len(parts)
    BY <1>3
  <2> QED BY <1>2, <2>1 DEF Joined, JoinedTo
<1> HIDE DEF g
<1>4. ASSUME NEW i \in 0..Len(parts)
      PROVE  (IF i = 0 THEN <<>> ELSE f[i - 1] \o parts[i])
               = IF i = 0 THEN <<>> ELSE g[i - 1] \o parts[i]
  BY <1>3
<1>5. Joined(f, parts) = Joined(g, parts)
  BY <1>4, Zenon DEF Joined
<1> QED BY <1>5, Zenon DEF g

LEMMA ConcatSteps ==
  ASSUME NEW parts, Len(parts) \in Nat
  PROVE  \E s : /\ s[0] = <<>> /\ Concat(parts) = s[Len(parts)]
                /\ \A i \in 1..Len(parts) : s[i] = s[i - 1] \o parts[i]
<1> DEFINE s == CHOOSE f : f = Joined(f, parts)
<1>1. s = Joined(s, parts)
  BY JoinedExist, Zenon
<1>2. Concat(parts) = s[Len(parts)]
  BY DEF Concat, Joined
<1> HIDE DEF s
<1>3. ASSUME NEW i \in 0..Len(parts) PROVE s[i] = IF i = 0 THEN <<>> ELSE s[i - 1] \o parts[i]
  <2>1. ASSUME NEW h, h = Joined(s, parts)
        PROVE  h[i] = IF i = 0 THEN <<>> ELSE s[i - 1] \o parts[i]
    BY <2>1 DEF Joined
  <2> QED BY <1>1, <2>1
<1>4. 0 \in 0..Len(parts) /\ 1..Len(parts) \subseteq 0..Len(parts) /\ 0 \notin 1..Len(parts)
  OBVIOUS
<1>5. s[0] = <<>>
  BY <1>3, <1>4
<1>6. ASSUME NEW i \in 1..Len(parts) PROVE s[i] = s[i - 1] \o parts[i]
  <2>1. i \in 0..Len(parts) /\ i # 0
    BY <1>4
  <2> QED BY <1>3, <2>1
<1> QED BY <1>2, <1>5, <1>6

(* Every operation of the whole comes from a part, every operation of a part *)
(* is in the whole, and their order is that of the parts.                    *)
Sourced(c, parts, p) ==
  \A n \in DOMAIN c : \E i \in 1..p : \E k \in DOMAIN parts[i] : c[n] = parts[i][k]

Covered(c, parts, p) ==
  \A i \in 1..p : \A k \in DOMAIN parts[i] : \E n \in DOMAIN c : c[n] = parts[i][k]

From(c, parts, p, n, m) ==
  \E i, j \in 1..p : \E k \in DOMAIN parts[i], l \in DOMAIN parts[j] :
    c[n] = parts[i][k] /\ c[m] = parts[j][l] /\ (i < j \/ (i = j /\ k < l))

InOrder(c, parts, p) == \A n, m \in DOMAIN c : n < m => From(c, parts, p, n, m)

LEMMA JoinOne ==
  ASSUME NEW S, NEW parts, NEW p \in Nat, NEW c \in Seq(S), parts[p + 1] \in Seq(S),
         Sourced(c, parts, p), Covered(c, parts, p), InOrder(c, parts, p),
         NEW d, d = c \o parts[p + 1]
  PROVE  /\ d \in Seq(S)
         /\ Sourced(d, parts, p + 1) /\ Covered(d, parts, p + 1) /\ InOrder(d, parts, p + 1)
<1>1. PICK q \in Seq(S) : q = parts[p + 1]
  OBVIOUS
<1>2. /\ Len(c) \in Nat /\ DOMAIN c = 1..Len(c)
      /\ Len(q) \in Nat /\ DOMAIN q = 1..Len(q)
  BY LenProperties
<1>3. /\ d \in Seq(S) /\ Len(d) = Len(c) + Len(q)
      /\ \A n \in 1..Len(c) + Len(q) : d[n] = IF n <= Len(c) THEN c[n] ELSE q[n - Len(c)]
  BY <1>1, ConcatProperties
<1>4. DOMAIN d = 1..Len(c) + Len(q)
  BY <1>3, LenProperties
<1>5. \A n \in DOMAIN c : n \in DOMAIN d /\ d[n] = c[n]
  BY <1>2, <1>3, <1>4
<1>6. \A n \in DOMAIN q : Len(c) + n \in DOMAIN d /\ d[Len(c) + n] = q[n]
  BY <1>2, <1>3, <1>4
<1>7. ASSUME NEW n \in DOMAIN d
      PROVE  \/ n \in DOMAIN c /\ d[n] = c[n]
             \/ Len(c) < n /\ n - Len(c) \in DOMAIN q /\ d[n] = q[n - Len(c)]
  BY <1>2, <1>3, <1>4
<1>8. 1..p \subseteq 1..p + 1 /\ p + 1 \in 1..p + 1 /\ \A i \in 1..p + 1 : i \in 1..p \/ i = p + 1
  OBVIOUS
<1>9. Sourced(d, parts, p + 1)
  <2> SUFFICES ASSUME NEW n \in DOMAIN d
               PROVE  \E i \in 1..p + 1 : \E k \in DOMAIN parts[i] : d[n] = parts[i][k]
    BY Zenon DEF Sourced
  <2>1. CASE n \in DOMAIN c /\ d[n] = c[n]
    BY <1>8, <2>1, Zenon DEF Sourced
  <2>2. CASE n - Len(c) \in DOMAIN q /\ d[n] = q[n - Len(c)]
    BY <1>1, <1>8, <2>2, Zenon
  <2> QED BY <1>7, <2>1, <2>2
<1>10. Covered(d, parts, p + 1)
  <2> SUFFICES ASSUME NEW i \in 1..p + 1, NEW k \in DOMAIN parts[i]
               PROVE  \E n \in DOMAIN d : d[n] = parts[i][k]
    BY Zenon DEF Covered
  <2>1. CASE i \in 1..p
    BY <1>5, <2>1, Zenon DEF Covered
  <2>2. CASE i = p + 1
    BY <1>1, <1>6, <2>2, Zenon
  <2> QED BY <1>8, <2>1, <2>2
<1>11. InOrder(d, parts, p + 1)
  <2> SUFFICES ASSUME NEW n \in DOMAIN d, NEW m \in DOMAIN d, n < m
               PROVE  From(d, parts, p + 1, n, m)
    BY Zenon DEF InOrder
  <2>1. CASE n \in DOMAIN c /\ m \in DOMAIN c
    <3>1. PICK i \in 1..p, j \in 1..p : \E k \in DOMAIN parts[i], l \in DOMAIN parts[j] :
            c[n] = parts[i][k] /\ c[m] = parts[j][l] /\ (i < j \/ (i = j /\ k < l))
      BY <2>1, Zenon DEF InOrder, From
    <3> QED BY <1>5, <1>8, <2>1, <3>1, Zenon DEF From
  <2>2. CASE n \in DOMAIN c /\ Len(c) < m
    <3>1. PICK i \in 1..p : \E k \in DOMAIN parts[i] : c[n] = parts[i][k]
      BY <2>2, Zenon DEF Sourced
    <3>2. m - Len(c) \in DOMAIN parts[p + 1] /\ d[m] = parts[p + 1][m - Len(c)]
      BY <1>1, <1>2, <1>7, <2>2
    <3>3. i < p + 1
      OBVIOUS
    <3> QED BY <1>5, <1>8, <2>2, <3>1, <3>2, <3>3, Zenon DEF From
  <2>3. CASE Len(c) < n /\ Len(c) < m
    <3>1. /\ n - Len(c) \in DOMAIN parts[p + 1] /\ d[n] = parts[p + 1][n - Len(c)]
          /\ m - Len(c) \in DOMAIN parts[p + 1] /\ d[m] = parts[p + 1][m - Len(c)]
      BY <1>1, <1>2, <1>7, <2>3
    <3>2. n - Len(c) < m - Len(c)
      BY <1>2, <1>4
    <3> QED BY <1>8, <3>1, <3>2, Zenon DEF From
  <2>4. ~(Len(c) < n) => n \in DOMAIN c
    BY <1>2, <1>4
  <2>5. ~(Len(c) < m) => m \in DOMAIN c
    BY <1>2, <1>4
  <2>6. Len(c) < n => Len(c) < m
    BY <1>2, <1>4
  <2> QED BY <2>1, <2>2, <2>3, <2>4, <2>5, <2>6
<1> QED BY <1>3, <1>9, <1>10, <1>11

LEMMA ConcatIs ==
  ASSUME NEW S, NEW parts, Len(parts) \in Nat, \A i \in 1..Len(parts) : parts[i] \in Seq(S)
  PROVE  /\ Concat(parts) \in Seq(S)
         /\ Sourced(Concat(parts), parts, Len(parts))
         /\ Covered(Concat(parts), parts, Len(parts))
         /\ InOrder(Concat(parts), parts, Len(parts))
<1>1. PICK s : /\ s[0] = <<>> /\ Concat(parts) = s[Len(parts)]
               /\ \A i \in 1..Len(parts) : s[i] = s[i - 1] \o parts[i]
  BY ConcatSteps
<1> DEFINE Joins(p) == /\ s[p] \in Seq(S) /\ Sourced(s[p], parts, p)
                       /\ Covered(s[p], parts, p) /\ InOrder(s[p], parts, p)
           T == {p \in Nat : p <= Len(parts) /\ ~Joins(p)}
<1>2. Joins(0)
  BY <1>1 DEF Sourced, Covered, InOrder
<1>3. ASSUME NEW p \in Nat, p + 1 <= Len(parts), Joins(p) PROVE Joins(p + 1)
  <2>1. p + 1 \in 1..Len(parts) /\ (p + 1) - 1 = p
    BY <1>3
  <2>2. s[p + 1] = s[p] \o parts[p + 1] /\ parts[p + 1] \in Seq(S)
    BY <1>1, <2>1
  <2> QED BY <1>3, <2>2, JoinOne
<1> HIDE DEF Joins
<1>4. T = {}
  <2> SUFFICES ASSUME T # {} PROVE FALSE
    OBVIOUS
  <2>1. PICK m \in T : \A k \in T : m <= k
    BY MinExists
  <2>2. m # 0
    BY <1>2, <2>1
  <2>3. m - 1 \in Nat /\ (m - 1) + 1 = m /\ m <= Len(parts)
    BY <2>1, <2>2
  <2>4. m - 1 \notin T
    BY <2>1, <2>3
  <2>5. Joins(m - 1)
    BY <2>3, <2>4
  <2> QED BY <1>3, <2>1, <2>3, <2>5
<1>5. Joins(Len(parts))
  BY <1>4
<1> QED BY <1>1, <1>5 DEF Joins

-------------------------------------------------------------------------------
(* A resource with the sets and the members of another.                      *)
Shaped(s, cr) ==
  /\ s = [i \in 1..Len(cr) |-> s[i]]
  /\ \A i \in 1..Len(cr) : s[i] = [f \in Members |-> s[i][f]]

LEMMA SetsAreShaped ==
  ASSUME NEW cr \in Seq(ServerSets)
  PROVE  /\ Shaped(cr, cr) /\ Len(cr) \in Nat /\ DOMAIN cr = 1..Len(cr)
         /\ \A i \in 1..Len(cr) : cr[i] \in ServerSets
<1>1. /\ Len(cr) \in Nat /\ DOMAIN cr = 1..Len(cr) /\ cr \in [1..Len(cr) -> ServerSets]
  BY LenProperties
<1>2. \A i \in 1..Len(cr) : cr[i] \in ServerSets
  BY <1>1
<1>3. ASSUME NEW set \in ServerSets PROVE set = [f \in Members |-> set[f]]
  BY DEF ServerSets, Members
<1>4. cr = [i \in 1..Len(cr) |-> cr[i]]
  BY <1>1
<1> QED BY <1>1, <1>2, <1>3, <1>4 DEF Shaped

(* Operations on members of sets of the resource.                            *)
OnMembers(ops, cr) == \A m \in 1..Len(ops) : ops[m].set \in 1..Len(cr) /\ ops[m].field \in Members

Targets(o, i, f) == o.set = i /\ o.field = f

NotAbout(ops, i, f, k, n) == \A m \in k + 1..n : ~Targets(ops[m], i, f)

LEMMA AppliedGives ==
  ASSUME NEW cr, NEW s, Shaped(s, cr), NEW o, o.set \in 1..Len(cr), o.field \in Members
  PROVE  /\ Shaped(Applied(s, o), cr)
         /\ Applied(s, o)[o.set][o.field] = Given(s, o)
         /\ \A i \in 1..Len(cr), g \in Members :
              ~Targets(o, i, g) => Applied(s, o)[i][g] = s[i][g]
<1>1. PICK v : v = Given(s, o)
  OBVIOUS
<1>2. PICK t : t = Applied(s, o)
  OBVIOUS
<1>3. PICK a \in 1..Len(cr), f \in Members : a = o.set /\ f = o.field
  OBVIOUS
<1>5. PICK r : r = [s[a] EXCEPT ![f] = v]
  OBVIOUS
<1>4. t = [s EXCEPT ![a] = r]
  BY <1>1, <1>2, <1>3, <1>5, Zenon DEF Applied
<1>6. /\ r = [g \in Members |-> r[g]] /\ r[f] = v
      /\ \A g \in Members : g # f => r[g] = s[a][g]
  BY <1>5 DEF Shaped
<1>7. /\ t = [i \in 1..Len(cr) |-> t[i]] /\ t[a] = r
      /\ \A i \in 1..Len(cr) : i # a => t[i] = s[i]
  BY <1>4 DEF Shaped
<1>8. ASSUME NEW i \in 1..Len(cr) PROVE t[i] = [g \in Members |-> t[i][g]]
  <2>1. CASE i = a
    BY <1>6, <1>7, <2>1
  <2>2. CASE i # a
    BY <1>7, <2>2 DEF Shaped
  <2> QED BY <2>1, <2>2
<1>9. Shaped(t, cr)
  BY <1>7, <1>8 DEF Shaped
<1> QED BY <1>1, <1>2, <1>3, <1>6, <1>7, <1>9 DEF Targets

LEMMA StaysShaped ==
  ASSUME NEW cr \in Seq(ServerSets), NEW ops, Len(ops) \in Nat, OnMembers(ops, cr),
         NEW n \in 0..Len(ops)
  PROVE  Shaped(After(cr, ops, n), cr)
<1> DEFINE T == {k \in Nat : k <= Len(ops) /\ ~Shaped(After(cr, ops, k), cr)}
<1>0. \A m \in 1..Len(ops) : After(cr, ops, m) = Applied(After(cr, ops, m - 1), ops[m])
  BY ONLY Len(ops) \in Nat, AfterStep, Zenon
<1>1. T = {}
  <2> SUFFICES ASSUME T # {} PROVE FALSE
    OBVIOUS
  <2>1. PICK m \in T : \A k \in T : m <= k
    BY MinExists
  <2>2. m # 0
    BY <2>1, AfterSteps, SetsAreShaped
  <2>3. m - 1 \in Nat /\ m \in 1..Len(ops) /\ m - 1 \notin T
    BY <2>1, <2>2
  <2>4. Shaped(After(cr, ops, m - 1), cr)
    BY <2>3
  <2>5. After(cr, ops, m) = Applied(After(cr, ops, m - 1), ops[m])
    BY <1>0, <2>3
  <2>6. ops[m].set \in 1..Len(cr) /\ ops[m].field \in Members
    BY <2>3 DEF OnMembers
  <2>7. Shaped(Applied(After(cr, ops, m - 1), ops[m]), cr)
    BY <2>4, <2>6, AppliedGives
  <2> QED BY <2>1, <2>5, <2>7
<1> QED BY <1>1

(* A member keeps what it has while no operation is about it.                *)
LEMMA UntouchedStays ==
  ASSUME NEW cr \in Seq(ServerSets), NEW ops, Len(ops) \in Nat, OnMembers(ops, cr),
         NEW i \in 1..Len(cr), NEW f \in Members, NEW k \in 0..Len(ops), NEW n \in k..Len(ops),
         NotAbout(ops, i, f, k, n)
  PROVE  After(cr, ops, n)[i][f] = After(cr, ops, k)[i][f]
<1> DEFINE S(m) == After(cr, ops, m)[i][f]
           T == {m \in Nat : k <= m /\ m <= n /\ S(m) # S(k)}
<1>0. \A m \in 1..Len(ops) : After(cr, ops, m) = Applied(After(cr, ops, m - 1), ops[m])
  BY ONLY Len(ops) \in Nat, AfterStep, Zenon
<1>1. T = {}
  <2> SUFFICES ASSUME T # {} PROVE FALSE
    OBVIOUS
  <2>1. PICK m \in T : \A l \in T : m <= l
    BY MinExists
  <2>2. m # k
    BY <2>1
  <2>3. m - 1 \in Nat /\ m - 1 \in 0..Len(ops) /\ m \in 1..Len(ops) /\ m \in k + 1..n
        /\ m - 1 \notin T /\ k <= m - 1 /\ m - 1 <= n
    BY <2>1, <2>2
  <2>4. S(m - 1) = S(k)
    BY <2>3
  <2>5. After(cr, ops, m) = Applied(After(cr, ops, m - 1), ops[m])
    BY <1>0, <2>3
  <2>6. Shaped(After(cr, ops, m - 1), cr)
    BY <2>3, StaysShaped
  <2>7. S(m) = S(m - 1)
    BY <2>3, <2>5, <2>6, AppliedGives DEF OnMembers, NotAbout
  <2> QED BY <2>1, <2>4, <2>7
<1>2. n \in Nat /\ k <= n
  OBVIOUS
<1> QED BY <1>1, <1>2

LEMMA LengthIs ==
  ASSUME NEW n \in Nat, NEW s, s = [i \in 1..n |-> s[i]]
  PROVE  Len(s) = n /\ DOMAIN s = 1..n
<1>1. PICK S : S = {s[i] : i \in 1..n}
  OBVIOUS
<1>2. s \in [1..n -> S]
  BY <1>1
<1>3. s \in Seq(S)
  BY <1>2, SeqDef
<1>4. Len(s) \in Nat /\ DOMAIN s = 1..Len(s) /\ DOMAIN s = 1..n
  BY <1>2, <1>3, LenProperties
<1>5. CASE n = 0
  BY <1>4, <1>5
<1>6. CASE n # 0
  <2>1. n \in 1..Len(s) /\ Len(s) \in 1..n
    <3>1. n \in 1..n
      BY <1>6
    <3>2. n <= Len(s) /\ n >= 1
      BY <1>4, <3>1
    <3>3. Len(s) \in 1..Len(s)
      BY <1>4, <3>2
    <3> QED BY <1>4, <3>1, <3>3
  <2> QED BY <1>4, <2>1
<1> QED BY <1>4, <1>5, <1>6

LEMMA SameSets ==
  ASSUME NEW cr \in Seq(ServerSets), NEW s, Shaped(s, cr)
  PROVE  Len(s) = Len(cr) /\ DOMAIN s = 1..Len(cr) /\ DOMAIN s = DOMAIN cr
<1>1. Len(cr) \in Nat /\ DOMAIN cr = 1..Len(cr)
  BY SetsAreShaped
<1>2. s = [i \in 1..Len(cr) |-> s[i]]
  BY DEF Shaped
<1> QED BY <1>1, <1>2, LengthIs

(* Operations that give or take whole members, each another one: they find   *)
(* what was there, and leave what they give.                                 *)
Whole(ops) ==
  \A m \in 1..Len(ops) : ops[m].at = 0 /\ (ops[m].op = "remove" => ops[m].value = Absent)

Distinct(ops) ==
  \A m, n \in 1..Len(ops) : m < n => ops[m].set # ops[n].set \/ ops[m].field # ops[n].field

LEMMA WholeMembers ==
  ASSUME NEW cr \in Seq(ServerSets), NEW ops, Len(ops) \in Nat, OnMembers(ops, cr),
         Whole(ops), Distinct(ops), NEW m \in 1..Len(ops)
  PROVE  /\ After(cr, ops, Len(ops))[ops[m].set][ops[m].field] = ops[m].value
         /\ Applies(cr, ops[m]) => Applies(After(cr, ops, m - 1), ops[m])
<1> DEFINE a == ops[m].set
           f == ops[m].field
<1>1. a \in 1..Len(cr) /\ f \in Members
  BY DEF OnMembers
<1>2. m - 1 \in 0..Len(ops) /\ m \in 0..Len(ops) /\ Len(ops) \in m..Len(ops) /\ 0 \in 0..Len(ops)
      /\ m - 1 \in 0..Len(ops)
  OBVIOUS
<1>3. After(cr, ops, m) = Applied(After(cr, ops, m - 1), ops[m]) /\ After(cr, ops, 0) = cr
  <2>1. After(cr, ops, m) = Applied(After(cr, ops, m - 1), ops[m])
    BY ONLY Len(ops) \in Nat, m \in 1..Len(ops), AfterStep, Zenon
  <2>2. After(cr, ops, 0) = cr
    BY ONLY Len(ops) \in Nat, AfterSteps, Zenon
  <2> QED BY <2>1, <2>2
<1>4. Shaped(After(cr, ops, m - 1), cr)
  BY <1>2, StaysShaped
<1>5. After(cr, ops, m)[a][f] = Given(After(cr, ops, m - 1), ops[m])
  BY <1>1, <1>3, <1>4, AppliedGives
<1>6. After(cr, ops, m)[a][f] = ops[m].value
  BY <1>5 DEF Given, Whole
<1>7. NotAbout(ops, a, f, m, Len(ops))
  BY DEF Distinct, Targets, NotAbout
<1>8. NotAbout(ops, a, f, 0, m - 1)
  BY DEF Distinct, Targets, NotAbout
<1> HIDE DEF a, f
<1>9. After(cr, ops, Len(ops))[a][f] = After(cr, ops, m)[a][f]
  BY <1>1, <1>2, <1>7, UntouchedStays
<1>10. After(cr, ops, m - 1)[a][f] = cr[a][f]
  BY <1>1, <1>2, <1>3, <1>8, UntouchedStays
<1>11. Applies(cr, ops[m]) => Applies(After(cr, ops, m - 1), ops[m])
  BY <1>10 DEF Applies, There, Whole, a, f
<1> QED BY <1>6, <1>9, <1>11 DEF a, f

LEMMA OneInSeq ==
  ASSUME NEW S, NEW x \in S
  PROVE  <<x>> \in Seq(S) /\ Len(<<x>>) = 1 /\ DOMAIN <<x>> = {1} /\ <<x>>[1] = x
OBVIOUS

LEMMA ConcatOfNothing ==
  ASSUME NEW parts, Len(parts) \in Nat, \A i \in 1..Len(parts) : parts[i] = <<>>
  PROVE  Concat(parts) = <<>>
<1>1. \A i \in 1..Len(parts) : parts[i] \in Seq({})
  BY EmptySeq
<1>2. Concat(parts) \in Seq({})
  BY <1>1, ConcatIs
<1>3. PICK c \in Seq({}) : c = Concat(parts)
  BY <1>2
<1>4. Len(c) \in Nat /\ \A n \in 1..Len(c) : c[n] \in {}
  BY ElementOfSeq, LenProperties
<1>5. Len(c) = 0
  <2>1. Len(c) # 0 => 1 \in 1..Len(c)
    BY <1>4
  <2> QED BY <1>4, <2>1
<1>6. c = <<>>
  BY <1>5, EmptySeq
<1> QED BY <1>3, <1>6

(* One operation, or none, from each part.                                   *)
Singles(parts, L, S, H, o) ==
  \A n \in 1..L : o[n] \in S /\ parts[n] = IF n \in H THEN <<o[n]>> ELSE <<>>

JoinedSingles(ops, L, S, H, o) ==
  /\ ops \in Seq(S)
  /\ \A m \in 1..Len(ops) : \E n \in 1..L : n \in H /\ ops[m] = o[n]
  /\ \A n \in 1..L : n \in H => \E m \in 1..Len(ops) : ops[m] = o[n]
  /\ \A m, n \in 1..Len(ops) : m < n =>
       \E i, j \in 1..L : i < j /\ ops[m] = o[i] /\ ops[n] = o[j]

LEMMA SinglesAre ==
  ASSUME NEW S, NEW L \in Nat, NEW parts, Len(parts) = L, NEW H, NEW o, Singles(parts, L, S, H, o)
  PROVE  JoinedSingles(Concat(parts), L, S, H, o)
<1>0. PICK ops : ops = Concat(parts)
  OBVIOUS
<1>1. ASSUME NEW n \in 1..L PROVE parts[n] \in Seq(S)
  <2>0. o[n] \in S
    BY DEF Singles
  <2>1. <<o[n]>> \in Seq(S) /\ <<>> \in Seq(S)
    BY <2>0, EmptySeq, OneInSeq
  <2>2. parts[n] = <<o[n]>> \/ parts[n] = <<>>
    BY DEF Singles
  <2> QED BY <2>1, <2>2
<1>2. /\ ops \in Seq(S) /\ Sourced(ops, parts, L) /\ Covered(ops, parts, L)
      /\ InOrder(ops, parts, L)
  BY <1>0, <1>1, ConcatIs
<1>3. Len(ops) \in Nat /\ DOMAIN ops = 1..Len(ops)
  BY <1>2, LenProperties
<1>4. ASSUME NEW n \in 1..L, NEW k \in DOMAIN parts[n] PROVE n \in H /\ parts[n][k] = o[n] /\ k = 1
  BY <1>4 DEF Singles
<1>5. ASSUME NEW m \in 1..Len(ops) PROVE \E n \in 1..L : n \in H /\ ops[m] = o[n]
  <2>1. PICK n \in 1..L : \E k \in DOMAIN parts[n] : ops[m] = parts[n][k]
    BY <1>2, <1>3, <1>5 DEF Sourced
  <2> QED BY <1>4, <2>1
<1>6. ASSUME NEW n \in 1..L, n \in H PROVE \E m \in 1..Len(ops) : ops[m] = o[n]
  <2>1. 1 \in DOMAIN parts[n] /\ parts[n][1] = o[n]
    BY <1>6 DEF Singles
  <2>2. \E m \in DOMAIN ops : ops[m] = parts[n][1]
    BY <1>2, <2>1, Zenon DEF Covered
  <2> QED BY <1>3, <2>1, <2>2
<1>7. ASSUME NEW m \in 1..Len(ops), NEW n \in 1..Len(ops), m < n
      PROVE  \E i, j \in 1..L : i < j /\ ops[m] = o[i] /\ ops[n] = o[j]
  <2>1. From(ops, parts, L, m, n)
    BY <1>2, <1>3, <1>7 DEF InOrder
  <2>2. PICK i \in 1..L, j \in 1..L : \E k \in DOMAIN parts[i], l \in DOMAIN parts[j] :
          ops[m] = parts[i][k] /\ ops[n] = parts[j][l] /\ (i < j \/ (i = j /\ k < l))
    BY <2>1, Zenon DEF From
  <2>3. PICK k \in DOMAIN parts[i], l \in DOMAIN parts[j] :
          ops[m] = parts[i][k] /\ ops[n] = parts[j][l] /\ (i < j \/ (i = j /\ k < l))
    BY <2>2
  <2>4. k = 1 /\ l = 1 /\ ops[m] = o[i] /\ ops[n] = o[j]
    BY <1>4, <2>3
  <2>5. i < j
    BY <2>3, <2>4
  <2> QED BY <2>4, <2>5
<1> QED BY <1>0, <1>2, <1>5, <1>6, <1>7 DEF JoinedSingles

-------------------------------------------------------------------------------
(* The scheduler: a removal for every set that names ours.                   *)
Removal(i) == Operation("remove", i, "schedulerName", 0, Absent)

LEMMA RemovalParts ==
  ASSUME NEW cr, NEW L \in Nat, Len(cr) = L, DOMAIN cr = 1..L
  PROVE  \E parts :
           /\ BuildSchedulerNameRemovals(cr) = Concat(parts) /\ Len(parts) = L
           /\ \A n \in 1..L : parts[n] = IF cr[L + 1 - n].schedulerName # CustomScheduler
                                         THEN <<>> ELSE <<Removal(L + 1 - n)>>
<1> DEFINE parts == [n \in 1..L |-> IF cr[L + 1 - n].schedulerName # CustomScheduler
                                    THEN <<>> ELSE <<Removal(L + 1 - n)>>]
<1>1. BuildSchedulerNameRemovals(cr) = Concat(parts)
  BY Zenon DEF BuildSchedulerNameRemovals, Removal
<1>2. \A n \in 1..L : parts[n] = IF cr[L + 1 - n].schedulerName # CustomScheduler
                                 THEN <<>> ELSE <<Removal(L + 1 - n)>>
  OBVIOUS
<1>3. parts = [n \in 1..L |-> parts[n]]
  OBVIOUS
<1> HIDE DEF parts
<1>4. Len(parts) = L
  BY <1>3, LengthIs
<1> QED BY <1>1, <1>2, <1>4

Removals(ops, cr) ==
  /\ Len(ops) \in Nat /\ DOMAIN ops = 1..Len(ops)
  /\ \A m \in 1..Len(ops) : \E i \in 1..Len(cr) :
       cr[i].schedulerName = CustomScheduler /\ ops[m] = Removal(i)
  /\ \A i \in 1..Len(cr) : cr[i].schedulerName = CustomScheduler =>
       \E m \in 1..Len(ops) : ops[m] = Removal(i)
  /\ \A m, n \in 1..Len(ops) : m < n => ops[m].set # ops[n].set

LEMMA RemovalsAre ==
  ASSUME NEW cr \in Seq(ServerSets)
  PROVE  Removals(BuildSchedulerNameRemovals(cr), cr)
<1>0. PICK ops : ops = BuildSchedulerNameRemovals(cr)
  OBVIOUS
<1> DEFINE L == Len(cr)
           S == {Removal(i) : i \in 1..L}
           H == {n \in 1..L : cr[L + 1 - n].schedulerName = CustomScheduler}
           o == [n \in 1..L |-> Removal(L + 1 - n)]
<1>1. L \in Nat /\ DOMAIN cr = 1..L
  BY SetsAreShaped
<1>2. PICK parts : /\ ops = Concat(parts) /\ Len(parts) = L
                   /\ \A n \in 1..L : parts[n] = IF cr[L + 1 - n].schedulerName # CustomScheduler
                                                 THEN <<>> ELSE <<Removal(L + 1 - n)>>
  BY <1>0, <1>1, RemovalParts
<1>3. \A n \in 1..L : L + 1 - n \in 1..L /\ L + 1 - (L + 1 - n) = n
  BY <1>1
<1>4. \A n \in 1..L : o[n] = Removal(L + 1 - n) /\ o[n] \in S
  BY <1>3
<1>5. \A n \in 1..L : n \in H <=> cr[L + 1 - n].schedulerName = CustomScheduler
  OBVIOUS
<1> HIDE DEF S, L, H, o
<1>6. Singles(parts, L, S, H, o)
  BY <1>2, <1>4, <1>5 DEF Singles
<1>7. JoinedSingles(ops, L, S, H, o)
  BY <1>1, <1>2, <1>6, SinglesAre
<1>8. Len(ops) \in Nat /\ DOMAIN ops = 1..Len(ops)
  BY <1>7, LenProperties DEF JoinedSingles
<1>9. ASSUME NEW m \in 1..Len(ops)
      PROVE  \E i \in 1..L : cr[i].schedulerName = CustomScheduler /\ ops[m] = Removal(i)
  <2>1. PICK n \in 1..L : n \in H /\ ops[m] = o[n]
    BY <1>7 DEF JoinedSingles
  <2> QED BY <1>3, <1>4, <1>5, <2>1
<1>10. \A i \in 1..L : cr[i].schedulerName = CustomScheduler =>
         \E m \in 1..Len(ops) : ops[m] = Removal(i)
  <2> SUFFICES ASSUME NEW i \in 1..L, cr[i].schedulerName = CustomScheduler
               PROVE  \E m \in 1..Len(ops) : ops[m] = Removal(i)
    OBVIOUS
  <2>1. PICK n \in 1..L : n = L + 1 - i /\ L + 1 - n = i
    BY <1>3
  <2>2. n \in H /\ o[n] = Removal(i)
    BY <1>4, <1>5, <2>1
  <2> QED BY <1>7, <2>2 DEF JoinedSingles
<1>11. ASSUME NEW m \in 1..Len(ops), NEW n \in 1..Len(ops), m < n
       PROVE  ops[m].set # ops[n].set
  <2>1. PICK i \in 1..L, j \in 1..L : i < j /\ ops[m] = o[i] /\ ops[n] = o[j]
    BY <1>7, <1>11 DEF JoinedSingles
  <2>2. L + 1 - i # L + 1 - j
    BY <1>1, <2>1
  <2>3. ops[m] = Removal(L + 1 - i) /\ ops[n] = Removal(L + 1 - j)
    BY <1>4, <2>1
  <2> QED BY <2>2, <2>3 DEF Removal, Operation
<1> QED BY <1>0, <1>8, <1>9, <1>10, <1>11 DEF L, Removals

LEMMA SchedulerSettles ==
  ASSUME NEW cr \in Seq(ServerSets), NEW ops, ops = BuildSchedulerNameRemovals(cr),
         NEW done, done = After(cr, ops, Len(ops))
  PROVE  /\ \A n \in DOMAIN ops : Applies(After(cr, ops, n - 1), ops[n])
         /\ BuildSchedulerNameRemovals(done) = <<>>
         /\ DOMAIN done = DOMAIN cr
         /\ \A i \in DOMAIN cr :
              /\ done[i].schedulerName # CustomScheduler
              /\ \A f \in Members \ {"schedulerName"} : done[i][f] = cr[i][f]
<1>1. /\ Len(ops) \in Nat /\ DOMAIN ops = 1..Len(ops)
      /\ \A m \in 1..Len(ops) : \E i \in 1..Len(cr) :
           cr[i].schedulerName = CustomScheduler /\ ops[m] = Removal(i)
      /\ \A i \in 1..Len(cr) : cr[i].schedulerName = CustomScheduler =>
           \E m \in 1..Len(ops) : ops[m] = Removal(i)
      /\ \A m, n \in 1..Len(ops) : m < n => ops[m].set # ops[n].set
  <2>1. Removals(ops, cr)
    BY RemovalsAre
  <2> QED BY <2>1 DEF Removals
<1>2. Len(cr) \in Nat /\ DOMAIN cr = 1..Len(cr)
  BY SetsAreShaped
<1>3. "schedulerName" \in Members
  BY DEF Members
<1>4. OnMembers(ops, cr) /\ Whole(ops) /\ Distinct(ops)
  BY <1>1, <1>3 DEF OnMembers, Whole, Distinct, Removal, Operation
<1>5. 0 \in 0..Len(ops) /\ Len(ops) \in 0..Len(ops) /\ 0 + 1..Len(ops) = 1..Len(ops)
  BY <1>1
<1>6. Shaped(done, cr) /\ After(cr, ops, 0) = cr
  BY <1>1, <1>4, <1>5, StaysShaped, AfterSteps
<1>7. Len(done) = Len(cr) /\ DOMAIN done = 1..Len(cr)
  BY <1>6, SameSets
<1>8. ASSUME NEW n \in 1..Len(ops) PROVE Applies(After(cr, ops, n - 1), ops[n])
  <2>1. PICK i \in 1..Len(cr) : cr[i].schedulerName = CustomScheduler /\ ops[n] = Removal(i)
    BY <1>1
  <2>2. CustomScheduler # Absent
    BY TextsAssumption, AbsentAssumption
  <2>3. Applies(cr, ops[n])
    BY <2>1, <2>2 DEF Applies, There, Removal, Operation
  <2> QED BY <1>1, <1>4, <2>3, WholeMembers
<1>9. ASSUME NEW i \in 1..Len(cr), NEW f \in Members,
             f = "schedulerName" => cr[i].schedulerName # CustomScheduler
      PROVE  done[i][f] = cr[i][f]
  <2>1. NotAbout(ops, i, f, 0, Len(ops))
    BY <1>1, <1>9 DEF NotAbout, Targets, Removal, Operation
  <2>2. After(cr, ops, Len(ops))[i][f] = After(cr, ops, 0)[i][f]
    BY <1>1, <1>4, <1>5, <2>1, UntouchedStays
  <2> QED BY <1>6, <2>2
<1>10. ASSUME NEW i \in 1..Len(cr) PROVE done[i].schedulerName # CustomScheduler
  <2>1. CASE cr[i].schedulerName # CustomScheduler
    <3>1. done[i]["schedulerName"] = cr[i]["schedulerName"]
      BY <1>3, <1>9, <2>1
    <3> QED BY <2>1, <3>1
  <2>2. CASE cr[i].schedulerName = CustomScheduler
    <3>1. PICK m \in 1..Len(ops) : ops[m] = Removal(i)
      BY <1>1, <2>2
    <3>2. done[ops[m].set][ops[m].field] = ops[m].value
      BY <1>1, <1>4, WholeMembers
    <3>3. done[i]["schedulerName"] = Absent
      BY <3>1, <3>2 DEF Removal, Operation
    <3> QED BY <3>3, TextsAssumption, AbsentAssumption
  <2> QED BY <2>1, <2>2
<1>11. BuildSchedulerNameRemovals(done) = <<>>
  <2>1. PICK parts :
          /\ BuildSchedulerNameRemovals(done) = Concat(parts) /\ Len(parts) = Len(cr)
          /\ \A n \in 1..Len(cr) :
               parts[n] = IF done[Len(cr) + 1 - n].schedulerName # CustomScheduler THEN <<>>
                          ELSE <<Removal(Len(cr) + 1 - n)>>
    BY <1>2, <1>7, RemovalParts
  <2>2. \A n \in 1..Len(cr) : Len(cr) + 1 - n \in 1..Len(cr)
    BY <1>2
  <2>3. \A n \in 1..Len(parts) : parts[n] = <<>>
    BY <1>10, <2>1, <2>2
  <2> QED BY <1>2, <2>1, <2>3, ConcatOfNothing
<1> QED BY <1>1, <1>2, <1>7, <1>8, <1>9, <1>10, <1>11

-------------------------------------------------------------------------------
(* Image tags: a replacement for every image with the placeholder.           *)
Tagging(cr, new, i) ==
  Operation("replace", i, "image", 0, [cr[i].image EXCEPT !.tag = new])

Placeholder(image) == image # Absent /\ TagOf(image) = PlaceholderImageTag

LEMMA TaggingParts ==
  ASSUME NEW cr, NEW L \in Nat, Len(cr) = L, DOMAIN cr = 1..L, NEW new
  PROVE  \E parts :
           /\ BuildImageTagPatches(cr, new) = Concat(parts) /\ Len(parts) = L
           /\ \A n \in 1..L : parts[n] = IF Placeholder(cr[n].image)
                                         THEN <<Tagging(cr, new, n)>> ELSE <<>>
<1> DEFINE part(i) == IF cr[i].image = Absent THEN <<>>
                      ELSE IF TagOf(cr[i].image) # PlaceholderImageTag THEN <<>>
                      ELSE <<Tagging(cr, new, i)>>
           parts == [n \in 1..L |-> part(n)]
<1>1. BuildImageTagPatches(cr, new) = Concat(parts)
  BY Zenon DEF BuildImageTagPatches, Tagging
<1>2. \A n \in 1..L : parts[n] = part(n)
  OBVIOUS
<1>3. parts = [n \in 1..L |-> parts[n]]
  OBVIOUS
<1>4. \A n \in 1..L : part(n) = IF Placeholder(cr[n].image) THEN <<Tagging(cr, new, n)>> ELSE <<>>
  BY Zenon DEF Placeholder
<1> HIDE DEF parts, part
<1>5. Len(parts) = L
  BY <1>3, LengthIs
<1> QED BY <1>1, <1>2, <1>4, <1>5

Taggings(ops, cr, new) ==
  /\ Len(ops) \in Nat /\ DOMAIN ops = 1..Len(ops)
  /\ \A m \in 1..Len(ops) : \E i \in 1..Len(cr) :
       Placeholder(cr[i].image) /\ ops[m] = Tagging(cr, new, i)
  /\ \A i \in 1..Len(cr) : Placeholder(cr[i].image) =>
       \E m \in 1..Len(ops) : ops[m] = Tagging(cr, new, i)
  /\ \A m, n \in 1..Len(ops) : m < n => ops[m].set # ops[n].set

LEMMA TaggingsAre ==
  ASSUME NEW cr \in Seq(ServerSets), NEW new
  PROVE  Taggings(BuildImageTagPatches(cr, new), cr, new)
<1> DEFINE L == Len(cr)
           S == {Tagging(cr, new, i) : i \in 1..L}
           H == {n \in 1..L : Placeholder(cr[n].image)}
           o == [n \in 1..L |-> Tagging(cr, new, n)]
<1>0. PICK ops : ops = BuildImageTagPatches(cr, new)
  OBVIOUS
<1>1. L \in Nat /\ DOMAIN cr = 1..L
  BY SetsAreShaped
<1>2. PICK parts : /\ ops = Concat(parts) /\ Len(parts) = L
                   /\ \A n \in 1..L : parts[n] = IF Placeholder(cr[n].image)
                                                 THEN <<Tagging(cr, new, n)>> ELSE <<>>
  BY <1>0, <1>1, TaggingParts
<1>3. \A n \in 1..L : o[n] = Tagging(cr, new, n) /\ o[n] \in S
  OBVIOUS
<1>4. \A n \in 1..L : n \in H <=> Placeholder(cr[n].image)
  OBVIOUS
<1> HIDE DEF S, L, H, o
<1>5. Singles(parts, L, S, H, o)
  BY <1>2, <1>3, <1>4 DEF Singles
<1>6. JoinedSingles(ops, L, S, H, o)
  BY <1>1, <1>2, <1>5, SinglesAre
<1>7. Len(ops) \in Nat /\ DOMAIN ops = 1..Len(ops)
  BY <1>6, LenProperties DEF JoinedSingles
<1>8. ASSUME NEW m \in 1..Len(ops)
      PROVE  \E i \in 1..L : Placeholder(cr[i].image) /\ ops[m] = Tagging(cr, new, i)
  <2>1. PICK n \in 1..L : n \in H /\ ops[m] = o[n]
    BY <1>6 DEF JoinedSingles
  <2> QED BY <1>3, <1>4, <2>1
<1>9. ASSUME NEW i \in 1..L, Placeholder(cr[i].image)
      PROVE  \E m \in 1..Len(ops) : ops[m] = Tagging(cr, new, i)
  <2>1. i \in H /\ o[i] = Tagging(cr, new, i)
    BY <1>3, <1>4, <1>9
  <2> QED BY <1>6, <2>1 DEF JoinedSingles
<1>10. ASSUME NEW m \in 1..Len(ops), NEW n \in 1..Len(ops), m < n
       PROVE  ops[m].set # ops[n].set
  <2>1. PICK i \in 1..L, j \in 1..L : i < j /\ ops[m] = o[i] /\ ops[n] = o[j]
    BY <1>6, <1>10 DEF JoinedSingles
  <2>2. ops[m] = Tagging(cr, new, i) /\ ops[n] = Tagging(cr, new, j)
    BY <1>3, <2>1
  <2>3. ops[m].set = i /\ ops[n].set = j
    BY <2>2 DEF Tagging, Operation
  <2>4. i # j
    BY <2>1
  <2> QED BY <2>3, <2>4
<1> QED BY <1>0, <1>7, <1>8, <1>9, <1>10 DEF L, Taggings

LEMMA TagSettles ==
  ASSUME NEW cr \in Seq(ServerSets), NEW new, new # PlaceholderImageTag,
         NEW ops, ops = BuildImageTagPatches(cr, new), NEW done, done = After(cr, ops, Len(ops))
  PROVE  /\ \A n \in DOMAIN ops : Applies(After(cr, ops, n - 1), ops[n])
         /\ BuildImageTagPatches(done, new) = <<>>
         /\ DOMAIN done = DOMAIN cr
         /\ \A i \in DOMAIN cr :
              /\ done[i].image # Absent =>
                   done[i].image.port \/ done[i].image.tag # PlaceholderImageTag
              /\ \A f \in Members \ {"image"} : done[i][f] = cr[i][f]
<1>1. /\ Len(ops) \in Nat /\ DOMAIN ops = 1..Len(ops)
      /\ \A m \in 1..Len(ops) : \E i \in 1..Len(cr) :
           Placeholder(cr[i].image) /\ ops[m] = Tagging(cr, new, i)
      /\ \A i \in 1..Len(cr) : Placeholder(cr[i].image) =>
           \E m \in 1..Len(ops) : ops[m] = Tagging(cr, new, i)
      /\ \A m, n \in 1..Len(ops) : m < n => ops[m].set # ops[n].set
  <2>1. Taggings(ops, cr, new)
    BY TaggingsAre
  <2> QED BY <2>1 DEF Taggings
<1>2. /\ Len(cr) \in Nat /\ DOMAIN cr = 1..Len(cr)
      /\ \A i \in 1..Len(cr) : cr[i] \in ServerSets
  BY SetsAreShaped
<1>3. "image" \in Members
  BY DEF Members
<1>4. OnMembers(ops, cr) /\ Whole(ops) /\ Distinct(ops)
  BY <1>1, <1>3 DEF OnMembers, Whole, Distinct, Tagging, Operation
<1>5. 0 \in 0..Len(ops) /\ Len(ops) \in 0..Len(ops)
  BY <1>1
<1>6. Shaped(done, cr) /\ After(cr, ops, 0) = cr
  BY <1>1, <1>4, <1>5, StaysShaped, AfterSteps
<1>7. Len(done) = Len(cr) /\ DOMAIN done = 1..Len(cr)
  BY <1>6, SameSets
<1>8. ASSUME NEW n \in 1..Len(ops) PROVE Applies(After(cr, ops, n - 1), ops[n])
  <2>1. PICK i \in 1..Len(cr) : Placeholder(cr[i].image) /\ ops[n] = Tagging(cr, new, i)
    BY <1>1
  <2>2. Applies(cr, ops[n])
    BY <2>1 DEF Applies, There, Tagging, Operation, Placeholder
  <2> QED BY <1>1, <1>4, <2>2, WholeMembers
<1>9. ASSUME NEW i \in 1..Len(cr), NEW f \in Members, f = "image" => ~Placeholder(cr[i].image)
      PROVE  done[i][f] = cr[i][f]
  <2>1. NotAbout(ops, i, f, 0, Len(ops))
    BY <1>1, <1>9 DEF NotAbout, Targets, Tagging, Operation
  <2>2. After(cr, ops, Len(ops))[i][f] = After(cr, ops, 0)[i][f]
    BY <1>1, <1>4, <1>5, <2>1, UntouchedStays
  <2> QED BY <1>6, <2>2
<1>10. ASSUME NEW i \in 1..Len(cr), done[i].image # Absent
       PROVE  done[i].image.port \/ done[i].image.tag # PlaceholderImageTag
  <2>1. CASE ~Placeholder(cr[i].image)
    <3>1. done[i]["image"] = cr[i]["image"]
      BY <1>3, <1>9, <2>1
    <3> QED BY <1>10, <2>1, <3>1 DEF Placeholder, TagOf
  <2>2. CASE Placeholder(cr[i].image)
    <3>1. PICK m \in 1..Len(ops) : ops[m] = Tagging(cr, new, i)
      BY <1>1, <2>2
    <3>0. Len(ops) \in Nat
      BY <1>1
    <3>2. After(cr, ops, Len(ops))[ops[m].set][ops[m].field] = ops[m].value
      BY <1>4, <3>0, WholeMembers
    <3>3. done[i]["image"] = [cr[i].image EXCEPT !.tag = new]
      BY <3>1, <3>2 DEF Tagging, Operation
    <3>4. cr[i].image \in Images
      BY <1>2, <2>2 DEF ServerSets, Placeholder
    <3> QED BY <3>3, <3>4 DEF Images
  <2> QED BY <2>1, <2>2
<1>11. ASSUME NEW i \in 1..Len(cr) PROVE ~Placeholder(done[i].image)
  BY <1>10 DEF Placeholder, TagOf, PlaceholderImageTag
<1>12. BuildImageTagPatches(done, new) = <<>>
  <2>1. PICK parts :
          /\ BuildImageTagPatches(done, new) = Concat(parts) /\ Len(parts) = Len(cr)
          /\ \A n \in 1..Len(cr) : parts[n] = IF Placeholder(done[n].image)
                                              THEN <<Tagging(done, new, n)>> ELSE <<>>
    BY <1>2, <1>7, TaggingParts
  <2>2. \A n \in 1..Len(parts) : parts[n] = <<>>
    BY <1>11, <2>1
  <2> QED BY <1>2, <2>1, <2>2, ConcatOfNothing
<1> QED BY <1>1, <1>2, <1>7, <1>8, <1>9, <1>10, <1>12

-------------------------------------------------------------------------------
(* One operation or none, twice and three times.                             *)
AnyOf(s, a, x) == \/ a = <<x>> /\ \E k \in DOMAIN s : s[k] = x
                  \/ a = <<>>

Triple(s, a, x, b, y, c, z) ==
  /\ s \in Seq({x, y, z}) /\ a \o b \in Seq({x, y, z})
  /\ AnyOf(s, a, x) /\ AnyOf(s, b, y) /\ AnyOf(s, c, z)
  /\ \A k \in DOMAIN s : \/ a = <<x>> /\ s[k] = x
                         \/ b = <<y>> /\ s[k] = y
                         \/ c = <<z>> /\ s[k] = z
  /\ \A k, l \in DOMAIN s : k < l => \/ s[k] = x /\ s[l] = y
                                     \/ s[k] = x /\ s[l] = z
                                     \/ s[k] = y /\ s[l] = z

LEMMA TripleIs ==
  ASSUME NEW x, NEW y, NEW z, NEW a, NEW b, NEW c,
         a = <<x>> \/ a = <<>>, b = <<y>> \/ b = <<>>, c = <<z>> \/ c = <<>>,
         NEW s, s = (a \o b) \o c
  PROVE  Triple(s, a, x, b, y, c, z)
<1> DEFINE S == {x, y, z}
<1>1. PICK parts : parts[1] = a /\ parts[2] = b /\ parts[3] = c
  <2>1. <<a, b, c>>[1] = a /\ <<a, b, c>>[2] = b /\ <<a, b, c>>[3] = c
    OBVIOUS
  <2> QED BY <2>1
<1>2. <<>> \in Seq(S) /\ <<x>> \in Seq(S) /\ <<y>> \in Seq(S) /\ <<z>> \in Seq(S)
  <2>1. x \in S /\ y \in S /\ z \in S
    OBVIOUS
  <2> HIDE DEF S
  <2> QED BY <2>1, EmptySeq, OneInSeq
<1> HIDE DEF S
<1>3. a \in Seq(S) /\ b \in Seq(S) /\ c \in Seq(S)
  BY <1>2
<1>4. 1..1 = {1} /\ 1..2 = {1, 2} /\ 1..3 = {1, 2, 3}
  OBVIOUS
<1>5. \A k, l \in DOMAIN a : ~(k < l)
  OBVIOUS
<1>6. Sourced(a, parts, 1) /\ Covered(a, parts, 1) /\ InOrder(a, parts, 1)
  BY <1>1, <1>4, <1>5 DEF Sourced, Covered, InOrder
<1>7. PICK p : p = a \o b
  OBVIOUS
<1>17. 1 + 1 = 2 /\ 2 + 1 = 3
  OBVIOUS
<1>18. p = a \o parts[1 + 1] /\ parts[1 + 1] \in Seq(S)
  BY <1>1, <1>3, <1>7, <1>17, Zenon
<1>8. /\ p \in Seq(S)
      /\ Sourced(p, parts, 1 + 1) /\ Covered(p, parts, 1 + 1) /\ InOrder(p, parts, 1 + 1)
  BY <1>3, <1>6, <1>18, JoinOne
<1>9. p \in Seq(S) /\ Sourced(p, parts, 2) /\ Covered(p, parts, 2) /\ InOrder(p, parts, 2)
  BY <1>8
<1>10. s = p \o parts[2 + 1] /\ parts[2 + 1] \in Seq(S)
  BY <1>1, <1>3, <1>7, <1>17, Zenon
<1>11. /\ s \in Seq(S)
       /\ Sourced(s, parts, 2 + 1) /\ Covered(s, parts, 2 + 1) /\ InOrder(s, parts, 2 + 1)
  <2>1. 2 \in Nat
    OBVIOUS
  <2> QED BY ONLY <1>9, <1>10, <2>1, JoinOne
<1>12. Sourced(s, parts, 3) /\ Covered(s, parts, 3) /\ InOrder(s, parts, 3)
  BY ONLY <1>11
<1>13. AnyOf(s, a, x) /\ AnyOf(s, b, y) /\ AnyOf(s, c, z)
  <2>1. \A i \in 1..3 : \A k \in DOMAIN parts[i] : \E n \in DOMAIN s : s[n] = parts[i][k]
    BY ONLY <1>12 DEF Covered
  <2>2. 1 \in 1..3 /\ 2 \in 1..3 /\ 3 \in 1..3 /\ DOMAIN <<x>> = {1} /\ <<x>>[1] = x
        /\ DOMAIN <<y>> = {1} /\ <<y>>[1] = y /\ DOMAIN <<z>> = {1} /\ <<z>>[1] = z
    OBVIOUS
  <2>3. AnyOf(s, a, x)
    <3>1. CASE a = <<x>>
      <4>1. parts[1] = <<x>>
        BY ONLY <1>1, <3>1
      <4>2. \E n \in DOMAIN s : s[n] = x
        BY ONLY <2>1, <2>2, <4>1
      <4> QED BY ONLY <3>1, <4>2 DEF AnyOf
    <3>2. CASE a = <<>>
      BY ONLY <3>2 DEF AnyOf
    <3> QED BY <3>1, <3>2
  <2>4. AnyOf(s, b, y)
    <3>1. CASE b = <<y>>
      <4>1. parts[2] = <<y>>
        BY ONLY <1>1, <3>1
      <4>2. \E n \in DOMAIN s : s[n] = y
        BY ONLY <2>1, <2>2, <4>1
      <4> QED BY ONLY <3>1, <4>2 DEF AnyOf
    <3>2. CASE b = <<>>
      BY ONLY <3>2 DEF AnyOf
    <3> QED BY <3>1, <3>2
  <2>5. AnyOf(s, c, z)
    <3>1. CASE c = <<z>>
      <4>1. parts[3] = <<z>>
        BY ONLY <1>1, <3>1
      <4>2. \E n \in DOMAIN s : s[n] = z
        BY ONLY <2>1, <2>2, <4>1
      <4> QED BY ONLY <3>1, <4>2 DEF AnyOf
    <3>2. CASE c = <<>>
      BY ONLY <3>2 DEF AnyOf
    <3> QED BY <3>1, <3>2
  <2> QED BY <2>3, <2>4, <2>5
<1>14. ASSUME NEW i \in 1..3, NEW k \in DOMAIN parts[i]
       PROVE  /\ k = 1
              /\ \/ i = 1 /\ a = <<x>> /\ parts[i][k] = x
                 \/ i = 2 /\ b = <<y>> /\ parts[i][k] = y
                 \/ i = 3 /\ c = <<z>> /\ parts[i][k] = z
  <2>1. CASE i = 1
    BY <1>1, <1>14, <2>1
  <2>2. CASE i = 2
    BY <1>1, <1>14, <2>2
  <2>3. CASE i = 3
    BY <1>1, <1>14, <2>3
  <2> QED BY <1>4, <2>1, <2>2, <2>3
<1>15. ASSUME NEW k \in DOMAIN s
       PROVE  \/ a = <<x>> /\ s[k] = x
              \/ b = <<y>> /\ s[k] = y
              \/ c = <<z>> /\ s[k] = z
  <2>1. PICK i \in 1..3 : \E n \in DOMAIN parts[i] : s[k] = parts[i][n]
    BY <1>12, <1>15 DEF Sourced
  <2>2. PICK n \in DOMAIN parts[i] : s[k] = parts[i][n]
    BY <2>1
  <2>3. \/ i = 1 /\ a = <<x>> /\ parts[i][n] = x
        \/ i = 2 /\ b = <<y>> /\ parts[i][n] = y
        \/ i = 3 /\ c = <<z>> /\ parts[i][n] = z
    BY <1>14
  <2> QED BY <2>2, <2>3, Zenon
<1>16. ASSUME NEW k \in DOMAIN s, NEW l \in DOMAIN s, k < l
       PROVE  \/ s[k] = x /\ s[l] = y
              \/ s[k] = x /\ s[l] = z
              \/ s[k] = y /\ s[l] = z
  <2>1. From(s, parts, 3, k, l)
    BY <1>12, <1>16 DEF InOrder
  <2>2. PICK i \in 1..3, j \in 1..3 : \E n \in DOMAIN parts[i], m \in DOMAIN parts[j] :
          s[k] = parts[i][n] /\ s[l] = parts[j][m] /\ (i < j \/ (i = j /\ n < m))
    BY <2>1, Zenon DEF From
  <2>3. PICK n \in DOMAIN parts[i], m \in DOMAIN parts[j] :
          s[k] = parts[i][n] /\ s[l] = parts[j][m] /\ (i < j \/ (i = j /\ n < m))
    BY <2>2
  <2>4. n = 1 /\ m = 1
    BY <1>14
  <2>5. i < j
    BY <2>3, <2>4
  <2>6. \/ i = 1 /\ a = <<x>> /\ parts[i][n] = x
        \/ i = 2 /\ b = <<y>> /\ parts[i][n] = y
        \/ i = 3 /\ c = <<z>> /\ parts[i][n] = z
    BY <1>14
  <2>7. \/ j = 1 /\ a = <<x>> /\ parts[j][m] = x
        \/ j = 2 /\ b = <<y>> /\ parts[j][m] = y
        \/ j = 3 /\ c = <<z>> /\ parts[j][m] = z
    BY <1>14
  <2>8. /\ i # 1 \/ j # 1
        /\ i # 2 \/ (j # 1 /\ j # 2)
        /\ i # 3
    BY <2>5
  <2> QED BY <2>3, <2>6, <2>7, <2>8, Zenon
<1> QED BY <1>7, <1>9, <1>11, <1>13, <1>15, <1>16, <1>17, Zenon DEF S, Triple

-------------------------------------------------------------------------------
(* Scaling: what has to change of a set, and the operation that changes it.  *)
ScalingFields == {"dedicatedScaling", "replicas", "partitions"}

Lacks(set, w, f) ==
  \/ f = "dedicatedScaling" /\ Dedicated(set) # w.dedicated
  \/ f = "replicas" /\ set.replicas # w.replicas
  \/ f = "partitions" /\ w.dedicated /\ set.partitions \notin {Absent, <<>>}
  \/ f = "partitions" /\ ~w.dedicated /\ set.partitions # <<w.partitions[set.map]>>

Change(set, i, w, f) ==
  IF f = "dedicatedScaling" THEN Operation("replace", i, "dedicatedScaling", 0, w.dedicated)
  ELSE IF f = "replicas" THEN Operation(AddOrReplace(set.replicas), i, "replicas", 0, w.replicas)
  ELSE IF w.dedicated THEN Operation("remove", i, "partitions", 0, Absent)
  ELSE Operation(AddOrReplace(set.partitions), i, "partitions", 0, <<w.partitions[set.map]>>)

OpsOfSet(set, i, w) == ScalingOps(set, i, w.dedicated, w.replicas, w.partitions)

Changes(s, set, i, w) ==
  /\ s \in Seq({Change(set, i, w, f) : f \in ScalingFields})
  /\ \A k \in DOMAIN s : \E f \in ScalingFields : Lacks(set, w, f) /\ s[k] = Change(set, i, w, f)
  /\ \A f \in ScalingFields : Lacks(set, w, f) => \E k \in DOMAIN s : s[k] = Change(set, i, w, f)
  /\ \A k, l \in DOMAIN s : k < l => s[k].field # s[l].field
  /\ (\A f \in ScalingFields : ~Lacks(set, w, f)) => s = <<>>

LEMMA ChangesAre ==
  ASSUME NEW set, NEW i, NEW w
  PROVE  Changes(OpsOfSet(set, i, w), set, i, w)
<1> DEFINE x == Change(set, i, w, "dedicatedScaling")
           y == Change(set, i, w, "replicas")
           z == Change(set, i, w, "partitions")
           a == IF Lacks(set, w, "dedicatedScaling") THEN <<x>> ELSE <<>>
           b == IF Lacks(set, w, "replicas") THEN <<y>> ELSE <<>>
           c == IF Lacks(set, w, "partitions") THEN <<z>> ELSE <<>>
           s == (a \o b) \o c
<1>1. a = IF Dedicated(set) = w.dedicated THEN <<>>
          ELSE <<Operation("replace", i, "dedicatedScaling", 0, w.dedicated)>>
  BY DEF Lacks, Change
<1>2. b = IF set.replicas = w.replicas THEN <<>>
          ELSE <<Operation(AddOrReplace(set.replicas), i, "replicas", 0, w.replicas)>>
  BY DEF Lacks, Change
<1>3. c = IF w.dedicated
          THEN IF set.partitions \in {Absent, <<>>} THEN <<>>
               ELSE <<Operation("remove", i, "partitions", 0, Absent)>>
          ELSE IF set.partitions = <<w.partitions[set.map]>> THEN <<>>
               ELSE <<Operation(AddOrReplace(set.partitions), i, "partitions", 0,
                                <<w.partitions[set.map]>>)>>
  BY DEF Lacks, Change
<1> HIDE DEF a, b, c
<1>4. OpsOfSet(set, i, w) = s
  BY <1>1, <1>2, <1>3, Zenon DEF OpsOfSet, ScalingOps
<1>5. /\ a = <<x>> \/ a = <<>>
      /\ b = <<y>> \/ b = <<>>
      /\ c = <<z>> \/ c = <<>>
      /\ Lacks(set, w, "dedicatedScaling") <=> a = <<x>>
      /\ Lacks(set, w, "replicas") <=> b = <<y>>
      /\ Lacks(set, w, "partitions") <=> c = <<z>>
  <2>1. \A v : <<v>> # <<>>
    OBVIOUS
  <2> QED BY <2>1, Zenon DEF a, b, c
<1> HIDE DEF s, x, y, z
<1>6. s = (a \o b) \o c
  BY Zenon DEF s
<1>7. /\ s \in Seq({x, y, z})
      /\ AnyOf(s, a, x) /\ AnyOf(s, b, y) /\ AnyOf(s, c, z)
      /\ \A k \in DOMAIN s : \/ a = <<x>> /\ s[k] = x
                             \/ b = <<y>> /\ s[k] = y
                             \/ c = <<z>> /\ s[k] = z
      /\ \A k, l \in DOMAIN s : k < l => \/ s[k] = x /\ s[l] = y
                                         \/ s[k] = x /\ s[l] = z
                                         \/ s[k] = y /\ s[l] = z
  <2>1. Triple(s, a, x, b, y, c, z)
    BY <1>5, <1>6, TripleIs
  <2> QED BY <2>1, Zenon DEF Triple
<1>8. x.field = "dedicatedScaling" /\ y.field = "replicas" /\ z.field = "partitions"
  BY DEF x, y, z, Change, Operation
<1>9. {Change(set, i, w, f) : f \in ScalingFields} = {x, y, z}
  BY DEF x, y, z, ScalingFields
<1>10. ASSUME NEW k \in DOMAIN s
       PROVE  \E f \in ScalingFields : Lacks(set, w, f) /\ s[k] = Change(set, i, w, f)
  <2>1. "dedicatedScaling" \in ScalingFields /\ "replicas" \in ScalingFields
        /\ "partitions" \in ScalingFields
    BY DEF ScalingFields
  <2> QED BY <1>5, <1>7, <2>1, Zenon DEF x, y, z
<1>11. ASSUME NEW f \in ScalingFields, Lacks(set, w, f)
       PROVE  \E k \in DOMAIN s : s[k] = Change(set, i, w, f)
  <2>1. f = "dedicatedScaling" \/ f = "replicas" \/ f = "partitions"
    BY DEF ScalingFields
  <2>2. \A v : <<v>> # <<>>
    OBVIOUS
  <2> QED BY <1>5, <1>7, <1>11, <2>1, <2>2, Zenon DEF x, y, z, AnyOf
<1>12. ASSUME NEW k \in DOMAIN s, NEW l \in DOMAIN s, k < l PROVE s[k].field # s[l].field
  <2>1. \/ s[k] = x /\ s[l] = y
        \/ s[k] = x /\ s[l] = z
        \/ s[k] = y /\ s[l] = z
    BY <1>7, <1>12
  <2> QED BY <1>8, <2>1
<1>13. ASSUME \A f \in ScalingFields : ~Lacks(set, w, f) PROVE s = <<>>
  <2>1. a = <<>> /\ b = <<>> /\ c = <<>>
    BY <1>13, Zenon DEF a, b, c, ScalingFields
  <2> QED BY <1>6, <2>1, EmptySeq, ConcatEmptySeq
<1> QED BY <1>4, <1>7, <1>9, <1>10, <1>11, <1>12, <1>13, Zenon DEF Changes

OneSetPerMap(cr) == \A i, j \in DOMAIN cr : cr[i].map = cr[j].map => i = j

Unknown(cr, w) ==
  /\ ~w.dedicated
  /\ \E i \in DOMAIN cr : cr[i].map \in ToSet(w.maps) /\ cr[i].map \notin DOMAIN w.partitions

ScalingPatches(cr, w) ==
  BuildScalingPatches(cr, w.maps, w.dedicated, w.replicas, w.partitions).ops

LEMMA ScalingParts ==
  ASSUME NEW cr, NEW L \in Nat, Len(cr) = L, DOMAIN cr = 1..L, OneSetPerMap(cr), NEW w
  PROVE  IF Unknown(cr, w) THEN ScalingPatches(cr, w) = <<>>
         ELSE \E parts :
                /\ ScalingPatches(cr, w) = Concat(parts) /\ Len(parts) = L
                /\ \A i \in 1..L : parts[i] = IF cr[i].map \notin ToSet(w.maps) THEN <<>>
                                              ELSE OpsOfSet(cr[i], i, w)
<1> DEFINE matched == {i \in DOMAIN cr : /\ cr[i].map \in ToSet(w.maps)
                                         /\ \A j \in DOMAIN cr : cr[j].map = cr[i].map => j <= i}
           missing == {i \in matched : ~w.dedicated /\ cr[i].map \notin DOMAIN w.partitions}
           parts == [i \in DOMAIN cr |-> IF i \notin matched THEN <<>> ELSE OpsOfSet(cr[i], i, w)]
<1>1. ScalingPatches(cr, w) = IF missing # {} THEN <<>> ELSE Concat(parts)
  BY Zenon DEF ScalingPatches, BuildScalingPatches, OpsOfSet
<1>2. \A i \in 1..L : i \in matched <=> cr[i].map \in ToSet(w.maps)
  BY DEF OneSetPerMap
<1>3. parts = [i \in 1..L |-> parts[i]]
  OBVIOUS
<1>4. \A i \in 1..L : parts[i] = IF i \notin matched THEN <<>> ELSE OpsOfSet(cr[i], i, w)
  OBVIOUS
<1>5. missing # {} <=> Unknown(cr, w)
  BY <1>2 DEF Unknown
<1> HIDE DEF parts, missing, matched
<1>6. Len(parts) = L
  BY <1>3, LengthIs
<1> QED BY <1>1, <1>2, <1>4, <1>5, <1>6

Scalings(ops, cr, w) ==
  /\ Len(ops) \in Nat /\ DOMAIN ops = 1..Len(ops)
  /\ \A m \in 1..Len(ops) : \E i \in 1..Len(cr) : \E f \in ScalingFields :
       cr[i].map \in ToSet(w.maps) /\ Lacks(cr[i], w, f) /\ ops[m] = Change(cr[i], i, w, f)
  /\ \A i \in 1..Len(cr), f \in ScalingFields : cr[i].map \in ToSet(w.maps) /\ Lacks(cr[i], w, f) =>
       \E m \in 1..Len(ops) : ops[m] = Change(cr[i], i, w, f)
  /\ Distinct(ops)

LEMMA ChangeIsAbout ==
  ASSUME NEW set, NEW i, NEW w, NEW f \in ScalingFields
  PROVE  /\ Change(set, i, w, f).set = i /\ Change(set, i, w, f).field = f
         /\ Change(set, i, w, f).at = 0
         /\ Change(set, i, w, f).op = "remove" => Change(set, i, w, f).value = Absent
<1>1. AddOrReplace(set.replicas) # "remove" /\ AddOrReplace(set.partitions) # "remove"
  BY DEF AddOrReplace
<1>2. CASE f = "dedicatedScaling"
  BY <1>2 DEF Change, Operation
<1>3. CASE f = "replicas"
  BY <1>1, <1>3 DEF Change, Operation
<1>4. CASE f = "partitions"
  BY <1>1, <1>4 DEF Change, Operation
<1> QED BY <1>2, <1>3, <1>4 DEF ScalingFields

LEMMA ScalingsAre ==
  ASSUME NEW cr \in Seq(ServerSets), OneSetPerMap(cr), NEW w, ~Unknown(cr, w)
  PROVE  Scalings(ScalingPatches(cr, w), cr, w)
<1> DEFINE L == Len(cr)
           Of(i) == {Change(cr[i], i, w, f) : f \in ScalingFields}
           S == UNION {Of(i) : i \in 1..L}
<1>0. PICK ops : ops = ScalingPatches(cr, w)
  OBVIOUS
<1>1. L \in Nat /\ DOMAIN cr = 1..L
  BY SetsAreShaped
<1>2. PICK parts : /\ ops = Concat(parts) /\ Len(parts) = L
                   /\ \A i \in 1..L : parts[i] = IF cr[i].map \notin ToSet(w.maps) THEN <<>>
                                                 ELSE OpsOfSet(cr[i], i, w)
  BY <1>0, <1>1, ScalingParts
<1>3. ASSUME NEW i \in 1..L
      PROVE  cr[i].map \notin ToSet(w.maps) \/ Changes(parts[i], cr[i], i, w)
  BY <1>2, ChangesAre
<1>4. ASSUME NEW i \in 1..L PROVE parts[i] \in Seq(S)
  <2>1. Of(i) \subseteq S
    OBVIOUS
  <2>2. cr[i].map \in ToSet(w.maps) => parts[i] \in Seq(Of(i))
    BY <1>3, Zenon DEF Changes
  <2> HIDE DEF S, Of
  <2>3. cr[i].map \in ToSet(w.maps) => parts[i] \in Seq(S)
    BY <2>1, <2>2, SeqMonotonic
  <2> QED BY <1>2, <2>3, EmptySeq
<1> HIDE DEF S, L
<1>5. /\ ops \in Seq(S) /\ Sourced(ops, parts, L) /\ Covered(ops, parts, L)
      /\ InOrder(ops, parts, L)
  BY <1>1, <1>2, <1>4, ConcatIs
<1>6. Len(ops) \in Nat /\ DOMAIN ops = 1..Len(ops)
  BY <1>5, LenProperties
<1>7. ASSUME NEW i \in 1..L, NEW k \in DOMAIN parts[i]
      PROVE  cr[i].map \in ToSet(w.maps) /\ Changes(parts[i], cr[i], i, w)
  BY <1>2, <1>3, <1>7
<1>8. ASSUME NEW i \in 1..L, NEW k \in DOMAIN parts[i]
      PROVE  \E f \in ScalingFields :
               /\ cr[i].map \in ToSet(w.maps) /\ Lacks(cr[i], w, f)
               /\ parts[i][k] = Change(cr[i], i, w, f)
  <2>1. cr[i].map \in ToSet(w.maps) /\ Changes(parts[i], cr[i], i, w)
    BY <1>7
  <2>2. \A l \in DOMAIN parts[i] : \E f \in ScalingFields :
          Lacks(cr[i], w, f) /\ parts[i][l] = Change(cr[i], i, w, f)
    BY ONLY <2>1 DEF Changes
  <2>3. PICK f \in ScalingFields : Lacks(cr[i], w, f) /\ parts[i][k] = Change(cr[i], i, w, f)
    BY <2>2
  <2> QED BY <2>1, <2>3
<1>9. ASSUME NEW m \in 1..Len(ops)
      PROVE  \E i \in 1..L : \E f \in ScalingFields :
               cr[i].map \in ToSet(w.maps) /\ Lacks(cr[i], w, f) /\ ops[m] = Change(cr[i], i, w, f)
  <2>1. PICK i \in 1..L : \E k \in DOMAIN parts[i] : ops[m] = parts[i][k]
    BY <1>5, <1>6, <1>9 DEF Sourced
  <2>2. PICK k \in DOMAIN parts[i] : ops[m] = parts[i][k]
    BY <2>1
  <2>3. PICK f \in ScalingFields :
          /\ cr[i].map \in ToSet(w.maps) /\ Lacks(cr[i], w, f)
          /\ parts[i][k] = Change(cr[i], i, w, f)
    BY <1>8
  <2> QED BY <2>2, <2>3
<1>10. ASSUME NEW i \in 1..L, NEW f \in ScalingFields,
              cr[i].map \in ToSet(w.maps), Lacks(cr[i], w, f)
       PROVE  \E m \in 1..Len(ops) : ops[m] = Change(cr[i], i, w, f)
  <2>1. PICK k \in DOMAIN parts[i] : parts[i][k] = Change(cr[i], i, w, f)
    BY <1>3, <1>10, Zenon DEF Changes
  <2>2. \E m \in DOMAIN ops : ops[m] = parts[i][k]
    BY <1>5, Zenon DEF Covered
  <2> QED BY <1>6, <2>1, <2>2
<1>11. ASSUME NEW m \in 1..Len(ops), NEW n \in 1..Len(ops), m < n
       PROVE  ops[m].set # ops[n].set \/ ops[m].field # ops[n].field
  <2>1. From(ops, parts, L, m, n)
    BY <1>5, <1>6, <1>11 DEF InOrder
  <2>2. PICK i \in 1..L, j \in 1..L : \E k \in DOMAIN parts[i], l \in DOMAIN parts[j] :
          ops[m] = parts[i][k] /\ ops[n] = parts[j][l] /\ (i < j \/ (i = j /\ k < l))
    BY <2>1, Zenon DEF From
  <2>3. PICK k \in DOMAIN parts[i], l \in DOMAIN parts[j] :
          ops[m] = parts[i][k] /\ ops[n] = parts[j][l] /\ (i < j \/ (i = j /\ k < l))
    BY <2>2
  <2>4. PICK f \in ScalingFields, g \in ScalingFields :
          ops[m] = Change(cr[i], i, w, f) /\ ops[n] = Change(cr[j], j, w, g)
    BY <1>8, <2>3, Zenon
  <2>5. ops[m].set = i /\ ops[n].set = j
    BY <2>4, ChangeIsAbout
  <2>6. CASE i < j
    <3>1. i # j
      BY <2>6
    <3> QED BY <2>5, <3>1
  <2>7. CASE i = j /\ k < l
    <3>1. l \in DOMAIN parts[i] /\ ops[n] = parts[i][l] /\ ops[m] = parts[i][k]
      BY <2>3, <2>7, Zenon
    <3>2. parts[i][k].field # parts[i][l].field
      <4>1. Changes(parts[i], cr[i], i, w)
        BY <1>7
      <4>2. \A a, b \in DOMAIN parts[i] : a < b => parts[i][a].field # parts[i][b].field
        BY ONLY <4>1 DEF Changes
      <4> QED BY <2>7, <3>1, <4>2
    <3> QED BY <3>1, <3>2
  <2> QED BY <2>3, <2>6, <2>7
<1> QED BY <1>0, <1>6, <1>9, <1>10, <1>11 DEF L, Scalings, Distinct

Scaled(set, w) ==
  /\ set.dedicatedScaling = w.dedicated
  /\ set.replicas = w.replicas
  /\ IF w.dedicated THEN set.partitions \in {Absent, <<>>}
     ELSE set.partitions = <<w.partitions[set.map]>>

LEMMA ScalingSettles ==
  ASSUME NEW cr \in Seq(ServerSets), OneSetPerMap(cr), NEW w, w.dedicated \in BOOLEAN,
         NEW ops, ops = ScalingPatches(cr, w), NEW done, done = After(cr, ops, Len(ops))
  PROVE  /\ \A n \in DOMAIN ops : Applies(After(cr, ops, n - 1), ops[n])
         /\ ScalingPatches(done, w) = <<>>
         /\ Unknown(cr, w) => ops = <<>>
         /\ DOMAIN done = DOMAIN cr
         /\ \A i \in DOMAIN cr :
              /\ Unknown(cr, w) \/ (cr[i].map \in ToSet(w.maps) => Scaled(done[i], w))
              /\ \A f \in Members \ ScalingFields : done[i][f] = cr[i][f]
<1>1. /\ Len(cr) \in Nat /\ DOMAIN cr = 1..Len(cr)
      /\ \A i \in 1..Len(cr) : cr[i] \in ServerSets
  BY SetsAreShaped
<1>2. CASE Unknown(cr, w)
  <2>1. ops = <<>>
    BY <1>1, <1>2, ScalingParts
  <2>2. Len(ops) = 0 /\ DOMAIN ops = {}
    BY <2>1
  <2>3. done = cr
    BY <2>2, AfterSteps
  <2> QED BY <1>2, <2>1, <2>2, <2>3
<1>3. CASE ~Unknown(cr, w)
  <2>1. Scalings(ops, cr, w)
    BY <1>3, ScalingsAre
  <2>2. /\ Len(ops) \in Nat /\ DOMAIN ops = 1..Len(ops) /\ Distinct(ops)
        /\ \A m \in 1..Len(ops) : \E i \in 1..Len(cr) : \E f \in ScalingFields :
             /\ cr[i].map \in ToSet(w.maps) /\ Lacks(cr[i], w, f)
             /\ ops[m] = Change(cr[i], i, w, f)
        /\ \A i \in 1..Len(cr), f \in ScalingFields :
             cr[i].map \in ToSet(w.maps) /\ Lacks(cr[i], w, f) =>
               \E m \in 1..Len(ops) : ops[m] = Change(cr[i], i, w, f)
    BY <2>1, Zenon DEF Scalings
  <2>3. ScalingFields \subseteq Members /\ "map" \in Members \ ScalingFields
    BY DEF ScalingFields, Members
  <2>4. OnMembers(ops, cr) /\ Whole(ops)
    <3> SUFFICES ASSUME NEW m \in 1..Len(ops)
                 PROVE  /\ ops[m].set \in 1..Len(cr) /\ ops[m].field \in Members
                        /\ ops[m].at = 0 /\ (ops[m].op = "remove" => ops[m].value = Absent)
      BY DEF OnMembers, Whole
    <3>1. PICK i \in 1..Len(cr), f \in ScalingFields : ops[m] = Change(cr[i], i, w, f)
      BY <2>2
    <3> QED BY <2>3, <3>1, ChangeIsAbout
  <2>5. 0 \in 0..Len(ops) /\ Len(ops) \in 0..Len(ops) /\ Len(ops) \in Nat
    BY <2>2
  <2>6. Shaped(done, cr) /\ After(cr, ops, 0) = cr
    BY <2>4, <2>5, StaysShaped, AfterSteps
  <2>7. Len(done) = Len(cr) /\ DOMAIN done = 1..Len(cr)
    BY <2>6, SameSets
  <2>8. ASSUME NEW n \in 1..Len(ops) PROVE Applies(After(cr, ops, n - 1), ops[n])
    <3>1. PICK i \in 1..Len(cr), f \in ScalingFields :
            Lacks(cr[i], w, f) /\ ops[n] = Change(cr[i], i, w, f)
      BY <2>2
    <3>2. cr[i].dedicatedScaling # Absent
      BY <1>1, AbsentAssumption DEF ServerSets
    <3>3. ops[n].set = i /\ ops[n].field = f /\ ops[n].at = 0
      BY <3>1, ChangeIsAbout
    <3>4. ops[n].op = "add" \/ cr[i][f] # Absent
      <4>1. CASE f = "dedicatedScaling"
        BY <3>2, <4>1
      <4>2. CASE f = "replicas"
        BY <3>1, <4>2 DEF Change, Operation, AddOrReplace
      <4>3. CASE f = "partitions"
        BY <3>1, <4>3 DEF Change, Operation, AddOrReplace, Lacks
      <4> QED BY <4>1, <4>2, <4>3 DEF ScalingFields
    <3>6. Applies(cr, ops[n])
      BY <3>3, <3>4 DEF Applies, There
    <3> QED BY <2>2, <2>4, <2>5, <3>6, WholeMembers
  <2>9. ASSUME NEW i \in 1..Len(cr), NEW f \in Members,
               f \in ScalingFields => cr[i].map \notin ToSet(w.maps) \/ ~Lacks(cr[i], w, f)
        PROVE  done[i][f] = cr[i][f]
    <3>1. NotAbout(ops, i, f, 0, Len(ops))
      BY <2>2, <2>5, <2>9, ChangeIsAbout DEF NotAbout, Targets
    <3>2. After(cr, ops, Len(ops))[i][f] = After(cr, ops, 0)[i][f]
      BY <2>4, <2>5, <3>1, UntouchedStays
    <3> QED BY <2>6, <3>2
  <2>10. ASSUME NEW i \in 1..Len(cr), NEW f \in ScalingFields,
                cr[i].map \in ToSet(w.maps), Lacks(cr[i], w, f)
         PROVE  done[i][f] = Change(cr[i], i, w, f).value
    <3>1. PICK m \in 1..Len(ops) : ops[m] = Change(cr[i], i, w, f)
      BY <2>2, <2>10
    <3>2. After(cr, ops, Len(ops))[ops[m].set][ops[m].field] = ops[m].value
      <4>1. Len(ops) \in Nat /\ Distinct(ops)
        BY <2>2
      <4> QED BY <2>4, <2>5, <4>1, WholeMembers
    <3>3. ops[m].set = i /\ ops[m].field = f
      BY <3>1, ChangeIsAbout
    <3> QED BY <3>1, <3>2, <3>3
  <2>11. ASSUME NEW i \in 1..Len(cr) PROVE done[i].map = cr[i].map
    <3>1. done[i]["map"] = cr[i]["map"]
      BY <2>3, <2>9
    <3> QED BY <3>1
  <2>12. ASSUME NEW i \in 1..Len(cr), cr[i].map \in ToSet(w.maps)
         PROVE  Scaled(done[i], w) /\ Dedicated(done[i]) = w.dedicated
    <3>1. done[i].dedicatedScaling = w.dedicated
      <4>1. "dedicatedScaling" \in ScalingFields
        BY DEF ScalingFields
      <4>2. CASE Lacks(cr[i], w, "dedicatedScaling")
        <5>1. done[i]["dedicatedScaling"] = Change(cr[i], i, w, "dedicatedScaling").value
          BY <2>10, <2>12, <4>1, <4>2
        <5> QED BY <5>1 DEF Change, Operation
      <4>3. CASE ~Lacks(cr[i], w, "dedicatedScaling")
        <5>1. done[i]["dedicatedScaling"] = cr[i]["dedicatedScaling"]
          BY <2>3, <2>9, <4>1, <4>3
        <5>2. cr[i].dedicatedScaling \in BOOLEAN /\ cr[i].dedicatedScaling # Absent
          BY <1>1, AbsentAssumption DEF ServerSets
        <5>3. Dedicated(cr[i]) = w.dedicated
          BY <4>3, Zenon DEF Lacks
        <5> QED BY <5>1, <5>2, <5>3 DEF Dedicated
      <4> QED BY <4>2, <4>3
    <3>2. done[i].replicas = w.replicas
      <4>1. "replicas" \in ScalingFields
        BY DEF ScalingFields
      <4>2. CASE Lacks(cr[i], w, "replicas")
        <5>1. done[i]["replicas"] = Change(cr[i], i, w, "replicas").value
          BY <2>10, <2>12, <4>1, <4>2
        <5> QED BY <5>1 DEF Change, Operation
      <4>3. CASE ~Lacks(cr[i], w, "replicas")
        <5>1. done[i]["replicas"] = cr[i]["replicas"]
          BY <2>3, <2>9, <4>1, <4>3
        <5> QED BY <4>3, <5>1 DEF Lacks
      <4> QED BY <4>2, <4>3
    <3>3. IF w.dedicated THEN done[i].partitions \in {Absent, <<>>}
          ELSE done[i].partitions = <<w.partitions[cr[i].map]>>
      <4>1. "partitions" \in ScalingFields
        BY DEF ScalingFields
      <4>2. CASE Lacks(cr[i], w, "partitions")
        <5>1. done[i]["partitions"] = Change(cr[i], i, w, "partitions").value
          BY <2>10, <2>12, <4>1, <4>2
        <5> QED BY <5>1 DEF Change, Operation
      <4>3. CASE ~Lacks(cr[i], w, "partitions")
        <5>1. done[i]["partitions"] = cr[i]["partitions"]
          BY <2>3, <2>9, <4>1, <4>3
        <5> QED BY <4>3, <5>1 DEF Lacks
      <4> QED BY <4>2, <4>3
    <3>4. Dedicated(done[i]) = w.dedicated
      BY <3>1, AbsentAssumption DEF Dedicated
    <3> QED BY <2>11, <3>1, <3>2, <3>3, <3>4 DEF Scaled
  <2>13. ScalingPatches(done, w) = <<>>
    <3>1. OneSetPerMap(done)
      BY <1>1, <2>7, <2>11 DEF OneSetPerMap
    <3>2. CASE Unknown(done, w)
      BY <1>1, <2>7, <3>1, <3>2, ScalingParts
    <3>3. CASE ~Unknown(done, w)
      <4>1. PICK parts :
              /\ ScalingPatches(done, w) = Concat(parts) /\ Len(parts) = Len(cr)
              /\ \A i \in 1..Len(cr) : parts[i] = IF done[i].map \notin ToSet(w.maps) THEN <<>>
                                                  ELSE OpsOfSet(done[i], i, w)
        BY <1>1, <2>7, <3>1, <3>3, ScalingParts
      <4>2. ASSUME NEW i \in 1..Len(cr), done[i].map \in ToSet(w.maps) PROVE parts[i] = <<>>
        <5>1. Scaled(done[i], w) /\ Dedicated(done[i]) = w.dedicated
          BY <2>11, <2>12, <4>2
        <5>2. \A f \in ScalingFields : ~Lacks(done[i], w, f)
          BY <5>1 DEF Lacks, Scaled, ScalingFields
        <5>3. Changes(parts[i], done[i], i, w)
          BY <4>1, <4>2, ChangesAre
        <5> QED BY <5>2, <5>3, Zenon DEF Changes
      <4>3. \A i \in 1..Len(parts) : parts[i] = <<>>
        BY <4>1, <4>2
      <4> QED BY <1>1, <4>1, <4>3, ConcatOfNothing
    <3> QED BY <3>2, <3>3
  <2> QED BY <1>1, <1>3, <2>2, <2>7, <2>8, <2>9, <2>12, <2>13
<1> QED BY <1>2, <1>3

-------------------------------------------------------------------------------
(* Ports: the arguments of a set with a port put in.                         *)
Prefixed(args, prefix) == {n \in DOMAIN args : args[n][1] = prefix}

FirstOf(found) == CHOOSE n \in found : \A k \in found : n <= k

HasPort(args, prefix, port) ==
  Prefixed(args, prefix) # {} /\ args[FirstOf(Prefixed(args, prefix))][2] = port

PutPort(args, prefix, port) ==
  IF Prefixed(args, prefix) = {} THEN Append(args, <<prefix, port>>)
  ELSE [args EXCEPT ![FirstOf(Prefixed(args, prefix))] = <<prefix, port>>]

PortOp(i, args, prefix, port) ==
  IF Prefixed(args, prefix) = {}
  THEN Operation("add", i, "arguments", Len(args) + 1, <<prefix, port>>)
  ELSE Operation("replace", i, "arguments", FirstOf(Prefixed(args, prefix)), <<prefix, port>>)

LEMMA PairHas ==
  ASSUME NEW x, NEW y PROVE \E p : p = <<x, y>> /\ p[1] = x /\ p[2] = y
<1>1. <<x, y>>[1] = x /\ <<x, y>>[2] = y
  OBVIOUS
<1> QED BY <1>1

LEMMA FirstIsFirst ==
  ASSUME NEW T, T \subseteq Nat, T # {}
  PROVE  FirstOf(T) \in T /\ \A k \in T : FirstOf(T) <= k
<1>1. \E n \in T : \A k \in T : n <= k
  BY MinExists
<1> QED BY <1>1 DEF FirstOf

LEMMA PortOpIs ==
  ASSUME NEW i, NEW args, NEW prefix, NEW port
  PROVE  portArgOpsForSet(i, args, prefix, port)
           = IF HasPort(args, prefix, port) THEN <<>> ELSE <<PortOp(i, args, prefix, port)>>
<1> DEFINE found == {n \in DOMAIN args : args[n][1] = prefix}
           first == CHOOSE n \in found : \A k \in found : n <= k
<1>1. portArgOpsForSet(i, args, prefix, port)
        = IF found = {} THEN <<Operation("add", i, "arguments", Len(args) + 1, <<prefix, port>>)>>
          ELSE IF args[first][2] = port THEN <<>>
          ELSE <<Operation("replace", i, "arguments", first, <<prefix, port>>)>>
  BY Zenon DEF portArgOpsForSet
<1>2. found = Prefixed(args, prefix) /\ first = FirstOf(Prefixed(args, prefix))
  BY Zenon DEF Prefixed, FirstOf
<1> HIDE DEF found, first
<1> QED BY <1>1, <1>2, Zenon DEF HasPort, PortOp

LEMMA PrefixedIs ==
  ASSUME NEW args \in Seq(Arguments), NEW prefix
  PROVE  /\ Len(args) \in Nat /\ DOMAIN args = 1..Len(args)
         /\ Prefixed(args, prefix) \subseteq Nat /\ Prefixed(args, prefix) \subseteq DOMAIN args
         /\ Prefixed(args, prefix) # {} => FirstOf(Prefixed(args, prefix)) \in 1..Len(args)
<1>1. Len(args) \in Nat /\ DOMAIN args = 1..Len(args)
  BY LenProperties
<1>2. Prefixed(args, prefix) \subseteq Nat /\ Prefixed(args, prefix) \subseteq DOMAIN args
  BY <1>1 DEF Prefixed
<1> QED BY <1>1, <1>2, FirstIsFirst

PortPut(t, args, prefix, port) ==
  /\ t \in Seq(Arguments) /\ Len(t) \in Nat /\ DOMAIN t = 1..Len(t) /\ Len(t) >= Len(args)
  /\ \A n \in 1..Len(t) : \/ t[n] = <<prefix, port>>
                          \/ n \in 1..Len(args) /\ t[n] = args[n]
  /\ \A n \in 1..Len(args) : t[n][1] = args[n][1]
  /\ Prefixed(args, prefix) = {} => Len(t) = Len(args) + 1 /\ t[Len(t)] = <<prefix, port>>
  /\ Prefixed(args, prefix) # {} =>
       Len(t) = Len(args) /\ t[FirstOf(Prefixed(args, prefix))] = <<prefix, port>>

LEMMA PutPortIs ==
  ASSUME NEW args \in Seq(Arguments), NEW prefix \in STRING, NEW port \in Nat,
         NEW t, t = PutPort(args, prefix, port)
  PROVE  PortPut(t, args, prefix, port)
<1>1. Len(args) \in Nat /\ DOMAIN args = 1..Len(args)
  BY LenProperties
<1>2. PICK arg \in Arguments : arg = <<prefix, port>> /\ arg[1] = prefix
  <2>1. <<prefix, port>> \in Arguments
    BY DEF Arguments
  <2> QED BY <2>1, PairHas
<1>3. CASE Prefixed(args, prefix) = {}
  <2>1. t = Append(args, arg)
    BY <1>2, <1>3 DEF PutPort
  <2>2. /\ t \in Seq(Arguments) /\ Len(t) = Len(args) + 1
        /\ \A n \in 1..Len(args) : t[n] = args[n]
        /\ t[Len(args) + 1] = arg
    BY <2>1, AppendProperties
  <2>3. DOMAIN t = 1..Len(t)
    BY <2>2, LenProperties
  <2>4. /\ Len(t) \in Nat /\ Len(t) >= Len(args)
        /\ \A n \in 1..Len(t) : n = Len(t) \/ n \in 1..Len(args)
    BY <1>1, <2>2
  <2>5. \A n \in 1..Len(t) : t[n] = arg \/ (n \in 1..Len(args) /\ t[n] = args[n])
    BY <2>2, <2>4
  <2> QED BY <1>2, <1>3, <2>2, <2>3, <2>4, <2>5 DEF PortPut
<1>4. CASE Prefixed(args, prefix) # {}
  <2>1. PICK f \in 1..Len(args) : f = FirstOf(Prefixed(args, prefix)) /\ args[f][1] = prefix
    <3>1. FirstOf(Prefixed(args, prefix)) \in Prefixed(args, prefix)
      BY <1>4, PrefixedIs, FirstIsFirst
    <3> QED BY <1>1, <3>1 DEF Prefixed
  <2>2. t = [args EXCEPT ![f] = arg]
    BY <1>2, <1>4, <2>1, Zenon DEF PutPort
  <2>3. /\ t \in Seq(Arguments) /\ Len(t) = Len(args)
        /\ \A n \in 1..Len(args) : t[n] = IF n = f THEN arg ELSE args[n]
    BY <2>2, ExceptSeq
  <2>4. DOMAIN t = 1..Len(t)
    BY <2>3, LenProperties
  <2>5. /\ t[f] = arg /\ \A n \in 1..Len(t) : t[n] = arg \/ (n \in 1..Len(args) /\ t[n] = args[n])
        /\ \A n \in 1..Len(args) : t[n][1] = args[n][1]
    BY <1>2, <2>1, <2>3
  <2>6. Len(t) \in Nat /\ Len(t) >= Len(args)
    BY <1>1, <2>3
  <2> QED BY <1>2, <1>4, <2>1, <2>3, <2>4, <2>5, <2>6, Zenon DEF PortPut
<1> QED BY <1>3, <1>4

(* A port that was put in is there, and those of another prefix stay.        *)
LEMMA PortIsPut ==
  ASSUME NEW args \in Seq(Arguments), NEW prefix \in STRING, NEW port \in Nat
  PROVE  HasPort(PutPort(args, prefix, port), prefix, port)
<1>1. PICK t : t = PutPort(args, prefix, port)
  OBVIOUS
<1>2. /\ t \in Seq(Arguments) /\ Len(t) \in Nat /\ DOMAIN t = 1..Len(t) /\ Len(t) >= Len(args)
      /\ \A n \in 1..Len(t) : \/ t[n] = <<prefix, port>>
                              \/ n \in 1..Len(args) /\ t[n] = args[n]
      /\ \A n \in 1..Len(args) : t[n][1] = args[n][1]
      /\ Prefixed(args, prefix) = {} => Len(t) = Len(args) + 1 /\ t[Len(t)] = <<prefix, port>>
      /\ Prefixed(args, prefix) # {} =>
           Len(t) = Len(args) /\ t[FirstOf(Prefixed(args, prefix))] = <<prefix, port>>
  <2>1. PortPut(t, args, prefix, port)
    BY <1>1, PutPortIs
  <2> QED BY <2>1 DEF PortPut
<1>3. Len(args) \in Nat /\ DOMAIN args = 1..Len(args)
  BY LenProperties
<1>4. PICK arg : arg = <<prefix, port>> /\ arg[1] = prefix /\ arg[2] = port
  <2>1. <<prefix, port>>[1] = prefix /\ <<prefix, port>>[2] = port
    OBVIOUS
  <2> QED BY ONLY <2>1
<1>5. CASE Prefixed(args, prefix) = {}
  <2>0. Len(t) = Len(args) + 1 /\ t[Len(t)] = <<prefix, port>>
    BY <1>2, <1>5
  <2>1. Len(t) \in 1..Len(t) /\ t[Len(t)] = arg /\ Len(t) = Len(args) + 1
    BY <1>3, <1>4, <2>0
  <2>2. Prefixed(t, prefix) # {}
    BY <1>2, <1>4, <2>1 DEF Prefixed
  <2>3. \A n \in Prefixed(t, prefix) : t[n] = arg
    BY <1>2, <1>3, <1>4, <1>5 DEF Prefixed
  <2>4. FirstOf(Prefixed(t, prefix)) \in Prefixed(t, prefix)
    BY <1>2, <2>2, PrefixedIs, FirstIsFirst
  <2> QED BY <1>1, <1>4, <2>2, <2>3, <2>4 DEF HasPort
<1>6. CASE Prefixed(args, prefix) # {}
  <2>1. DOMAIN t = DOMAIN args
    BY <1>2, <1>3, <1>6
  <2>2. Prefixed(t, prefix) = Prefixed(args, prefix)
    BY <1>2, <1>3, <2>1 DEF Prefixed
  <2> QED BY <1>1, <1>2, <1>4, <1>6, <2>2 DEF HasPort
<1> QED BY <1>5, <1>6

LEMMA OtherPortStays ==
  ASSUME NEW args \in Seq(Arguments), NEW prefix \in STRING, NEW port \in Nat,
         NEW other, other # prefix
  PROVE  /\ Prefixed(PutPort(args, prefix, port), other) = Prefixed(args, other)
         /\ \A v : HasPort(args, other, v) => HasPort(PutPort(args, prefix, port), other, v)
<1>1. PICK t : t = PutPort(args, prefix, port)
  OBVIOUS
<1>2. /\ t \in Seq(Arguments) /\ Len(t) \in Nat /\ DOMAIN t = 1..Len(t) /\ Len(t) >= Len(args)
      /\ \A n \in 1..Len(t) : \/ t[n] = <<prefix, port>>
                              \/ n \in 1..Len(args) /\ t[n] = args[n]
      /\ \A n \in 1..Len(args) : t[n][1] = args[n][1]
  <2>1. PortPut(t, args, prefix, port)
    BY <1>1, PutPortIs
  <2> QED BY <2>1 DEF PortPut
<1>3. Len(args) \in Nat /\ DOMAIN args = 1..Len(args)
  BY LenProperties
<1>4. PICK arg : arg = <<prefix, port>> /\ arg[1] = prefix
  BY PairHas
<1>5. \A n \in 1..Len(t) : t[n][1] = other => n \in 1..Len(args) /\ t[n] = args[n]
  BY <1>2, <1>4
<1>6. \A n \in 1..Len(args) : n \in 1..Len(t)
  BY <1>2, <1>3
<1>7. Prefixed(t, other) = Prefixed(args, other)
  BY <1>2, <1>3, <1>5, <1>6 DEF Prefixed
<1>8. ASSUME NEW v, HasPort(args, other, v) PROVE HasPort(t, other, v)
  <2>1. FirstOf(Prefixed(args, other)) \in Prefixed(t, other)
    BY <1>7, <1>8, PrefixedIs, FirstIsFirst DEF HasPort
  <2>2. t[FirstOf(Prefixed(args, other))] = args[FirstOf(Prefixed(args, other))]
    BY <1>2, <1>5, <2>1 DEF Prefixed
  <2> QED BY <1>7, <1>8, <2>2 DEF HasPort
<1> QED BY <1>1, <1>7, <1>8

LEMMA NothingToPut ==
  ASSUME NEW args \in Seq(Arguments), NEW prefix, NEW port, HasPort(args, prefix, port)
  PROVE  PutPort(args, prefix, port) = args
<1>1. PICK f : f = FirstOf(Prefixed(args, prefix)) /\ f \in Prefixed(args, prefix)
  BY PrefixedIs, FirstIsFirst DEF HasPort
<1>2. f \in 1..Len(args) /\ args[f][1] = prefix /\ args[f][2] = port
  BY <1>1, PrefixedIs DEF HasPort, Prefixed
<1>3. args[f] \in Arguments
  BY <1>2, ElementOfSeq
<1>4. args[f] = <<prefix, port>>
  BY <1>2, <1>3 DEF Arguments
<1>5. PutPort(args, prefix, port) = [args EXCEPT ![f] = args[f]]
  BY <1>1, <1>4, Zenon DEF PutPort, HasPort
<1>6. args \in [1..Len(args) -> Arguments]
  BY LenProperties
<1> QED BY <1>5, <1>6

LEMMA PortOpIsAbout ==
  ASSUME NEW i, NEW args, NEW prefix, NEW port, NEW o, o = PortOp(i, args, prefix, port)
  PROVE  o.set = i /\ o.field = "arguments" /\ o.value = <<prefix, port>>
BY DEF PortOp, Operation

ArePortParts(parts, cr, L, game, igw) ==
  /\ BuildPortPatches(cr, game, igw) = Concat(parts) /\ Len(parts) = L
  /\ \A i \in 1..L : parts[i] = portArgOpsForSet(i, cr[i].arguments, "Port", game)
                                  \o portArgOpsForSet(i, cr[i].arguments, "IGWPort", igw)

LEMMA PortParts ==
  ASSUME NEW cr, NEW L \in Nat, Len(cr) = L, DOMAIN cr = 1..L, NEW game, NEW igw,
         \A i \in 1..L : cr[i].arguments # Absent
  PROVE  \E parts : ArePortParts(parts, cr, L, game, igw)
<1> DEFINE args(i) == IF cr[i].arguments = Absent THEN <<>> ELSE cr[i].arguments
           parts == [i \in 1..L |-> portArgOpsForSet(i, args(i), "Port", game)
                                      \o portArgOpsForSet(i, args(i), "IGWPort", igw)]
<1>1. BuildPortPatches(cr, game, igw) = Concat(parts)
  BY Zenon DEF BuildPortPatches
<1>2. \A i \in 1..L : args(i) = cr[i].arguments
  OBVIOUS
<1> HIDE DEF args
<1>3. \A i \in 1..L : parts[i] = portArgOpsForSet(i, args(i), "Port", game)
                                   \o portArgOpsForSet(i, args(i), "IGWPort", igw)
  OBVIOUS
<1>4. parts = [i \in 1..L |-> parts[i]]
  OBVIOUS
<1> HIDE DEF parts
<1>5. Len(parts) = L
  BY <1>4, LengthIs
<1>6. ArePortParts(parts, cr, L, game, igw)
  BY <1>1, <1>2, <1>3, <1>5 DEF ArePortParts
<1> QED BY <1>6

(* One port of one set.                                                      *)
Asked(cr, i, prefix, port) == PortOp(i, cr[i].arguments, prefix, port)

LEMMA AskedIsAbout ==
  ASSUME NEW cr, NEW i, NEW prefix, NEW port
  PROVE  /\ Asked(cr, i, prefix, port).set = i /\ Asked(cr, i, prefix, port).field = "arguments"
         /\ Asked(cr, i, prefix, port).value = <<prefix, port>>
BY PortOpIsAbout DEF Asked

Lacking(cr, i, prefix, port) == ~HasPort(cr[i].arguments, prefix, port)

PortsOf(s, cr, i, game, igw) ==
  /\ s \in Seq({Asked(cr, i, "Port", game), Asked(cr, i, "IGWPort", igw)})
  /\ \A k \in DOMAIN s :
       \/ Lacking(cr, i, "Port", game) /\ s[k] = Asked(cr, i, "Port", game)
       \/ Lacking(cr, i, "IGWPort", igw) /\ s[k] = Asked(cr, i, "IGWPort", igw)
  /\ Lacking(cr, i, "Port", game) => \E k \in DOMAIN s : s[k] = Asked(cr, i, "Port", game)
  /\ Lacking(cr, i, "IGWPort", igw) => \E k \in DOMAIN s : s[k] = Asked(cr, i, "IGWPort", igw)
  /\ \A k, l \in DOMAIN s : k < l =>
       s[k] = Asked(cr, i, "Port", game) /\ s[l] = Asked(cr, i, "IGWPort", igw)
  /\ ~Lacking(cr, i, "Port", game) /\ ~Lacking(cr, i, "IGWPort", igw) => s = <<>>

LEMMA PortsOfSet ==
  ASSUME NEW cr, NEW i, NEW game, NEW igw, NEW s,
         s = portArgOpsForSet(i, cr[i].arguments, "Port", game)
               \o portArgOpsForSet(i, cr[i].arguments, "IGWPort", igw)
  PROVE  PortsOf(s, cr, i, game, igw)
<1> DEFINE x == Asked(cr, i, "Port", game)
           y == Asked(cr, i, "IGWPort", igw)
           a == portArgOpsForSet(i, cr[i].arguments, "Port", game)
           b == portArgOpsForSet(i, cr[i].arguments, "IGWPort", igw)
<1>1. \A v : <<v>> # <<>>
  OBVIOUS
<1>2. a = IF Lacking(cr, i, "Port", game) THEN <<x>> ELSE <<>>
  BY PortOpIs, Zenon DEF Lacking, Asked
<1>3. b = IF Lacking(cr, i, "IGWPort", igw) THEN <<y>> ELSE <<>>
  BY PortOpIs, Zenon DEF Lacking, Asked
<1>4. s = a \o b
  OBVIOUS
<1> HIDE DEF x, y, a, b
<1>5. PICK z \in {1, 2, 3} : z # x /\ z # y
  OBVIOUS
<1>6. /\ a = <<x>> \/ a = <<>>
      /\ b = <<y>> \/ b = <<>>
      /\ Lacking(cr, i, "Port", game) <=> a = <<x>>
      /\ Lacking(cr, i, "IGWPort", igw) <=> b = <<y>>
  BY <1>1, <1>2, <1>3, Zenon
<1>7. PICK c : c = <<>>
  OBVIOUS
<1>8. PICK t : t = (a \o b) \o c
  OBVIOUS
<1>9. Triple(t, a, x, b, y, c, z)
  BY <1>6, <1>7, <1>8, TripleIs
<1>10. s = t
  <2>1. s \in Seq({x, y, z})
    BY <1>4, <1>9 DEF Triple
  <2> QED BY <1>4, <1>7, <1>8, <2>1, ConcatEmptySeq
<1>11. c # <<z>>
  BY <1>1, <1>7
<1>13. \A k \in DOMAIN s : (a = <<x>> /\ s[k] = x) \/ (b = <<y>> /\ s[k] = y)
  BY <1>9, <1>10, <1>11, Zenon DEF Triple
<1>12. s \in Seq({x, y})
  <2>1. s \in Seq({x, y, z})
    BY <1>9, <1>10 DEF Triple
  <2>2. \A k \in 1..Len(s) : s[k] \in {x, y}
    BY <1>13, <2>1, LenProperties
  <2>3. Len(s) \in Nat /\ s \in [1..Len(s) -> {x, y, z}]
    BY <2>1, LenProperties
  <2>4. s \in [1..Len(s) -> {x, y}]
    BY <2>2, <2>3
  <2> QED BY ONLY <2>3, <2>4, SeqDef
<1>14. AnyOf(s, a, x) /\ AnyOf(s, b, y)
  BY <1>9, <1>10, Zenon DEF Triple
<1>15. ASSUME NEW k \in DOMAIN s, NEW l \in DOMAIN s, k < l PROVE s[k] = x /\ s[l] = y
  <2>1. \/ s[k] = x /\ s[l] = y
        \/ s[k] = x /\ s[l] = z
        \/ s[k] = y /\ s[l] = z
    BY <1>9, <1>10, <1>15 DEF Triple
  <2>2. s[l] = x \/ s[l] = y
    BY <1>13
  <2> QED BY <1>5, <2>1, <2>2
<1>16. ~Lacking(cr, i, "Port", game) /\ ~Lacking(cr, i, "IGWPort", igw) => s = <<>>
  BY <1>2, <1>3, <1>4, EmptySeq, ConcatEmptySeq
<1> QED BY <1>1, <1>6, <1>12, <1>13, <1>14, <1>15, <1>16, Zenon DEF PortsOf, AnyOf, x, y

Ports(ops, cr, game, igw) ==
  /\ Len(ops) \in Nat /\ DOMAIN ops = 1..Len(ops)
  /\ \A m \in 1..Len(ops) : \E i \in 1..Len(cr) :
       \/ Lacking(cr, i, "Port", game) /\ ops[m] = Asked(cr, i, "Port", game)
       \/ Lacking(cr, i, "IGWPort", igw) /\ ops[m] = Asked(cr, i, "IGWPort", igw)
  /\ \A i \in 1..Len(cr) :
       /\ Lacking(cr, i, "Port", game) =>
            \E m \in 1..Len(ops) : ops[m] = Asked(cr, i, "Port", game)
       /\ Lacking(cr, i, "IGWPort", igw) =>
            \E m \in 1..Len(ops) : ops[m] = Asked(cr, i, "IGWPort", igw)
  /\ \A m, n \in 1..Len(ops) : m < n /\ ops[m].set = ops[n].set =>
       /\ ops[m] = Asked(cr, ops[m].set, "Port", game)
       /\ ops[n] = Asked(cr, ops[m].set, "IGWPort", igw)

HasArguments(cr) == \A i \in 1..Len(cr) : cr[i].arguments \in Seq(Arguments)

LEMMA SetsHaveArguments ==
  ASSUME NEW cr \in Seq(ServerSets)
  PROVE  HasArguments(cr) /\ \A i \in 1..Len(cr) : cr[i].arguments # Absent
<1>1. \A i \in 1..Len(cr) : cr[i] \in ServerSets
  BY SetsAreShaped
<1>2. \A i \in 1..Len(cr) : cr[i].arguments \in Seq(Arguments)
  BY <1>1 DEF ServerSets
<1> QED BY <1>2, AbsentAssumption DEF HasArguments

LEMMA PortsAre ==
  ASSUME NEW cr \in Seq(ServerSets), NEW game, NEW igw
  PROVE  Ports(BuildPortPatches(cr, game, igw), cr, game, igw)
<1> DEFINE L == Len(cr)
           Of(i) == {Asked(cr, i, "Port", game), Asked(cr, i, "IGWPort", igw)}
           S == UNION {Of(i) : i \in 1..L}
<1>0. PICK ops : ops = BuildPortPatches(cr, game, igw)
  OBVIOUS
<1>1. L \in Nat /\ DOMAIN cr = 1..L /\ \A i \in 1..L : cr[i].arguments # Absent
  BY SetsAreShaped, SetsHaveArguments
<1>2. PICK parts : ArePortParts(parts, cr, L, game, igw)
  BY <1>1, PortParts
<1>11. ops = Concat(parts) /\ Len(parts) = L
  BY <1>0, <1>2 DEF ArePortParts
<1>3. ASSUME NEW i \in 1..L PROVE PortsOf(parts[i], cr, i, game, igw)
  BY <1>2, PortsOfSet DEF ArePortParts
<1>4. ASSUME NEW i \in 1..L PROVE parts[i] \in Seq(S)
  <2>1. Of(i) \subseteq S
    OBVIOUS
  <2>2. parts[i] \in Seq(Of(i))
    BY <1>3, Zenon DEF PortsOf
  <2> HIDE DEF S, Of
  <2> QED BY <2>1, <2>2, SeqMonotonic
<1> HIDE DEF S, L
<1>5. /\ ops \in Seq(S) /\ Sourced(ops, parts, L) /\ Covered(ops, parts, L)
      /\ InOrder(ops, parts, L)
  BY <1>1, <1>4, <1>11, ConcatIs
<1>6. Len(ops) \in Nat /\ DOMAIN ops = 1..Len(ops)
  BY <1>5, LenProperties
<1>7. ASSUME NEW m \in 1..Len(ops)
      PROVE  \E i \in 1..L :
               \/ Lacking(cr, i, "Port", game) /\ ops[m] = Asked(cr, i, "Port", game)
               \/ Lacking(cr, i, "IGWPort", igw) /\ ops[m] = Asked(cr, i, "IGWPort", igw)
  <2>1. PICK i \in 1..L : \E k \in DOMAIN parts[i] : ops[m] = parts[i][k]
    BY <1>5, <1>6, <1>7 DEF Sourced
  <2> QED BY <1>3, <2>1, Zenon DEF PortsOf
<1>8. ASSUME NEW i \in 1..L, NEW o, \E k \in DOMAIN parts[i] : parts[i][k] = o
      PROVE  \E m \in 1..Len(ops) : ops[m] = o
  <2>1. PICK k \in DOMAIN parts[i] : parts[i][k] = o
    BY <1>8
  <2>2. \E m \in DOMAIN ops : ops[m] = parts[i][k]
    BY <1>5, Zenon DEF Covered
  <2> QED BY <1>6, <2>1, <2>2
<1>9. ASSUME NEW i \in 1..L
      PROVE  /\ Lacking(cr, i, "Port", game) =>
                  \E m \in 1..Len(ops) : ops[m] = Asked(cr, i, "Port", game)
             /\ Lacking(cr, i, "IGWPort", igw) =>
                  \E m \in 1..Len(ops) : ops[m] = Asked(cr, i, "IGWPort", igw)
  BY <1>3, <1>8, Zenon DEF PortsOf
<1>10. ASSUME NEW m \in 1..Len(ops), NEW n \in 1..Len(ops), m < n, ops[m].set = ops[n].set
       PROVE  /\ ops[m] = Asked(cr, ops[m].set, "Port", game)
              /\ ops[n] = Asked(cr, ops[m].set, "IGWPort", igw)
  <2>1. From(ops, parts, L, m, n)
    BY <1>5, <1>6, <1>10 DEF InOrder
  <2>2. PICK i \in 1..L, j \in 1..L : \E k \in DOMAIN parts[i], l \in DOMAIN parts[j] :
          ops[m] = parts[i][k] /\ ops[n] = parts[j][l] /\ (i < j \/ (i = j /\ k < l))
    BY <2>1, Zenon DEF From
  <2>3. PICK k \in DOMAIN parts[i], l \in DOMAIN parts[j] :
          ops[m] = parts[i][k] /\ ops[n] = parts[j][l] /\ (i < j \/ (i = j /\ k < l))
    BY <2>2
  <2>4. /\ ops[m] = Asked(cr, i, "Port", game) \/ ops[m] = Asked(cr, i, "IGWPort", igw)
        /\ ops[n] = Asked(cr, j, "Port", game) \/ ops[n] = Asked(cr, j, "IGWPort", igw)
    BY <1>3, <2>3, Zenon DEF PortsOf
  <2>5. ops[m].set = i /\ ops[n].set = j
    BY <2>4, AskedIsAbout
  <2>6. i = j /\ k < l
    BY <1>10, <2>3, <2>5
  <2>7. l \in DOMAIN parts[i] /\ ops[n] = parts[i][l]
    BY <2>3, <2>6, Zenon
  <2>8. PortsOf(parts[i], cr, i, game, igw)
    BY <1>3
  <2>9. /\ parts[i][k] = Asked(cr, i, "Port", game)
        /\ parts[i][l] = Asked(cr, i, "IGWPort", igw)
    BY <2>6, <2>7, <2>8 DEF PortsOf
  <2> QED BY <2>3, <2>5, <2>7, <2>9
<1> QED BY <1>0, <1>6, <1>7, <1>9, <1>10, Zenon DEF L, Ports

(* An operation that was made for a set finds its place there, also when the *)
(* port of the other prefix has been put in since.                           *)
LEMMA AskedPuts ==
  ASSUME NEW cr, NEW i, cr[i].arguments \in Seq(Arguments), NEW prefix, NEW port,
         NEW s, NEW B \in Seq(Arguments), s[i]["arguments"] = B,
         Prefixed(B, prefix) = Prefixed(cr[i].arguments, prefix),
         NEW o, o = Asked(cr, i, prefix, port)
  PROVE  Applies(s, o) /\ Given(s, o) = PutPort(B, prefix, port)
<1>1. B # Absent
  BY AbsentAssumption
<1>2. o.set = i /\ o.field = "arguments" /\ o.value = <<prefix, port>>
  BY AskedIsAbout
<1>3. CASE Prefixed(B, prefix) = {}
  <2>1. o = Operation("add", i, "arguments", Len(cr[i].arguments) + 1, <<prefix, port>>)
    BY <1>3 DEF Asked, PortOp
  <2>2. Len(cr[i].arguments) \in Nat
    BY LenProperties
  <2>3. o.op = "add" /\ o.at # 0
    BY <2>1, <2>2 DEF Operation
  <2>4. Applies(s, o)
    BY <1>1, <1>2, <2>3 DEF Applies
  <2>5. Given(s, o) = Append(B, <<prefix, port>>)
    BY <1>2, <2>3 DEF Given
  <2> QED BY <1>3, <2>4, <2>5 DEF PutPort
<1>4. CASE Prefixed(B, prefix) # {}
  <2>1. PICK f \in 1..Len(B) : f = FirstOf(Prefixed(B, prefix))
    BY <1>4, PrefixedIs
  <2>2. o = Operation("replace", i, "arguments", f, <<prefix, port>>)
    BY <1>4, <2>1, Zenon DEF Asked, PortOp
  <2>3. o.op = "replace" /\ o.at = f /\ f # 0 /\ f \in DOMAIN B
    BY <2>2, LenProperties DEF Operation
  <2>4. Applies(s, o)
    BY <1>1, <1>2, <2>3 DEF Applies, There
  <2>5. Given(s, o) = [B EXCEPT ![f] = <<prefix, port>>]
    BY <1>2, <2>3 DEF Given
  <2> QED BY <1>4, <2>1, <2>4, <2>5, Zenon DEF PutPort
<1> QED BY <1>3, <1>4

LEMMA PortStep ==
  ASSUME NEW cr \in Seq(ServerSets), NEW ops, Len(ops) \in Nat, OnMembers(ops, cr),
         NEW i \in 1..Len(cr), NEW prefix, NEW port, NEW m \in 1..Len(ops),
         ops[m] = Asked(cr, i, prefix, port), NEW k \in 0..m - 1,
         NotAbout(ops, i, "arguments", k, m - 1),
         NEW B \in Seq(Arguments), After(cr, ops, k)[i]["arguments"] = B,
         Prefixed(B, prefix) = Prefixed(cr[i].arguments, prefix)
  PROVE  /\ Applies(After(cr, ops, m - 1), ops[m])
         /\ After(cr, ops, m)[i]["arguments"] = PutPort(B, prefix, port)
<1>1. k \in 0..Len(ops) /\ m - 1 \in k..Len(ops) /\ m - 1 \in 0..Len(ops)
  OBVIOUS
<1>2. "arguments" \in Members
  BY DEF Members
<1>3. After(cr, ops, m - 1)[i]["arguments"] = B
  BY <1>1, <1>2, UntouchedStays
<1>4. cr[i].arguments \in Seq(Arguments)
  BY SetsHaveArguments DEF HasArguments
<1>5. PICK s : s = After(cr, ops, m - 1)
  OBVIOUS
<1>6. Applies(s, ops[m]) /\ Given(s, ops[m]) = PutPort(B, prefix, port)
  <2>1. PICK o : o = Asked(cr, i, prefix, port) /\ ops[m] = o
    OBVIOUS
  <2>2. s[i]["arguments"] = B
    BY <1>3, <1>5
  <2>3. Applies(s, o) /\ Given(s, o) = PutPort(B, prefix, port)
    BY ONLY SMTT(25), <1>4, <2>1, <2>2, AskedPuts, Prefixed(B, prefix) = Prefixed(cr[i].arguments, prefix),
            B \in Seq(Arguments), cr \in Seq(ServerSets), i \in 1..Len(cr)
  <2> QED BY <2>1, <2>3
<1>7. After(cr, ops, m) = Applied(s, ops[m])
  <2>1. After(cr, ops, m) = Applied(After(cr, ops, m - 1), ops[m])
    BY ONLY Len(ops) \in Nat, m \in 1..Len(ops), AfterStep, Zenon
  <2> QED BY <1>5, <2>1
<1>8. Shaped(s, cr)
  BY <1>1, <1>5, StaysShaped
<1>9. ops[m].set = i /\ ops[m].field = "arguments"
  BY AskedIsAbout
<1>10. Applied(s, ops[m])[ops[m].set][ops[m].field] = Given(s, ops[m])
  BY <1>2, <1>8, <1>9, AppliedGives
<1> QED BY <1>5, <1>6, <1>7, <1>9, <1>10

Ported(args, game, igw) == PutPort(PutPort(args, "Port", game), "IGWPort", igw)

LEMMA PortsPut ==
  ASSUME NEW cr \in Seq(ServerSets), NEW game \in Nat, NEW igw \in Nat,
         NEW ops, Ports(ops, cr, game, igw), OnMembers(ops, cr), NEW i \in 1..Len(cr)
  PROVE  /\ After(cr, ops, Len(ops))[i]["arguments"] = Ported(cr[i].arguments, game, igw)
         /\ \A m \in 1..Len(ops) : ops[m].set = i => Applies(After(cr, ops, m - 1), ops[m])
<1> DEFINE A == cr[i].arguments
           X == Asked(cr, i, "Port", game)
           Y == Asked(cr, i, "IGWPort", igw)
           R(n) == After(cr, ops, n)[i]["arguments"]
           O(n) == Applies(After(cr, ops, n - 1), ops[n])
<1>1. A \in Seq(Arguments)
  BY SetsHaveArguments DEF HasArguments
<1>2. Len(ops) \in Nat
  BY DEF Ports
<1>3. X # Y
  <2>1. X.value = <<"Port", game>> /\ Y.value = <<"IGWPort", igw>>
    BY AskedIsAbout
  <2>2. <<"Port", game>>[1] # <<"IGWPort", igw>>[1]
    OBVIOUS
  <2> HIDE DEF X, Y
  <2> QED BY <2>1, <2>2
<1>4. X.set = i /\ Y.set = i
  BY AskedIsAbout
<1>5. ASSUME NEW m \in 1..Len(ops), ops[m].set = i
      PROVE  \/ ops[m] = X /\ Lacking(cr, i, "Port", game)
             \/ ops[m] = Y /\ Lacking(cr, i, "IGWPort", igw)
  <2>1. PICK j \in 1..Len(cr) :
          \/ Lacking(cr, j, "Port", game) /\ ops[m] = Asked(cr, j, "Port", game)
          \/ Lacking(cr, j, "IGWPort", igw) /\ ops[m] = Asked(cr, j, "IGWPort", igw)
    BY DEF Ports
  <2>2. ops[m].set = j
    BY <2>1, AskedIsAbout
  <2> QED BY <1>5, <2>1, <2>2
<1>6. /\ Lacking(cr, i, "Port", game) => \E m \in 1..Len(ops) : ops[m] = X
      /\ Lacking(cr, i, "IGWPort", igw) => \E m \in 1..Len(ops) : ops[m] = Y
  BY Zenon DEF Ports
<1>7. ASSUME NEW m \in 1..Len(ops), NEW n \in 1..Len(ops), m < n, ops[m].set = i, ops[n].set = i
      PROVE  ops[m] = X /\ ops[n] = Y
  BY <1>7 DEF Ports
<1>8. R(0) = A /\ "arguments" \in Members
  <2>1. After(cr, ops, 0) = cr
    BY <1>2, AfterSteps
  <2> QED BY <2>1 DEF Members
<1>9. /\ "Port" \in STRING /\ "IGWPort" \in STRING
  BY TextsAssumption
<1>10. ~Lacking(cr, i, "Port", game) => PutPort(A, "Port", game) = A
  BY <1>1, NothingToPut DEF Lacking
<1>11. PICK B : B = PutPort(A, "Port", game)
  OBVIOUS
<1>12. B \in Seq(Arguments)
  BY <1>1, <1>9, <1>11, PutPortIs DEF PortPut
<1>13. /\ Prefixed(B, "IGWPort") = Prefixed(A, "IGWPort")
       /\ ~Lacking(cr, i, "IGWPort", igw) => HasPort(B, "IGWPort", igw)
  BY <1>1, <1>9, <1>11, OtherPortStays DEF Lacking
<1>14. ~Lacking(cr, i, "IGWPort", igw) => PutPort(B, "IGWPort", igw) = B
  BY <1>12, <1>13, NothingToPut
<1>15. Ported(A, game, igw) = PutPort(B, "IGWPort", igw)
  BY <1>11 DEF Ported
<1> HIDE DEF A, X, Y
<1>16. ASSUME NEW k \in 0..Len(ops), NEW n \in k..Len(ops), NotAbout(ops, i, "arguments", k, n)
       PROVE  R(n) = R(k)
  BY <1>2, <1>8, <1>16, UntouchedStays
<1>17. CASE ~Lacking(cr, i, "Port", game) /\ ~Lacking(cr, i, "IGWPort", igw)
  <2>1. \A m \in 1..Len(ops) : ops[m].set # i
    BY <1>5, <1>17
  <2>2. NotAbout(ops, i, "arguments", 0, Len(ops))
    BY <1>2, <2>1 DEF NotAbout, Targets
  <2>3. R(Len(ops)) = A
    BY <1>2, <1>8, <1>16, <2>2
  <2> QED BY <1>10, <1>11, <1>14, <1>15, <1>17, <2>1, <2>3 DEF A
<1>18. CASE Lacking(cr, i, "Port", game) /\ ~Lacking(cr, i, "IGWPort", igw)
  <2>1. PICK m \in 1..Len(ops) : ops[m] = X
    BY <1>6, <1>18
  <2>2. \A n \in 1..Len(ops) : ops[n].set = i => n = m
    BY <1>2, <1>3, <1>4, <1>5, <1>7, <1>18, <2>1
  <2>3. NotAbout(ops, i, "arguments", 0, m - 1) /\ NotAbout(ops, i, "arguments", m, Len(ops))
    BY <1>2, <2>2 DEF NotAbout, Targets
  <2>4. 0 \in 0..m - 1 /\ m \in 0..Len(ops) /\ Len(ops) \in m..Len(ops)
    BY <1>2
  <2>5. O(m) /\ R(m) = B
    BY <1>1, <1>2, <1>8, <1>11, <2>1, <2>3, <2>4, PortStep DEF A, X
  <2>6. R(Len(ops)) = R(m)
    BY <1>16, <2>3, <2>4
  <2> QED BY <1>14, <1>15, <1>18, <2>2, <2>5, <2>6 DEF A
<1>19. CASE ~Lacking(cr, i, "Port", game) /\ Lacking(cr, i, "IGWPort", igw)
  <2>1. PICK m \in 1..Len(ops) : ops[m] = Y
    BY <1>6, <1>19
  <2>2. \A n \in 1..Len(ops) : ops[n].set = i => n = m
    BY <1>2, <1>3, <1>4, <1>5, <1>7, <1>19, <2>1
  <2>3. NotAbout(ops, i, "arguments", 0, m - 1) /\ NotAbout(ops, i, "arguments", m, Len(ops))
    BY <1>2, <2>2 DEF NotAbout, Targets
  <2>4. 0 \in 0..m - 1 /\ m \in 0..Len(ops) /\ Len(ops) \in m..Len(ops)
    BY <1>2
  <2>5. O(m) /\ R(m) = PutPort(A, "IGWPort", igw)
    BY <1>1, <1>2, <1>8, <2>1, <2>3, <2>4, PortStep DEF A, Y
  <2>6. R(Len(ops)) = R(m)
    BY <1>16, <2>3, <2>4
  <2> QED BY <1>10, <1>11, <1>15, <1>19, <2>2, <2>5, <2>6 DEF A
<1>20. CASE Lacking(cr, i, "Port", game) /\ Lacking(cr, i, "IGWPort", igw)
  <2>1. PICK m \in 1..Len(ops) : ops[m] = X
    BY <1>6, <1>20
  <2>2. PICK n \in 1..Len(ops) : ops[n] = Y
    BY <1>6, <1>20
  <2>3. m < n
    BY <1>2, <1>3, <1>4, <1>7, <2>1, <2>2
  <2>4. \A l \in 1..Len(ops) : ops[l].set = i => l = m \/ l = n
    BY <1>2, <1>3, <1>4, <1>7, <2>1, <2>2
  <2>5. /\ NotAbout(ops, i, "arguments", 0, m - 1) /\ NotAbout(ops, i, "arguments", m, n - 1)
        /\ NotAbout(ops, i, "arguments", n, Len(ops))
    BY <1>2, <2>3, <2>4 DEF NotAbout, Targets
  <2>6. /\ 0 \in 0..m - 1 /\ m \in 0..n - 1 /\ n \in 0..Len(ops) /\ Len(ops) \in n..Len(ops)
    BY <1>2, <2>3
  <2>7. O(m) /\ R(m) = B
    BY <1>1, <1>2, <1>8, <1>11, <2>1, <2>5, <2>6, PortStep DEF A, X
  <2>8. O(n) /\ R(n) = PutPort(B, "IGWPort", igw)
    <3>1. NotAbout(ops, i, "arguments", m, n - 1) /\ m \in 0..n - 1 /\ R(m) = B
      BY <2>5, <2>6, <2>7
    <3> QED BY SMTT(25), <1>2, <1>12, <1>13, <2>2, <3>1, PortStep DEF A, Y
  <2>9. R(Len(ops)) = R(n)
    BY <1>16, <2>5, <2>6
  <2> QED BY <1>15, <2>4, <2>7, <2>8, <2>9 DEF A
<1> QED BY <1>17, <1>18, <1>19, <1>20

LEMMA PortedIs ==
  ASSUME NEW args \in Seq(Arguments), NEW game \in Nat, NEW igw \in Nat,
         NEW t, t = Ported(args, game, igw)
  PROVE  t \in Seq(Arguments) /\ HasPort(t, "Port", game) /\ HasPort(t, "IGWPort", igw)
<1>1. "Port" \in STRING /\ "IGWPort" \in STRING
  BY TextsAssumption
<1>2. PICK B : B = PutPort(args, "Port", game)
  OBVIOUS
<1>3. B \in Seq(Arguments) /\ HasPort(B, "Port", game)
  BY <1>1, <1>2, PortIsPut, PutPortIs DEF PortPut
<1>4. t = PutPort(B, "IGWPort", igw)
  BY <1>2 DEF Ported
<1> QED BY <1>1, <1>3, <1>4, PortIsPut, PutPortIs, OtherPortStays DEF PortPut

LEMMA PortIsThere ==
  ASSUME NEW args \in Seq(Arguments), NEW prefix, NEW port, HasPort(args, prefix, port)
  PROVE  \E n \in DOMAIN args : args[n] = <<prefix, port>>
<1>1. PICK f : f = FirstOf(Prefixed(args, prefix)) /\ f \in Prefixed(args, prefix)
  BY PrefixedIs, FirstIsFirst DEF HasPort
<1>2. f \in 1..Len(args) /\ f \in DOMAIN args /\ args[f][1] = prefix /\ args[f][2] = port
  BY <1>1, PrefixedIs DEF HasPort, Prefixed
<1>3. args[f] \in Arguments
  BY <1>2, ElementOfSeq
<1>4. args[f] = <<prefix, port>>
  BY <1>2, <1>3 DEF Arguments
<1> QED BY <1>2, <1>4

PortsThere(args, game, igw) ==
  \A arg \in {<<"Port", game>>, <<"IGWPort", igw>>} : \E n \in DOMAIN args : args[n] = arg

LEMMA PortsSettle ==
  ASSUME NEW cr \in Seq(ServerSets), NEW game \in Nat, NEW igw \in Nat,
         NEW ops, ops = BuildPortPatches(cr, game, igw), NEW done, done = After(cr, ops, Len(ops))
  PROVE  /\ \A n \in DOMAIN ops : Applies(After(cr, ops, n - 1), ops[n])
         /\ BuildPortPatches(done, game, igw) = <<>>
         /\ DOMAIN done = DOMAIN cr
         /\ \A i \in DOMAIN cr :
              /\ PortsThere(done[i].arguments, game, igw)
              /\ \A f \in Members \ {"arguments"} : done[i][f] = cr[i][f]
<1>1. Len(cr) \in Nat /\ DOMAIN cr = 1..Len(cr) /\ HasArguments(cr)
  BY SetsAreShaped, SetsHaveArguments
<1>2. Ports(ops, cr, game, igw)
  BY PortsAre
<1>3. /\ Len(ops) \in Nat /\ DOMAIN ops = 1..Len(ops)
      /\ \A m \in 1..Len(ops) : \E i \in 1..Len(cr) :
           ops[m] = Asked(cr, i, "Port", game) \/ ops[m] = Asked(cr, i, "IGWPort", igw)
  BY <1>2, Zenon DEF Ports
<1>4. \A m \in 1..Len(ops) : ops[m].set \in 1..Len(cr) /\ ops[m].field = "arguments"
  BY <1>3, AskedIsAbout
<1>5. OnMembers(ops, cr) /\ "arguments" \in Members
  BY <1>4 DEF OnMembers, Members
<1>6. 0 \in 0..Len(ops) /\ Len(ops) \in 0..Len(ops) /\ Len(ops) \in Nat
  BY <1>3
<1>7. Shaped(done, cr) /\ After(cr, ops, 0) = cr
  BY <1>5, <1>6, StaysShaped, AfterSteps
<1>8. Len(done) = Len(cr) /\ DOMAIN done = 1..Len(cr)
  BY <1>7, SameSets
<1>9. ASSUME NEW n \in 1..Len(ops) PROVE Applies(After(cr, ops, n - 1), ops[n])
  BY <1>2, <1>4, <1>5, PortsPut
<1>10. ASSUME NEW i \in 1..Len(cr)
       PROVE  /\ done[i].arguments \in Seq(Arguments)
              /\ HasPort(done[i].arguments, "Port", game)
              /\ HasPort(done[i].arguments, "IGWPort", igw)
  <2>1. After(cr, ops, Len(ops))[i]["arguments"] = Ported(cr[i].arguments, game, igw)
    BY <1>2, <1>5, PortsPut
  <2>2. done[i].arguments = Ported(cr[i].arguments, game, igw)
    BY <2>1
  <2>3. cr[i].arguments \in Seq(Arguments)
    BY <1>1 DEF HasArguments
  <2> QED BY <2>2, <2>3, PortedIs
<1>11. ASSUME NEW i \in 1..Len(cr), NEW f \in Members \ {"arguments"} PROVE done[i][f] = cr[i][f]
  <2>1. NotAbout(ops, i, f, 0, Len(ops))
    BY <1>4, <1>6, <1>11 DEF NotAbout, Targets
  <2>2. After(cr, ops, Len(ops))[i][f] = After(cr, ops, 0)[i][f]
    BY <1>5, <1>6, <2>1, UntouchedStays
  <2> QED BY <1>7, <2>2
<1>12. ASSUME NEW i \in 1..Len(cr), NEW arg \in {<<"Port", game>>, <<"IGWPort", igw>>}
       PROVE  \E n \in DOMAIN done[i].arguments : done[i].arguments[n] = arg
  <2>1. PICK t \in Seq(Arguments) :
          t = done[i].arguments /\ HasPort(t, "Port", game) /\ HasPort(t, "IGWPort", igw)
    BY <1>10
  <2>2. ASSUME NEW prefix, NEW port, HasPort(t, prefix, port)
        PROVE  \E n \in DOMAIN t : t[n] = <<prefix, port>>
    BY <2>2, PortIsThere
  <2>3. arg = <<"Port", game>> \/ arg = <<"IGWPort", igw>>
    BY <1>12
  <2>4. CASE arg = <<"Port", game>>
    BY <2>1, <2>2, <2>4, Zenon
  <2>5. CASE arg = <<"IGWPort", igw>>
    BY <2>1, <2>2, <2>5, Zenon
  <2> QED BY <2>3, <2>4, <2>5
<1>13. BuildPortPatches(done, game, igw) = <<>>
  <2>1. \A i \in 1..Len(cr) : done[i].arguments # Absent
    BY <1>10, AbsentAssumption
  <2>2. PICK parts : ArePortParts(parts, done, Len(cr), game, igw)
    BY <1>1, <1>8, <2>1, PortParts
  <2>3. ASSUME NEW i \in 1..Len(cr) PROVE parts[i] = <<>>
    <3>1. PortsOf(parts[i], done, i, game, igw)
      BY <2>2, PortsOfSet DEF ArePortParts
    <3>2. ~Lacking(done, i, "Port", game) /\ ~Lacking(done, i, "IGWPort", igw)
      BY <1>10 DEF Lacking
    <3> QED BY <3>1, <3>2, Zenon DEF PortsOf
  <2>4. Len(parts) = Len(cr) /\ BuildPortPatches(done, game, igw) = Concat(parts)
    BY <2>2 DEF ArePortParts
  <2> QED BY <1>1, <2>3, <2>4, ConcatOfNothing
<1>14. \A i \in 1..Len(cr) : PortsThere(done[i].arguments, game, igw)
  BY <1>12 DEF PortsThere
<1> QED BY <1>1, <1>3, <1>8, <1>9, <1>11, <1>13, <1>14

-------------------------------------------------------------------------------
(* The environment: what a set of variables is asked for.                    *)
VarOp(cr, i, j, new) ==
  Operation(IF cr[i].envVars[j].value = Absent THEN "add" ELSE "replace", i, "envVars", j, new)

Due(cr, i, j, name, new) == cr[i].envVars[j].name = name /\ cr[i].envVars[j].value # new

HasVars(cr) ==
  \A i \in 1..Len(cr) : /\ cr[i].envVars \in Seq(EnvVars) /\ Len(cr[i].envVars) \in Nat
                        /\ DOMAIN cr[i].envVars = 1..Len(cr[i].envVars)

LEMMA SetsHaveVars ==
  ASSUME NEW cr \in Seq(ServerSets) PROVE HasVars(cr)
<1>1. \A i \in 1..Len(cr) : cr[i] \in ServerSets
  BY SetsAreShaped
<1>2. \A i \in 1..Len(cr) : cr[i].envVars \in Seq(EnvVars)
  BY <1>1 DEF ServerSets
<1> QED BY <1>2, LenProperties DEF HasVars

AreVarParts(parts, cr, L, name, new) ==
  /\ buildEnvVarPatches(cr, name, new) = Concat(parts) /\ Len(parts) = L
  /\ \A i \in 1..L : \E env :
       /\ parts[i] = Concat(env) /\ Len(env) = Len(cr[i].envVars)
       /\ \A j \in 1..Len(cr[i].envVars) :
            env[j] = IF Due(cr, i, j, name, new) THEN <<VarOp(cr, i, j, new)>> ELSE <<>>

LEMMA VarParts ==
  ASSUME NEW cr, NEW L \in Nat, Len(cr) = L, DOMAIN cr = 1..L, HasVars(cr), NEW name, NEW new
  PROVE  \E parts : AreVarParts(parts, cr, L, name, new)
<1> DEFINE env(i) == [j \in DOMAIN cr[i].envVars |-> EnvVarOp(cr[i].envVars, i, j, name, new)]
           parts == [i \in 1..L |-> Concat(env(i))]
<1>1. buildEnvVarPatches(cr, name, new) = Concat(parts)
  BY Zenon DEF buildEnvVarPatches
<1>2. ASSUME NEW i \in 1..L
      PROVE  /\ Len(env(i)) = Len(cr[i].envVars)
             /\ \A j \in 1..Len(cr[i].envVars) :
                  env(i)[j] = IF Due(cr, i, j, name, new) THEN <<VarOp(cr, i, j, new)>> ELSE <<>>
  <2>1. Len(cr[i].envVars) \in Nat /\ DOMAIN cr[i].envVars = 1..Len(cr[i].envVars)
    BY DEF HasVars
  <2>2. \A j \in 1..Len(cr[i].envVars) :
          env(i)[j] = EnvVarOp(cr[i].envVars, i, j, name, new)
    BY <2>1
  <2>3. env(i) = [j \in 1..Len(cr[i].envVars) |-> env(i)[j]]
    BY <2>1
  <2> HIDE DEF env
  <2>4. Len(env(i)) = Len(cr[i].envVars)
    BY <2>1, <2>3, LengthIs
  <2>5. \A j : EnvVarOp(cr[i].envVars, i, j, name, new)
                 = IF Due(cr, i, j, name, new) THEN <<VarOp(cr, i, j, new)>> ELSE <<>>
    BY Zenon DEF EnvVarOp, Due, VarOp
  <2> QED BY <2>2, <2>4, <2>5
<1> HIDE DEF env
<1>3. \A i \in 1..L : parts[i] = Concat(env(i))
  OBVIOUS
<1>4. parts = [i \in 1..L |-> parts[i]]
  OBVIOUS
<1> HIDE DEF parts
<1>5. Len(parts) = L
  BY <1>4, LengthIs
<1>6. ASSUME NEW i \in 1..L
      PROVE  \E v : /\ parts[i] = Concat(v) /\ Len(v) = Len(cr[i].envVars)
                    /\ \A j \in 1..Len(cr[i].envVars) :
                         v[j] = IF Due(cr, i, j, name, new) THEN <<VarOp(cr, i, j, new)>> ELSE <<>>
  BY <1>2, <1>3, Zenon
<1>7. AreVarParts(parts, cr, L, name, new)
  BY <1>1, <1>5, <1>6, Zenon DEF AreVarParts
<1> QED BY <1>7

VarOps(ops, cr, name, new) ==
  /\ Len(ops) \in Nat /\ DOMAIN ops = 1..Len(ops)
  /\ \A m \in 1..Len(ops) : \E i \in 1..Len(cr) : \E j \in 1..Len(cr[i].envVars) :
       Due(cr, i, j, name, new) /\ ops[m] = VarOp(cr, i, j, new)
  /\ \A i \in 1..Len(cr) : \A j \in 1..Len(cr[i].envVars) :
       Due(cr, i, j, name, new) => \E m \in 1..Len(ops) : ops[m] = VarOp(cr, i, j, new)

(* All operations that there could be.                                       *)
AnyVarOps(cr, new) ==
  UNION {{VarOp(cr, i, j, new) : j \in 1..Len(cr[i].envVars)} : i \in 1..Len(cr)}

LEMMA VarOpsAre ==
  ASSUME NEW cr \in Seq(ServerSets), NEW name, NEW new
  PROVE  /\ buildEnvVarPatches(cr, name, new) \in Seq(AnyVarOps(cr, new))
         /\ VarOps(buildEnvVarPatches(cr, name, new), cr, name, new)
<1> DEFINE L == Len(cr)
           S == AnyVarOps(cr, new)
           N(i) == Len(cr[i].envVars)
<1>0. PICK ops : ops = buildEnvVarPatches(cr, name, new)
  OBVIOUS
<1>1. L \in Nat /\ DOMAIN cr = 1..L /\ HasVars(cr)
  BY SetsAreShaped, SetsHaveVars
<1>2. PICK parts : AreVarParts(parts, cr, L, name, new)
  BY <1>1, VarParts
<1>3. ops = Concat(parts) /\ Len(parts) = L
  BY <1>0, <1>2 DEF AreVarParts
<1>4. ASSUME NEW i \in 1..L
      PROVE  /\ parts[i] \in Seq(S)
             /\ \A k \in DOMAIN parts[i] : \E j \in 1..N(i) :
                  Due(cr, i, j, name, new) /\ parts[i][k] = VarOp(cr, i, j, new)
             /\ \A j \in 1..N(i) : Due(cr, i, j, name, new) =>
                  \E k \in DOMAIN parts[i] : parts[i][k] = VarOp(cr, i, j, new)
  <2> DEFINE H == {j \in 1..N(i) : Due(cr, i, j, name, new)}
             o == [j \in 1..N(i) |-> VarOp(cr, i, j, new)]
  <2>1. PICK env :
          /\ parts[i] = Concat(env) /\ Len(env) = N(i)
          /\ \A j \in 1..N(i) :
               env[j] = IF Due(cr, i, j, name, new) THEN <<VarOp(cr, i, j, new)>> ELSE <<>>
    BY <1>2 DEF AreVarParts
  <2>2. N(i) \in Nat
    BY <1>1 DEF HasVars
  <2>3. \A j \in 1..N(i) : o[j] \in S
    BY DEF AnyVarOps
  <2>4. \A j \in 1..N(i) : o[j] = VarOp(cr, i, j, new) /\ (j \in H <=> Due(cr, i, j, name, new))
    OBVIOUS
  <2> HIDE DEF H, o, S, N
  <2>5. Singles(env, N(i), S, H, o)
    BY <2>1, <2>3, <2>4 DEF Singles
  <2>6. JoinedSingles(parts[i], N(i), S, H, o)
    BY <2>1, <2>2, <2>5, SinglesAre
  <2>7. parts[i] \in Seq(S)
    BY <2>6 DEF JoinedSingles
  <2>8. DOMAIN parts[i] = 1..Len(parts[i])
    BY <2>7, LenProperties
  <2>9. ASSUME NEW k \in DOMAIN parts[i]
        PROVE  \E j \in 1..N(i) : Due(cr, i, j, name, new) /\ parts[i][k] = VarOp(cr, i, j, new)
    <3>1. PICK j \in 1..N(i) : j \in H /\ parts[i][k] = o[j]
      BY <2>6, <2>8 DEF JoinedSingles
    <3> QED BY <2>4, <3>1
  <2>10. ASSUME NEW j \in 1..N(i), Due(cr, i, j, name, new)
         PROVE  \E k \in DOMAIN parts[i] : parts[i][k] = VarOp(cr, i, j, new)
    <3>1. j \in H /\ o[j] = VarOp(cr, i, j, new)
      BY <2>4, <2>10
    <3> QED BY <2>6, <2>8, <3>1 DEF JoinedSingles
  <2> QED BY <2>7, <2>9, <2>10
<1> HIDE DEF S, L, N
<1>5. /\ ops \in Seq(S) /\ Sourced(ops, parts, L) /\ Covered(ops, parts, L)
  BY <1>1, <1>3, <1>4, ConcatIs
<1>6. Len(ops) \in Nat /\ DOMAIN ops = 1..Len(ops)
  BY <1>5, LenProperties
<1>7. ASSUME NEW m \in 1..Len(ops)
      PROVE  \E i \in 1..L : \E j \in 1..N(i) :
               Due(cr, i, j, name, new) /\ ops[m] = VarOp(cr, i, j, new)
  <2>1. PICK i \in 1..L : \E k \in DOMAIN parts[i] : ops[m] = parts[i][k]
    BY <1>5, <1>6, <1>7 DEF Sourced
  <2> QED BY <1>4, <2>1, Zenon
<1>8. ASSUME NEW i \in 1..L, NEW j \in 1..N(i), Due(cr, i, j, name, new)
      PROVE  \E m \in 1..Len(ops) : ops[m] = VarOp(cr, i, j, new)
  <2>1. PICK k \in DOMAIN parts[i] : parts[i][k] = VarOp(cr, i, j, new)
    BY <1>4, <1>8
  <2>2. \E m \in DOMAIN ops : ops[m] = parts[i][k]
    BY <1>5, Zenon DEF Covered
  <2> QED BY <1>6, <2>1, <2>2
<1> QED BY <1>0, <1>5, <1>6, <1>7, <1>8, Zenon DEF L, N, S, VarOps

(* What a host is to be called: the names that are asked for, and their      *)
(* values.                                                                   *)
Wanted(w, name) ==
  \/ name = "HOST_DATACENTER_IP_ADDRESS"
  \/ name = "HOST_DATACENTER_ID" /\ w.id # ""

NewOf(w, name) == IF name = "HOST_DATACENTER_IP_ADDRESS" THEN w.ip ELSE w.id

DueFor(cr, i, j, w) ==
  /\ Wanted(w, cr[i].envVars[j].name)
  /\ cr[i].envVars[j].value # NewOf(w, cr[i].envVars[j].name)

OpFor(cr, i, j, w) == VarOp(cr, i, j, NewOf(w, cr[i].envVars[j].name))

HostOps(ops, cr, w) ==
  /\ Len(ops) \in Nat /\ DOMAIN ops = 1..Len(ops)
  /\ \A m \in 1..Len(ops) : \E i \in 1..Len(cr) : \E j \in 1..Len(cr[i].envVars) :
       DueFor(cr, i, j, w) /\ ops[m] = OpFor(cr, i, j, w)
  /\ \A i \in 1..Len(cr) : \A j \in 1..Len(cr[i].envVars) :
       DueFor(cr, i, j, w) => \E m \in 1..Len(ops) : ops[m] = OpFor(cr, i, j, w)

LEMMA HostOpsAre ==
  ASSUME NEW cr \in Seq(ServerSets), NEW w
  PROVE  HostOps(BuildHostPatches(cr, w.ip, w.id), cr, w)
<1> DEFINE ip == "HOST_DATACENTER_IP_ADDRESS"
           id == "HOST_DATACENTER_ID"
           a == buildEnvVarPatches(cr, ip, w.ip)
           b == IF w.id = "" THEN <<>> ELSE buildEnvVarPatches(cr, id, w.id)
           S == AnyVarOps(cr, w.ip) \cup AnyVarOps(cr, w.id)
<1>1. PICK ops : ops = a \o b
  OBVIOUS
<1>2. ops = BuildHostPatches(cr, w.ip, w.id)
  BY <1>1, Zenon DEF BuildHostPatches
<1>3. a \in Seq(AnyVarOps(cr, w.ip)) /\ VarOps(a, cr, ip, w.ip)
  BY VarOpsAre
<1>4. w.id # "" => b \in Seq(AnyVarOps(cr, w.id)) /\ VarOps(b, cr, id, w.id)
  BY VarOpsAre, Zenon
<1>5. w.id = "" => b = <<>>
  OBVIOUS
<1>6. ip # id
  OBVIOUS
<1>7. a \in Seq(S) /\ b \in Seq(S)
  <2>1. AnyVarOps(cr, w.ip) \subseteq S /\ AnyVarOps(cr, w.id) \subseteq S
    OBVIOUS
  <2> HIDE DEF a, b, S
  <2> QED BY <1>3, <1>4, <1>5, <2>1, SeqMonotonic, EmptySeq
<1> HIDE DEF a, b, S
<1>8. /\ ops \in Seq(S) /\ Len(ops) = Len(a) + Len(b)
      /\ \A n \in 1..Len(a) + Len(b) : ops[n] = IF n <= Len(a) THEN a[n] ELSE b[n - Len(a)]
  BY <1>1, <1>7, ConcatProperties
<1>9. Len(ops) \in Nat /\ DOMAIN ops = 1..Len(ops) /\ Len(a) \in Nat /\ Len(b) \in Nat
  BY <1>7, <1>8, LenProperties
<1>10. \A n \in 1..Len(ops) : \/ n \in 1..Len(a) /\ ops[n] = a[n]
                              \/ n - Len(a) \in 1..Len(b) /\ ops[n] = b[n - Len(a)]
  BY <1>8, <1>9
<1>11. \A n \in 1..Len(a) : n \in 1..Len(ops) /\ ops[n] = a[n]
  BY <1>8, <1>9
<1>12. \A n \in 1..Len(b) : n + Len(a) \in 1..Len(ops) /\ ops[n + Len(a)] = b[n]
  BY <1>8, <1>9
<1>13. ASSUME NEW n \in 1..Len(b) PROVE w.id # ""
  <2>1. Len(<<>>) = 0
    BY EmptySeq
  <2>2. b # <<>>
    BY <2>1
  <2> QED BY <1>5, <2>2
<1>14. ASSUME NEW i \in 1..Len(cr), NEW j \in 1..Len(cr[i].envVars)
       PROVE  /\ Due(cr, i, j, ip, w.ip) =>
                   DueFor(cr, i, j, w) /\ OpFor(cr, i, j, w) = VarOp(cr, i, j, w.ip)
              /\ Due(cr, i, j, id, w.id) /\ w.id # "" =>
                   DueFor(cr, i, j, w) /\ OpFor(cr, i, j, w) = VarOp(cr, i, j, w.id)
              /\ DueFor(cr, i, j, w) =>
                   Due(cr, i, j, ip, w.ip) \/ (Due(cr, i, j, id, w.id) /\ w.id # "")
  BY <1>6, Zenon DEF Due, DueFor, OpFor, Wanted, NewOf
<1>15. ASSUME NEW m \in 1..Len(ops)
       PROVE  \E i \in 1..Len(cr) : \E j \in 1..Len(cr[i].envVars) :
                DueFor(cr, i, j, w) /\ ops[m] = OpFor(cr, i, j, w)
  <2>1. CASE m \in 1..Len(a) /\ ops[m] = a[m]
    <3>1. PICK i \in 1..Len(cr) : \E j \in 1..Len(cr[i].envVars) :
            Due(cr, i, j, ip, w.ip) /\ a[m] = VarOp(cr, i, j, w.ip)
      BY <1>3, <2>1, Zenon DEF VarOps
    <3> QED BY <1>14, <2>1, <3>1, Zenon
  <2>2. CASE m - Len(a) \in 1..Len(b) /\ ops[m] = b[m - Len(a)]
    <3>1. w.id # ""
      BY <1>13, <2>2
    <3>2. PICK i \in 1..Len(cr) : \E j \in 1..Len(cr[i].envVars) :
            Due(cr, i, j, id, w.id) /\ b[m - Len(a)] = VarOp(cr, i, j, w.id)
      BY <1>4, <2>2, <3>1, Zenon DEF VarOps
    <3> QED BY <1>14, <2>2, <3>1, <3>2, Zenon
  <2> QED BY <1>10, <2>1, <2>2
<1>16. ASSUME NEW i \in 1..Len(cr), NEW j \in 1..Len(cr[i].envVars), DueFor(cr, i, j, w)
       PROVE  \E m \in 1..Len(ops) : ops[m] = OpFor(cr, i, j, w)
  <2>1. CASE Due(cr, i, j, ip, w.ip)
    <3>1. PICK n \in 1..Len(a) : a[n] = VarOp(cr, i, j, w.ip)
      BY <1>3, <2>1, Zenon DEF VarOps
    <3> QED BY <1>11, <1>14, <2>1, <3>1, Zenon
  <2>2. CASE Due(cr, i, j, id, w.id) /\ w.id # ""
    <3>1. PICK n \in 1..Len(b) : b[n] = VarOp(cr, i, j, w.id)
      BY <1>4, <2>2, Zenon DEF VarOps
    <3> QED BY <1>12, <1>14, <2>2, <3>1, Zenon
  <2> QED BY <1>14, <1>16, <2>1, <2>2
<1> QED BY <1>2, <1>9, <1>15, <1>16, Zenon DEF HostOps

(* The variables of a set after n operations: those that an operation was    *)
(* about have their new value, the others keep theirs.                       *)
Reached(ops, i, j, n) == \E m \in 1..n : ops[m].set = i /\ ops[m].at = j

VarsAre(V, cr, i, ops, n, w) ==
  /\ V \in Seq(EnvVars) /\ Len(V) = Len(cr[i].envVars)
  /\ \A j \in 1..Len(V) :
       /\ V[j].name = cr[i].envVars[j].name
       /\ V[j].value = IF Reached(ops, i, j, n) THEN NewOf(w, cr[i].envVars[j].name)
                       ELSE cr[i].envVars[j].value

LEMMA OpForIs ==
  ASSUME NEW cr, NEW i, NEW j, NEW w, NEW o, o = OpFor(cr, i, j, w)
  PROVE  /\ o.set = i /\ o.field = "envVars" /\ o.at = j
         /\ o.value = NewOf(w, cr[i].envVars[j].name)
         /\ o.op = IF cr[i].envVars[j].value = Absent THEN "add" ELSE "replace"
BY Zenon DEF OpFor, VarOp, Operation

VarPut(t, V, j, v) ==
  /\ t \in Seq(EnvVars) /\ Len(t) = Len(V)
  /\ \A k \in 1..Len(V) : t[k].name = V[k].name
  /\ \A k \in 1..Len(V) : t[k].value = IF k = j THEN v ELSE V[k].value

LEMMA VarGiven ==
  ASSUME NEW s, NEW i, NEW V \in Seq(EnvVars), s[i]["envVars"] = V,
         NEW o, o.set = i, o.field = "envVars", NEW j \in 1..Len(V), o.at = j,
         o.op # "remove", o.value \in STRING
  PROVE  VarPut(Given(s, o), V, j, o.value)
<1>0. PICK t : t = Given(s, o)
  OBVIOUS
<1>1. Len(V) \in Nat /\ j # 0
  BY LenProperties
<1>2. PICK r : r = [V[j] EXCEPT !.value = o.value]
  OBVIOUS
<1>3. V[j] \in EnvVars
  BY ElementOfSeq
<1>4. r \in EnvVars /\ r.name = V[j].name /\ r.value = o.value
  BY <1>2, <1>3 DEF EnvVars
<1>5. t = [V EXCEPT ![j] = r]
  BY <1>0, <1>1, <1>2, Zenon DEF Given
<1>6. /\ t \in Seq(EnvVars) /\ Len(t) = Len(V)
      /\ \A k \in 1..Len(V) : t[k] = IF k = j THEN r ELSE V[k]
  BY <1>4, <1>5, ExceptSeq
<1> QED BY <1>0, <1>4, <1>6 DEF VarPut

LEMMA VarsStep ==
  ASSUME NEW cr \in Seq(ServerSets), NEW w, w.ip \in STRING, w.id \in STRING,
         NEW ops, HostOps(ops, cr, w), OnMembers(ops, cr), NEW m \in 1..Len(ops),
         \A i \in 1..Len(cr) : VarsAre(After(cr, ops, m - 1)[i]["envVars"], cr, i, ops, m - 1, w)
  PROVE  /\ \A i \in 1..Len(cr) : VarsAre(After(cr, ops, m)[i]["envVars"], cr, i, ops, m, w)
         /\ Applies(After(cr, ops, m - 1), ops[m])
<1> DEFINE s == After(cr, ops, m - 1)
           o == ops[m]
<1>1. Len(ops) \in Nat /\ m - 1 \in 0..Len(ops)
  BY DEF HostOps
<1>2. PICK a \in 1..Len(cr) : \E j \in 1..Len(cr[a].envVars) :
        DueFor(cr, a, j, w) /\ o = OpFor(cr, a, j, w)
  BY DEF HostOps
<1>3. PICK b \in 1..Len(cr[a].envVars) : o = OpFor(cr, a, b, w)
  BY <1>2
<1>4. /\ o.set = a /\ o.field = "envVars" /\ o.at = b
      /\ o.value = NewOf(w, cr[a].envVars[b].name)
      /\ o.op = IF cr[a].envVars[b].value = Absent THEN "add" ELSE "replace"
  BY <1>3, OpForIs
<1>5. o.value \in STRING /\ o.op # "remove"
  BY <1>4 DEF NewOf
<1>6. After(cr, ops, m) = Applied(s, o)
  <2>1. m \in 1..Len(ops) /\ Len(ops) \in Nat
    BY <1>1
  <2> HIDE DEF s, o
  <2>2. After(cr, ops, m) = Applied(After(cr, ops, m - 1), ops[m])
    BY ONLY <2>1, AfterStep, Zenon
  <2> QED BY <2>2 DEF s, o
<1>7. Shaped(s, cr)
  BY <1>1, StaysShaped
<1>8. "envVars" \in Members /\ HasVars(cr)
  BY SetsHaveVars DEF Members
<1>9. PICK V : V = s[a]["envVars"]
  OBVIOUS
<1>10. VarsAre(V, cr, a, ops, m - 1, w)
  BY <1>9
<1>11. V \in Seq(EnvVars) /\ Len(V) = Len(cr[a].envVars) /\ Len(V) \in Nat /\ b \in 1..Len(V)
       /\ DOMAIN V = 1..Len(V)
  BY <1>10, LenProperties DEF VarsAre
<1>12. PICK t : t = Given(s, o)
  OBVIOUS
<1> HIDE DEF s, o
<1>13. /\ t \in Seq(EnvVars) /\ Len(t) = Len(V)
       /\ \A k \in 1..Len(V) : t[k].name = V[k].name
       /\ \A k \in 1..Len(V) : t[k].value = IF k = b THEN o.value ELSE V[k].value
  <2>1. VarPut(Given(s, o), V, b, o.value)
    BY <1>4, <1>5, <1>9, <1>11, VarGiven
  <2> QED BY <1>12, <2>1 DEF VarPut
<1>14. /\ Applied(s, o)[a]["envVars"] = t
       /\ \A i \in 1..Len(cr) : i # a => Applied(s, o)[i]["envVars"] = s[i]["envVars"]
  BY <1>4, <1>7, <1>8, <1>12, AppliedGives DEF Targets
<1>15. ASSUME NEW i, NEW j
       PROVE  Reached(ops, i, j, m) <=> Reached(ops, i, j, m - 1) \/ (i = a /\ j = b)
  <2>1. \A k \in 1..m : k \in 1..m - 1 \/ k = m
    BY <1>1
  <2>2. m \in 1..m /\ \A k \in 1..m - 1 : k \in 1..m
    BY <1>1
  <2> QED BY <1>4, <2>1, <2>2 DEF Reached, o
<1>16. VarsAre(t, cr, a, ops, m, w)
  BY <1>4, <1>10, <1>11, <1>13, <1>15 DEF VarsAre
<1>17. ASSUME NEW i \in 1..Len(cr), i # a
       PROVE  VarsAre(s[i]["envVars"], cr, i, ops, m, w)
  <2>1. VarsAre(s[i]["envVars"], cr, i, ops, m - 1, w)
    BY DEF s
  <2> QED BY <1>15, <1>17, <2>1 DEF VarsAre
<1>18. \A i \in 1..Len(cr) : VarsAre(After(cr, ops, m)[i]["envVars"], cr, i, ops, m, w)
  BY <1>6, <1>14, <1>16, <1>17
<1>19. Applies(s, o)
  <2>1. V # Absent
    BY <1>11, AbsentAssumption
  <2>2. CASE cr[a].envVars[b].value = Absent
    <3>1. o.op = "add"
      BY <1>4, <2>2
    <3> QED BY <1>4, <1>9, <2>1, <3>1 DEF Applies
  <2>3. CASE cr[a].envVars[b].value # Absent
    <3>1. o.op = "replace" /\ b # 0 /\ b \in DOMAIN V
      BY <1>4, <1>11, <2>3
    <3>2. V[b].value # Absent
      <4>1. NewOf(w, cr[a].envVars[b].name) # Absent
        BY AbsentAssumption DEF NewOf
      <4> QED BY <1>10, <1>11, <2>3, <4>1 DEF VarsAre
    <3> QED BY <1>4, <1>9, <3>1, <3>2 DEF Applies, There
  <2> QED BY <2>2, <2>3
<1> QED BY <1>18, <1>19 DEF s, o

LEMMA VarsFollow ==
  ASSUME NEW cr \in Seq(ServerSets), NEW w, w.ip \in STRING, w.id \in STRING,
         NEW ops, HostOps(ops, cr, w), OnMembers(ops, cr), NEW n \in 0..Len(ops)
  PROVE  \A i \in 1..Len(cr) : VarsAre(After(cr, ops, n)[i]["envVars"], cr, i, ops, n, w)
<1> DEFINE P(k) ==
             \A i \in 1..Len(cr) : VarsAre(After(cr, ops, k)[i]["envVars"], cr, i, ops, k, w)
           T == {k \in Nat : k <= Len(ops) /\ ~P(k)}
<1>1. Len(ops) \in Nat
  BY DEF HostOps
<1>2. P(0)
  <2>1. After(cr, ops, 0) = cr
    BY <1>1, AfterSteps
  <2>2. HasVars(cr)
    BY SetsHaveVars
  <2>3. \A i, j : ~Reached(ops, i, j, 0)
    BY DEF Reached
  <2>4. ASSUME NEW i \in 1..Len(cr) PROVE VarsAre(cr[i].envVars, cr, i, ops, 0, w)
    BY <2>2, <2>3 DEF HasVars, VarsAre
  <2> QED BY <2>1, <2>4
<1>3. T = {}
  <2> SUFFICES ASSUME T # {} PROVE FALSE
    OBVIOUS
  <2>1. PICK m \in T : \A k \in T : m <= k
    BY MinExists
  <2>2. m # 0
    BY <1>2, <2>1
  <2>3. m - 1 \in Nat /\ m \in 1..Len(ops) /\ m - 1 \notin T
    BY <1>1, <2>1, <2>2
  <2>4. P(m - 1)
    BY <1>1, <2>3
  <2>5. P(m)
    BY <2>3, <2>4, VarsStep
  <2> QED BY <2>1, <2>5
<1> HIDE DEF P
<1>4. P(n)
  BY <1>1, <1>3
<1> QED BY <1>4 DEF P

(* No variable of the name but with the value.                               *)
NoneDue(cr, name, new) ==
  \A i \in 1..Len(cr) : \A j \in 1..Len(cr[i].envVars) : ~Due(cr, i, j, name, new)

LEMMA NothingDue ==
  ASSUME NEW cr, NEW L \in Nat, Len(cr) = L, DOMAIN cr = 1..L, HasVars(cr), NEW name, NEW new,
         NoneDue(cr, name, new)
  PROVE  buildEnvVarPatches(cr, name, new) = <<>>
<1>1. PICK parts : AreVarParts(parts, cr, L, name, new)
  BY VarParts
<1>2. ASSUME NEW i \in 1..L PROVE parts[i] = <<>>
  <2>1. PICK env :
          /\ parts[i] = Concat(env) /\ Len(env) = Len(cr[i].envVars)
          /\ \A j \in 1..Len(cr[i].envVars) :
               env[j] = IF Due(cr, i, j, name, new) THEN <<VarOp(cr, i, j, new)>> ELSE <<>>
    BY <1>1 DEF AreVarParts
  <2>2. Len(env) \in Nat
    BY <2>1 DEF HasVars
  <2>3. \A j \in 1..Len(env) : env[j] = <<>>
    BY <2>1 DEF NoneDue
  <2> QED BY <2>1, <2>2, <2>3, ConcatOfNothing
<1>3. buildEnvVarPatches(cr, name, new) = Concat(parts) /\ Len(parts) = L
  BY <1>1 DEF AreVarParts
<1> QED BY <1>2, <1>3, ConcatOfNothing

HostNamed(env, w) ==
  \A n \in DOMAIN env :
    /\ env[n].name = "HOST_DATACENTER_IP_ADDRESS" => env[n].value = w.ip
    /\ env[n].name = "HOST_DATACENTER_ID" /\ w.id # "" => env[n].value = w.id

LEMMA HostSettles ==
  ASSUME NEW cr \in Seq(ServerSets), NEW w, w.ip \in STRING, w.id \in STRING,
         NEW ops, ops = BuildHostPatches(cr, w.ip, w.id),
         NEW done, done = After(cr, ops, Len(ops))
  PROVE  /\ \A n \in DOMAIN ops : Applies(After(cr, ops, n - 1), ops[n])
         /\ BuildHostPatches(done, w.ip, w.id) = <<>>
         /\ DOMAIN done = DOMAIN cr
         /\ \A i \in DOMAIN cr :
              /\ HostNamed(done[i].envVars, w)
              /\ \A f \in Members \ {"envVars"} : done[i][f] = cr[i][f]
<1>1. Len(cr) \in Nat /\ DOMAIN cr = 1..Len(cr) /\ HasVars(cr)
  BY SetsAreShaped, SetsHaveVars
<1>2. HostOps(ops, cr, w)
  BY HostOpsAre
<1>3. /\ Len(ops) \in Nat /\ DOMAIN ops = 1..Len(ops)
      /\ \A m \in 1..Len(ops) : \E i \in 1..Len(cr) : \E j \in 1..Len(cr[i].envVars) :
           ops[m] = OpFor(cr, i, j, w)
  BY <1>2, Zenon DEF HostOps
<1>4. \A m \in 1..Len(ops) : ops[m].set \in 1..Len(cr) /\ ops[m].field = "envVars"
  BY <1>3, OpForIs
<1>5. OnMembers(ops, cr)
  BY <1>4 DEF OnMembers, Members
<1>6. 0 \in 0..Len(ops) /\ Len(ops) \in 0..Len(ops) /\ Len(ops) \in Nat
  BY <1>3
<1>7. Shaped(done, cr) /\ After(cr, ops, 0) = cr
  BY <1>5, <1>6, StaysShaped, AfterSteps
<1>8. Len(done) = Len(cr) /\ DOMAIN done = 1..Len(cr)
  BY <1>7, SameSets
<1>9. ASSUME NEW n \in 1..Len(ops) PROVE Applies(After(cr, ops, n - 1), ops[n])
  <2>1. n - 1 \in 0..Len(ops)
    BY <1>3
  <2>2. \A i \in 1..Len(cr) : VarsAre(After(cr, ops, n - 1)[i]["envVars"], cr, i, ops, n - 1, w)
    BY <1>2, <1>5, <2>1, VarsFollow
  <2> QED BY <1>2, <1>5, <2>2, VarsStep
<1>10. ASSUME NEW i \in 1..Len(cr)
       PROVE  VarsAre(done[i].envVars, cr, i, ops, Len(ops), w)
  <2>1. \A k \in 1..Len(cr) :
          VarsAre(After(cr, ops, Len(ops))[k]["envVars"], cr, k, ops, Len(ops), w)
    BY <1>2, <1>5, <1>6, VarsFollow
  <2>2. done[i]["envVars"] = After(cr, ops, Len(ops))[i]["envVars"]
    OBVIOUS
  <2> QED BY <2>1, <2>2
<1>11. ASSUME NEW i \in 1..Len(cr), NEW f \in Members \ {"envVars"} PROVE done[i][f] = cr[i][f]
  <2>1. NotAbout(ops, i, f, 0, Len(ops))
    BY <1>4, <1>6, <1>11 DEF NotAbout, Targets
  <2>2. After(cr, ops, Len(ops))[i][f] = After(cr, ops, 0)[i][f]
    BY <1>5, <1>6, <2>1, UntouchedStays
  <2> QED BY <1>7, <2>2
<1>12. ASSUME NEW i \in 1..Len(cr)
       PROVE  /\ done[i].envVars \in Seq(EnvVars) /\ Len(done[i].envVars) \in Nat
              /\ DOMAIN done[i].envVars = 1..Len(done[i].envVars)
              /\ \A j \in 1..Len(done[i].envVars) : Wanted(w, done[i].envVars[j].name) =>
                   done[i].envVars[j].value = NewOf(w, done[i].envVars[j].name)
  <2>1. PICK V : V = done[i].envVars
    OBVIOUS
  <2>2. VarsAre(V, cr, i, ops, Len(ops), w)
    BY <1>10, <2>1
  <2>3. /\ V \in Seq(EnvVars) /\ Len(V) = Len(cr[i].envVars)
        /\ Len(V) \in Nat /\ DOMAIN V = 1..Len(V)
    BY <2>2, LenProperties DEF VarsAre
  <2>4. ASSUME NEW j \in 1..Len(V), Wanted(w, V[j].name) PROVE V[j].value = NewOf(w, V[j].name)
    <3>1. /\ V[j].name = cr[i].envVars[j].name
          /\ V[j].value = IF Reached(ops, i, j, Len(ops)) THEN NewOf(w, cr[i].envVars[j].name)
                          ELSE cr[i].envVars[j].value
      BY <2>2 DEF VarsAre
    <3>2. j \in 1..Len(cr[i].envVars)
      BY <2>3
    <3>3. CASE DueFor(cr, i, j, w)
      <4>1. PICK m \in 1..Len(ops) : ops[m] = OpFor(cr, i, j, w)
        BY <1>2, <3>2, <3>3, Zenon DEF HostOps
      <4>2. Reached(ops, i, j, Len(ops))
        BY <4>1, OpForIs DEF Reached
      <4> QED BY <3>1, <4>2
    <3>4. CASE ~DueFor(cr, i, j, w)
      <4>1. cr[i].envVars[j].value = NewOf(w, cr[i].envVars[j].name)
        BY <2>4, <3>1, <3>4, Zenon DEF DueFor
      <4> QED BY <3>1, <4>1
    <3> QED BY <3>3, <3>4
  <2> QED BY <2>1, <2>3, <2>4
<1>13. ASSUME NEW i \in 1..Len(cr) PROVE HostNamed(done[i].envVars, w)
  <2>1. PICK V : V = done[i].envVars
    OBVIOUS
  <2>2. /\ DOMAIN V = 1..Len(V)
        /\ \A j \in 1..Len(V) : Wanted(w, V[j].name) => V[j].value = NewOf(w, V[j].name)
    BY <1>12, <2>1
  <2>3. "HOST_DATACENTER_IP_ADDRESS" # "HOST_DATACENTER_ID"
    OBVIOUS
  <2>4. HostNamed(V, w)
    BY <2>2, <2>3, Zenon DEF HostNamed, Wanted, NewOf
  <2> QED BY <2>1, <2>4
<1>14. HasVars(done)
  BY <1>8, <1>12 DEF HasVars
<1>15. ASSUME NEW i \in 1..Len(done), NEW j \in 1..Len(done[i].envVars)
       PROVE  /\ ~Due(done, i, j, "HOST_DATACENTER_IP_ADDRESS", w.ip)
              /\ w.id # "" => ~Due(done, i, j, "HOST_DATACENTER_ID", w.id)
  <2>1. i \in 1..Len(cr) /\ j \in DOMAIN done[i].envVars
    BY <1>8, <1>12
  <2>2. HostNamed(done[i].envVars, w)
    BY <1>13, <2>1
  <2> QED BY <2>1, <2>2, Zenon DEF Due, HostNamed
<1>16. /\ NoneDue(done, "HOST_DATACENTER_IP_ADDRESS", w.ip)
       /\ w.id # "" => NoneDue(done, "HOST_DATACENTER_ID", w.id)
  BY <1>15, Zenon DEF NoneDue
<1>17. BuildHostPatches(done, w.ip, w.id) = <<>>
  <2> DEFINE a == buildEnvVarPatches(done, "HOST_DATACENTER_IP_ADDRESS", w.ip)
             b == IF w.id = "" THEN <<>> ELSE buildEnvVarPatches(done, "HOST_DATACENTER_ID", w.id)
  <2>1. a = <<>>
    BY <1>1, <1>8, <1>14, <1>16, NothingDue
  <2>2. w.id # "" => buildEnvVarPatches(done, "HOST_DATACENTER_ID", w.id) = <<>>
    BY <1>1, <1>8, <1>14, <1>16, NothingDue
  <2>3. b = <<>>
    BY <2>2
  <2>4. BuildHostPatches(done, w.ip, w.id) = a \o b
    BY Zenon DEF BuildHostPatches
  <2> HIDE DEF a, b
  <2> QED BY <2>1, <2>3, <2>4, EmptySeq, ConcatEmptySeq
<1> QED BY <1>1, <1>3, <1>8, <1>9, <1>11, <1>13, <1>17

-------------------------------------------------------------------------------
(* What PatchesSettle says of one resource and one wish.                     *)
Settled(cr, wish) ==
  LET ops  == OpsFor(cr, wish)
      done == After(cr, ops, Len(ops))
  IN /\ \A n \in DOMAIN ops : Applies(After(cr, ops, n - 1), ops[n])
     /\ OpsFor(done, wish) = <<>>
     /\ Refused(cr, wish) => ops = <<>>
     /\ DOMAIN done = DOMAIN cr
     /\ \A i \in DOMAIN cr :
          /\ Refused(cr, wish) \/ Fulfils(done[i], wish)
          /\ \A f \in Members \ FieldsOf(wish) : done[i][f] = cr[i][f]

SettledBy(cr, wish, ops, done) ==
  /\ \A n \in DOMAIN ops : Applies(After(cr, ops, n - 1), ops[n])
  /\ OpsFor(done, wish) = <<>>
  /\ Refused(cr, wish) => ops = <<>>
  /\ DOMAIN done = DOMAIN cr
  /\ \A i \in DOMAIN cr :
       /\ Refused(cr, wish) \/ Fulfils(done[i], wish)
       /\ \A f \in Members \ FieldsOf(wish) : done[i][f] = cr[i][f]

LEMMA SettledIs ==
  ASSUME NEW cr, NEW w, NEW ops, ops = OpsFor(cr, w), NEW done, done = After(cr, ops, Len(ops)),
         SettledBy(cr, w, ops, done)
  PROVE  Settled(cr, w)
BY DEF Settled, SettledBy

LEMMA HostPatched ==
  ASSUME NEW cr \in Seq(ServerSets), NEW w, w \in Wishes("host"), w.build = "host"
  PROVE  Settled(cr, w)
<1>1. w.ip \in STRING /\ w.id \in STRING
  BY DEF Wishes
<1>2. ~Refused(cr, w) /\ FieldsOf(w) = {"envVars"}
  BY DEF Refused, FieldsOf
<1>3. \A c : OpsFor(c, w) = BuildHostPatches(c, w.ip, w.id)
  BY DEF OpsFor
<1>4. \A set : Fulfils(set, w) <=> HostNamed(set.envVars, w)
  BY DEF Fulfils, HostNamed
<1>5. PICK ops, done : ops = BuildHostPatches(cr, w.ip, w.id) /\ done = After(cr, ops, Len(ops))
  OBVIOUS
<1>6. /\ \A n \in DOMAIN ops : Applies(After(cr, ops, n - 1), ops[n])
      /\ BuildHostPatches(done, w.ip, w.id) = <<>>
      /\ DOMAIN done = DOMAIN cr
      /\ \A i \in DOMAIN cr :
           /\ HostNamed(done[i].envVars, w)
           /\ \A f \in Members \ {"envVars"} : done[i][f] = cr[i][f]
  BY <1>1, <1>5, HostSettles
<1>9. \A i \in DOMAIN cr : Fulfils(done[i], w)
  BY <1>4, <1>6, Zenon
<1>7. ops = OpsFor(cr, w) /\ OpsFor(done, w) = <<>>
  BY <1>3, <1>5, <1>6
<1>8. SettledBy(cr, w, ops, done)
  BY <1>2, <1>6, <1>7, <1>9, Zenon DEF SettledBy
<1> QED BY <1>5, <1>7, <1>8, SettledIs

LEMMA SchedulerPatched ==
  ASSUME NEW cr \in Seq(ServerSets), NEW w, w.build = "scheduler"
  PROVE  Settled(cr, w)
<1>2. ~Refused(cr, w) /\ FieldsOf(w) = {"schedulerName"}
  BY DEF Refused, FieldsOf
<1>3. \A c : OpsFor(c, w) = BuildSchedulerNameRemovals(c)
  BY DEF OpsFor
<1>4. \A set : Fulfils(set, w) <=> set.schedulerName # CustomScheduler
  BY DEF Fulfils
<1>5. PICK ops, done : ops = BuildSchedulerNameRemovals(cr) /\ done = After(cr, ops, Len(ops))
  OBVIOUS
<1>6. /\ \A n \in DOMAIN ops : Applies(After(cr, ops, n - 1), ops[n])
      /\ BuildSchedulerNameRemovals(done) = <<>>
      /\ DOMAIN done = DOMAIN cr
      /\ \A i \in DOMAIN cr :
           /\ done[i].schedulerName # CustomScheduler
           /\ \A f \in Members \ {"schedulerName"} : done[i][f] = cr[i][f]
  BY <1>5, SchedulerSettles
<1>9. \A i \in DOMAIN cr : Fulfils(done[i], w)
  BY <1>4, <1>6, Zenon
<1>7. ops = OpsFor(cr, w) /\ OpsFor(done, w) = <<>>
  BY <1>3, <1>5, <1>6
<1>8. SettledBy(cr, w, ops, done)
  BY <1>2, <1>6, <1>7, <1>9, Zenon DEF SettledBy
<1> QED BY <1>5, <1>7, <1>8, SettledIs

LEMMA TagPatched ==
  ASSUME NEW cr \in Seq(ServerSets), NEW w, w \in Wishes("tag"), w.build = "tag"
  PROVE  Settled(cr, w)
<1>1. w.tag # PlaceholderImageTag
  BY DEF Wishes
<1>2. ~Refused(cr, w) /\ FieldsOf(w) = {"image"}
  BY DEF Refused, FieldsOf
<1>3. \A c : OpsFor(c, w) = BuildImageTagPatches(c, w.tag)
  BY DEF OpsFor
<1>4. \A set : Fulfils(set, w) <=>
        (set.image # Absent => (set.image.port \/ set.image.tag # PlaceholderImageTag))
  BY DEF Fulfils
<1>5. PICK ops, done : ops = BuildImageTagPatches(cr, w.tag) /\ done = After(cr, ops, Len(ops))
  OBVIOUS
<1>6. /\ \A n \in DOMAIN ops : Applies(After(cr, ops, n - 1), ops[n])
      /\ BuildImageTagPatches(done, w.tag) = <<>>
      /\ DOMAIN done = DOMAIN cr
      /\ \A i \in DOMAIN cr :
           /\ done[i].image # Absent =>
                done[i].image.port \/ done[i].image.tag # PlaceholderImageTag
           /\ \A f \in Members \ {"image"} : done[i][f] = cr[i][f]
  BY <1>1, <1>5, TagSettles
<1>9. \A i \in DOMAIN cr : Fulfils(done[i], w)
  BY <1>4, <1>6, Zenon
<1>7. ops = OpsFor(cr, w) /\ OpsFor(done, w) = <<>>
  BY <1>3, <1>5, <1>6
<1>8. SettledBy(cr, w, ops, done)
  BY <1>2, <1>6, <1>7, <1>9, Zenon DEF SettledBy
<1> QED BY <1>5, <1>7, <1>8, SettledIs

LEMMA PortsPatched ==
  ASSUME NEW cr \in Seq(ServerSets), NEW w, w \in Wishes("ports"), w.build = "ports"
  PROVE  Settled(cr, w)
<1>1. w.game \in Nat /\ w.igw \in Nat
  BY DEF Wishes
<1>2. ~Refused(cr, w) /\ FieldsOf(w) = {"arguments"}
  BY DEF Refused, FieldsOf
<1>3. \A c : OpsFor(c, w) = BuildPortPatches(c, w.game, w.igw)
  BY DEF OpsFor
<1>4. \A set : Fulfils(set, w) <=>
        PortsThere(set.arguments, w.game, w.igw)
  BY DEF Fulfils, PortsThere
<1>5. PICK ops, done : ops = BuildPortPatches(cr, w.game, w.igw) /\ done = After(cr, ops, Len(ops))
  OBVIOUS
<1>6. /\ \A n \in DOMAIN ops : Applies(After(cr, ops, n - 1), ops[n])
      /\ BuildPortPatches(done, w.game, w.igw) = <<>>
      /\ DOMAIN done = DOMAIN cr
      /\ \A i \in DOMAIN cr :
           /\ PortsThere(done[i].arguments, w.game, w.igw)
           /\ \A f \in Members \ {"arguments"} : done[i][f] = cr[i][f]
  BY <1>1, <1>5, PortsSettle
<1>9. \A i \in DOMAIN cr : Fulfils(done[i], w)
  BY <1>4, <1>6, Zenon
<1>7. ops = OpsFor(cr, w) /\ OpsFor(done, w) = <<>>
  BY <1>3, <1>5, <1>6
<1>8. SettledBy(cr, w, ops, done)
  BY <1>2, <1>6, <1>7, <1>9, Zenon DEF SettledBy
<1> QED BY <1>5, <1>7, <1>8, SettledIs

LEMMA ScalingPatched ==
  ASSUME NEW cr \in Seq(ServerSets), OneSetPerMap(cr), NEW w, w.build = "scaling",
         w.dedicated \in BOOLEAN
  PROVE  Settled(cr, w)
<1>1. FieldsOf(w) = ScalingFields /\ "map" \in Members \ ScalingFields
  BY DEF FieldsOf, ScalingFields, Members
<1>2. Refused(cr, w) <=> Unknown(cr, w)
  BY Zenon DEF Refused, Unknown
<1>3. \A c : OpsFor(c, w) = ScalingPatches(c, w)
  BY DEF OpsFor, ScalingPatches
<1>4. \A set : Fulfils(set, w) <=> (set.map \in ToSet(w.maps) => Scaled(set, w))
  BY DEF Fulfils, Scaled
<1>5. PICK ops, done : ops = ScalingPatches(cr, w) /\ done = After(cr, ops, Len(ops))
  OBVIOUS
<1>6. /\ \A n \in DOMAIN ops : Applies(After(cr, ops, n - 1), ops[n])
      /\ ScalingPatches(done, w) = <<>>
      /\ Unknown(cr, w) => ops = <<>>
      /\ DOMAIN done = DOMAIN cr
      /\ \A i \in DOMAIN cr :
           /\ Unknown(cr, w) \/ (cr[i].map \in ToSet(w.maps) => Scaled(done[i], w))
           /\ \A f \in Members \ ScalingFields : done[i][f] = cr[i][f]
  BY <1>5, ScalingSettles
<1>7. \A i \in DOMAIN cr : done[i]["map"] = cr[i]["map"]
  BY <1>1, <1>6
<1>8. \A i \in DOMAIN cr : Unknown(cr, w) \/ Fulfils(done[i], w)
  BY <1>4, <1>6, <1>7
<1>9. ops = OpsFor(cr, w) /\ OpsFor(done, w) = <<>>
  BY <1>3, <1>5, <1>6
<1>10. SettledBy(cr, w, ops, done)
  BY <1>1, <1>2, <1>6, <1>8, <1>9, Zenon DEF SettledBy
<1> QED BY <1>5, <1>9, <1>10, SettledIs

LEMMA PatchesAreSettled ==
  ASSUME input \in Patchings PROVE PatchesSettle
<1> DEFINE cr == input.cr
           w  == input.wish
<1>1. /\ IsWish(w) /\ cr \in Seq(ServerSets)
      /\ \A i, j \in DOMAIN cr : cr[i].map = cr[j].map => i = j
  BY PatchingsAssumption, Zenon
<1>2. OneSetPerMap(cr)
  BY <1>1, Zenon DEF OneSetPerMap
<1> HIDE DEF cr, w
<1>3. Settled(cr, w)
  <2>1. CASE w.build \in {"host", "scheduler", "ports", "tag"} /\ w \in Wishes(w.build)
    BY <1>1, <2>1, HostPatched, SchedulerPatched, PortsPatched, TagPatched
  <2>2. CASE w.build = "scaling" /\ w.dedicated \in BOOLEAN
    BY <1>1, <1>2, <2>2, ScalingPatched
  <2> QED BY <1>1, <2>1, <2>2, Zenon DEF IsWish
<1> QED BY <1>3, Zenon DEF PatchesSettle, Settled, cr, w

-------------------------------------------------------------------------------
(* The lines of a file; Section says where the first section of the name is. *)
LineKinds(lines) ==
  /\ lines \in Seq(FileLines) /\ Len(lines) \in Nat /\ DOMAIN lines = 1..Len(lines)
  /\ \A i \in 1..Len(lines) : lines[i].kind = "header" => lines[i] = Header(lines[i].name)

Section(lines, section, h, e) ==
  /\ h \in 1..Len(lines) /\ lines[h] = Header(section)
  /\ \A i \in 1..Len(lines) : i < h => lines[i] # Header(section)
  /\ e \in h + 1..Len(lines) + 1
  /\ \A i \in h + 1..e - 1 : lines[i].kind # "header"
  /\ e <= Len(lines) => lines[e].kind = "header"

LEMMA MaxExists ==
  ASSUME NEW n \in Nat, NEW T, T \subseteq 0..n, T # {}
  PROVE  \E m \in T : \A k \in T : k <= m
<1> DEFINE U == {u \in Nat : u <= n /\ n - u \in T}
<1>1. U # {} /\ U \subseteq Nat
  <2>1. PICK t \in T : TRUE
    OBVIOUS
  <2>2. t \in 0..n
    BY <2>1
  <2>3. n - t \in Nat /\ n - t <= n /\ n - (n - t) = t
    BY <2>2
  <2>4. n - t \in U
    BY <2>1, <2>3
  <2> QED BY <2>4
<1>2. PICK u \in U : \A v \in U : u <= v
  BY <1>1, MinExists
<1>3. n - u \in T
  BY <1>2
<1>4. ASSUME NEW k \in T PROVE k <= n - u
  <2>1. k \in 0..n
    OBVIOUS
  <2>2. n - k \in Nat /\ n - k <= n /\ n - (n - k) = k
    BY <2>1
  <2>3. n - k \in U
    BY <2>2
  <2>4. u <= n - k
    BY <1>2, <2>3
  <2> QED BY <1>2, <2>1, <2>4
<1> QED BY <1>3, <1>4

LEMMA FirstMentionIs ==
  ASSUME NEW T, T \subseteq Nat, NEW m \in T, \A k \in T : m <= k
  PROVE  FirstMention(T) = m
<1>1. PICK f : f = FirstMention(T)
  OBVIOUS
<1>2. f \in T /\ \A k \in T : f <= k
  BY <1>1 DEF FirstMention
<1>3. f <= m /\ m <= f /\ f \in Nat /\ m \in Nat
  BY <1>2
<1> QED BY <1>1, <1>3

LEMMA LastMentionIs ==
  ASSUME NEW T, T \subseteq Nat, NEW m \in T, \A k \in T : k <= m
  PROVE  LastMention(T) = m
<1>1. PICK f : f = LastMention(T)
  OBVIOUS
<1>2. f \in T /\ \A k \in T : k <= f
  BY <1>1 DEF LastMention
<1>3. f <= m /\ m <= f /\ f \in Nat /\ m \in Nat
  BY <1>2
<1> QED BY <1>1, <1>3

LEMMA SectionIs ==
  ASSUME NEW lines, LineKinds(lines), NEW section, NEW h, NEW e, Section(lines, section, h, e)
  PROVE  SectionStart(lines, section) = h /\ SectionEnd(lines, h) = e
<1> DEFINE heads == {i \in DOMAIN lines : lines[i] = Header(section)}
           next == {i \in h + 1..Len(lines) : lines[i].kind = "header"}
<1>1. heads \subseteq Nat /\ h \in heads /\ \A i \in heads : h <= i
  BY DEF LineKinds, Section
<1>2. SectionStart(lines, section) = FirstMention(heads)
  BY <1>1, Zenon DEF SectionStart, FirstMention
<1>3. h \in Nat /\ e \in Nat /\ Len(lines) \in Nat
  BY DEF LineKinds, Section
<1>4. SectionEnd(lines, h) = IF next = {} THEN Len(lines) + 1 ELSE FirstMention(next)
  BY Zenon DEF SectionEnd, FirstMention
<1>5. next \subseteq Nat
  BY <1>3
<1>6. CASE e <= Len(lines)
  <2>1. e \in next /\ \A i \in next : e <= i
    BY <1>3, <1>6 DEF Section
  <2> HIDE DEF next
  <2> QED BY <1>1, <1>2, <1>4, <1>5, <2>1, FirstMentionIs
<1>7. CASE ~(e <= Len(lines))
  <2>1. e = Len(lines) + 1
    BY <1>3, <1>7 DEF Section
  <2>2. next = {}
    BY <1>3, <2>1 DEF Section
  <2> QED BY <1>1, <1>2, <1>4, <2>1, <2>2, FirstMentionIs
<1> QED BY <1>6, <1>7

LEMMA SectionHas ==
  ASSUME NEW lines, LineKinds(lines), NEW section,
         NEW h, h = SectionStart(lines, section), h # 0, NEW e, e = SectionEnd(lines, h)
  PROVE  Section(lines, section, h, e)
<1> DEFINE heads == {i \in DOMAIN lines : lines[i] = Header(section)}
           next == {i \in h + 1..Len(lines) : lines[i].kind = "header"}
<1>1. heads \subseteq Nat
  BY DEF LineKinds
<1>2. h = IF heads = {} THEN 0 ELSE FirstMention(heads)
  BY Zenon DEF SectionStart, FirstMention
<1>3. heads # {}
  BY <1>2
<1>4. PICK a \in heads : \A i \in heads : a <= i
  BY <1>1, <1>3, MinExists
<1>5. h = a
  BY <1>1, <1>2, <1>3, <1>4, FirstMentionIs
<1>6. /\ h \in 1..Len(lines) /\ lines[h] = Header(section) /\ Len(lines) \in Nat
      /\ \A i \in 1..Len(lines) : i < h => lines[i] # Header(section)
  BY <1>4, <1>5 DEF LineKinds
<1>7. e = IF next = {} THEN Len(lines) + 1 ELSE FirstMention(next)
  BY Zenon DEF SectionEnd, FirstMention
<1>8. next \subseteq Nat
  BY <1>6
<1>9. CASE next = {}
  <2>1. e = Len(lines) + 1
    BY <1>7, <1>9
  <2>2. \A i \in h + 1..e - 1 : i \in h + 1..Len(lines)
    BY <1>6, <2>1
  <2>3. \A i \in h + 1..e - 1 : lines[i].kind # "header"
    BY <1>9, <2>2
  <2> QED BY <1>6, <2>1, <2>3 DEF Section
<1>10. CASE next # {}
  <2>1. PICK b \in next : \A i \in next : b <= i
    BY <1>8, <1>10, MinExists
  <2>2. e = b
    BY <1>7, <1>8, <1>10, <2>1, FirstMentionIs
  <2>3. e \in h + 1..Len(lines) /\ lines[e].kind = "header"
    BY <2>1, <2>2
  <2>4. ASSUME NEW i \in h + 1..e - 1 PROVE lines[i].kind # "header"
    <3>1. i \in h + 1..Len(lines) /\ ~(b <= i)
      BY <1>6, <2>2, <2>3
    <3> QED BY <2>1, <3>1
  <2> QED BY <1>6, <2>3, <2>4 DEF Section
<1> QED BY <1>9, <1>10

LEMMA LinesAre ==
  ASSUME NEW name, NEW value
  PROVE  /\ Header(name).kind = "header" /\ Header(name).name = name
         /\ Live(name, value).kind = "live" /\ Live(name, value).name = name
         /\ Live(name, value).value = value /\ ~Live(name, value).plus
         /\ EmptyLine.kind = "blank"
BY DEF Header, Live, Entry, EmptyLine

(* A live entry that adds to no array.                                       *)
Sets(line) == line.kind = "live" /\ ~line.plus

(* What currentValue looks for.                                              *)
Inside(lines, i, section) ==
  \E h \in 1..i : /\ lines[h].kind = "header" /\ lines[h].name = section
                  /\ \A g \in 1..i : lines[g].kind = "header" => g <= h

Read(lines, section, key) ==
  {i \in DOMAIN lines : Sets(lines[i]) /\ lines[i].name = key /\ Inside(lines, i, section)}

LEMMA CurrentValueIs ==
  ASSUME NEW lines, LineKinds(lines), NEW section, NEW key,
         NEW m \in Read(lines, section, key),
         \A i \in Read(lines, section, key) : m <= i
  PROVE  currentValue(lines, section, key) = lines[m].value
<1> DEFINE heads(i)  == {h \in 1..i : lines[h].kind = "header"}
           inside(i) == \E h \in heads(i) : /\ \A g \in heads(i) : g <= h
                                            /\ lines[h].name = section
           found     == {i \in DOMAIN lines : /\ lines[i].kind = "live" /\ ~lines[i].plus
                                              /\ lines[i].name = key /\ inside(i)}
<1>1. currentValue(lines, section, key)
        = IF found = {} THEN "" ELSE lines[FirstMention(found)].value
  BY Zenon DEF currentValue
<1>2. \A i : inside(i) <=> Inside(lines, i, section)
  BY DEF Inside
<1> HIDE DEF inside
<1>3. found = Read(lines, section, key)
  BY <1>2 DEF Read, Sets
<1>4. found \subseteq Nat
  BY DEF LineKinds
<1> HIDE DEF found
<1>5. FirstMention(found) = m /\ found # {}
  BY <1>3, <1>4, FirstMentionIs
<1> QED BY <1>1, <1>5

(* What SetKey does, by the section it finds.                                *)
MentionsIn(lines, h, e, key) == Mentions(lines, h + 1, e - 1, key)

LEMMA SetKeyHas ==
  ASSUME NEW lines, LineKinds(lines), NEW section, NEW h, NEW e, Section(lines, section, h, e),
         NEW key, NEW value, MentionsIn(lines, h, e, key) # {}
  PROVE  SetKey(lines, section, key, value)
           = [lines EXCEPT ![LastMention(MentionsIn(lines, h, e, key))] = Live(key, value)]
<1>1. SectionStart(lines, section) = h /\ SectionEnd(lines, h) = e
  BY SectionIs
<1>2. h # 0
  BY DEF Section, LineKinds
<1> QED BY <1>1, <1>2, Zenon DEF SetKey, MentionsIn

LEMMA SetKeyInserts ==
  ASSUME NEW lines, LineKinds(lines), NEW section, NEW h, NEW e, Section(lines, section, h, e),
         NEW key, NEW value, MentionsIn(lines, h, e, key) = {}
  PROVE  SetKey(lines, section, key, value)
           = InsertAt(lines, LineOfNew(lines, h, e), Live(key, value))
<1>1. SectionStart(lines, section) = h /\ SectionEnd(lines, h) = e
  BY SectionIs
<1>2. h # 0
  BY DEF Section, LineKinds
<1> QED BY <1>1, <1>2, Zenon DEF SetKey, MentionsIn

LEMMA SetKeyAppends ==
  ASSUME NEW lines, NEW section, SectionStart(lines, section) = 0, NEW key, NEW value
  PROVE  SetKey(lines, section, key, value)
           = IF lines = <<EmptyLine>> THEN <<Header(section), Live(key, value), EmptyLine>>
             ELSE lines \o (IF Last(lines) = EmptyLine THEN <<>> ELSE <<EmptyLine>>)
                    \o <<Header(section), Live(key, value), EmptyLine>>
BY Zenon DEF SetKey

(* The line of the value: the last that mentions the key in the section.     *)
IsSet(after, section, key, value, h, e, m) ==
  /\ LineKinds(after) /\ Section(after, section, h, e)
  /\ m \in h + 1..e - 1 /\ after[m] = Live(key, value)
  /\ \A i \in m + 1..e - 1 : ~(after[i].kind \in {"live", "comment"} /\ after[i].name = key)

LEMMA OnceIsEnough ==
  ASSUME NEW after, NEW section, NEW key, NEW value, NEW h, NEW e, NEW m,
         IsSet(after, section, key, value, h, e, m)
  PROVE  SetKey(after, section, key, value) = after
<1> DEFINE keys == MentionsIn(after, h, e, key)
<1>1. /\ LineKinds(after) /\ Section(after, section, h, e)
      /\ m \in h + 1..e - 1 /\ after[m] = Live(key, value) /\ h \in Nat /\ e \in Nat /\ m \in Nat
  BY DEF IsSet, Section
<1>2. m \in keys
  BY <1>1 DEF MentionsIn, Mentions, Live, Entry
<1>3. keys \subseteq Nat
  BY <1>1 DEF MentionsIn, Mentions
<1>4. \A i \in keys : i <= m
  BY <1>1 DEF MentionsIn, Mentions, IsSet
<1>5. LastMention(keys) = m
  BY <1>2, <1>3, <1>4, LastMentionIs
<1>6. SetKey(after, section, key, value) = [after EXCEPT ![m] = after[m]]
  BY <1>1, <1>2, <1>5, SetKeyHas
<1>7. after \in [1..Len(after) -> FileLines]
  BY <1>1, LenProperties DEF LineKinds
<1> QED BY <1>6, <1>7

LEMMA ReadBack ==
  ASSUME NEW after, NEW section, NEW key, NEW value, NEW h, NEW e, NEW m,
         IsSet(after, section, key, value, h, e, m),
         \A i \in h + 1..m - 1 : ~(Sets(after[i]) /\ after[i].name = key)
  PROVE  currentValue(after, section, key) = value
<1>1. /\ LineKinds(after) /\ Section(after, section, h, e)
      /\ m \in h + 1..e - 1 /\ after[m] = Live(key, value) /\ h \in Nat /\ e \in Nat /\ m \in Nat
      /\ h \in 1..Len(after) /\ e \in h + 1..Len(after) + 1 /\ Len(after) \in Nat
      /\ DOMAIN after = 1..Len(after) /\ after[h] = Header(section)
  BY DEF IsSet, Section, LineKinds
<1>2. m \in Read(after, section, key)
  <2>1. Sets(after[m]) /\ after[m].name = key /\ m \in DOMAIN after
    BY <1>1 DEF Sets, Live, Entry
  <2>2. h \in 1..m /\ after[h].kind = "header" /\ after[h].name = section
    BY <1>1, LinesAre
  <2>3. \A g \in 1..m : after[g].kind = "header" => g <= h
    BY <1>1 DEF Section
  <2> QED BY <2>1, <2>2, <2>3 DEF Read, Inside
<1>3. ASSUME NEW i \in Read(after, section, key) PROVE m <= i
  <2>1. /\ i \in 1..Len(after) /\ i \in Nat /\ Sets(after[i]) /\ after[i].name = key
        /\ Inside(after, i, section)
    BY <1>1, <1>3 DEF Read
  <2>2. PICK g \in 1..i : after[g].kind = "header" /\ after[g].name = section
    BY <2>1 DEF Inside
  <2>3. g \in 1..Len(after) /\ after[g] = Header(section)
    BY <1>1, <2>1, <2>2 DEF LineKinds
  <2>4. h <= g
    BY <1>1, <2>3 DEF Section
  <2>5. i # h
    BY <1>1, <2>1, LinesAre DEF Sets
  <2>6. i \in h + 1..m - 1 => FALSE
    BY <2>1
  <2> QED BY <1>1, <2>1, <2>2, <2>4, <2>5, <2>6
<1>4. currentValue(after, section, key) = after[m].value
  BY <1>1, <1>2, <1>3, CurrentValueIs
<1> QED BY <1>1, <1>4 DEF Live, Entry

-------------------------------------------------------------------------------
(* The last mention of the key becomes the entry.                            *)
Rewritten(lines, after, section, key, value, h, e, m) ==
  /\ IsSet(after, section, key, value, h, e, m)
  /\ Len(after) = Len(lines) /\ m \in MentionsIn(lines, h, e, key)
  /\ \A i \in 1..Len(lines) : i # m => after[i] = lines[i]

LEMMA LiveIsALine ==
  ASSUME NEW name \in STRING, NEW value \in STRING
  PROVE  Live(name, value) \in FileLines /\ Header(name) \in FileLines /\ EmptyLine \in FileLines
BY TextsAssumption DEF Live, Entry, Header, EmptyLine, FileLines

LEMMA KeyIsRewritten ==
  ASSUME NEW lines, LineKinds(lines), NEW section, NEW h, NEW e, Section(lines, section, h, e),
         NEW key, key \in STRING, NEW value, value \in STRING, MentionsIn(lines, h, e, key) # {},
         NEW after, after = SetKey(lines, section, key, value)
  PROVE  \E m : Rewritten(lines, after, section, key, value, h, e, m)
<1> DEFINE keys == MentionsIn(lines, h, e, key)
<1>1. /\ lines \in Seq(FileLines) /\ Len(lines) \in Nat /\ DOMAIN lines = 1..Len(lines)
      /\ h \in 1..Len(lines) /\ h \in Nat /\ e \in Nat /\ e \in h + 1..Len(lines) + 1
      /\ lines[h] = Header(section)
  BY DEF LineKinds, Section
<1>2. keys \subseteq Nat /\ keys \subseteq 0..e
  BY <1>1 DEF MentionsIn, Mentions
<1>3. PICK m \in keys : \A k \in keys : k <= m
  BY <1>1, <1>2, MaxExists
<1>4. LastMention(keys) = m
  BY <1>2, <1>3, LastMentionIs
<1>5. m \in h + 1..e - 1 /\ m \in 1..Len(lines) /\ m \in Nat
      /\ lines[m].kind \in {"live", "comment"} /\ lines[m].name = key
  BY <1>1, <1>3 DEF MentionsIn, Mentions
<1>6. PICK v \in FileLines : v = Live(key, value)
  BY LiveIsALine
<1>7. after = [lines EXCEPT ![m] = v]
  <2>1. after = [lines EXCEPT ![LastMention(keys)] = Live(key, value)]
    <3>1. SetKey(lines, section, key, value)
            = [lines EXCEPT ![LastMention(MentionsIn(lines, h, e, key))] = Live(key, value)]
      BY ONLY SetKeyHas, LineKinds(lines), Section(lines, section, h, e),
              MentionsIn(lines, h, e, key) # {}
    <3> QED BY <3>1
  <2> QED BY <1>4, <1>6, <2>1, Zenon
<1>8. /\ after \in Seq(FileLines) /\ Len(after) = Len(lines)
      /\ \A i \in 1..Len(lines) : after[i] = IF i = m THEN v ELSE lines[i]
  BY <1>1, <1>5, <1>6, <1>7, ExceptSeq
<1>9. v.kind = "live"
  BY <1>6, LinesAre
<1>10. LineKinds(after)
  <2>1. DOMAIN after = 1..Len(after)
    BY <1>8, LenProperties
  <2>2. \A i \in 1..Len(after) : after[i].kind = "header" => after[i] = Header(after[i].name)
    BY <1>8, <1>9 DEF LineKinds
  <2> QED BY <1>1, <1>8, <2>1, <2>2 DEF LineKinds
<1>11. Section(after, section, h, e)
  <2>1. h # m /\ after[h] = Header(section)
    BY <1>1, <1>5, <1>8
  <2>2. v # Header(section)
    BY <1>9, LinesAre
  <2>3. \A i \in 1..Len(after) : i < h => after[i] # Header(section)
    BY <1>1, <1>5, <1>8, <2>2 DEF Section
  <2>4. \A i \in h + 1..e - 1 : i \in 1..Len(lines)
    BY <1>1
  <2>5. \A i \in h + 1..e - 1 : after[i].kind # "header"
    BY <1>8, <1>9, <2>4 DEF Section
  <2>6. e <= Len(after) => after[e].kind = "header"
    <3>1. e # m
      BY <1>1, <1>5
    <3>2. e <= Len(lines) => e \in 1..Len(lines)
      BY <1>1
    <3> QED BY <1>8, <3>1, <3>2 DEF Section
  <2> QED BY <1>1, <1>8, <2>1, <2>3, <2>5, <2>6 DEF Section
<1>12. \A i \in m + 1..e - 1 : ~(after[i].kind \in {"live", "comment"} /\ after[i].name = key)
  <2> SUFFICES ASSUME NEW i \in m + 1..e - 1,
                      after[i].kind \in {"live", "comment"}, after[i].name = key
               PROVE  FALSE
    OBVIOUS
  <2>1. i \in 1..Len(lines) /\ i # m /\ i \in h + 1..e - 1 /\ ~(i <= m)
    BY <1>1, <1>5
  <2>2. i \in keys
    BY <1>8, <2>1 DEF MentionsIn, Mentions
  <2> QED BY <1>3, <2>1, <2>2
<1>13. IsSet(after, section, key, value, h, e, m)
  BY <1>5, <1>6, <1>8, <1>10, <1>11, <1>12 DEF IsSet
<1> QED BY <1>3, <1>8, <1>13 DEF Rewritten

(* A section without the key gets the entry.                                 *)
Inserted(lines, after, section, key, value, h, e, p) ==
  /\ IsSet(after, section, key, value, h, e + 1, p)
  /\ Len(after) = Len(lines) + 1 /\ p \in h + 1..e
  /\ \A i \in 1..Len(lines) : after[IF i < p THEN i ELSE i + 1] = lines[i]

PutIn(t, s, p, v) ==
  /\ Len(t) = Len(s) + 1 /\ DOMAIN t = 1..Len(s) + 1 /\ t[p] = v
  /\ \A i \in 1..Len(s) + 1 : i < p => t[i] = s[i]
  /\ \A i \in 1..Len(s) + 1 : i > p => t[i] = s[i - 1]

LEMMA InsertAtIs ==
  ASSUME NEW S, NEW s \in Seq(S), NEW p \in 1..Len(s) + 1, NEW v \in S,
         NEW t, t = InsertAt(s, p, v)
  PROVE  t \in Seq(S) /\ PutIn(t, s, p, v)
<1>1. Len(s) \in Nat /\ p \in Nat /\ p >= 1 /\ p <= Len(s) + 1
  BY LenProperties
<1>2. \A i \in 1..Len(s) : s[i] \in S
  BY ElementOfSeq
<1>3. PICK a : a = SubSeq(s, 1, p - 1)
  OBVIOUS
<1>4. PICK b : b = SubSeq(s, p, Len(s))
  OBVIOUS
<1>5. PICK c : c = <<v>>
  OBVIOUS
<1>6. t = (a \o c) \o b
  BY <1>3, <1>4, <1>5 DEF InsertAt
<1>7. a \in Seq(S) /\ Len(a) = p - 1 /\ \A i \in 1..p - 1 : a[i] = s[i]
  <2>1. \A i \in 1..p - 1 : s[i] \in S
    BY <1>1, <1>2
  <2>2. /\ a \in Seq(S) /\ Len(a) = IF 1 <= p - 1 THEN p - 1 - 1 + 1 ELSE 0
        /\ \A i \in 1..p - 1 - 1 + 1 : a[i] = s[1 + i - 1]
    BY <1>1, <1>3, <2>1, SubSeqProperties
  <2> QED BY <1>1, <2>2
<1>8. b \in Seq(S) /\ Len(b) = Len(s) - p + 1 /\ \A i \in 1..Len(s) - p + 1 : b[i] = s[p + i - 1]
  <2>1. \A i \in p..Len(s) : s[i] \in S
    BY <1>1, <1>2
  <2>2. /\ b \in Seq(S) /\ Len(b) = IF p <= Len(s) THEN Len(s) - p + 1 ELSE 0
        /\ \A i \in 1..Len(s) - p + 1 : b[i] = s[p + i - 1]
    BY <1>1, <1>4, <2>1, SubSeqProperties
  <2> QED BY <1>1, <2>2
<1>9. c \in Seq(S) /\ Len(c) = 1 /\ c[1] = v
  BY <1>5
<1>10. PICK d : d = a \o c
  OBVIOUS
<1>11. /\ d \in Seq(S) /\ Len(d) = p
       /\ \A i \in 1..p : d[i] = IF i < p THEN s[i] ELSE v
  <2>1. /\ d \in Seq(S) /\ Len(d) = Len(a) + Len(c)
        /\ \A i \in 1..Len(a) + Len(c) : d[i] = IF i <= Len(a) THEN a[i] ELSE c[i - Len(a)]
    BY <1>7, <1>9, <1>10, ConcatProperties
  <2> QED BY <1>1, <1>7, <1>9, <2>1
<1>12. /\ t \in Seq(S) /\ Len(t) = Len(d) + Len(b)
       /\ \A i \in 1..Len(d) + Len(b) : t[i] = IF i <= Len(d) THEN d[i] ELSE b[i - Len(d)]
  <2>1. t = d \o b
    BY <1>6, <1>10
  <2>2. b \in Seq(S) /\ d \in Seq(S)
    BY <1>8, <1>11
  <2> QED BY ONLY <2>1, <2>2, ConcatProperties
<1>13. Len(t) = Len(s) + 1 /\ DOMAIN t = 1..Len(s) + 1
  BY <1>1, <1>8, <1>11, <1>12, LenProperties
<1>14. ASSUME NEW i \in 1..Len(t)
       PROVE  t[i] = IF i < p THEN s[i] ELSE IF i = p THEN v ELSE s[i - 1]
  <2>1. CASE i <= p
    BY <1>1, <1>8, <1>11, <1>12, <2>1
  <2>2. CASE i > p
    <3>1. i - p \in 1..Len(s) - p + 1 /\ p + (i - p) - 1 = i - 1 /\ i \in Nat
          /\ i \in 1..Len(d) + Len(b) /\ ~(i <= Len(d)) /\ ~(i < p) /\ i # p
      BY <1>1, <1>8, <1>11, <1>13, <2>2
    <3>2. t[i] = b[i - p]
      BY <1>11, <1>12, <3>1
    <3> QED BY <1>8, <3>1, <3>2
  <2> QED BY <1>1, <2>1, <2>2
<1>15. p \in 1..Len(t) /\ ~(p < p)
  BY <1>1, <1>13
<1>16. t[p] = v
  BY <1>14, <1>15
<1>17. \A i \in 1..Len(s) + 1 : i < p => t[i] = s[i]
  BY <1>13, <1>14
<1>18. \A i \in 1..Len(s) + 1 : i > p => t[i] = s[i - 1]
  BY <1>1, <1>13, <1>14
<1> QED BY <1>12, <1>13, <1>16, <1>17, <1>18 DEF PutIn

LEMMA KeyIsInserted ==
  ASSUME NEW lines, LineKinds(lines), NEW section, NEW h, NEW e, Section(lines, section, h, e),
         NEW key, key \in STRING, NEW value, value \in STRING, MentionsIn(lines, h, e, key) = {},
         NEW after, after = SetKey(lines, section, key, value)
  PROVE  \E p : Inserted(lines, after, section, key, value, h, e, p)
<1>1. /\ lines \in Seq(FileLines) /\ Len(lines) \in Nat /\ DOMAIN lines = 1..Len(lines)
      /\ h \in 1..Len(lines) /\ h \in Nat /\ e \in Nat /\ e \in h + 1..Len(lines) + 1
      /\ lines[h] = Header(section)
  BY DEF LineKinds, Section
<1> DEFINE filled == {i \in h..e - 1 : lines[i].kind # "blank"}
<1>2. filled \subseteq Nat /\ filled \subseteq 0..e /\ h \in filled
  BY <1>1, LinesAre
<1>3. PICK f \in filled : \A k \in filled : k <= f
  BY <1>1, <1>2, MaxExists
<1>4. LineOfNew(lines, h, e) = 1 + LastMention(filled)
  BY Zenon DEF LineOfNew, LastMention
<1>5. LastMention(filled) = f
  BY <1>2, <1>3, LastMentionIs
<1>6. f \in h..e - 1 /\ f \in Nat
  BY <1>1, <1>3
<1> HIDE DEF filled
<1>7. PICK p : p = 1 + f
  OBVIOUS
<1>8. p = LineOfNew(lines, h, e) /\ p \in Nat /\ p \in h + 1..e /\ p \in 1..Len(lines) + 1
  BY <1>1, <1>4, <1>5, <1>6, <1>7
<1>9. PICK v \in FileLines : v = Live(key, value)
  BY LiveIsALine
<1>10. after = InsertAt(lines, p, v)
  <2>1. after = InsertAt(lines, LineOfNew(lines, h, e), Live(key, value))
    <3>1. SetKey(lines, section, key, value)
            = InsertAt(lines, LineOfNew(lines, h, e), Live(key, value))
      BY ONLY SetKeyInserts, LineKinds(lines), Section(lines, section, h, e),
              MentionsIn(lines, h, e, key) = {}
    <3> QED BY <3>1
  <2> QED BY <1>8, <1>9, <2>1, Zenon
<1>11. /\ after \in Seq(FileLines) /\ Len(after) = Len(lines) + 1 /\ DOMAIN after = 1..Len(after)
       /\ after[p] = v
       /\ \A i \in 1..Len(lines) + 1 : i < p => after[i] = lines[i]
       /\ \A i \in 1..Len(lines) + 1 : i > p => after[i] = lines[i - 1]
  <2>1. after \in Seq(FileLines) /\ PutIn(after, lines, p, v)
    BY <1>1, <1>8, <1>9, <1>10, InsertAtIs
  <2> QED BY <2>1 DEF PutIn
<1>12. v.kind = "live" /\ v # Header(section)
  BY <1>9, LinesAre
<1>13. ASSUME NEW i \in 1..Len(lines) + 1
       PROVE  \/ i < p /\ i \in 1..Len(lines) /\ after[i] = lines[i]
              \/ i = p /\ after[i] = v
              \/ i > p /\ i - 1 \in 1..Len(lines) /\ i - 1 >= p /\ after[i] = lines[i - 1]
  <2>1. \/ i < p /\ i \in 1..Len(lines)
        \/ i = p
        \/ i > p /\ i - 1 \in 1..Len(lines) /\ i - 1 >= p
    BY <1>1, <1>8
  <2> QED BY <1>8, <1>11, <2>1
<1>14. LineKinds(after)
  <2>1. \A i \in 1..Len(after) : after[i].kind = "header" => after[i] = Header(after[i].name)
    BY <1>11, <1>12, <1>13 DEF LineKinds
  <2> QED BY <1>1, <1>11, <2>1 DEF LineKinds
<1>15. Section(after, section, h, e + 1)
  <2>1. after[h] = Header(section)
    <3>1. h \in 1..Len(lines) + 1 /\ h < p
      BY <1>1, <1>8
    <3>2. after[h] = lines[h]
      BY <1>11, <3>1
    <3> QED BY <1>1, <3>2
  <2>2. ASSUME NEW i \in 1..Len(after), i < h PROVE after[i] # Header(section)
    <3>1. i \in 1..Len(lines) + 1 /\ i < p /\ i \in 1..Len(lines)
      BY <1>1, <1>8, <1>11, <2>2
    <3>3. after[i] = lines[i]
      BY <1>11, <3>1
    <3> QED BY <2>2, <3>1, <3>3 DEF Section
  <2>3. ASSUME NEW i \in h + 1..(e + 1) - 1 PROVE after[i].kind # "header"
    <3>1. i \in 1..Len(lines) + 1
      BY <1>1
    <3>2. CASE i < p /\ i \in 1..Len(lines) /\ after[i] = lines[i]
      <4>1. i \in h + 1..e - 1
        BY <1>1, <1>8, <3>2
      <4> QED BY <3>2, <4>1 DEF Section
    <3>3. CASE i = p /\ after[i] = v
      BY <1>12, <3>3
    <3>4. CASE i > p /\ i - 1 \in 1..Len(lines) /\ i - 1 >= p /\ after[i] = lines[i - 1]
      <4>1. i - 1 \in h + 1..e - 1
        BY <1>1, <1>8, <3>4
      <4> QED BY <3>4, <4>1 DEF Section
    <3> QED BY <1>13, <3>1, <3>2, <3>3, <3>4
  <2>4. ASSUME e + 1 <= Len(after) PROVE after[e + 1].kind = "header"
    <3>1. e <= Len(lines) /\ e + 1 \in 1..Len(lines) + 1 /\ e + 1 > p /\ (e + 1) - 1 = e
      BY <1>1, <1>8, <1>11, <2>4
    <3>2. after[e + 1] = lines[e]
      BY <1>8, <1>11, <3>1
    <3> QED BY <3>1, <3>2 DEF Section
  <2>5. h \in 1..Len(after) /\ e + 1 \in h + 1..Len(after) + 1
    BY <1>1, <1>11
  <2> QED BY <2>1, <2>2, <2>3, <2>4, <2>5 DEF Section
<1>16. \A i \in p + 1..(e + 1) - 1 : ~(after[i].kind \in {"live", "comment"} /\ after[i].name = key)
  <2> SUFFICES ASSUME NEW i \in p + 1..(e + 1) - 1,
                      after[i].kind \in {"live", "comment"}, after[i].name = key
               PROVE  FALSE
    OBVIOUS
  <2>1. i \in 1..Len(lines) + 1 /\ i > p /\ i # p /\ i - 1 \in h + 1..e - 1
    BY <1>1, <1>8
  <2>2. after[i] = lines[i - 1]
    BY <1>8, <1>11, <2>1
  <2>3. i - 1 \in MentionsIn(lines, h, e, key)
    BY <2>1, <2>2 DEF MentionsIn, Mentions
  <2> QED BY <2>3
<1>17. after[p] = v /\ p \in h + 1..(e + 1) - 1
  BY <1>1, <1>8, <1>11
<1>18. IsSet(after, section, key, value, h, e + 1, p)
  BY <1>9, <1>14, <1>15, <1>16, <1>17 DEF IsSet
<1>19. ASSUME NEW i \in 1..Len(lines) PROVE after[IF i < p THEN i ELSE i + 1] = lines[i]
  <2>1. CASE i < p
    <3>1. i \in 1..Len(lines) + 1
      BY <1>1
    <3> QED BY <1>11, <2>1, <3>1
  <2>2. CASE ~(i < p)
    <3>1. i + 1 \in 1..Len(lines) + 1 /\ i + 1 > p /\ (i + 1) - 1 = i
      BY <1>1, <1>8, <2>2
    <3>2. after[i + 1] = lines[i]
      BY <1>8, <1>11, <3>1
    <3> QED BY <2>2, <3>2
  <2> QED BY <2>1, <2>2
<1> QED BY <1>8, <1>11, <1>18, <1>19 DEF Inserted

(* A block at the end of what has no such section.                           *)
Blocked(P, after, section, key, value) ==
  /\ IsSet(after, section, key, value, Len(P) + 1, Len(P) + 4, Len(P) + 2)
  /\ Len(after) = Len(P) + 3
  /\ \A i \in 1..Len(P) : after[i] = P[i]
  /\ after[Len(P) + 1] = Header(section) /\ after[Len(P) + 2] = Live(key, value)
  /\ after[Len(P) + 3] = EmptyLine

LEMMA BlockIsSet ==
  ASSUME NEW P, LineKinds(P), NEW section, section \in STRING, NEW key, key \in STRING,
         NEW value, value \in STRING, \A i \in 1..Len(P) : P[i] # Header(section),
         NEW after, after = P \o <<Header(section), Live(key, value), EmptyLine>>
  PROVE  Blocked(P, after, section, key, value)
<1>1. PICK x \in FileLines, y \in FileLines, z \in FileLines :
        x = Header(section) /\ y = Live(key, value) /\ z = EmptyLine
  BY LiveIsALine
<1>2. PICK c : c = <<x, y, z>>
  OBVIOUS
<1>3. c \in Seq(FileLines) /\ Len(c) = 3 /\ c[1] = x /\ c[2] = y /\ c[3] = z
  BY <1>2
<1>4. after = P \o c
  BY <1>1, <1>2
<1>5. P \in Seq(FileLines) /\ Len(P) \in Nat
  BY DEF LineKinds
<1>6. PICK n \in Nat : n = Len(P)
  BY <1>5
<1>7. /\ after \in Seq(FileLines) /\ Len(after) = Len(P) + Len(c)
      /\ \A i \in 1..Len(P) + Len(c) : after[i] = IF i <= Len(P) THEN P[i] ELSE c[i - Len(P)]
  BY ONLY <1>3, <1>4, <1>5, ConcatProperties
<1>8. /\ Len(after) = n + 3 /\ \A i \in 1..n : after[i] = P[i]
      /\ after[n + 1] = x /\ after[n + 2] = y /\ after[n + 3] = z
  <2>1. n + 1 \in 1..n + 3 /\ n + 2 \in 1..n + 3 /\ n + 3 \in 1..n + 3
        /\ (n + 1) - n = 1 /\ (n + 2) - n = 2 /\ (n + 3) - n = 3
        /\ ~(n + 1 <= n) /\ ~(n + 2 <= n) /\ ~(n + 3 <= n) /\ 1..n + 3 = 1..Len(P) + Len(c)
    BY <1>3, <1>6
  <2>2. after[n + 1] = c[1] /\ after[n + 2] = c[2] /\ after[n + 3] = c[3]
    BY <1>6, <1>7, <2>1
  <2>3. \A i \in 1..n : i \in 1..n + 3 /\ i <= n
    BY <1>6
  <2>4. \A i \in 1..n : after[i] = P[i]
    BY <1>6, <1>7, <2>1, <2>3
  <2> QED BY <1>3, <1>6, <1>7, <2>2, <2>4
<1>9. DOMAIN after = 1..Len(after) /\ Len(after) \in Nat
  BY <1>7, LenProperties
<1>10. \A i \in 1..n + 3 : i \in 1..n \/ i = n + 1 \/ i = n + 2 \/ i = n + 3
  BY <1>6
<1>11. /\ x.kind = "header" /\ x.name = section /\ y.kind = "live" /\ z.kind = "blank"
       /\ x = Header(x.name)
  <2>1. /\ Header(section).kind = "header" /\ Header(section).name = section
        /\ Live(key, value).kind = "live" /\ EmptyLine.kind = "blank"
    BY ONLY LinesAre
  <2> QED BY ONLY <1>1, <2>1
<1>12. LineKinds(after)
  <2>1. ASSUME NEW i \in 1..Len(after), after[i].kind = "header"
        PROVE  after[i] = Header(after[i].name)
    <3>1. CASE i \in 1..n
      BY <1>6, <1>8, <2>1, <3>1 DEF LineKinds
    <3>2. CASE i \notin 1..n
      <4>1. i = n + 1
        BY <1>8, <1>10, <1>11, <2>1, <3>2
      <4> QED BY <1>8, <1>11, <4>1
    <3> QED BY <3>1, <3>2
  <2> QED BY <1>7, <1>9, <2>1 DEF LineKinds
<1>13. Section(after, section, n + 1, n + 4)
  <2>1. n + 1 \in 1..Len(after) /\ after[n + 1] = Header(section)
    <3>1. n + 1 \in 1..n + 3
      OBVIOUS
    <3>2. Len(after) = n + 3 /\ after[n + 1] = x
      BY <1>8
    <3> QED BY <1>1, <3>1, <3>2
  <2>2. ASSUME NEW i \in 1..Len(after), i < n + 1 PROVE after[i] # Header(section)
    <3>1. i \in 1..n
      BY <1>8, <2>2
    <3> QED BY <1>6, <1>8, <3>1
  <2>3. ASSUME NEW i \in (n + 1) + 1..(n + 4) - 1 PROVE after[i].kind # "header"
    <3>1. i = n + 2 \/ i = n + 3
      OBVIOUS
    <3> QED BY <1>8, <1>11, <3>1
  <2>4. n + 4 \in (n + 1) + 1..Len(after) + 1 /\ ~(n + 4 <= Len(after))
    BY <1>8
  <2> QED BY <2>1, <2>2, <2>3, <2>4 DEF Section
<1>14. IsSet(after, section, key, value, n + 1, n + 4, n + 2)
  <2>1. n + 2 \in (n + 1) + 1..(n + 4) - 1
    OBVIOUS
  <2>2. ASSUME NEW i \in (n + 2) + 1..(n + 4) - 1
        PROVE  ~(after[i].kind \in {"live", "comment"} /\ after[i].name = key)
    <3>1. i = n + 3
      OBVIOUS
    <3> QED BY <1>8, <1>11, <3>1
  <2> QED BY <1>1, <1>8, <1>12, <1>13, <2>1, <2>2 DEF IsSet
<1> QED BY <1>1, <1>6, <1>8, <1>14 DEF Blocked

LEMMA NoSection ==
  ASSUME NEW lines, LineKinds(lines), NEW section, SectionStart(lines, section) = 0
  PROVE  \A i \in 1..Len(lines) : lines[i] # Header(section)
<1> DEFINE heads == {i \in DOMAIN lines : lines[i] = Header(section)}
<1>1. heads \subseteq Nat /\ 0 \notin heads
  BY DEF LineKinds
<1>2. SectionStart(lines, section) = IF heads = {} THEN 0 ELSE FirstMention(heads)
  BY Zenon DEF SectionStart, FirstMention
<1>3. heads = {}
  <2> SUFFICES ASSUME heads # {} PROVE FALSE
    OBVIOUS
  <2>1. PICK a \in heads : \A i \in heads : a <= i
    BY <1>1, MinExists
  <2>2. FirstMention(heads) = a
    BY <1>1, <2>1, FirstMentionIs
  <2> QED BY <1>1, <1>2, <2>1, <2>2
<1> QED BY <1>3 DEF LineKinds

(* The block follows the lines, or a blank line after them, or replaces the  *)
(* only, empty line.                                                         *)
Appended(lines, after, section, key, value) ==
  \E P : /\ Blocked(P, after, section, key, value)
         /\ \/ lines = <<EmptyLine>> /\ Len(P) = 0
            \/ Len(P) = Len(lines) /\ \A i \in 1..Len(lines) : P[i] = lines[i]
            \/ /\ Len(P) = Len(lines) + 1 /\ P[Len(P)] = EmptyLine
               /\ \A i \in 1..Len(lines) : P[i] = lines[i]

LEMMA BlockIsAppended ==
  ASSUME NEW lines, LineKinds(lines), NEW section, section \in STRING, NEW key, key \in STRING,
         NEW value, value \in STRING, SectionStart(lines, section) = 0,
         NEW after, after = SetKey(lines, section, key, value)
  PROVE  Appended(lines, after, section, key, value)
<1>1. PICK block : block = <<Header(section), Live(key, value), EmptyLine>>
  OBVIOUS
<1>2. PICK x \in FileLines, y \in FileLines, z \in FileLines :
        x = Header(section) /\ y = Live(key, value) /\ z = EmptyLine
  BY LiveIsALine
<1>3. block \in Seq(FileLines)
  <2>1. block = <<x, y, z>>
    BY <1>1, <1>2
  <2> QED BY <2>1
<1>4. PICK blank : blank = <<z>>
  OBVIOUS
<1>5. blank \in Seq(FileLines) /\ Len(blank) = 1 /\ blank[1] = z
  BY <1>4
<1>6. after = IF lines = <<EmptyLine>> THEN block
              ELSE lines \o (IF Last(lines) = EmptyLine THEN <<>> ELSE blank) \o block
  <2>1. SetKey(lines, section, key, value)
          = IF lines = <<EmptyLine>> THEN <<Header(section), Live(key, value), EmptyLine>>
             ELSE lines \o (IF Last(lines) = EmptyLine THEN <<>> ELSE <<EmptyLine>>)
                    \o <<Header(section), Live(key, value), EmptyLine>>
    BY ONLY SectionStart(lines, section) = 0, SetKeyAppends
  <2>2. blank = <<EmptyLine>>
    BY <1>2, <1>4
  <2> QED BY <1>1, <2>1, <2>2
<1>7. lines \in Seq(FileLines) /\ Len(lines) \in Nat
      /\ \A i \in 1..Len(lines) : lines[i].kind = "header" => lines[i] = Header(lines[i].name)
  BY DEF LineKinds
<1>8. \A i \in 1..Len(lines) : lines[i] # Header(section)
  BY NoSection
<1>9. ASSUME NEW P, LineKinds(P), after = P \o block, \A i \in 1..Len(P) : P[i] # Header(section)
      PROVE  Blocked(P, after, section, key, value)
  <2>1. after = P \o <<Header(section), Live(key, value), EmptyLine>>
    BY <1>1, <1>9
  <2> QED BY ONLY <1>9, <2>1, BlockIsSet, section \in STRING, key \in STRING, value \in STRING
<1>10. CASE lines = <<EmptyLine>>
  <2>1. PICK P : P = <<>>
    OBVIOUS
  <2>2. P \in Seq(FileLines) /\ Len(P) = 0 /\ DOMAIN P = 1..Len(P)
    BY <2>1, EmptySeq, LenProperties
  <2>3. LineKinds(P) /\ \A i \in 1..Len(P) : P[i] # Header(section)
    BY <2>2 DEF LineKinds
  <2>4. after = P \o block
    BY <1>3, <1>6, <1>10, <2>1, ConcatEmptySeq
  <2>5. Blocked(P, after, section, key, value)
    BY <1>9, <2>3, <2>4
  <2> QED BY <1>10, <2>2, <2>5 DEF Appended
<1>11. CASE lines # <<EmptyLine>> /\ Last(lines) = EmptyLine
  <2>1. after = lines \o block
    <3>1. after = (lines \o <<>>) \o block
      BY <1>6, <1>11
    <3>2. lines \o <<>> = lines
      BY <1>7, ConcatEmptySeq
    <3> QED BY <3>1, <3>2
  <2>2. Blocked(lines, after, section, key, value)
    BY <1>8, <1>9, <2>1
  <2> QED BY <2>2 DEF Appended
<1>12. CASE lines # <<EmptyLine>> /\ Last(lines) # EmptyLine
  <2>1. PICK P : P = lines \o blank
    OBVIOUS
  <2>2. after = P \o block
    BY <1>6, <1>12, <2>1
  <2>3. /\ P \in Seq(FileLines) /\ Len(P) = Len(lines) + Len(blank)
        /\ \A i \in 1..Len(lines) + Len(blank) :
             P[i] = IF i <= Len(lines) THEN lines[i] ELSE blank[i - Len(lines)]
    BY ONLY <1>5, <1>7, <2>1, ConcatProperties
  <2>4. PICK n \in Nat : n = Len(lines)
    BY <1>7
  <2>5. /\ Len(P) = n + 1 /\ P[n + 1] = z /\ \A i \in 1..n : P[i] = lines[i]
    <3>1. n + 1 \in 1..n + 1 /\ ~(n + 1 <= n) /\ (n + 1) - n = 1
      OBVIOUS
    <3>2. P[n + 1] = blank[1]
      BY <1>5, <2>3, <2>4, <3>1
    <3>3. \A i \in 1..n : i \in 1..n + 1 /\ i <= n
      OBVIOUS
    <3>4. \A i \in 1..n : P[i] = lines[i]
      BY <1>5, <2>3, <2>4, <3>3
    <3> QED BY <1>5, <2>3, <2>4, <3>2, <3>4
  <2>6. \A i \in 1..Len(P) : i \in 1..n \/ i = n + 1
    BY <2>5
  <2>7. z.kind = "blank" /\ z # Header(section)
    BY <1>2, LinesAre
  <2>8. \A i \in 1..Len(P) : P[i].kind = "header" => P[i] = Header(P[i].name)
    BY <1>7, <2>4, <2>5, <2>6, <2>7
  <2>9. \A i \in 1..Len(P) : P[i] # Header(section)
    BY <1>8, <2>4, <2>5, <2>6, <2>7
  <2>10. LineKinds(P)
    BY <2>3, <2>8, LenProperties DEF LineKinds
  <2>11. Blocked(P, after, section, key, value)
    BY <1>9, <2>2, <2>9, <2>10
  <2>12. /\ Len(P) = Len(lines) + 1 /\ P[Len(P)] = EmptyLine
         /\ \A i \in 1..Len(lines) : P[i] = lines[i]
    BY <1>2, <2>4, <2>5
  <2> QED BY <2>11, <2>12 DEF Appended
<1> QED BY <1>10, <1>11, <1>12

-------------------------------------------------------------------------------
(* Where the lines of the file are, and what was added between them.         *)
Placed(lines, after, added, section, key, value) ==
  \E n \in 1..Len(lines) + 1 :
    /\ \A i \in 1..n - 1 : after[i] = lines[i]
    /\ \A i \in n..n + added - 1 : after[i] \in NewLines(lines, section, key, value)
    /\ \A i \in n..Len(lines) :
         \/ after[i + added] = lines[i]
         \/ i = n /\ added = 0 /\ lines[i].name = key

WellSet(lines, after, section, key, value) ==
  /\ Shadowed(lines, section, key) \/ currentValue(after, section, key) = value
  /\ SetKey(after, section, key, value) = after
  /\ Len(after) - Len(lines) \in 0..4
  /\ Placed(lines, after, Len(after) - Len(lines), section, key, value)

LEMMA NewLinesAre ==
  ASSUME NEW lines, NEW section, NEW key, NEW value
  PROVE  /\ Live(key, value) \in NewLines(lines, section, key, value)
         /\ SectionStart(lines, section) = 0 =>
              /\ EmptyLine \in NewLines(lines, section, key, value)
              /\ Header(section) \in NewLines(lines, section, key, value)
BY Zenon DEF NewLines

LEMMA ShadowedIs ==
  ASSUME NEW lines, LineKinds(lines), NEW section, NEW h, NEW e, Section(lines, section, h, e),
         NEW key, NEW i \in MentionsIn(lines, h, e, key), NEW j \in MentionsIn(lines, h, e, key),
         i < j, Sets(lines[i])
  PROVE  Shadowed(lines, section, key)
<1>1. SectionStart(lines, section) = h /\ SectionEnd(lines, h) = e
  BY SectionIs
<1>2. h # 0
  BY DEF Section, LineKinds
<1> QED BY <1>1, <1>2 DEF Shadowed, MentionsIn, Sets

LEMMA RewrittenIsWell ==
  ASSUME NEW lines, LineKinds(lines), NEW section, NEW h, NEW e, Section(lines, section, h, e),
         NEW key, NEW value, NEW after, NEW m,
         Rewritten(lines, after, section, key, value, h, e, m)
  PROVE  WellSet(lines, after, section, key, value)
<1>1. /\ IsSet(after, section, key, value, h, e, m)
      /\ Len(after) = Len(lines) /\ m \in MentionsIn(lines, h, e, key)
      /\ \A i \in 1..Len(lines) : i # m => after[i] = lines[i]
  BY DEF Rewritten
<1>2. /\ Len(lines) \in Nat /\ h \in Nat /\ e \in Nat /\ h \in 1..Len(lines)
      /\ e \in h + 1..Len(lines) + 1 /\ m \in h + 1..e - 1 /\ m \in 1..Len(lines) /\ m \in Nat
      /\ lines[m].name = key
  BY <1>1 DEF LineKinds, Section, MentionsIn, Mentions
<1>3. Len(after) - Len(lines) = 0
  BY <1>1, <1>2
<1>4. SetKey(after, section, key, value) = after
  BY <1>1, OnceIsEnough
<1>5. Shadowed(lines, section, key) \/ currentValue(after, section, key) = value
  <2> SUFFICES ASSUME ~Shadowed(lines, section, key)
               PROVE  currentValue(after, section, key) = value
    OBVIOUS
  <2>1. ASSUME NEW i \in h + 1..m - 1, Sets(after[i]), after[i].name = key PROVE FALSE
    <3>1. i \in 1..Len(lines) /\ i # m /\ i < m /\ i \in h + 1..e - 1
      BY <1>2
    <3>2. Sets(lines[i]) /\ lines[i].name = key
      BY <1>1, <2>1, <3>1
    <3>3. i \in MentionsIn(lines, h, e, key)
      BY <3>1, <3>2 DEF MentionsIn, Mentions, Sets
    <3> QED BY <1>1, <3>1, <3>2, <3>3, ShadowedIs
  <2> QED BY <1>1, <2>1, ReadBack
<1>6. Placed(lines, after, 0, section, key, value)
  <2>1. \A i \in 1..m - 1 : after[i] = lines[i]
    BY <1>1, <1>2
  <2>2. \A i \in m..m + 0 - 1 : after[i] \in NewLines(lines, section, key, value)
    BY <1>2
  <2>3. \A i \in m..Len(lines) : after[i + 0] = lines[i] \/ (i = m /\ 0 = 0 /\ lines[i].name = key)
    BY <1>1, <1>2
  <2>4. m \in 1..Len(lines) + 1
    BY <1>2
  <2> QED BY <2>1, <2>2, <2>3, <2>4 DEF Placed
<1> QED BY <1>3, <1>4, <1>5, <1>6 DEF WellSet

LEMMA InsertedIsWell ==
  ASSUME NEW lines, LineKinds(lines), NEW section, NEW h, NEW e, Section(lines, section, h, e),
         NEW key, NEW value, NEW after, NEW p, MentionsIn(lines, h, e, key) = {},
         Inserted(lines, after, section, key, value, h, e, p)
  PROVE  WellSet(lines, after, section, key, value)
<1>1. /\ IsSet(after, section, key, value, h, e + 1, p)
      /\ Len(after) = Len(lines) + 1 /\ p \in h + 1..e
      /\ \A i \in 1..Len(lines) : after[IF i < p THEN i ELSE i + 1] = lines[i]
  BY DEF Inserted
<1>2. /\ Len(lines) \in Nat /\ h \in Nat /\ e \in Nat /\ h \in 1..Len(lines)
      /\ e \in h + 1..Len(lines) + 1 /\ p \in 1..Len(lines) + 1 /\ p \in Nat
  BY <1>1 DEF LineKinds, Section
<1>3. Len(after) - Len(lines) = 1
  BY <1>1, <1>2
<1>4. SetKey(after, section, key, value) = after
  BY <1>1, OnceIsEnough
<1>5. currentValue(after, section, key) = value
  <2>1. ASSUME NEW i \in h + 1..p - 1, Sets(after[i]), after[i].name = key PROVE FALSE
    <3>1. i \in 1..Len(lines) /\ i < p /\ i \in h + 1..e - 1
      BY <1>1, <1>2
    <3>2. after[i] = lines[i]
      BY <1>1, <3>1
    <3>3. i \in MentionsIn(lines, h, e, key)
      BY <2>1, <3>1, <3>2 DEF MentionsIn, Mentions, Sets
    <3> QED BY <3>3
  <2> QED BY <1>1, <2>1, ReadBack
<1>6. after[p] = Live(key, value)
  BY <1>1 DEF IsSet
<1>7. Placed(lines, after, 1, section, key, value)
  <2>1. ASSUME NEW i \in 1..p - 1 PROVE after[i] = lines[i]
    <3>1. i \in 1..Len(lines) /\ i < p
      BY <1>2
    <3> QED BY <1>1, <3>1
  <2>2. ASSUME NEW i \in p..p + 1 - 1 PROVE after[i] \in NewLines(lines, section, key, value)
    <3>1. i = p
      BY <1>2
    <3> QED BY <1>6, <3>1, NewLinesAre
  <2>3. ASSUME NEW i \in p..Len(lines) PROVE after[i + 1] = lines[i]
    <3>1. i \in 1..Len(lines) /\ ~(i < p)
      BY <1>2
    <3> QED BY <1>1, <3>1
  <2> QED BY <1>2, <2>1, <2>2, <2>3 DEF Placed
<1> QED BY <1>3, <1>4, <1>5, <1>7 DEF WellSet

LEMMA AppendedIsWell ==
  ASSUME NEW lines, LineKinds(lines), NEW section, SectionStart(lines, section) = 0,
         NEW key, NEW value, NEW after, Appended(lines, after, section, key, value)
  PROVE  WellSet(lines, after, section, key, value)
<1>1. PICK P : /\ Blocked(P, after, section, key, value)
               /\ \/ lines = <<EmptyLine>> /\ Len(P) = 0
                  \/ Len(P) = Len(lines) /\ \A i \in 1..Len(lines) : P[i] = lines[i]
                  \/ /\ Len(P) = Len(lines) + 1 /\ P[Len(P)] = EmptyLine
                     /\ \A i \in 1..Len(lines) : P[i] = lines[i]
  BY DEF Appended
<1>2. /\ IsSet(after, section, key, value, Len(P) + 1, Len(P) + 4, Len(P) + 2)
      /\ Len(after) = Len(P) + 3
      /\ \A i \in 1..Len(P) : after[i] = P[i]
      /\ after[Len(P) + 1] = Header(section) /\ after[Len(P) + 2] = Live(key, value)
      /\ after[Len(P) + 3] = EmptyLine
  BY <1>1 DEF Blocked
<1>3. Len(lines) \in Nat
  BY DEF LineKinds
<1>4. Len(P) \in Nat
  <2>1. Len(<<EmptyLine>>) = 1
    OBVIOUS
  <2> QED BY <1>1, <1>3
<1>5. PICK n \in Nat, a \in Nat : n = Len(lines) /\ a = Len(P)
  BY <1>3, <1>4
<1>6. SetKey(after, section, key, value) = after
  BY <1>2, OnceIsEnough
<1>7. currentValue(after, section, key) = value
  <2>1. \A i \in (a + 1) + 1..(a + 2) - 1 : ~(Sets(after[i]) /\ after[i].name = key)
    OBVIOUS
  <2> QED BY <1>2, <1>5, <2>1, ReadBack
<1>8. /\ Header(section) \in NewLines(lines, section, key, value)
      /\ Live(key, value) \in NewLines(lines, section, key, value)
      /\ EmptyLine \in NewLines(lines, section, key, value)
  BY NewLinesAre
<1>9. CASE lines = <<EmptyLine>> /\ a = 0
  <2>1. n = 1 /\ lines[1] = EmptyLine
    BY <1>5, <1>9
  <2>2. after[1] = Header(section) /\ after[2] = Live(key, value) /\ after[3] = EmptyLine
    BY <1>2, <1>5, <1>9
  <2>3. Len(after) - Len(lines) = 2
    BY <1>2, <1>5, <1>9, <2>1
  <2>4. \A i \in 1..1 + 2 - 1 : after[i] \in NewLines(lines, section, key, value)
    <3>1. \A i \in 1..1 + 2 - 1 : i = 1 \/ i = 2
      OBVIOUS
    <3> QED BY <1>8, <2>2, <3>1
  <2>5. \A i \in 1..Len(lines) : after[i + 2] = lines[i]
    BY <1>5, <2>1, <2>2
  <2>6. Placed(lines, after, 2, section, key, value)
    BY <1>5, <2>1, <2>4, <2>5 DEF Placed
  <2> QED BY <1>6, <1>7, <2>3, <2>6 DEF WellSet
<1>10. ASSUME NEW d \in {3, 4}, Len(after) = n + d, \A i \in 1..n : after[i] = lines[i],
              \A i \in n + 1..n + d : after[i] \in NewLines(lines, section, key, value)
       PROVE  WellSet(lines, after, section, key, value)
  <2>1. Len(after) - Len(lines) = d /\ d \in 0..4
    BY <1>5, <1>10
  <2>2. n + 1 \in 1..Len(lines) + 1
    BY <1>5
  <2>3. \A i \in n + 1..Len(lines) : FALSE
    BY <1>5
  <2>4. \A i \in n + 1..n + 1 + d - 1 : i \in n + 1..n + d
    BY <1>10
  <2>5. \A i \in 1..n + 1 - 1 : i \in 1..n
    OBVIOUS
  <2>6. Placed(lines, after, d, section, key, value)
    BY <1>10, <2>2, <2>3, <2>4, <2>5 DEF Placed
  <2> QED BY <1>6, <1>7, <2>1, <2>6 DEF WellSet
<1>11. CASE a = n /\ \A i \in 1..n : P[i] = lines[i]
  <2>1. \A i \in n + 1..n + 3 : i = n + 1 \/ i = n + 2 \/ i = n + 3
    OBVIOUS
  <2>2. \A i \in n + 1..n + 3 : after[i] \in NewLines(lines, section, key, value)
    BY <1>2, <1>5, <1>8, <1>11, <2>1
  <2>3. Len(after) = n + 3 /\ \A i \in 1..n : after[i] = lines[i]
    BY <1>2, <1>5, <1>11
  <2> QED BY <1>10, <2>2, <2>3
<1>12. CASE a = n + 1 /\ P[a] = EmptyLine /\ \A i \in 1..n : P[i] = lines[i]
  <2>1. \A i \in n + 1..n + 4 : i = n + 1 \/ i = a + 1 \/ i = a + 2 \/ i = a + 3
    BY <1>12
  <2>2. n + 1 \in 1..a /\ after[n + 1] = EmptyLine
    <3>1. n + 1 \in 1..a
      BY <1>12
    <3> QED BY <1>2, <1>5, <1>12, <3>1
  <2>3. \A i \in n + 1..n + 4 : after[i] \in NewLines(lines, section, key, value)
    BY <1>2, <1>5, <1>8, <2>1, <2>2
  <2>4. \A i \in 1..n : i \in 1..a
    BY <1>12
  <2>5. Len(after) = n + 4 /\ \A i \in 1..n : after[i] = lines[i]
    BY <1>2, <1>5, <1>12, <2>4
  <2> QED BY <1>10, <2>3, <2>5
<1> QED BY <1>1, <1>5, <1>9, <1>11, <1>12

LEMMA FilesAreSet ==
  ASSUME NEW lines, LineKinds(lines), NEW section, section \in STRING,
         NEW key, key \in STRING, NEW value, value \in STRING,
         NEW after, after = SetKey(lines, section, key, value)
  PROVE  WellSet(lines, after, section, key, value)
<1>1. PICK h, e : h = SectionStart(lines, section) /\ e = SectionEnd(lines, h)
  OBVIOUS
<1>2. CASE h = 0
  BY <1>1, <1>2, BlockIsAppended, AppendedIsWell
<1>3. CASE h # 0 /\ MentionsIn(lines, h, e, key) # {}
  <2>1. Section(lines, section, h, e)
    BY <1>1, <1>3, SectionHas
  <2>2. \E m : Rewritten(lines, after, section, key, value, h, e, m)
    BY <1>3, <2>1, KeyIsRewritten
  <2> QED BY <2>1, <2>2, RewrittenIsWell
<1>4. CASE h # 0 /\ MentionsIn(lines, h, e, key) = {}
  <2>1. Section(lines, section, h, e)
    BY <1>1, <1>4, SectionHas
  <2>2. \E p : Inserted(lines, after, section, key, value, h, e, p)
    BY <1>4, <2>1, KeyIsInserted
  <2> QED BY <1>4, <2>1, <2>2, InsertedIsWell
<1> QED BY <1>2, <1>3, <1>4

LEMMA ValuesAreSet ==
  ASSUME input \in Settings PROVE SetThenGet
<1> DEFINE lines == input.lines
           after == SetKey(lines, input.section, input.key, input.value)
<1>1. /\ IsFile(lines)
      /\ input.section \in STRING /\ input.key \in STRING /\ input.value \in STRING
  <2>1. {input.section, input.key} \subseteq STRING \ {""}
    BY SettingsAssumption, Zenon
  <2>2. IsFile(lines) /\ input.value \in STRING
    BY SettingsAssumption, Zenon
  <2> QED BY <2>1, <2>2
<1> HIDE DEF lines
<1>2. LineKinds(lines)
  BY <1>1, LenProperties DEF IsFile, LineKinds
<1>3. WellSet(lines, after, input.section, input.key, input.value)
  BY <1>1, <1>2, FilesAreSet
<1> QED BY <1>3, Zenon DEF SetThenGet, WellSet, Placed, lines

-------------------------------------------------------------------------------
(* What is edited in place comes out as asked, and nothing else changes      *)
(* (pkg/domain/battlegroup, iniconf.SetKey): every operation that a builder  *)
(* makes finds its target in any resource, whatever the operations before it *)
(* left; the patch fulfils the wish and asked again there is none; a value   *)
(* that was set in any file is read back, unless a live entry shadows it.    *)
THEOREM EditsAlwaysSettle == EditSpec => []EditsSettle
<1>1. input \in Patchings \cup Settings => EditsSettle
  <2>1. CASE input \in Patchings
    <3>1. PatchesSettle
      BY <2>1, PatchesAreSettled
    <3>2. input.kind # "ini"
      BY <2>1, PatchingsAssumption
    <3> QED BY <3>1, <3>2, Zenon DEF EditsSettle, SetThenGet
  <2>2. CASE input \in Settings
    <3>1. SetThenGet
      BY <2>2, ValuesAreSet
    <3>2. input.kind # "cr"
      BY <2>2, SettingsAssumption
    <3> QED BY <3>1, <3>2, Zenon DEF EditsSettle, PatchesSettle
  <2> QED BY <2>1, <2>2
<1>2. input \in Patchings \cup Settings /\ [FALSE]_input => (input \in Patchings \cup Settings)'
  OBVIOUS
<1> QED BY <1>1, <1>2, PTL DEF EditSpec
================================================================================
