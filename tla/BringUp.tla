------------------------------- MODULE BringUp -------------------------------
(***************************************************************************)
(* The bring-up of a BattleGroup on a cluster behind a jump host           *)
(* (ds-bashar bringup): the configuration is resolved against the one the  *)
(* cluster holds and promoted to it, a world is created unless one is      *)
(* there, the runtime images are fetched into every node from a file       *)
(* server started for it, and the custom resource is reconciled.           *)
(*                                                                         *)
(* Any step may fail or be interrupted, and the administrator runs the     *)
(* command again: nothing but the cluster remembers how far it came.  Two  *)
(* administrators may run it at once.                                      *)
(***************************************************************************)
EXTENDS Naturals, Sequences, FiniteSets

CONSTANTS Admins, Nodes, Maps, Names,
          MaxRuns        \* bound: invocations, of all administrators

ASSUME BringUpAssumption == MaxRuns \in Nat /\ IsFiniteSet(Nodes)

VARIABLES
  config,      \* the ConfigMap of dapdsm-system: a sequence of at most one
  secret,      \* whether its Secret is there
  worlds,      \* the funcom-seabass namespaces, in the order kubectl lists them
  images,      \* which node has the images of which directory of the depot
  http,        \* what the file server on the jump host serves, if one runs
  staged,      \* whether the depot is there
  tars,        \* whether it has the tars of the battlegroup's images
  run,         \* the invocation of each administrator
  runs,        \* how many there were
  overlapped,  \* history: two of them ran at once
  overruled    \* history: one was told to go on with flags the cluster contradicts

vars == <<config, secret, worlds, images, http, staged, tars, run, runs, overlapped, overruled>>

NoName == "none"

Idle == [pc |-> "idle", cfg |-> <<>>, ns |-> 0, dir |-> "none", own |-> FALSE, todo |-> {}]

Active(a) == run[a].pc \notin {"idle", "failed", "ok"}

\* A configuration, and the record the cluster keeps of it: what is not set is
\* not written, and read back as not set.
Blank == [name |-> NoName, sets |-> {}, game |-> FALSE, igw |-> FALSE]
ToData(c)   == [k \in {"name"} \cup {f \in DOMAIN Blank : c[f] # Blank[f]} |-> c[k]]
FromData(d) == [k \in DOMAIN Blank |-> IF k \in DOMAIN d THEN d[k] ELSE Blank[k]]

Init ==
  /\ \/ config = <<>> /\ secret = FALSE
     \/ /\ \E n \in Names, p \in BOOLEAN :
             config = <<ToData([name |-> n, sets |-> Maps, game |-> TRUE, igw |-> p])>>
        /\ secret = TRUE
  /\ worlds = <<>> /\ images = {} /\ http = "none"
  /\ staged \in BOOLEAN /\ tars \in BOOLEAN /\ (tars => staged)
  /\ run = [a \in Admins |-> Idle]
  /\ runs = 0 /\ overlapped = FALSE /\ overruled = FALSE

Cluster == <<config, secret, worlds, images, http>>
Rest == <<staged, tars, runs, overlapped>>

At(a, pc) == run[a].pc = pc
Go(a, pc) == run' = [run EXCEPT ![a].pc = pc]

-----------------------------------------------------------------------------
(* Around a run. *)

\* The depot of another revision is none of the images the nodes have, and its
\* tag is not that of the worlds.
Outdated == [i \in DOMAIN worlds |->
  [worlds[i] EXCEPT !.tag = IF @ = "placeholder" THEN @ ELSE "older"]]

\* ds-arrakis stages a depot, the rest of one or that of another revision, while
\* no bring-up uses it; that it may stop before the tars is seen nowhere.
Stage ==
  /\ \A a \in Admins : ~Active(a)
  /\ staged' = TRUE
  /\ \/ tars' = TRUE /\ UNCHANGED <<worlds, images>>
     \/ tars' \in BOOLEAN /\ worlds' = Outdated /\ images' = {}
  /\ UNCHANGED <<config, secret, http, run, runs, overlapped, overruled>>

Begin(a) ==
  /\ ~Active(a) /\ runs < MaxRuns
  /\ run' = [run EXCEPT ![a] = [Idle EXCEPT !.pc = "resolve"]]
  /\ runs' = runs + 1
  /\ overlapped' = (overlapped \/ \E b \in Admins \ {a} : Active(b))
  /\ UNCHANGED <<Cluster, staged, tars, overruled>>

\* Any step may fail, before or after it took effect, and ends the run; the
\* deferred kill of the file server goes the same way, if it is sent at all.
Abort(a) ==
  /\ Active(a)
  /\ run' = [run EXCEPT ![a] = [Idle EXCEPT !.pc = "failed"]]
  /\ http' \in {http} \cup (IF run[a].own THEN {"none"} ELSE {})
  /\ UNCHANGED <<config, secret, worlds, images, Rest, overruled>>

-----------------------------------------------------------------------------
(* The configuration. *)

\* Mutation: the world's name is not compared.
NothingDiffers(name, found) == FALSE

\* A flag that was given and contradicts what the cluster holds.
diffKeys(name, found) == name # NoName /\ name # found.name

Merge(base, name) == IF name = NoName THEN base ELSE [base EXCEPT !.name = name]

\* The cluster's configuration if there is one, under the flags, after a yes
\* to the wizard when they differ; else the flags alone, complete or completed
\* by a yes.  Without a valid name or a token to read, the run ends.
Resolve(a, name) ==
  LET base   == IF config = <<>> THEN Blank ELSE FromData(config[1])
      differ == config # <<>> /\ diffKeys(name, base)
      cfg    == Merge(base, name)
  IN /\ At(a, "resolve")
     /\ cfg.name # NoName
     /\ run' = [run EXCEPT ![a].pc = "promote", ![a].cfg = cfg]
     /\ overruled' = (overruled \/ differ)
     /\ UNCHANGED <<Cluster, Rest>>

\* The ConfigMap and then the Secret are applied, before anything is looked at.
SaveConfigMap(a) ==
  /\ At(a, "promote")
  /\ config' = <<ToData(run[a].cfg)>>
  /\ Go(a, "secret")
  /\ UNCHANGED <<secret, worlds, images, http, Rest, overruled>>

SaveSecret(a) ==
  /\ At(a, "secret")
  /\ secret' = TRUE
  /\ Go(a, "gate")
  /\ UNCHANGED <<config, worlds, images, http, Rest, overruled>>

-----------------------------------------------------------------------------
(* The world. *)

\* Mutation: the resource comes before the secrets it refers to.
ResourceFirst == <<"world-template", "fls-secret", "rmq-secret">>

templateNames == <<"fls-secret", "rmq-secret", "world-template">>
HasResource(w) == "world-template" \in w.has

\* Mutation: a world counts once its resource is there.
ListBattleGroups == SelectSeq(worlds, HasResource)

\* A world counts from its namespace on, however much of it was created.
ListBattleGroupNamespaces == worlds

Gate(a) ==
  /\ At(a, "gate")
  /\ IF ListBattleGroupNamespaces = <<>>
     THEN Go(a, "create")
     ELSE run' = [run EXCEPT ![a].pc = "serve", ![a].dir = "battlegroup"]
  /\ UNCHANGED <<Cluster, Rest, overruled>>

\* No two names are the same: each ends in letters drawn at random.
uniqueName == Len(worlds) + 1

\* The name is random, so the new namespace is listed anywhere.
CreateNamespace(a) ==
  LET new == [id |-> uniqueName, title |-> run[a].cfg.name, has |-> {}, tag |-> "placeholder",
              role |-> FALSE, patched |-> 0, ports |-> FALSE, enabled |-> {}]
  IN /\ At(a, "create")
     /\ worlds' \in {<<new>> \o worlds, worlds \o <<new>>}
     /\ run' = [run EXCEPT ![a].pc = "template", ![a].ns = new.id]
     /\ UNCHANGED <<config, secret, images, http, Rest, overruled>>

\* The templates are read from the depot and created one by one.
CreateWorld(a) ==
  \E i \in DOMAIN worlds :
    LET next == worlds[i].has
        name == templateNames[Cardinality(next) + 1]
    IN /\ At(a, "template") /\ staged
       /\ worlds[i].id = run[a].ns
       /\ worlds' = [worlds EXCEPT ![i].has = @ \cup {name}]
       /\ run' = IF Cardinality(next) + 1 = Len(templateNames)
                 THEN [run EXCEPT ![a].pc = "serve", ![a].dir = "battlegroup"]
                 ELSE run
       /\ UNCHANGED <<config, secret, images, http, Rest, overruled>>

-----------------------------------------------------------------------------
(* The images, one depot directory after the other over the same port. *)

\* A second server on the port dies at once, and its pid with it.  The tars of
\* the first directory are listed, and that there are none is no error
\* (bringup.go:341); the second has one that is named.
Serve(a) ==
  /\ At(a, "serve")
  /\ http' = IF http = "none" THEN run[a].dir ELSE http
  /\ run' = [run EXCEPT ![a].pc = "import", ![a].own = http = "none",
               ![a].todo = IF tars \/ run[a].dir = "prerequisites" THEN Nodes ELSE {}]
  /\ UNCHANGED <<config, secret, worlds, images, Rest, overruled>>

\* A node fetches from whatever server has the port: of another directory, or
\* with no depot, there is nothing to fetch and the import fails.
LoadViaHTTP(a) ==
  /\ At(a, "import") /\ run[a].todo # {}
  /\ http = run[a].dir /\ staged
  /\ \E n \in run[a].todo :
       /\ images' = images \cup {<<n, run[a].dir>>}
       /\ run' = [run EXCEPT ![a].todo = @ \ {n}]
  /\ UNCHANGED <<config, secret, worlds, http, Rest, overruled>>

\* The kill is best effort, and its failure ends nothing.
KillServer(a) ==
  /\ At(a, "import") /\ run[a].todo = {}
  /\ http' \in {http} \cup (IF run[a].own THEN {"none"} ELSE {})
  /\ run' = [run EXCEPT ![a].own = FALSE,
               ![a].pc  = IF run[a].dir = "battlegroup" THEN "serve" ELSE "tags",
               ![a].dir = "prerequisites"]
  /\ UNCHANGED <<config, secret, worlds, images, Rest, overruled>>

-----------------------------------------------------------------------------
(* The resource: each command finds the first BattleGroup again. *)

OnFirst(a, pc, next, w) ==
  /\ At(a, pc) /\ worlds # <<>> /\ HasResource(worlds[1])
  /\ worlds' = [worlds EXCEPT ![1] = w]
  /\ next
  /\ UNCHANGED <<config, secret, images, http, Rest, overruled>>

\* The placeholder becomes the depot's tag; any other tag stays.
ReconcileImageTags(a) ==
  /\ staged
  /\ OnFirst(a, "tags", Go(a, "init-db"),
             [worlds[1] EXCEPT !.tag = IF @ = "placeholder" THEN "depot" ELSE @])

\* The role and the database, by bring-up and again by reconcile.
InitDB(a) ==
  \/ OnFirst(a, "init-db", Go(a, "reconcile"), [worlds[1] EXCEPT !.role = TRUE])
  \/ OnFirst(a, "reconcile", Go(a, "patch"), [worlds[1] EXCEPT !.role = TRUE])

\* The ports are moved only when both bases are set.
AfterPatches(cfg) == IF cfg.game /\ cfg.igw THEN "ports" ELSE "sets"

\* The host's address, its name and the scheduler, each with a patch of its
\* own and without one where the resource has the value already.
HostPatches == <<"ip", "id", "scheduler">>

PatchBattleGroup(a) ==
  /\ At(a, "patch") /\ worlds # <<>>
  /\ IF worlds[1].patched < Len(HostPatches)
     THEN OnFirst(a, "patch", UNCHANGED run, [worlds[1] EXCEPT !.patched = @ + 1])
     ELSE OnFirst(a, "patch", Go(a, AfterPatches(run[a].cfg)), worlds[1])

PatchGamePorts(a) ==
  OnFirst(a, "ports", Go(a, "sets"), [worlds[1] EXCEPT !.ports = TRUE])

\* A map's partition is in the database once its operator has made the schema,
\* which takes the role.
LookupPartitionIDs(w) == w.role

\* One always-on map after the other; each needs its partition.
EnableSet(a) ==
  /\ At(a, "sets")
  /\ \E m \in run[a].cfg.sets \ run[a].todo :
    /\ worlds # <<>> /\ LookupPartitionIDs(worlds[1])
    /\ OnFirst(a, "sets", run' = [run EXCEPT ![a].todo = @ \cup {m}],
               [worlds[1] EXCEPT !.enabled = @ \cup {m}])

\* The display name is set best effort, and on a cluster it is not.
Done(a) ==
  /\ At(a, "sets") /\ run[a].cfg.sets \subseteq run[a].todo
  /\ run' = [run EXCEPT ![a] = [Idle EXCEPT !.pc = "ok"]]
  /\ UNCHANGED <<Cluster, Rest, overruled>>

-----------------------------------------------------------------------------
Next ==
  \/ Stage
  \/ \E a \in Admins :
       \/ Begin(a) \/ Abort(a)
       \/ \E name \in Names \cup {NoName} : Resolve(a, name)
       \/ SaveConfigMap(a) \/ SaveSecret(a) \/ Gate(a)
       \/ CreateNamespace(a) \/ CreateWorld(a)
       \/ Serve(a) \/ LoadViaHTTP(a) \/ KillServer(a)
       \/ ReconcileImageTags(a) \/ InitDB(a) \/ PatchBattleGroup(a)
       \/ PatchGamePorts(a) \/ EnableSet(a) \/ Done(a)

Spec == Init /\ [][Next]_vars

-----------------------------------------------------------------------------
(* Properties. *)

(* However often a bring-up fails and is run again, the cluster has one world:
   its namespace's name is random and nothing but the gate (bringup.go:82)
   keeps a second run from creating another.  Two at once can pass it. *)
OneWorld == ~overlapped => Len(worlds) <= 1

(* "done" is the truth whatever the runs before left behind: the world has its
   two secrets, a resource that is not at the placeholder, its role and its
   patches, the maps of the configuration are enabled, the images of the depot
   are on every node, and the cluster keeps the configuration that was used
   (bringup.go:82-110).  A depot without the tars of the battlegroup's images
   loads none of them (bringup.go:341), and a world at the tag of an older
   revision keeps it (imagetag.go:36): "done" is printed over both. *)
DoneMeansUp ==
  [][\A a \in Admins :
       Active(a) /\ run'[a].pc = "ok" /\ ~overlapped =>
         LET w == worlds[1] IN
           /\ w.has = {templateNames[i] : i \in 1..Len(templateNames)}
           /\ w.tag # "placeholder" /\ w.role /\ w.patched = Len(HostPatches)
           /\ run[a].cfg.game /\ run[a].cfg.igw => w.ports
           /\ run[a].cfg.sets \subseteq w.enabled
           /\ Nodes \X {"prerequisites"} \subseteq images
           /\ tars => Nodes \X {"battlegroup"} \subseteq images
           /\ config = <<ToData(run[a].cfg)>> /\ secret]_vars

(* The configuration in the cluster names the world that is there, although it
   is promoted before the world is created and a later run skips the creation:
   unless runs overlapped, or an administrator overruled the difference
   (bringup.go:74, wizard.go:42). *)
ConfigDescribesWorld ==
  ~overlapped /\ ~overruled =>
    \A i \in DOMAIN worlds : HasResource(worlds[i]) =>
      \A c \in DOMAIN config : config[c].name = worlds[i].title
=============================================================================
