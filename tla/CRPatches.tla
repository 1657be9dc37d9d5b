------------------------------- MODULE CRPatches -------------------------------
(***************************************************************************)
(* The JSON-Patch builders of pkg/domain/battlegroup: from a BattleGroup   *)
(* resource and a wish to the operations that fulfil it, and what RFC 6902 *)
(* does with them, one after the other and all or none.                    *)
(*                                                                         *)
(* A resource is the sequence of its server sets; a set is a record of the *)
(* members the builders look at, Absent where the JSON has none.  walk     *)
(* visits every object with envVars or an image: the sets stand for all.   *)
(***************************************************************************)
EXTENDS Naturals, Sequences, SequencesExt, FiniteSets

CONSTANT Absent  \* the member is not there

CustomScheduler == "memory-focused-scheduler"

PlaceholderImageTag == "0-0-shipping"

(* An operation on a member (at = 0), on an element of its array, or on the  *)
(* value of an element of envVars; at is one past the end for "-".           *)
Operation(op, set, field, at, value) ==
  [op |-> op, set |-> set, field |-> field, at |-> at, value |-> value]

-------------------------------------------------------------------------------
(* Applying operations.                                                      *)

There(cr, o) ==
  LET member == cr[o.set][o.field] IN
    IF o.at = 0 THEN member # Absent
    ELSE IF o.field = "envVars" THEN o.at \in DOMAIN member /\ member[o.at].value # Absent
    ELSE member # Absent /\ o.at \in DOMAIN member

(* add needs the container only, replace and remove the target as well.      *)
Applies(cr, o) ==
  IF o.op = "add" THEN o.at = 0 \/ cr[o.set][o.field] # Absent ELSE There(cr, o)

(* What the operation makes of its member.                                   *)
Given(cr, o) ==
  LET member == cr[o.set][o.field] IN
    IF o.op = "remove" THEN Absent
    ELSE IF o.at = 0 THEN o.value
    ELSE IF o.field = "envVars" THEN [member EXCEPT ![o.at].value = o.value]
    ELSE IF o.op = "add" THEN Append(member, o.value)
    ELSE [member EXCEPT ![o.at] = o.value]

Applied(cr, o) == [cr EXCEPT ![o.set][o.field] = Given(cr, o)]

(* The resource after the first n operations.                                *)
After(cr, ops, n) ==
  LET after[i \in 0..Len(ops)] == IF i = 0 THEN cr ELSE Applied(after[i - 1], ops[i])
  IN after[n]

Concat(parts) ==
  LET all[i \in 0..Len(parts)] == IF i = 0 THEN <<>> ELSE all[i - 1] \o parts[i]
  IN all[Len(parts)]

-------------------------------------------------------------------------------
(* The environment of the pods.                                              *)

EnvVarOp(vars, i, j, name, new) ==
  IF vars[j].name # name \/ vars[j].value = new THEN <<>>
  ELSE <<Operation(IF vars[j].value = Absent THEN "add" ELSE "replace",
                   i, "envVars", j, new)>>

buildEnvVarPatches(cr, name, new) ==
  Concat([i \in DOMAIN cr |->
            Concat([j \in DOMAIN cr[i].envVars |-> EnvVarOp(cr[i].envVars, i, j, name, new)])])

(* The address always; the identifier unless it is empty.                    *)
BuildHostPatches(cr, ip, id) ==
  buildEnvVarPatches(cr, "HOST_DATACENTER_IP_ADDRESS", ip)
    \o IF id = "" THEN <<>> ELSE buildEnvVarPatches(cr, "HOST_DATACENTER_ID", id)

(* From the last set to the first.                                           *)
BuildSchedulerNameRemovals(cr) ==
  LET removal(i) == IF cr[i].schedulerName # CustomScheduler THEN <<>>
                    ELSE <<Operation("remove", i, "schedulerName", 0, Absent)>>
  IN Concat([n \in DOMAIN cr |-> removal(Len(cr) + 1 - n)])

-------------------------------------------------------------------------------
(* Scaling: on demand (dedicatedScaling) or always on.                       *)

ReplaceWhatIsThere(v) == "replace"

AddOrReplace(v) == IF v = Absent THEN "add" ELSE "replace"

(* A set without the member reads as FALSE, and is replaced all the same.    *)
Dedicated(set) == set.dedicatedScaling # Absent /\ set.dedicatedScaling

ScalingOps(set, i, dedicated, replicas, partitionByMap) ==
  (IF Dedicated(set) = dedicated THEN <<>>
   ELSE <<Operation("replace", i, "dedicatedScaling", 0, dedicated)>>)
  \o (IF set.replicas = replicas THEN <<>>
      ELSE <<Operation(AddOrReplace(set.replicas), i, "replicas", 0, replicas)>>)
  \o (IF dedicated
      THEN IF set.partitions \in {Absent, <<>>} THEN <<>>
           ELSE <<Operation("remove", i, "partitions", 0, Absent)>>
      ELSE IF set.partitions = <<partitionByMap[set.map]>> THEN <<>>
           ELSE <<Operation(AddOrReplace(set.partitions), i, "partitions", 0,
                            <<partitionByMap[set.map]>>)>>)

(* The sets named by maps, the last of two with one name, in their order; no *)
(* operations at all when one that is to be always on has no known partition.*)
BuildScalingPatches(cr, maps, dedicated, replicas, partitionByMap) ==
  LET matched == {i \in DOMAIN cr : /\ cr[i].map \in ToSet(maps)
                                    /\ \A j \in DOMAIN cr : cr[j].map = cr[i].map => j <= i}
      missing == {i \in matched : ~dedicated /\ cr[i].map \notin DOMAIN partitionByMap}
  IN [notFound |-> ToSet(maps) \ {cr[i].map : i \in DOMAIN cr},
      failed   |-> missing # {},
      ops      |->
        IF missing # {} THEN <<>>
        ELSE Concat([i \in DOMAIN cr |->
                       IF i \notin matched THEN <<>>
                       ELSE ScalingOps(cr[i], i, dedicated, replicas, partitionByMap)])]

-------------------------------------------------------------------------------
(* Ports are arguments of the server: <<prefix, port>>.                      *)

portArgOpsForSet(i, args, prefix, port) ==
  LET found == {n \in DOMAIN args : args[n][1] = prefix}
      first == CHOOSE n \in found : \A k \in found : n <= k
  IN IF found = {} THEN <<Operation("add", i, "arguments", Len(args) + 1, <<prefix, port>>)>>
     ELSE IF args[first][2] = port THEN <<>>
     ELSE <<Operation("replace", i, "arguments", first, <<prefix, port>>)>>

BuildPortPatches(cr, game, igw) ==
  LET args(i) == IF cr[i].arguments = Absent THEN <<>> ELSE cr[i].arguments IN
  Concat([i \in DOMAIN cr |-> portArgOpsForSet(i, args(i), "Port", game)
                                \o portArgOpsForSet(i, args(i), "IGWPort", igw)])

-------------------------------------------------------------------------------
(* Images: the tag is what follows the first colon, so that a registry with  *)
(* a port hides it.                                                          *)

TagOf(image) == IF image.port THEN "port/repository:tag" ELSE image.tag

BuildImageTagPatches(cr, new) ==
  Concat([i \in DOMAIN cr |->
            IF cr[i].image = Absent THEN <<>>
            ELSE IF TagOf(cr[i].image) # PlaceholderImageTag THEN <<>>
            ELSE <<Operation("replace", i, "image", 0, [cr[i].image EXCEPT !.tag = new])>>])
===============================================================================
