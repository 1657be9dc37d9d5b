--------------------------------- MODULE Edits ---------------------------------
(***************************************************************************)
(* What the toolkit edits in place, each edit against what it promises:    *)
(* the BattleGroup resource by its patch builders, and the ini files of a  *)
(* world.                                                                  *)
(***************************************************************************)
EXTENDS CRPatches, IniFile, Input

CONSTANTS
  Patchings, \* resources, each with what is wanted of it
  Settings   \* ini files, each with a value to set

EnvVars == [name : STRING, value : STRING \cup {Absent}]

Arguments == STRING \X Nat

Images == [port : BOOLEAN, tag : STRING]

(* The texts that the builders know.                                         *)
ASSUME TextsAssumption ==
  {"", CustomScheduler, PlaceholderImageTag, "HOST_DATACENTER_IP_ADDRESS",
   "HOST_DATACENTER_ID", "Port", "IGWPort"} \subseteq STRING

ASSUME AbsentAssumption ==
  /\ Absent \notin STRING \cup Nat \cup BOOLEAN
  /\ Absent \notin Seq(EnvVars) \cup Seq(Arguments)

(* The vendor's resource says of every set whether it is on demand, and      *)
(* gives it arguments and an environment, which may be empty.                *)
ServerSets ==
  [map : STRING, dedicatedScaling : BOOLEAN, replicas : Nat \cup {Absent},
   partitions : Seq(Nat) \cup {Absent}, arguments : Seq(Arguments),
   schedulerName : STRING \cup {Absent}, envVars : Seq(EnvVars), image : Images \cup {Absent}]

Members == {"map", "dedicatedScaling", "replicas", "partitions", "arguments", "schedulerName",
            "envVars", "image"}

Wishes(build) ==
  CASE build = "host"      -> [build : {build}, ip : STRING \ {""}, id : STRING]
    [] build = "scheduler" -> [build : {build}]
    [] build = "ports"     -> [build : {build}, game : Nat, igw : Nat]
    [] build = "tag"       -> [build : {build}, tag : STRING \ {PlaceholderImageTag}]

IsWish(wish) ==
  \/ wish.build \in {"host", "scheduler", "ports", "tag"} /\ wish \in Wishes(wish.build)
  \/ /\ wish.build = "scaling"
     /\ wish.maps \in Seq(STRING) /\ wish.dedicated \in BOOLEAN /\ wish.replicas \in Nat
     /\ wish.partitions \in [DOMAIN wish.partitions -> Nat]

(* The maps of a resource are distinct.                                      *)
ASSUME PatchingsAssumption ==
  \A p \in Patchings :
    /\ p.kind = "cr" /\ IsWish(p.wish)
    /\ p.cr \in Seq(ServerSets)
    /\ \A i, j \in DOMAIN p.cr : p.cr[i].map = p.cr[j].map => i = j

FileLines ==
  [kind : {"blank", "header", "live", "comment"}, name : STRING, value : STRING, plus : BOOLEAN]

(* Splitting at newlines gives one line at least.                            *)
IsFile(lines) ==
  /\ lines \in Seq(FileLines) /\ lines # <<>>
  /\ \A i \in DOMAIN lines : /\ lines[i].kind = "blank" => lines[i] = EmptyLine
                             /\ lines[i].kind = "header" =>
                                  lines[i] = Header(lines[i].name) /\ lines[i].name # ""

(* SetKey refuses an empty section and an empty key.                         *)
ASSUME SettingsAssumption ==
  \A s \in Settings :
    /\ s.kind = "ini" /\ IsFile(s.lines)
    /\ {s.section, s.key} \subseteq STRING \ {""} /\ s.value \in STRING

EditSpec == input \in Patchings \cup Settings /\ [][FALSE]_input

-------------------------------------------------------------------------------
OpsFor(cr, wish) ==
  CASE wish.build = "host"      -> BuildHostPatches(cr, wish.ip, wish.id)
    [] wish.build = "scheduler" -> BuildSchedulerNameRemovals(cr)
    [] wish.build = "scaling"   ->
         BuildScalingPatches(cr, wish.maps, wish.dedicated, wish.replicas, wish.partitions).ops
    [] wish.build = "ports"     -> BuildPortPatches(cr, wish.game, wish.igw)
    [] wish.build = "tag"       -> BuildImageTagPatches(cr, wish.tag)

FieldsOf(wish) ==
  CASE wish.build = "host"      -> {"envVars"}
    [] wish.build = "scheduler" -> {"schedulerName"}
    [] wish.build = "scaling"   -> {"dedicatedScaling", "replicas", "partitions"}
    [] wish.build = "ports"     -> {"arguments"}
    [] wish.build = "tag"       -> {"image"}

Fulfils(set, wish) ==
  CASE wish.build = "host" ->
         \A n \in DOMAIN set.envVars :
           LET v == set.envVars[n] IN
             /\ v.name = "HOST_DATACENTER_IP_ADDRESS" => v.value = wish.ip
             /\ v.name = "HOST_DATACENTER_ID" /\ wish.id # "" => v.value = wish.id
    [] wish.build = "scheduler" -> set.schedulerName # CustomScheduler
    [] wish.build = "scaling" ->
         set.map \in ToSet(wish.maps) =>
           /\ set.dedicatedScaling = wish.dedicated
           /\ set.replicas = wish.replicas
           /\ IF wish.dedicated THEN set.partitions \in {Absent, <<>>}
              ELSE set.partitions = <<wish.partitions[set.map]>>
    [] wish.build = "ports" ->
         \A arg \in {<<"Port", wish.game>>, <<"IGWPort", wish.igw>>} :
           \E n \in DOMAIN set.arguments : set.arguments[n] = arg
    [] wish.build = "tag" ->
         set.image # Absent => set.image.port \/ set.image.tag # PlaceholderImageTag

(* Always on without a known partition: nothing is patched.                  *)
Refused(cr, wish) ==
  /\ wish.build = "scaling" /\ ~wish.dedicated
  /\ \E i \in DOMAIN cr :
       cr[i].map \in ToSet(wish.maps) /\ cr[i].map \notin DOMAIN wish.partitions

(* Every operation of a patch finds its target, the patch brings each set to *)
(* what was asked and touches no other member, asked again there is nothing  *)
(* left to do, and what is refused is not done in part.                      *)
PatchesSettle ==
  input.kind = "cr" =>
    LET cr   == input.cr
        wish == input.wish
        ops  == OpsFor(cr, wish)
        done == After(cr, ops, Len(ops))
    IN /\ \A n \in DOMAIN ops : Applies(After(cr, ops, n - 1), ops[n])
       /\ OpsFor(done, wish) = <<>>
       /\ Refused(cr, wish) => ops = <<>>
       /\ DOMAIN done = DOMAIN cr
       /\ \A i \in DOMAIN cr :
            /\ Refused(cr, wish) \/ Fulfils(done[i], wish)
            /\ \A f \in Members \ FieldsOf(wish) : done[i][f] = cr[i][f]

-------------------------------------------------------------------------------
(* Does a comment or an addition follow a live entry of the key in the       *)
(* section?  Then that line is rewritten and the live one stays.             *)
Shadowed(lines, section, key) ==
  LET start == SectionStart(lines, section)
      keys  == IF start = 0 THEN {}
               ELSE Mentions(lines, start + 1, SectionEnd(lines, start) - 1, key)
  IN \E i, j \in keys : i < j /\ lines[i].kind = "live" /\ ~lines[i].plus

(* What may be added to a file: the entry, and where the section is missing  *)
(* its header and blank lines.                                               *)
NewLines(lines, section, key, value) ==
  {Live(key, value)}
    \cup IF SectionStart(lines, section) = 0 THEN {EmptyLine, Header(section)} ELSE {}

(* A value that was set is read back, unless it is shadowed; setting it once *)
(* more changes nothing; and every line stays, in its place before or after  *)
(* what was added, but for one that mentions the key.                        *)
SetThenGet ==
  input.kind = "ini" =>
    LET lines == input.lines
        after == SetKey(lines, input.section, input.key, input.value)
        added == Len(after) - Len(lines)
    IN /\ \/ Shadowed(lines, input.section, input.key)
          \/ currentValue(after, input.section, input.key) = input.value
       /\ SetKey(after, input.section, input.key, input.value) = after
       /\ added \in 0..4
       /\ \E n \in 1..Len(lines) + 1 :
            /\ \A i \in 1..n - 1 : after[i] = lines[i]
            /\ \A i \in n..n + added - 1 :
                 after[i] \in NewLines(lines, input.section, input.key, input.value)
            /\ \A i \in n..Len(lines) :
                 \/ after[i + added] = lines[i]
                 \/ i = n /\ added = 0 /\ lines[i].name = input.key

(* Edits of resources and of files do what was asked and nothing else.       *)
EditsSettle == PatchesSettle /\ SetThenGet
===============================================================================
