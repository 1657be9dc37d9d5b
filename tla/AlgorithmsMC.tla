----------------------------- MODULE AlgorithmsMC -----------------------------
(* Items of every way to a base price; the last have overrides, which may    *)
(* lie beyond the base price or each other, and one a cheaper third grade.   *)
EXTENDS Algorithms

Item ==
  [tier |-> 0, rarity |-> "common", vendor |-> 0, stacks |-> TRUE, schematic |-> FALSE,
   cost |-> 0, costs |-> <<0, 0, 0, 0, 0, 0>>, min |-> 0, max |-> 0, gradeable |-> FALSE,
   minGrade |-> 0]

MCItems ==
  {Item,
   [Item EXCEPT !.tier = 1, !.rarity = "rare"],
   [Item EXCEPT !.vendor = 25],
   [Item EXCEPT !.vendor = 190, !.rarity = "unique"],
   [Item EXCEPT !.tier = 2, !.rarity = "unique", !.stacks = FALSE, !.schematic = TRUE],
   [Item EXCEPT !.tier = 1, !.stacks = FALSE, !.gradeable = TRUE],
   [Item EXCEPT !.tier = 3, !.rarity = "unique", !.stacks = FALSE, !.gradeable = TRUE,
                !.minGrade = 1, !.cost = 9000, !.costs = <<0, 1000, 3000, 5000, 7000, 9000>>],
   [Item EXCEPT !.tier = 3, !.rarity = "memento", !.stacks = FALSE, !.gradeable = TRUE,
                !.cost = 9000, !.costs = <<0, 1000, 3000, 2000, 7000, 9000>>],
   [Item EXCEPT !.vendor = 30, !.min = 45, !.max = 70],
   [Item EXCEPT !.vendor = 300, !.max = 200],
   [Item EXCEPT !.vendor = 300, !.min = 900],
   [Item EXCEPT !.vendor = 300, !.min = 900, !.max = 150]}

MCFuncomIds == {<<<<"a">>, <<"A", "a">>, <<"a", "a">>>>, <<<<"_">>, <<"_">>, <<"_">>>>}

(* Resources of up to three sets, for each builder.                          *)
PlainSet ==
  [map |-> "A", dedicatedScaling |-> TRUE, replicas |-> Absent, partitions |-> Absent,
   arguments |-> <<>>, schedulerName |-> Absent, envVars |-> <<>>, image |-> Absent]

Set(i) == [PlainSet EXCEPT !.map = <<"A", "B", "C">>[i]]

MCEnvVars ==
  [name : {"HOST_DATACENTER_IP_ADDRESS", "HOST_DATACENTER_ID", "HOME"},
   value : {Absent, "old", "new"}]

HostEdits ==
  [kind : {"cr"},
   cr : {<<[PlainSet EXCEPT !.envVars = vars]>> : vars \in SeqOf(MCEnvVars, 3)},
   wish : [build : {"host"}, ip : {"new"}, id : {"", "new"}]]

SchedulerEdits ==
  [kind : {"cr"},
   cr : {[i \in 1..3 |-> [Set(i) EXCEPT !.schedulerName = names[i]]] :
           names \in [1..3 -> {Absent, CustomScheduler, "default"}]},
   wish : [build : {"scheduler"}]]

ScaledSets ==
  {<<[PlainSet EXCEPT !.dedicatedScaling = d, !.replicas = r, !.partitions = p],
     [Set(2) EXCEPT !.dedicatedScaling = d2]>> :
     d \in BOOLEAN, r \in {Absent, 0, 1}, p \in {Absent, <<>>, <<1>>, <<2>>}, d2 \in BOOLEAN}

ScalingEdits ==
  [kind : {"cr"}, cr : ScaledSets,
   wish : [build : {"scaling"}, maps : {<<"A">>, <<"B", "A">>, <<"B", "C", "B">>},
           dedicated : BOOLEAN, replicas : 0..1,
           partitions : {[A |-> 1], [A |-> 1, B |-> 2]}]]

PortEdits ==
  [kind : {"cr"},
   cr : {<<[PlainSet EXCEPT !.arguments = args]>> :
           args \in SeqOf({<<"Port", 7>>, <<"Port", 8>>, <<"IGWPort", 7>>, <<"IGWPort", 8>>,
                        <<"log", 0>>}, 3)},
   wish : [build : {"ports"}, game : {7, 8}, igw : {8}]]

MCImages == [port : BOOLEAN, tag : {PlaceholderImageTag, "new", "old"}]

TagEdits ==
  [kind : {"cr"},
   cr : {[i \in 1..2 |-> [Set(i) EXCEPT !.image = images[i]]] :
           images \in [1..2 -> MCImages \cup {Absent}]},
   wish : [build : {"tag"}, tag : {"new"}]]

MCPatchings ==
  HostEdits \cup SchedulerEdits \cup ScalingEdits \cup PortEdits \cup TagEdits

Lines ==
  {EmptyLine, Header("here"), Header("there"), Entry("comment", "key", "old", FALSE),
   Entry("live", "key", "old", FALSE), Entry("live", "key", "old", TRUE),
   Entry("live", "other", "old", FALSE)}

(* Files of up to four lines.                                                *)
MCSettings ==
  [kind : {"ini"}, lines : UNION {[1..n -> Lines] : n \in 1..4},
   section : {"here"}, key : {"key"}, value : {"new"}]
===============================================================================
