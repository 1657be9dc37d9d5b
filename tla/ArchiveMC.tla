------------------------------ MODULE ArchiveMC ------------------------------
(* Two hosts; what an operator does with characters, and with backups.       *)
EXTENDS Archive, TLC

(* The builds are alike or not.                                              *)
Builds == {b \in [Hosts -> {0, 1}] : \E h \in Hosts : b[h] = 0}

MCStarts ==
  [script : {<<"export", "import">>, <<"export", "transfer">>},
   players : SUBSET Hosts \ {{}}, build : Builds, sessions : {1}, patches : {1}]
  \cup [script : {<<"transfer", "import">>},
        players : SUBSET Hosts \ {{}}, build : Builds, sessions : {1}, patches : {0}]
  \cup [script : {<<"create", "create", "restore">>},
        players : {Hosts}, build : [Hosts -> {0}], sessions : {1}, patches : {0}]

MCSymmetry == Permutations(Hosts)
===============================================================================
