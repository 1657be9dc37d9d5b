-------------------------------- MODULE IniFile --------------------------------
(***************************************************************************)
(* Editing of UserEngine.ini (pkg/transport/iniconf) and reading a value   *)
(* back (pkg/domain/gameini).  A file is the sequence of its lines, as the *)
(* text splits at every newline: one that ends in a newline has an empty   *)
(* last line.  An entry may be a comment (;Key=Value), or add to an array  *)
(* (+Key=Value).                                                           *)
(***************************************************************************)
EXTENDS Naturals, Sequences, SequencesExt, FiniteSets

EmptyLine == [kind |-> "blank", name |-> "", value |-> "", plus |-> FALSE]

Header(section) == [kind |-> "header", name |-> section, value |-> "", plus |-> FALSE]

Entry(kind, key, value, plus) == [kind |-> kind, name |-> key, value |-> value, plus |-> plus]

Live(key, value) == Entry("live", key, value, FALSE)

(* The line at which the section starts, and the one past its end; 0 where   *)
(* there is no such section.  A second section of the name is not looked at. *)
SectionStart(lines, section) ==
  LET heads == {i \in DOMAIN lines : lines[i] = Header(section)}
  IN IF heads = {} THEN 0 ELSE CHOOSE i \in heads : \A j \in heads : i <= j

SectionEnd(lines, start) ==
  LET next == {i \in start + 1..Len(lines) : lines[i].kind = "header"}
  IN IF next = {} THEN Len(lines) + 1 ELSE CHOOSE i \in next : \A j \in next : i <= j

(* matcherFor: entries of the key, commented or not, added or not.           *)
Mentions(lines, from, to, key) ==
  {i \in from..to : lines[i].kind \in {"live", "comment"} /\ lines[i].name = key}

(* Before the blank lines at the end of the section.                         *)
LineOfNew(lines, start, end) ==
  LET filled == {i \in start..end - 1 : lines[i].kind # "blank"}
  IN 1 + CHOOSE i \in filled : \A j \in filled : j <= i

FirstMention(keys) == CHOOSE i \in keys : \A j \in keys : i <= j

LastMention(keys) == CHOOSE i \in keys : \A j \in keys : j <= i

SetKey(lines, section, key, value) ==
  LET start  == SectionStart(lines, section)
      end    == SectionEnd(lines, start)
      keys   == Mentions(lines, start + 1, end - 1, key)
      block  == <<Header(section), Live(key, value), EmptyLine>>
  IN CASE start = 0 /\ lines = <<EmptyLine>>  -> block
       [] start = 0 /\ lines # <<EmptyLine>>  ->
            lines \o (IF Last(lines) = EmptyLine THEN <<>> ELSE <<EmptyLine>>) \o block
       [] start # 0 /\ keys # {}          ->
            [lines EXCEPT ![LastMention(keys)] = Live(key, value)]
       [] OTHER -> InsertAt(lines, LineOfNew(lines, start, end), Live(key, value))

(* The first live entry of the key, in any section of the name.              *)
currentValue(lines, section, key) ==
  LET heads(i)  == {h \in 1..i : lines[h].kind = "header"}
      inside(i) == \E h \in heads(i) : /\ \A g \in heads(i) : g <= h
                                        /\ lines[h].name = section
      found     == {i \in DOMAIN lines : /\ lines[i].kind = "live" /\ ~lines[i].plus
                                         /\ lines[i].name = key /\ inside(i)}
  IN IF found = {} THEN "" ELSE lines[FirstMention(found)].value
===============================================================================
