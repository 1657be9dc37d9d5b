---------------------------- MODULE DrillNavProofs ----------------------------
(* What holds of the terminal's navigation for any hosts, rosters, items and *)
(* any number of commands in flight.                                         *)
EXTENDS DrillNav, FiniteSetTheorems, SequenceTheorems, TLAPS

-------------------------------------------------------------------------------
(* Sorting.  An element's rank is the number of elements that do not come    *)
(* after it; ranks are different, so they are all the positions there are.   *)

LEMMA SortExists ==
  ASSUME NEW S, IsFiniteSet(S), NEW R,
         \A x \in S : <<x, x>> \in R,
         \A x, y \in S : <<x, y>> \in R \/ <<y, x>> \in R,
         \A x, y \in S : <<x, y>> \in R /\ <<y, x>> \in R => x = y,
         \A x, y, z \in S : <<x, y>> \in R /\ <<y, z>> \in R => <<x, z>> \in R
  PROVE  \E p \in Bijection(1..Cardinality(S), S) :
           \A i, j \in 1..Cardinality(S) : i < j => <<p[i], p[j]>> \in R
<1> DEFINE n == Cardinality(S)
           Upto(x) == {y \in S : <<y, x>> \in R}
           rank == [x \in S |-> Cardinality(Upto(x))]
<1>1. n \in Nat
  BY FS_CardinalityType
<1>2. IsFiniteSet(1..n) /\ Cardinality(1..n) = n
  BY <1>1, FS_Interval
<1>3. ASSUME NEW x \in S
      PROVE  IsFiniteSet(Upto(x)) /\ x \in Upto(x) /\ Cardinality(Upto(x)) \in 1..n
  <2>1. Upto(x) \in SUBSET S /\ x \in Upto(x)
    OBVIOUS
  <2>2. IsFiniteSet(Upto(x)) /\ Cardinality(Upto(x)) <= n
    BY <2>1, FS_Subset
  <2>3. Cardinality(Upto(x)) \in Nat /\ Cardinality(Upto(x)) # 0
    BY <2>1, <2>2, FS_CardinalityType, FS_EmptySet
  <2> QED BY <1>1, <2>1, <2>2, <2>3
<1>4. ASSUME NEW x \in S, NEW y \in S, <<x, y>> \in R
      PROVE  rank[x] <= rank[y] /\ (rank[x] = rank[y] => x = y)
  <2>1. Upto(x) \in SUBSET Upto(y)
    BY <1>4
  <2>2. /\ Cardinality(Upto(x)) <= Cardinality(Upto(y))
        /\ Cardinality(Upto(y)) = Cardinality(Upto(x)) => Upto(y) = Upto(x)
    BY <1>3, <2>1, FS_Subset
  <2>3. Upto(y) = Upto(x) => x = y
    <3>1. y \in Upto(y)
      BY <1>3
    <3>2. y \in Upto(x) => <<y, x>> \in R
      OBVIOUS
    <3> QED BY <1>4, <3>1, <3>2
  <2> QED BY <2>2, <2>3
<1>5. rank \in Injection(S, 1..n)
  <2>1. rank \in [S -> 1..n]
    BY <1>3
  <2>2. ASSUME NEW x \in S, NEW y \in S, rank[x] = rank[y] PROVE x = y
    BY <1>4, <2>2
  <2> HIDE DEF rank
  <2> QED BY <2>1, <2>2 DEF Injection, IsInjective
<1> HIDE DEF rank, n
<1>6. rank \in Surjection(S, 1..n)
  BY <1>2, <1>5, FS_Injection DEF n
<1> DEFINE p == [k \in 1..n |-> CHOOSE x \in S : rank[x] = k]
<1>7. \A k \in 1..n : p[k] \in S /\ rank[p[k]] = k
  BY <1>6 DEF Surjection
<1>8. \A x \in S : rank[x] \in 1..n /\ p[rank[x]] = x
  <2>1. \A x \in S : rank[x] \in 1..n
    BY <1>5 DEF Injection
  <2>2. \A x, y \in S : rank[x] = rank[y] => x = y
    BY <1>5 DEF Injection, IsInjective
  <2> HIDE DEF p
  <2> QED BY <1>7, <2>1, <2>2
<1>9. p \in [1..n -> S]
  BY <1>7
<1> HIDE DEF p
<1>10. p \in Bijection(1..n, S)
  <2>1. \A i, j \in 1..n : p[i] = p[j] => i = j
    BY <1>7
  <2> QED BY <1>8, <1>9, <2>1 DEF Bijection, Injection, Surjection, IsInjective
<1>11. ASSUME NEW i \in 1..n, NEW j \in 1..n, i < j PROVE <<p[i], p[j]>> \in R
  <2>1. p[i] \in S /\ p[j] \in S /\ rank[p[i]] = i /\ rank[p[j]] = j
    BY <1>7
  <2>2. <<p[j], p[i]>> \notin R
    BY <1>4, <1>11, <2>1
  <2> QED BY <2>1, <2>2
<1> QED BY <1>10, <1>11 DEF n

(* The value a row is sorted by.                                             *)
SortKey(s, l, row) ==
  IF l = levelPlayers THEN IF s.sortCol[l] = 1 THEN Status[row.fls] ELSE row.rank
                      ELSE IF s.sortCol[l] = 1 THEN row.qty ELSE row.id

(* The rows of q are rows of list.                                           *)
RowsFrom(q, list) == \A k \in 1..Len(list) : \E i \in 1..Len(list) : q[k] = list[i]

LEMMA SortedRows ==
  ASSUME NEW s, NEW l \in Tables, NEW T, NEW rows \in Seq(T),
         s.sortCol[l] \in 0..1, s.sortDesc[l] \in BOOLEAN,
         \A k \in 1..Len(rows) : SortKey(s, l, rows[k]) \in Int
  PROVE  /\ StableSort(s, l, rows) \in Seq(T)
         /\ Len(StableSort(s, l, rows)) = Len(rows)
         /\ RowsFrom(StableSort(s, l, rows), rows)
<1> DEFINE n == Len(rows)
           key == [i \in 1..n |-> SortKey(s, l, rows[i])]
           less(i, j) == IF s.sortDesc[l] THEN sortLess(s, l, rows[j], rows[i])
                                          ELSE sortLess(s, l, rows[i], rows[j])
           before(i, j) == less(i, j) \/ (~less(j, i) /\ i <= j)
           R == {x \in (1..n) \X (1..n) : before(x[1], x[2])}
           Good(p) == \A i, j \in 1..n : i < j => before(p[i], p[j])
           order == CHOOSE p \in Bijection(1..n, 1..n) : Good(p)
<1>1. n \in Nat /\ DOMAIN rows = 1..n /\ \A i \in 1..n : rows[i] \in T /\ key[i] \in Int
  OBVIOUS
<1>2. \A i, j \in 1..n : sortLess(s, l, rows[i], rows[j]) <=> key[i] < key[j]
  <2> SUFFICES ASSUME NEW i \in 1..n, NEW j \in 1..n
               PROVE  sortLess(s, l, rows[i], rows[j]) <=> key[i] < key[j]
    OBVIOUS
  <2>1. key[i] = SortKey(s, l, rows[i]) /\ key[j] = SortKey(s, l, rows[j])
    OBVIOUS
  <2>2. l = 2 \/ l = 4
    BY DEF Tables, levelPlayers, levelItem
  <2>3. s.sortCol[l] = 0 \/ s.sortCol[l] = 1
    OBVIOUS
  <2> DEFINE a == rows[i]
             b == rows[j]
  <2>4. sortLess(s, l, a, b) <=> SortKey(s, l, a) < SortKey(s, l, b)
    <3>1. CASE l = 2 /\ s.sortCol[l] = 0
      BY ONLY <3>1 DEF sortLess, SortKey, levelPlayers, levelItem
    <3>2. CASE l = 2 /\ s.sortCol[l] = 1
      BY ONLY <3>2 DEF sortLess, SortKey, levelPlayers, levelItem
    <3>3. CASE l = 4 /\ s.sortCol[l] = 0
      BY ONLY <3>3 DEF sortLess, SortKey, levelPlayers, levelItem
    <3>4. CASE l = 4 /\ s.sortCol[l] = 1
      BY ONLY <3>4 DEF sortLess, SortKey, levelPlayers, levelItem
    <3> QED BY ONLY <2>2, <2>3, <3>1, <3>2, <3>3, <3>4
  <2> QED BY <2>1, <2>4
<1>3. StableSort(s, l, rows) = [k \in 1..n |-> rows[order[k]]]
  BY <1>1 DEF StableSort
<1> HIDE DEF key, n
<1>4. \A i, j \in 1..n : less(i, j) <=> IF s.sortDesc[l] THEN key[j] < key[i] ELSE key[i] < key[j]
  BY <1>2
<1> HIDE DEF less
<1>5. \A i, j \in 1..n :
        before(i, j) <=> \/ IF s.sortDesc[l] THEN key[j] < key[i] ELSE key[i] < key[j]
                         \/ key[i] = key[j] /\ i <= j
  BY <1>1, <1>4
<1> HIDE DEF before
<1>6. \A i, j \in 1..n : <<i, j>> \in R <=> before(i, j)
  OBVIOUS
<1> HIDE DEF R
<1>7. /\ \A x \in 1..n : <<x, x>> \in R
      /\ \A x, y \in 1..n : <<x, y>> \in R \/ <<y, x>> \in R
      /\ \A x, y \in 1..n : <<x, y>> \in R /\ <<y, x>> \in R => x = y
  <2>1. ASSUME NEW x \in 1..n, NEW y \in 1..n
        PROVE  /\ before(x, x)
               /\ before(x, y) \/ before(y, x)
               /\ before(x, y) /\ before(y, x) => x = y
    <3>1. key[x] \in Int /\ key[y] \in Int
      BY <1>1
    <3> QED BY ONLY <1>1, <1>5, <3>1, x \in 1..n, y \in 1..n
  <2> QED BY ONLY <1>6, <2>1
<1>8. ASSUME NEW x \in 1..n, NEW y \in 1..n, NEW z \in 1..n, <<x, y>> \in R, <<y, z>> \in R
      PROVE  <<x, z>> \in R
  <2>1. key[x] \in Int /\ key[y] \in Int /\ key[z] \in Int
    BY <1>1
  <2>2. before(x, y) /\ before(y, z)
    BY <1>6, <1>8
  <2>3. before(x, z)
    BY ONLY <1>1, <1>5, <2>1, <2>2
  <2> QED BY <1>6, <2>3
<1>9. IsFiniteSet(1..n) /\ Cardinality(1..n) = n
  BY <1>1, FS_Interval
<1>10. \E p \in Bijection(1..n, 1..n) : \A i, j \in 1..n : i < j => <<p[i], p[j]>> \in R
  BY ONLY <1>7, <1>8, <1>9, SortExists
<1>11. \E p \in Bijection(1..n, 1..n) : Good(p)
  BY <1>6, <1>10 DEF Bijection, Injection
<1>12. order \in Bijection(1..n, 1..n)
  BY <1>11
<1>13. \A k \in 1..n : order[k] \in 1..n
  BY <1>12 DEF Bijection, Injection
<1> HIDE DEF order
<1>14. \A k \in 1..n : rows[order[k]] \in T
  BY <1>1, <1>13
<1> QED BY <1>1, <1>3, <1>13, <1>14 DEF RowsFrom

LEMMA AscendingWorks ==
  ASSUME NEW n \in Nat, NEW S \in SUBSET (1..n)
  PROVE  /\ DOMAIN Ascending(S) = 1..Cardinality(S) /\ Cardinality(S) \in Nat
         /\ \A k \in 1..Cardinality(S) : Ascending(S)[k] \in S
<1> DEFINE c == Cardinality(S)
           R == {x \in S \X S : x[1] <= x[2]}
           Good(p) == \A i, j \in 1..c : i < j => p[i] < p[j]
<1>1. IsFiniteSet(S) /\ c \in Nat /\ S \subseteq Nat
  <2>1. IsFiniteSet(1..n)
    BY FS_Interval
  <2>2. IsFiniteSet(S)
    BY <2>1, FS_Subset
  <2> QED BY <2>2, FS_CardinalityType
<1>2. \A x, y \in S : <<x, y>> \in R <=> x <= y
  OBVIOUS
<1> HIDE DEF R
<1>3. PICK p \in Bijection(1..c, S) : \A i, j \in 1..c : i < j => <<p[i], p[j]>> \in R
  <2>1. /\ \A x \in S : <<x, x>> \in R
        /\ \A x, y \in S : <<x, y>> \in R \/ <<y, x>> \in R
        /\ \A x, y \in S : <<x, y>> \in R /\ <<y, x>> \in R => x = y
        /\ \A x, y, z \in S : <<x, y>> \in R /\ <<y, z>> \in R => <<x, z>> \in R
    BY ONLY <1>1, <1>2
  <2> QED BY <1>1, <2>1, SortExists
<1>4. Good(p)
  <2>1. \A i, j \in 1..c : p[i] = p[j] => i = j
    BY <1>3 DEF Bijection, Injection, IsInjective
  <2>2. \A i \in 1..c : p[i] \in S
    BY <1>3 DEF Bijection, Injection
  <2>3. ASSUME NEW i \in 1..c, NEW j \in 1..c, i < j PROVE p[i] < p[j]
    <3>1. p[i] \in S /\ p[j] \in S /\ p[i] # p[j]
      BY <1>1, <2>1, <2>2, <2>3
    <3>2. p[i] <= p[j]
      BY <1>2, <1>3, <2>3, <3>1
    <3>3. p[i] \in Nat /\ p[j] \in Nat
      BY <1>1, <3>1
    <3> QED BY ONLY <3>1, <3>2, <3>3
  <2> QED BY <2>3
<1>5. Ascending(S) = CHOOSE q \in Bijection(1..c, S) : Good(q)
  BY DEF Ascending
<1>6. Ascending(S) \in Bijection(1..c, S)
  BY <1>3, <1>4, <1>5
<1> QED BY <1>1, <1>6 DEF Bijection, Injection

LEMMA Removed ==
  ASSUME NEW T, NEW q \in Seq(T), NEW i \in 1..Len(q)
  PROVE  /\ RemoveAt(q, i) \in Seq(T)
         /\ Len(q) \in Nat \ {0} /\ Len(RemoveAt(q, i)) = Len(q) - 1
         /\ \A k \in 1..(Len(q) - 1) : RemoveAt(q, i)[k] = IF k < i THEN q[k] ELSE q[k + 1]
<1> DEFINE n == Len(q)
           a == SubSeq(q, 1, i - 1)
           b == SubSeq(q, i + 1, n)
<1>1. n \in Nat /\ \A k \in 1..n : q[k] \in T
  OBVIOUS
<1>2. i \in 1..n
  OBVIOUS
<1>3. RemoveAt(q, i) = a \o b
  BY DEF RemoveAt
<1> HIDE DEF n
<1>4. /\ a \in Seq(T) /\ Len(a) = i - 1
      /\ \A k \in 1..(i - 1) : a[k] = q[k]
  <2>1. \A k \in 1..(i - 1) : q[k] \in T
    BY <1>1, <1>2
  <2>2. 1 \in Int /\ i - 1 \in Int
    BY <1>1, <1>2
  <2>3. /\ a \in Seq(T) /\ Len(a) = IF 1 <= i - 1 THEN (i - 1) - 1 + 1 ELSE 0
        /\ \A k \in 1..((i - 1) - 1 + 1) : a[k] = q[1 + k - 1]
    BY <2>1, <2>2, SubSeqProperties
  <2> QED BY <1>1, <1>2, <2>3
<1>5. /\ b \in Seq(T) /\ Len(b) = n - i
      /\ \A k \in 1..(n - i) : b[k] = q[i + k]
  <2>1. \A k \in (i + 1)..n : q[k] \in T
    BY <1>1, <1>2
  <2>2. n \in Int /\ i + 1 \in Int
    BY <1>1, <1>2
  <2>3. /\ b \in Seq(T) /\ Len(b) = IF i + 1 <= n THEN n - (i + 1) + 1 ELSE 0
        /\ \A k \in 1..(n - (i + 1) + 1) : b[k] = q[(i + 1) + k - 1]
    BY <2>1, <2>2, SubSeqProperties
  <2> QED BY <1>1, <1>2, <2>3
<1> HIDE DEF a, b
<1>6. /\ a \o b \in Seq(T) /\ Len(a \o b) = Len(a) + Len(b)
      /\ \A k \in 1..(Len(a) + Len(b)) : (a \o b)[k] = IF k <= Len(a) THEN a[k] ELSE b[k - Len(a)]
  BY <1>4, <1>5, ConcatProperties
<1>7. ASSUME NEW k \in 1..(n - 1) PROVE (a \o b)[k] = IF k < i THEN q[k] ELSE q[k + 1]
  <2>1. CASE k < i
    <3>1. k \in 1..(i - 1) /\ k \in 1..(Len(a) + Len(b)) /\ k <= Len(a)
      BY <1>1, <1>2, <1>4, <1>5, <2>1
    <3> QED BY <1>4, <1>6, <2>1, <3>1
  <2>2. CASE k >= i
    <3>1. (a \o b)[k] = b[k - (i - 1)] /\ k - (i - 1) \in 1..(n - i)
      BY <1>1, <1>2, <1>4, <1>5, <1>6, <2>2
    <3>2. b[k - (i - 1)] = q[i + (k - (i - 1))]
      BY <1>5, <3>1
    <3>3. i + (k - (i - 1)) = k + 1
      BY <1>1, <1>2
    <3> QED BY <1>1, <1>2, <2>2, <3>1, <3>2, <3>3
  <2>3. k < i \/ k >= i
    BY ONLY <1>1, <1>2, k \in 1..(n - 1)
  <2> QED BY ONLY <2>1, <2>2, <2>3
<1> QED BY <1>1, <1>2, <1>3, <1>4, <1>5, <1>6, <1>7 DEF n

-------------------------------------------------------------------------------
(* Types.                                                                    *)

Characters == DOMAIN Status
Kinds == Nat \cup {None}                 \* inventory types, and none yet

PlayerRow == [host : HostSet, fls : Characters, rank : Nat]
InvRow == [host : HostSet, fls : Characters, typ : Nat]
ItemRow == [host : HostSet, fls : Characters, typ : Kinds, id : Nat, qty : Nat]
Who == [host : HostSet \cup {None}, fls : Characters \cup {None}]

Model ==
  [level : 1..4, sel : [1..4 -> Nat], counts : [1..4 -> Nat],
   players : Seq(PlayerRow), invs : Seq(InvRow), items : Seq(ItemRow),
   cur : Who, curType : Kinds,
   loading : BOOLEAN, running : BOOLEAN,
   mode : {"nav", "cmd"}, draft : Who, output : BOOLEAN,
   prompt : {"none", "help", "edit", "delete"},
   sortCol : [1..4 -> 0..1], sortDesc : [1..4 -> BOOLEAN]]

PlayerLoads ==
  [kind : {"players"}, host : HostSet, fls : {None}, typ : {None},
   done : BOOLEAN, ok : BOOLEAN, rows : {<<>>}]
InvLoads ==
  [kind : {"invs"}, host : HostSet, fls : Characters, typ : {None},
   done : BOOLEAN, ok : BOOLEAN, rows : Seq(InvRow)]
ItemLoads ==
  [kind : {"items"}, host : HostSet, fls : Characters \cup {None}, typ : Kinds,
   done : BOOLEAN, ok : BOOLEAN, rows : Seq(ItemRow)]
Edits ==
  [kind : {"edit"}, host : HostSet, id : Nat, qty : Nat \cup {None}, row : ItemRow \cup {None},
   done : BOOLEAN, ok : BOOLEAN]
Tasks == PlayerLoads \cup InvLoads \cup ItemLoads \cup Edits \cup {Command}

(* The rows of an answer are what was asked for, none without success.       *)
RowsOf(t) ==
  /\ t.kind = "invs" =>
       /\ ~t.ok => t.rows = <<>>
       /\ \A k \in 1..Len(t.rows) : t.rows[k].host = t.host /\ t.rows[k].fls = t.fls
  /\ t.kind = "items" =>
       \A k \in 1..Len(t.rows) :
         t.rows[k].host = t.host /\ t.rows[k].fls = t.fls /\ t.rows[k].typ = t.typ

StockInv == \A h \in HostSet : stock[h] \in [DOMAIN Place[h] -> Nat \cup {None}]

TypeInv ==
  /\ world \in Worlds /\ used \in [sorts : Nat, edits : Nat]
  /\ m \in Model
  /\ flight \in Seq(Tasks) /\ \A i \in 1..Len(flight) : RowsOf(flight[i])
  /\ target \in ItemRow \cup {None}
  /\ StockInv /\ stock \in [HostSet -> UNION {[DOMAIN Place[h] -> Nat \cup {None}] : h \in HostSet}]

LEMMA WorldFacts ==
  ASSUME TypeInv
  PROVE  /\ careful \in BOOLEAN /\ Types \in Seq(Nat)
         /\ \A h \in HostSet : /\ Roster[h] \in Seq(Characters)
                               /\ Place[h] \in Seq(Characters \X Nat)
BY NavAssumption DEF TypeInv, careful, Types, Roster, Place, Characters

LEMMA HeldFacts ==
  ASSUME TypeInv, NEW h \in HostSet, NEW p, NEW typ
  PROVE  /\ \E n \in Nat : Held(h, p, typ) \in SUBSET (1..n)
         /\ \A i \in Held(h, p, typ) : stock[h][i] \in Nat /\ i \in Nat
<1>1. Place[h] \in Seq(Characters \X Nat)
  BY WorldFacts
<1>2. DOMAIN Place[h] = 1..Len(Place[h]) /\ Len(Place[h]) \in Nat
  BY <1>1
<1>3. Held(h, p, typ) \subseteq DOMAIN Place[h] /\ \A i \in Held(h, p, typ) : stock[h][i] # None
  BY DEF Held
<1>4. stock[h] \in [DOMAIN Place[h] -> Nat \cup {None}]
  BY DEF TypeInv, StockInv
<1> QED BY <1>2, <1>3, <1>4

LEMMA ItemRowsType ==
  ASSUME TypeInv, NEW h \in HostSet, NEW p \in Characters, NEW typ \in Kinds
  PROVE  /\ ItemRows(h, p, typ) \in Seq(ItemRow)
         /\ \A k \in 1..Len(ItemRows(h, p, typ)) :
              LET row == ItemRows(h, p, typ)[k]
              IN row.host = h /\ row.fls = p /\ row.typ = typ
<1> DEFINE S == Held(h, p, typ)
           ids == Ascending(S)
           c == Cardinality(S)
           Row(k) == [host |-> h, fls |-> p, typ |-> typ, id |-> ids[k], qty |-> stock[h][ids[k]]]
<1>1. PICK n \in Nat : S \in SUBSET (1..n)
  BY HeldFacts
<1>2. DOMAIN ids = 1..c /\ c \in Nat /\ \A k \in 1..c : ids[k] \in S
  BY <1>1, AscendingWorks
<1>3. \A k \in 1..c : ids[k] \in Nat /\ stock[h][ids[k]] \in Nat
  BY <1>2, HeldFacts
<1>4. ItemRows(h, p, typ) = [k \in DOMAIN ids |-> Row(k)]
  BY DEF ItemRows
<1> HIDE DEF ids, c, S
<1>5. \A k \in 1..c : Row(k) \in ItemRow
  BY <1>3 DEF ItemRow
<1>6. \A k \in 1..c : Row(k).host = h /\ Row(k).fls = p /\ Row(k).typ = typ
  OBVIOUS
<1> HIDE DEF Row
<1> QED BY <1>2, <1>4, <1>5, <1>6

LEMMA InvRowsType ==
  ASSUME TypeInv, NEW h \in HostSet, NEW p \in Characters
  PROVE  /\ InvRows(h, p) \in Seq(InvRow)
         /\ \A k \in 1..Len(InvRows(h, p)) :
              InvRows(h, p)[k].host = h /\ InvRows(h, p)[k].fls = p
<1> DEFINE S == {t \in DOMAIN Types : Held(h, p, Types[t]) # {}}
           held == Ascending(S)
           c == Cardinality(S)
           Row(k) == [host |-> h, fls |-> p, typ |-> Types[held[k]]]
<1>1. /\ Len(Types) \in Nat /\ S \in SUBSET (1..Len(Types))
      /\ \A t \in 1..Len(Types) : Types[t] \in Nat
  BY WorldFacts
<1>2. DOMAIN held = 1..c /\ c \in Nat /\ \A k \in 1..c : held[k] \in S
  BY <1>1, AscendingWorks
<1>3. InvRows(h, p) = [k \in DOMAIN held |-> Row(k)]
  BY DEF InvRows
<1>4. \A k \in 1..c : Types[held[k]] \in Nat
  BY <1>1, <1>2
<1> HIDE DEF held, c, S
<1>5. \A k \in 1..c : Row(k) \in InvRow /\ Row(k).host = h /\ Row(k).fls = p
  BY <1>4 DEF InvRow
<1> HIDE DEF Row
<1> QED BY <1>2, <1>3, <1>5

LEMMA PlayerRowsType ==
  ASSUME TypeInv, NEW h \in HostSet
  PROVE  /\ PlayerRows(h) \in Seq(PlayerRow)
         /\ \A k \in 1..Len(PlayerRows(h)) : PlayerRows(h)[k].host = h
<1> DEFINE n == Len(Roster[h])
           Row(k) == [host |-> h, fls |-> Roster[h][k], rank |-> k]
<1>1. n \in Nat /\ DOMAIN Roster[h] = 1..n /\ \A k \in 1..n : Roster[h][k] \in Characters
  BY WorldFacts
<1>2. PlayerRows(h) = [k \in DOMAIN Roster[h] |-> Row(k)]
  BY DEF PlayerRows
<1> HIDE DEF n
<1>3. \A k \in 1..n : Row(k) \in PlayerRow /\ Row(k).host = h
  BY <1>1 DEF PlayerRow
<1> HIDE DEF Row
<1> QED BY <1>1, <1>2, <1>3

-------------------------------------------------------------------------------
(* The invariant.                                                            *)

AtRow(i, n) == i = 0 \/ i < n

(* CursorInBounds, level by level.                                           *)
InBounds(s) ==
  /\ s.counts[1] = Len(Hosts) /\ AtRow(s.sel[1], Len(Hosts))
  /\ s.counts[2] = Len(s.players) /\ AtRow(s.sel[2], Len(s.players))
  /\ s.counts[3] = Len(s.invs) /\ AtRow(s.sel[3], Len(s.invs))
  /\ s.counts[4] = Len(s.items) /\ AtRow(s.sel[4], Len(s.items))

LoadKinds == {"players", "invs", "items"}

(* A busy flag has a cause in flight, for any operator.                      *)
BusyInv ==
  /\ m.loading => \E i \in 1..Len(flight) : flight[i].kind \in LoadKinds
  /\ m.running => \E i \in 1..Len(flight) : flight[i].kind \notin LoadKinds

(* The rows of every level above the cursor, and of the one shown, are those *)
(* of the selection, and the model's idea of player and type agrees.         *)
PlayersShown(s) ==
  \A k \in 1..Len(s.players) : s.players[k].host = selectedHost(s)

InvsShown(s) ==
  /\ s.sel[2] < Len(s.players)
  /\ \A k \in 1..Len(s.invs) : /\ s.invs[k].host = selectedHost(s)
                               /\ s.invs[k].fls = Under(s, s.players, 2).fls
  /\ s.invs # <<>> => s.cur.fls = Under(s, s.players, 2).fls

ItemsShown(s) ==
  /\ s.sel[3] < Len(s.invs)
  /\ s.curType = Under(s, s.invs, 3).typ
  /\ \A k \in 1..Len(s.items) : /\ s.items[k].host = selectedHost(s)
                                /\ s.items[k].fls = s.cur.fls
                                /\ s.items[k].typ = s.curType

Shown(s) ==
  /\ s.level >= 2 => PlayersShown(s)
  /\ s.level >= 3 => InvsShown(s)
  /\ s.level = 4 => ItemsShown(s)

(* What is in flight was asked for by the selection that is still there.     *)
TaskOf(s, t) ==
  /\ t.kind = "players" => s.level = 2 /\ t.host = selectedHost(s)
  /\ t.kind = "invs" => /\ s.level = 3 /\ t.host = selectedHost(s)
                        /\ t.fls = Under(s, s.players, 2).fls
  /\ t.kind = "items" => /\ s.level = 4 /\ t.host = selectedHost(s)
                         /\ t.fls = s.cur.fls /\ t.typ = s.curType
  /\ t.kind = "edit" => s.level = 4 /\ t.host = t.row.host /\ t.id = t.row.id

PromptInv(s, row) ==
  /\ s.prompt # "none" => s.mode = "nav" /\ ~s.output
  /\ s.prompt \in {"edit", "delete"} =>
       s.level = 4 /\ s.items # <<>> /\ row = Under(s, s.items, 4)

(* What else is true for an operator who waits.                              *)
CalmInv ==
  careful =>
    /\ Shown(m) /\ PromptInv(m, target)
    /\ Len(flight) <= 1
    /\ flight = <<>> => ~m.loading /\ ~m.running
    /\ flight # <<>> =>
         /\ TaskOf(m, flight[1]) /\ m.mode = "nav" /\ m.prompt = "none"
         /\ m.loading <=> flight[1].kind \in LoadKinds
         /\ m.running <=> flight[1].kind \notin LoadKinds

IInv == TypeInv /\ InBounds(m) /\ BusyInv /\ CalmInv

LEMMA SameOnEveryLevel ==
  ASSUME NEW S, NEW x \in S
  PROVE  <<x, x, x, x>> \in [1..4 -> S]
OBVIOUS

LEMMA InitIInv == Init => IInv
<1> SUFFICES ASSUME Init PROVE IInv
  OBVIOUS
<1>1. /\ world \in Worlds /\ flight = <<>> /\ target = None
      /\ used = [sorts |-> 0, edits |-> 0]
      /\ stock = [h \in HostSet |-> [i \in DOMAIN Place[h] |-> 1]]
  BY DEF Init
<1>2. /\ m.level = 1 /\ m.sel = <<0, 0, 0, 0>> /\ m.counts = <<Len(Hosts), 0, 0, 0>>
      /\ m.players = <<>> /\ m.invs = <<>> /\ m.items = <<>>
      /\ ~m.loading /\ ~m.running /\ m.prompt = "none"
  BY DEF Init, levelHosts
<1>3. m \in Model
  <2>1. /\ <<0, 0, 0, 0>> \in [1..4 -> Nat] /\ <<0, 0, 0, 0>> \in [1..4 -> 0..1]
        /\ <<FALSE, FALSE, FALSE, FALSE>> \in [1..4 -> BOOLEAN]
    <3>1. 0 \in Nat /\ 0 \in 0..1 /\ FALSE \in BOOLEAN
      OBVIOUS
    <3>2. <<0, 0, 0, 0>> \in [1..4 -> Nat] /\ <<0, 0, 0, 0>> \in [1..4 -> 0..1]
      BY ONLY <3>1, SameOnEveryLevel
    <3>3. <<FALSE, FALSE, FALSE, FALSE>> \in [1..4 -> BOOLEAN]
      BY ONLY <3>1, SameOnEveryLevel
    <3> QED BY ONLY <3>2, <3>3
  <2>2. <<Len(Hosts), 0, 0, 0>> \in [1..4 -> Nat]
    <3>1. Len(Hosts) \in Nat
      BY NavAssumption
    <3> QED BY <3>1
  <2>3. NoPlayer \in Who
    BY DEF NoPlayer, Who
  <2>4. <<>> \in Seq(PlayerRow) /\ <<>> \in Seq(InvRow) /\ <<>> \in Seq(ItemRow)
    OBVIOUS
  <2> QED BY <2>1, <2>2, <2>3, <2>4 DEF Init, Model, levelHosts, Kinds
<1>4. TypeInv
  <2>1. flight \in Seq(Tasks) /\ 1..Len(flight) = {}
    BY <1>1
  <2>2. \A h \in HostSet : stock[h] = [i \in DOMAIN Place[h] |-> 1]
    BY <1>1
  <2>3. ASSUME NEW h \in HostSet PROVE stock[h] \in [DOMAIN Place[h] -> Nat \cup {None}]
    <3>1. stock[h] = [i \in DOMAIN Place[h] |-> 1]
      BY <2>2
    <3> QED BY ONLY <3>1
  <2>4. stock \in [HostSet -> UNION {[DOMAIN Place[h] -> Nat \cup {None}] : h \in HostSet}]
    BY <1>1, <2>2, <2>3
  <2> QED BY <1>1, <1>3, <2>1, <2>3, <2>4 DEF TypeInv, StockInv
<1>5. InBounds(m)
  BY <1>2 DEF InBounds, AtRow
<1>6. BusyInv
  BY <1>2 DEF BusyInv
<1>7. CalmInv
  <2>1. Len(flight) = 0
    BY <1>1
  <2> QED BY <1>1, <1>2, <2>1 DEF CalmInv, Shown, PromptInv
<1> QED BY <1>4, <1>5, <1>6, <1>7 DEF IInv

-------------------------------------------------------------------------------
(* Keys that send nothing.                                                   *)

LEMMA PressedIdle ==
  ASSUME IInv, Press, careful
  PROVE  flight = <<>> /\ ~m.loading /\ ~m.running
BY DEF IInv, CalmInv, Press

LEMMA KeyKeeps ==
  ASSUME IInv, Press, UNCHANGED <<flight, stock, world>>,
         used' \in [sorts : Nat, edits : Nat], target' \in ItemRow \cup {None},
         m' \in Model, InBounds(m'), m'.loading = m.loading, m'.running = m.running,
         careful => Shown(m') /\ PromptInv(m', target')
  PROVE  IInv'
<1>1. TypeInv'
  <2>1. StockInv' /\ (\A i \in 1..Len(flight') : RowsOf(flight'[i]))
    BY DEF IInv, TypeInv, StockInv, Place
  <2>2. stock' \in [HostSet -> UNION {[DOMAIN Place'[h] -> Nat \cup {None}] : h \in HostSet}]
    BY DEF IInv, TypeInv, Place
  <2> QED BY <2>1, <2>2 DEF IInv, TypeInv
<1>2. BusyInv'
  BY DEF IInv, BusyInv
<1>3. CalmInv'
  <2>1. careful' = careful
    BY DEF careful
  <2>2. careful => flight = <<>> /\ Len(flight) <= 1 /\ ~m.loading /\ ~m.running
    BY PressedIdle DEF IInv, CalmInv
  <2> QED BY <2>1, <2>2 DEF CalmInv
<1> QED BY <1>1, <1>2, <1>3 DEF IInv

(* What is on the screen apart from the bars.                                *)
SameView(s, t) ==
  /\ t.level = s.level /\ t.sel = s.sel /\ t.counts = s.counts
  /\ t.players = s.players /\ t.invs = s.invs /\ t.items = s.items
  /\ t.cur = s.cur /\ t.curType = s.curType

LEMMA SameViewKeeps ==
  ASSUME NEW s, NEW t, SameView(s, t)
  PROVE  /\ InBounds(s) => InBounds(t)
         /\ Shown(s) => Shown(t)
         /\ \A x : TaskOf(s, x) => TaskOf(t, x)
<1>1. selectedHost(t) = selectedHost(s)
  BY DEF SameView, selectedHost, Under
<1>2. InBounds(s) => InBounds(t)
  BY DEF SameView, InBounds
<1>3. Under(t, t.players, 2) = Under(s, s.players, 2) /\ Under(t, t.invs, 3) = Under(s, s.invs, 3)
  BY DEF SameView, Under
<1>4. Shown(s) => Shown(t)
  BY <1>1, <1>3 DEF SameView, Shown, PlayersShown, InvsShown, ItemsShown
<1>5. \A x : TaskOf(s, x) => TaskOf(t, x)
  BY <1>1, <1>3 DEF SameView, TaskOf
<1> QED BY <1>2, <1>4, <1>5

BarKey ==
  \/ OpenHelp \/ OpenPrompt \/ ClosePrompt \/ DismissOutput \/ OpenBar \/ OpenGive \/ LeaveBar

(* The row under a cursor that is on one.                                    *)
LEMMA UnderRow ==
  ASSUME NEW s \in Model, NEW l \in 1..4, NEW T, NEW list \in Seq(T), s.sel[l] < Len(list)
  PROVE  s.sel[l] + 1 \in 1..Len(list) /\ Under(s, list, l) = list[s.sel[l] + 1]
         /\ Under(s, list, l) \in T
<1>1. s.sel[l] \in Nat /\ Len(list) \in Nat
  BY DEF Model
<1> DEFINE k == s.sel[l] + 1
<1>2. k \in 1..Len(list)
  BY <1>1
<1>3. Under(s, list, l) = list[k]
  BY DEF Under
<1> HIDE DEF k
<1>4. list[k] \in T
  BY <1>2
<1> QED BY <1>2, <1>3, <1>4 DEF k

LEMMA ItemUnderCursor ==
  ASSUME IInv, OnItem
  PROVE  /\ m.level = 4 /\ m.items # <<>> /\ m.sel[4] < Len(m.items)
         /\ m.sel[4] + 1 \in 1..Len(m.items)
         /\ Under(m, m.items, 4) = m.items[m.sel[4] + 1] /\ Under(m, m.items, 4) \in ItemRow
<1>1. m \in Model /\ m.items \in Seq(ItemRow) /\ m.level = 4 /\ Len(m.items) > 0
  BY DEF IInv, TypeInv, Model, OnItem, levelItem
<1>2. m.sel[4] < Len(m.items)
  BY <1>1 DEF IInv, InBounds, AtRow
<1> QED BY <1>1, <1>2, UnderRow

LEMMA StepBarKey == IInv /\ BarKey => IInv'
<1> SUFFICES ASSUME IInv, BarKey PROVE IInv'
  OBVIOUS
<1>1. m \in Model
  BY DEF IInv, TypeInv
<1>2. /\ Press /\ UNCHANGED <<flight, stock, world, used>>
  BY DEF BarKey, OpenHelp, OpenPrompt, ClosePrompt, DismissOutput, OpenBar, OpenGive, LeaveBar,
    Browsing, Prompted, Typing, Show
<1>3. /\ m' \in Model /\ SameView(m, m') /\ m'.loading = m.loading /\ m'.running = m.running
      /\ target' \in ItemRow \cup {None}
      /\ careful => PromptInv(m', target')
  <2>1. target \in ItemRow \cup {None}
    BY DEF IInv, TypeInv
  <2>2. careful => PromptInv(m, target)
    BY DEF IInv, CalmInv
  <2>3. CASE OpenHelp
    <3>1. m' = [m EXCEPT !.prompt = "help"] /\ target' = target /\ m.mode = "nav" /\ ~m.output
      BY <2>3 DEF OpenHelp, Show, Browsing
    <3> QED BY <1>1, <2>1, <3>1 DEF Model, SameView, PromptInv
  <2>4. CASE OpenPrompt
    <3>1. PICK p \in {"edit", "delete"} : m' = [m EXCEPT !.prompt = p]
      BY <2>4 DEF OpenPrompt
    <3>2. OnItem /\ target' = Under(m, m.items, 4) /\ m.mode = "nav" /\ ~m.output
      BY <2>4 DEF OpenPrompt, Browsing, levelItem
    <3>3. m.level = 4 /\ m.items # <<>> /\ target' \in ItemRow
      BY <3>2, ItemUnderCursor
    <3>4. m' \in Model /\ SameView(m, m') /\ m'.loading = m.loading /\ m'.running = m.running
          /\ m'.mode = m.mode /\ m'.output = m.output
      BY <1>1, <3>1 DEF Model, SameView
    <3> QED BY <3>2, <3>3, <3>4 DEF SameView, PromptInv, Under
  <2>5. CASE ClosePrompt
    <3>1. m' = [m EXCEPT !.prompt = "none"] /\ target' = None
      BY <2>5 DEF ClosePrompt
    <3> QED BY <1>1, <3>1 DEF Model, SameView, PromptInv
  <2>6. CASE DismissOutput
    <3>1. m' = [m EXCEPT !.output = FALSE] /\ target' = target
      BY <2>6 DEF DismissOutput, Show
    <3> QED BY <1>1, <2>1, <2>2, <3>1 DEF Model, SameView, PromptInv, Under
  <2>7. CASE OpenBar
    <3>1. /\ m' = [m EXCEPT !.mode = "cmd", !.draft = NoPlayer] /\ target' = target
          /\ m.output \/ m.prompt = "none"
      BY <2>7 DEF OpenBar, Show
    <3>2. NoPlayer \in Who
      BY DEF NoPlayer, Who
    <3> QED BY <1>1, <2>1, <2>2, <3>1, <3>2 DEF Model, SameView, PromptInv
  <2>8. CASE OpenGive
    <3> DEFINE row == Under(m, m.players, levelPlayers)
               player == IF m.level = levelPlayers /\ m.sel[levelPlayers] < Len(m.players)
                         THEN [host |-> row.host, fls |-> row.fls] ELSE m.cur
    <3>1. /\ m' = [m EXCEPT !.mode = "cmd", !.output = FALSE, !.draft = player]
          /\ target' = target /\ m.prompt = "none"
      BY <2>8 DEF OpenGive, Show, Browsing
    <3>2. player \in Who
      <4>1. CASE m.level = 2 /\ m.sel[2] < Len(m.players)
        <5>1. m.players \in Seq(PlayerRow)
          BY <1>1 DEF Model
        <5>2. Under(m, m.players, 2) \in PlayerRow
          BY <1>1, <4>1, <5>1, UnderRow
        <5> QED BY <4>1, <5>2 DEF PlayerRow, Who, levelPlayers
      <4>2. CASE ~(m.level = 2 /\ m.sel[2] < Len(m.players))
        BY <1>1, <4>2 DEF Model, levelPlayers
      <4> QED BY <4>1, <4>2
    <3> HIDE DEF player
    <3> QED BY <1>1, <2>1, <3>1, <3>2 DEF Model, SameView, PromptInv
  <2>9. CASE LeaveBar
    <3>1. /\ m' = [m EXCEPT !.mode = "nav", !.draft = NoPlayer] /\ target' = target
          /\ m.mode = "cmd"
      BY <2>9 DEF LeaveBar, Show, Typing
    <3>2. NoPlayer \in Who
      BY DEF NoPlayer, Who
    <3> QED BY <1>1, <2>1, <2>2, <3>1, <3>2 DEF Model, SameView, PromptInv
  <2> QED BY <2>3, <2>4, <2>5, <2>6, <2>7, <2>8, <2>9 DEF BarKey
<1>4. InBounds(m') /\ (careful => Shown(m'))
  BY <1>3, SameViewKeeps DEF IInv, CalmInv
<1>5. used' \in [sorts : Nat, edits : Nat]
  BY <1>2 DEF IInv, TypeInv
<1> QED BY <1>2, <1>3, <1>4, <1>5, KeyKeeps

(* Nothing above the cursor's level changes.                                 *)
LEMMA StillShown ==
  ASSUME NEW s \in Model, NEW t \in Model, t.level <= s.level,
         t.players = s.players, t.invs = s.invs, t.items = s.items,
         t.cur = s.cur, t.curType = s.curType,
         \A l \in 1..4 : l < t.level => t.sel[l] = s.sel[l],
         Shown(s)
  PROVE  Shown(t)
<1>1. s.level \in 1..4 /\ t.level \in 1..4
  BY DEF Model
<1>2. t.level >= 2 => selectedHost(t) = selectedHost(s)
  BY <1>1 DEF selectedHost, Under, levelHosts
<1>3. t.level >= 3 => t.sel[2] = s.sel[2] /\ Under(t, t.players, 2) = Under(s, s.players, 2)
  BY <1>1 DEF Under
<1>4. t.level = 4 => t.sel[3] = s.sel[3] /\ Under(t, t.invs, 3) = Under(s, s.invs, 3)
  BY <1>1 DEF Under
<1>5. t.level >= 2 => PlayersShown(t)
  BY <1>1, <1>2 DEF Shown, PlayersShown
<1>6. t.level >= 3 => InvsShown(t)
  BY <1>1, <1>2, <1>3 DEF Shown, InvsShown
<1>7. t.level = 4 => ItemsShown(t)
  BY <1>1, <1>2, <1>4 DEF Shown, ItemsShown
<1> QED BY <1>5, <1>6, <1>7 DEF Shown

LEMMA ClampRow ==
  ASSUME NEW s \in Model, NEW i \in Int
  PROVE  Clamp(s, i) \in Nat /\ AtRow(Clamp(s, i), s.counts[s.level])
<1>1. s.counts[s.level] \in Nat
  BY DEF Model
<1> QED BY <1>1 DEF Clamp, AtRow

LEMMA CursorMoves ==
  ASSUME IInv, NEW i \in Nat, AtRow(i, m.counts[m.level]),
         m' = [m EXCEPT !.sel[m.level] = i]
  PROVE  /\ m' \in Model /\ InBounds(m') /\ m'.loading = m.loading /\ m'.running = m.running
         /\ m'.prompt = m.prompt
         /\ careful => Shown(m')
<1>1. m \in Model /\ m.level \in 1..4 /\ m.sel \in [1..4 -> Nat]
  BY DEF IInv, TypeInv, Model
<1>2. /\ m' \in Model /\ m'.loading = m.loading /\ m'.running = m.running /\ m'.prompt = m.prompt
      /\ m'.level = m.level /\ m'.players = m.players /\ m'.invs = m.invs /\ m'.items = m.items
      /\ m'.cur = m.cur /\ m'.curType = m.curType /\ m'.counts = m.counts
      /\ m'.sel = [m.sel EXCEPT ![m.level] = i]
  BY <1>1 DEF Model
<1>3. \A l \in 1..4 : m'.sel[l] = IF l = m.level THEN i ELSE m.sel[l]
  BY <1>1, <1>2
<1>4. InBounds(m')
  <2>1. InBounds(m)
    BY DEF IInv
  <2> QED BY <1>1, <1>2, <1>3, <2>1 DEF InBounds
<1>5. careful => Shown(m')
  <2>1. \A l \in 1..4 : l < m'.level => m'.sel[l] = m.sel[l]
    BY <1>1, <1>2, <1>3
  <2>2. m'.level <= m.level
    BY <1>1, <1>2
  <2> QED BY <1>1, <1>2, <2>1, <2>2, StillShown DEF IInv, CalmInv
<1> QED BY <1>2, <1>4, <1>5

LEMMA SortKeeps ==
  ASSUME NEW t \in Model
  PROVE  /\ applySort(t) \in Model
         /\ InBounds(t) => InBounds(applySort(t))
         /\ Shown(t) => Shown(applySort(t))
         /\ applySort(t).level = t.level /\ applySort(t).sel = t.sel
         /\ applySort(t).mode = t.mode /\ applySort(t).output = t.output
         /\ applySort(t).loading = t.loading /\ applySort(t).running = t.running
         /\ applySort(t).prompt = t.prompt
<1> DEFINE u == applySort(t)
<1>1. /\ t.level \in 1..4 /\ t.players \in Seq(PlayerRow) /\ t.items \in Seq(ItemRow)
      /\ \A l \in 1..4 : t.sortCol[l] \in 0..1 /\ t.sortDesc[l] \in BOOLEAN
  BY DEF Model
<1>2. CASE t.level = 2
  <2> DEFINE r == StableSort(t, 2, t.players)
  <2>1. u = [t EXCEPT !.players = r]
    BY <1>2 DEF applySort, levelPlayers, levelItem
  <2>2. \A k \in 1..Len(t.players) : SortKey(t, 2, t.players[k]) \in Int
    <3>1. \A x \in Characters : Status[x] \in Int
      BY NavAssumption DEF Characters
    <3>2. \A k \in 1..Len(t.players) : t.players[k] \in PlayerRow
      BY <1>1
    <3> QED BY ONLY <3>1, <3>2 DEF SortKey, PlayerRow, levelPlayers
  <2>3. /\ r \in Seq(PlayerRow) /\ Len(r) = Len(t.players)
        /\ \A k \in 1..Len(t.players) : \E i \in 1..Len(t.players) : r[k] = t.players[i]
    <3>1. /\ 2 \in Tables /\ t.players \in Seq(PlayerRow)
          /\ t.sortCol[2] \in 0..1 /\ t.sortDesc[2] \in BOOLEAN
      BY <1>1 DEF Tables, levelPlayers, levelItem
    <3>2. r \in Seq(PlayerRow)
      BY ONLY <2>2, <3>1, SortedRows
    <3>3. Len(r) = Len(t.players)
      BY ONLY <2>2, <3>1, SortedRows
    <3>4. RowsFrom(r, t.players)
      BY ONLY <2>2, <3>1, SortedRows
    <3> QED BY <3>2, <3>3, <3>4 DEF RowsFrom
  <2> HIDE DEF r, u
  <2>4. /\ u \in Model /\ u.players = r /\ u.level = t.level /\ u.sel = t.sel
        /\ u.counts = t.counts /\ u.invs = t.invs /\ u.items = t.items
        /\ u.mode = t.mode /\ u.output = t.output
        /\ u.loading = t.loading /\ u.running = t.running /\ u.prompt = t.prompt
    BY <2>1, <2>3 DEF Model
  <2>5. InBounds(t) => InBounds(u)
    BY <2>3, <2>4 DEF InBounds
  <2>6. Shown(t) => Shown(u)
    <3>1. selectedHost(u) = selectedHost(t)
      BY <2>4 DEF selectedHost, Under
    <3>2. ASSUME PlayersShown(t), NEW k \in 1..Len(u.players)
          PROVE  u.players[k].host = selectedHost(u)
      <4>1. PICK i \in 1..Len(t.players) : u.players[k] = t.players[i]
        BY <2>3, <2>4
      <4> QED BY <3>1, <3>2, <4>1 DEF PlayersShown
    <3>3. PlayersShown(t) => PlayersShown(u)
      BY <3>2 DEF PlayersShown
    <3> QED BY <1>2, <2>4, <3>3 DEF Shown
  <2> QED BY <2>4, <2>5, <2>6 DEF u
<1>3. CASE t.level = 4
  <2> DEFINE r == StableSort(t, 4, t.items)
  <2>1. u = [t EXCEPT !.items = r]
    BY <1>3 DEF applySort, levelPlayers, levelItem
  <2>2. \A k \in 1..Len(t.items) : SortKey(t, 4, t.items[k]) \in Int
    <3>1. \A k \in 1..Len(t.items) : t.items[k] \in ItemRow
      BY <1>1
    <3> QED BY ONLY <3>1 DEF SortKey, ItemRow, levelPlayers
  <2>3. /\ r \in Seq(ItemRow) /\ Len(r) = Len(t.items)
        /\ \A k \in 1..Len(t.items) : \E i \in 1..Len(t.items) : r[k] = t.items[i]
    <3>1. /\ 4 \in Tables /\ t.items \in Seq(ItemRow)
          /\ t.sortCol[4] \in 0..1 /\ t.sortDesc[4] \in BOOLEAN
      BY <1>1 DEF Tables, levelPlayers, levelItem
    <3>2. r \in Seq(ItemRow)
      BY ONLY <2>2, <3>1, SortedRows
    <3>3. Len(r) = Len(t.items)
      BY ONLY <2>2, <3>1, SortedRows
    <3>4. RowsFrom(r, t.items)
      BY ONLY <2>2, <3>1, SortedRows
    <3> QED BY <3>2, <3>3, <3>4 DEF RowsFrom
  <2> HIDE DEF r, u
  <2>4. /\ u \in Model /\ u.items = r /\ u.level = t.level /\ u.sel = t.sel
        /\ u.counts = t.counts /\ u.invs = t.invs /\ u.players = t.players
        /\ u.cur = t.cur /\ u.curType = t.curType
        /\ u.mode = t.mode /\ u.output = t.output
        /\ u.loading = t.loading /\ u.running = t.running /\ u.prompt = t.prompt
    BY <2>1, <2>3 DEF Model
  <2>5. InBounds(t) => InBounds(u)
    BY <2>3, <2>4 DEF InBounds
  <2>6. Shown(t) => Shown(u)
    <3>1. /\ selectedHost(u) = selectedHost(t)
          /\ Under(u, u.players, 2) = Under(t, t.players, 2)
          /\ Under(u, u.invs, 3) = Under(t, t.invs, 3)
      BY <2>4 DEF selectedHost, Under
    <3>2. PlayersShown(t) => PlayersShown(u)
      BY <2>4, <3>1 DEF PlayersShown
    <3>3. InvsShown(t) => InvsShown(u)
      BY <2>4, <3>1 DEF InvsShown
    <3>4. ItemsShown(t) => ItemsShown(u)
      <4>1. ASSUME ItemsShown(t), NEW k \in 1..Len(u.items)
            PROVE  /\ u.items[k].host = selectedHost(u)
                   /\ u.items[k].fls = u.cur.fls /\ u.items[k].typ = u.curType
        <5>1. PICK i \in 1..Len(t.items) : u.items[k] = t.items[i]
          BY <2>3, <2>4
        <5> QED BY <2>4, <3>1, <4>1, <5>1 DEF ItemsShown
      <4> QED BY <2>4, <3>1, <4>1 DEF ItemsShown
    <3> QED BY <1>3, <2>4, <3>2, <3>3, <3>4 DEF Shown
  <2> QED BY <2>4, <2>5, <2>6 DEF u
<1>4. CASE t.level \notin {2, 4}
  BY <1>4 DEF applySort, levelPlayers, levelItem
<1> QED BY <1>2, <1>3, <1>4

CursorKey == Move \/ Jump \/ Ascend \/ SortBy

LEMMA StepCursorKey == IInv /\ CursorKey => IInv'
<1> SUFFICES ASSUME IInv, CursorKey PROVE IInv'
  OBVIOUS
<1>1. m \in Model /\ m.level \in 1..4 /\ m.sel \in [1..4 -> Nat] /\ m.counts[m.level] \in Nat
  BY DEF IInv, TypeInv, Model
<1>2. /\ Browsing /\ Press /\ UNCHANGED <<flight, stock, world, target>>
      /\ m.prompt = "none"
      /\ used' \in [sorts : Nat, edits : Nat]
  <2>1. used \in [sorts : Nat, edits : Nat]
    BY DEF IInv, TypeInv
  <2>2. Browsing /\ UNCHANGED <<flight, stock, world, target>>
    BY DEF CursorKey, Move, Jump, Ascend, SortBy, Show
  <2>3. used' = used \/ used' = [used EXCEPT !.sorts = @ + 1]
    BY DEF CursorKey, Move, Jump, Ascend, SortBy, Show
  <2>4. used' \in [sorts : Nat, edits : Nat]
    BY <2>1, <2>3
  <2> QED BY <2>2, <2>4 DEF Browsing
<1>3. /\ m' \in Model /\ InBounds(m') /\ m'.loading = m.loading /\ m'.running = m.running
      /\ m'.prompt = "none"
      /\ careful => Shown(m')
  <2>1. CASE Move
    <3>1. PICK delta \in {-Page, -1, 1, Page} :
            m' = [m EXCEPT !.sel[m.level] = Clamp(m, m.sel[m.level] + delta)]
      BY <2>1 DEF Move, Show
    <3>2. m.sel[m.level] + delta \in Int
      <4>1. Page \in Nat
        BY NavAssumption
      <4> QED BY <1>1, <4>1
    <3>3. /\ Clamp(m, m.sel[m.level] + delta) \in Nat
          /\ AtRow(Clamp(m, m.sel[m.level] + delta), m.counts[m.level])
      BY <1>1, <3>2, ClampRow
    <3> QED BY <1>2, <3>1, <3>3, CursorMoves
  <2>2. CASE Jump
    <3>1. PICK i \in {0, m.counts[m.level] - 1} : m' = [m EXCEPT !.sel[m.level] = Clamp(m, i)]
      BY <2>2 DEF Jump, Show
    <3>2. i \in Int
      BY <1>1
    <3>3. Clamp(m, i) \in Nat /\ AtRow(Clamp(m, i), m.counts[m.level])
      BY <1>1, <3>2, ClampRow
    <3> QED BY <1>2, <3>1, <3>3, CursorMoves
  <2>3. CASE Ascend
    <3>1. m' = [m EXCEPT !.level = @ - 1] /\ m.level > 1
      BY <2>3 DEF Ascend, Show, levelHosts
    <3>2. m.level - 1 \in 1..4 /\ m.level - 1 <= m.level
      BY <1>1, <3>1
    <3>3. /\ m' \in Model /\ m'.level = m.level - 1 /\ m'.sel = m.sel /\ m'.counts = m.counts
          /\ m'.players = m.players /\ m'.invs = m.invs /\ m'.items = m.items
          /\ m'.cur = m.cur /\ m'.curType = m.curType /\ m'.prompt = m.prompt
          /\ m'.loading = m.loading /\ m'.running = m.running
      BY <1>1, <3>1, <3>2 DEF Model
    <3>4. InBounds(m')
      BY <3>3 DEF IInv, InBounds
    <3>5. careful => Shown(m')
      BY <1>1, <3>2, <3>3, StillShown DEF IInv, CalmInv
    <3> QED BY <1>2, <3>3, <3>4, <3>5
  <2>4. CASE SortBy
    <3> DEFINE l == m.level
    <3>1. PICK t \in {[m EXCEPT !.sortCol[l] = 1 - @, !.sel[l] = 0],
                      [m EXCEPT !.sortDesc[l] = ~@, !.sel[l] = 0]} : m' = applySort(t)
      BY <2>4 DEF SortBy
    <3>2. /\ t \in Model /\ t.level = l /\ t.counts = m.counts
          /\ t.players = m.players /\ t.invs = m.invs /\ t.items = m.items
          /\ t.cur = m.cur /\ t.curType = m.curType /\ t.prompt = m.prompt
          /\ t.loading = m.loading /\ t.running = m.running
          /\ t.sel = [m.sel EXCEPT ![l] = 0]
      <4>1. /\ m.sortCol \in [1..4 -> 0..1] /\ m.sortCol[l] \in 0..1
            /\ m.sortDesc \in [1..4 -> BOOLEAN]
        BY <1>1 DEF Model
      <4>2. 1 - m.sortCol[l] \in 0..1
        BY <4>1
      <4>3. /\ [m.sortCol EXCEPT ![l] = 1 - @] \in [1..4 -> 0..1]
            /\ [m.sortDesc EXCEPT ![l] = ~@] \in [1..4 -> BOOLEAN]
            /\ [m.sel EXCEPT ![l] = 0] \in [1..4 -> Nat]
        BY <1>1, <4>1, <4>2
      <4>4. CASE t = [m EXCEPT !.sortCol[l] = 1 - @, !.sel[l] = 0]
        BY <1>1, <4>3, <4>4 DEF Model
      <4>5. CASE t = [m EXCEPT !.sortDesc[l] = ~@, !.sel[l] = 0]
        BY <1>1, <4>3, <4>5 DEF Model
      <4> QED BY <3>1, <4>4, <4>5
    <3>3. \A k \in 1..4 : t.sel[k] = IF k = l THEN 0 ELSE m.sel[k]
      BY <1>1, <3>2
    <3>4. InBounds(t)
      <4>1. InBounds(m)
        BY DEF IInv
      <4> QED BY <3>2, <3>3, <4>1 DEF InBounds, AtRow
    <3>5. careful => Shown(t)
      <4>1. t.level <= m.level
        BY <1>1, <3>2
      <4>2. \A k \in 1..4 : k < t.level => t.sel[k] = m.sel[k]
        BY <1>1, <3>2, <3>3
      <4> QED BY <1>1, <3>2, <4>1, <4>2, StillShown DEF IInv, CalmInv
    <3> QED BY <1>2, <3>1, <3>2, <3>4, <3>5, SortKeeps
  <2> QED BY <2>1, <2>2, <2>3, <2>4 DEF CursorKey
<1>4. target' \in ItemRow \cup {None}
  BY <1>2 DEF IInv, TypeInv
<1>5. PromptInv(m', target')
  BY <1>3 DEF PromptInv
<1> QED BY <1>2, <1>3, <1>4, <1>5, KeyKeeps

-------------------------------------------------------------------------------
(* Keys that send a task.                                                    *)

LEMMA HostFacts ==
  ASSUME NEW s \in Model, InBounds(s)
  PROVE  selectedHost(s) \in HostSet
<1>1. s.sel[1] \in Nat /\ Len(Hosts) \in Nat /\ Len(Hosts) > 0 /\ s.sel[1] < Len(Hosts)
  <2>1. Len(Hosts) \in Nat /\ Len(Hosts) > 0
    BY NavAssumption
  <2>2. s.sel[1] \in Nat /\ (s.sel[1] = 0 \/ s.sel[1] < Len(Hosts))
    BY DEF Model, InBounds, AtRow
  <2> QED BY <2>1, <2>2
<1>2. Hosts[s.sel[1] + 1] \in HostSet
  BY <1>1 DEF HostSet
<1> QED BY <1>2 DEF selectedHost, Under, levelHosts

LEMMA Sent ==
  ASSUME NEW T, NEW q \in Seq(T), NEW t \in T
  PROVE  /\ Append(q, t) \in Seq(T) /\ Len(q) \in Nat /\ Len(Append(q, t)) = Len(q) + 1
         /\ \A i \in 1..Len(q) : i \in 1..(Len(q) + 1) /\ Append(q, t)[i] = q[i]
         /\ Append(q, t)[Len(q) + 1] = t
OBVIOUS

LEMMA KeySends ==
  ASSUME IInv, Press, UNCHANGED <<stock, world>>,
         used' \in [sorts : Nat, edits : Nat], target' \in ItemRow \cup {None},
         m' \in Model, InBounds(m'),
         NEW t \in Tasks, RowsOf(t), flight' = Append(flight, t),
         \/ t.kind \in LoadKinds /\ m'.loading = TRUE /\ m'.running = m.running
         \/ t.kind \notin LoadKinds /\ m'.running = TRUE /\ m'.loading = m.loading,
         careful => Shown(m') /\ TaskOf(m', t) /\ m'.mode = "nav" /\ m'.prompt = "none"
  PROVE  IInv'
<1> DEFINE n == Len(flight)
<1>1. /\ flight' \in Seq(Tasks) /\ n \in Nat /\ Len(flight') = n + 1
      /\ \A i \in 1..n : i \in 1..(n + 1) /\ flight'[i] = flight[i]
      /\ flight'[n + 1] = t
  <2>1. flight \in Seq(Tasks)
    BY DEF IInv, TypeInv
  <2> QED BY <2>1, Sent
<1>2. TypeInv'
  <2>1. StockInv' /\ world' \in Worlds
    BY DEF IInv, TypeInv, StockInv, Place
  <2>2. stock' \in [HostSet -> UNION {[DOMAIN Place'[h] -> Nat \cup {None}] : h \in HostSet}]
    BY DEF IInv, TypeInv, Place
  <2>3. \A i \in 1..Len(flight') : RowsOf(flight'[i])
    <3>1. \A i \in 1..n : RowsOf(flight[i])
      BY DEF IInv, TypeInv
    <3>2. \A i \in 1..(n + 1) : i \in 1..n \/ i = n + 1
      BY <1>1
    <3> QED BY <1>1, <3>1, <3>2
  <2> QED BY <1>1, <2>1, <2>2, <2>3 DEF TypeInv
<1>3. BusyInv'
  <2>1. BusyInv
    BY DEF IInv
  <2>2. /\ m.loading => \E i \in 1..(n + 1) : flight'[i].kind \in LoadKinds
        /\ m.running => \E i \in 1..(n + 1) : flight'[i].kind \notin LoadKinds
    BY <1>1, <2>1 DEF BusyInv
  <2>3. n + 1 \in 1..(n + 1)
    BY <1>1
  <2>4. /\ t.kind \in LoadKinds => \E i \in 1..(n + 1) : flight'[i].kind \in LoadKinds
        /\ t.kind \notin LoadKinds => \E i \in 1..(n + 1) : flight'[i].kind \notin LoadKinds
    BY <1>1, <2>3
  <2> QED BY <1>1, <2>2, <2>4 DEF BusyInv
<1>4. CalmInv'
  <2>1. careful' = careful
    BY DEF careful
  <2>2. careful => flight = <<>> /\ ~m.loading /\ ~m.running
    BY PressedIdle
  <2>3. careful => n = 0 /\ Len(flight') = 1 /\ flight'[1] = t /\ flight' # <<>>
    BY <1>1, <2>2
  <2> HIDE DEF n
  <2>4. careful => PromptInv(m', target')
    BY DEF PromptInv
  <2>5. careful => (m'.loading <=> t.kind \in LoadKinds) /\ (m'.running <=> t.kind \notin LoadKinds)
    BY <2>2
  <2> QED BY <2>1, <2>3, <2>4, <2>5 DEF CalmInv
<1> QED BY <1>2, <1>3, <1>4 DEF IInv

LEMMA SetAt ==
  ASSUME NEW f \in [1..4 -> Nat], NEW l \in 1..4, NEW v \in Nat
  PROVE  /\ [f EXCEPT ![l] = v] \in [1..4 -> Nat]
         /\ \A k \in 1..4 : [f EXCEPT ![l] = v][k] = IF k = l THEN v ELSE f[k]
OBVIOUS

LEMMA StepDescendHosts == IInv /\ DescendHosts => IInv'
<1> SUFFICES ASSUME IInv, DescendHosts PROVE IInv'
  OBVIOUS
<1> DEFINE s == [m EXCEPT !.level = levelPlayers, !.sel[levelPlayers] = 0,
                          !.players = <<>>, !.counts[levelPlayers] = 0, !.loading = TRUE]
           t == loadPlayers(s)
<1>1. /\ Press /\ m.mode = "nav" /\ m.prompt = "none" /\ m' = s /\ flight' = Append(flight, t)
      /\ target' = None /\ UNCHANGED <<stock, world, used>>
  BY DEF DescendHosts, Browsing, SendLoad, Send
<1>2. m \in Model /\ InBounds(m) /\ used \in [sorts : Nat, edits : Nat]
  BY DEF IInv, TypeInv
<1>3. /\ s \in Model /\ s.level = 2 /\ s.players = <<>> /\ s.invs = m.invs /\ s.items = m.items
      /\ s.sel = [m.sel EXCEPT ![2] = 0] /\ s.counts = [m.counts EXCEPT ![2] = 0]
      /\ s.mode = m.mode /\ s.prompt = m.prompt /\ s.loading = TRUE /\ s.running = m.running
  <2> DEFINE sel0 == [m.sel EXCEPT ![2] = 0]
             counts0 == [m.counts EXCEPT ![2] = 0]
  <2>1. sel0 \in [1..4 -> Nat] /\ counts0 \in [1..4 -> Nat]
    <3>1. m.sel \in [1..4 -> Nat] /\ m.counts \in [1..4 -> Nat]
      BY <1>2 DEF Model
    <3> QED BY <3>1, SetAt
  <2>2. s = [m EXCEPT !.level = 2,
                      !.sel = sel0, !.players = <<>>,
                      !.counts = counts0, !.loading = TRUE]
    BY <1>2 DEF Model, levelPlayers
  <2> HIDE DEF s, sel0, counts0
  <2>3. 2 \in 1..4 /\ <<>> \in Seq(PlayerRow)
    OBVIOUS
  <2>4. /\ s \in Model /\ s.sel = sel0 /\ s.counts = counts0
        /\ s.level = 2
    BY ONLY <1>2, <2>1, <2>2, <2>3 DEF Model
  <2> QED BY ONLY <1>2, <2>2, <2>4 DEF Model, sel0, counts0
<1> HIDE DEF s
<1>4. /\ s.sel[1] = m.sel[1] /\ s.sel[2] = 0 /\ s.sel[3] = m.sel[3] /\ s.sel[4] = m.sel[4]
      /\ s.counts[1] = m.counts[1] /\ s.counts[2] = 0
      /\ s.counts[3] = m.counts[3] /\ s.counts[4] = m.counts[4]
  <2>1. m.sel \in [1..4 -> Nat] /\ m.counts \in [1..4 -> Nat]
    BY <1>2 DEF Model
  <2>2. 1 \in 1..4 /\ 2 \in 1..4 /\ 3 \in 1..4 /\ 4 \in 1..4 /\ 0 \in Nat
    OBVIOUS
  <2>3. \A k \in 1..4 : [m.sel EXCEPT ![2] = 0][k] = IF k = 2 THEN 0 ELSE m.sel[k]
    BY ONLY <2>1, <2>2, SetAt
  <2>4. \A k \in 1..4 : [m.counts EXCEPT ![2] = 0][k] = IF k = 2 THEN 0 ELSE m.counts[k]
    BY ONLY <2>1, <2>2, SetAt
  <2> QED BY <1>3, <2>2, <2>3, <2>4
<1>5. InBounds(s)
  BY <1>2, <1>3, <1>4 DEF InBounds, AtRow
<1>6. selectedHost(s) \in HostSet
  BY <1>3, <1>5, HostFacts
<1>7. t \in Tasks /\ RowsOf(t) /\ TaskOf(s, t) /\ t.kind = "players"
  BY <1>3, <1>6 DEF loadPlayers, Load, Tasks, PlayerLoads, RowsOf, TaskOf
<1>8. Shown(s)
  BY <1>3 DEF Shown, PlayersShown
<1>9. t.kind \in LoadKinds
  BY <1>7 DEF LoadKinds
<1> HIDE DEF t
<1> QED BY <1>1, <1>2, <1>3, <1>5, <1>7, <1>8, <1>9, KeySends

LEMMA StepDescendPlayers == IInv /\ DescendPlayers => IInv'
<1> SUFFICES ASSUME IInv, DescendPlayers PROVE IInv'
  OBVIOUS
<1> DEFINE s == [m EXCEPT !.level = levelInventory, !.sel[levelInventory] = 0,
                          !.invs = <<>>, !.counts[levelInventory] = 0, !.loading = TRUE]
           t == loadInvs(s)
<1>1. /\ Press /\ m.mode = "nav" /\ m.prompt = "none" /\ m' = s /\ flight' = Append(flight, t)
      /\ m.level = 2 /\ m.sel[2] < Len(m.players)
      /\ target' = None /\ UNCHANGED <<stock, world, used>>
  BY DEF DescendPlayers, Browsing, SendLoad, Send, levelPlayers
<1>2. m \in Model /\ InBounds(m) /\ used \in [sorts : Nat, edits : Nat]
  BY DEF IInv, TypeInv
<1>3. /\ s \in Model /\ s.level = 3 /\ s.players = m.players /\ s.invs = <<>> /\ s.items = m.items
      /\ s.sel = [m.sel EXCEPT ![3] = 0] /\ s.counts = [m.counts EXCEPT ![3] = 0]
      /\ s.mode = m.mode /\ s.prompt = m.prompt /\ s.loading = TRUE /\ s.running = m.running
  <2> DEFINE sel0 == [m.sel EXCEPT ![3] = 0]
             counts0 == [m.counts EXCEPT ![3] = 0]
  <2>1. sel0 \in [1..4 -> Nat] /\ counts0 \in [1..4 -> Nat]
    <3>1. m.sel \in [1..4 -> Nat] /\ m.counts \in [1..4 -> Nat]
      BY <1>2 DEF Model
    <3> QED BY <3>1, SetAt
  <2>2. s = [m EXCEPT !.level = 3,
                      !.sel = sel0, !.invs = <<>>,
                      !.counts = counts0, !.loading = TRUE]
    BY <1>2 DEF Model, levelInventory
  <2> HIDE DEF s, sel0, counts0
  <2>3. 3 \in 1..4 /\ <<>> \in Seq(InvRow)
    OBVIOUS
  <2>4. /\ s \in Model /\ s.sel = sel0 /\ s.counts = counts0
        /\ s.level = 3
    BY ONLY <1>2, <2>1, <2>2, <2>3 DEF Model
  <2> QED BY ONLY <1>2, <2>2, <2>4 DEF Model, sel0, counts0
<1> HIDE DEF s
<1>4. /\ s.sel[1] = m.sel[1] /\ s.sel[2] = m.sel[2] /\ s.sel[3] = 0 /\ s.sel[4] = m.sel[4]
      /\ s.counts[1] = m.counts[1] /\ s.counts[2] = m.counts[2]
      /\ s.counts[3] = 0 /\ s.counts[4] = m.counts[4]
  <2>1. m.sel \in [1..4 -> Nat] /\ m.counts \in [1..4 -> Nat]
    BY <1>2 DEF Model
  <2>2. 1 \in 1..4 /\ 2 \in 1..4 /\ 3 \in 1..4 /\ 4 \in 1..4 /\ 0 \in Nat
    OBVIOUS
  <2>3. \A k \in 1..4 : [m.sel EXCEPT ![3] = 0][k] = IF k = 3 THEN 0 ELSE m.sel[k]
    BY ONLY <2>1, <2>2, SetAt
  <2>4. \A k \in 1..4 : [m.counts EXCEPT ![3] = 0][k] = IF k = 3 THEN 0 ELSE m.counts[k]
    BY ONLY <2>1, <2>2, SetAt
  <2> QED BY <1>3, <2>2, <2>3, <2>4
<1>5. InBounds(s)
  BY <1>2, <1>3, <1>4 DEF InBounds, AtRow
<1>6. selectedHost(s) \in HostSet /\ selectedHost(s) = selectedHost(m)
  BY <1>3, <1>4, <1>5, HostFacts DEF selectedHost, Under, levelHosts
<1>7. Under(s, s.players, 2) \in PlayerRow
  <2>1. s.players \in Seq(PlayerRow) /\ s.sel[2] < Len(s.players)
    BY <1>1, <1>3, <1>4 DEF Model
  <2>2. s \in Model /\ 2 \in 1..4
    BY <1>3
  <2> QED BY ONLY <2>1, <2>2, UnderRow
<1>8. t \in Tasks /\ RowsOf(t) /\ TaskOf(s, t) /\ t.kind = "invs"
  <2>1. t = [kind |-> "invs", host |-> selectedHost(s), fls |-> Under(s, s.players, 2).fls,
             typ |-> None, done |-> FALSE, ok |-> FALSE, rows |-> <<>>]
    BY DEF loadInvs, Load, levelPlayers
  <2>2. t \in InvLoads
    BY <1>6, <1>7, <2>1 DEF InvLoads, PlayerRow
  <2> HIDE DEF t
  <2> QED BY <1>3, <2>1, <2>2 DEF Tasks, RowsOf, TaskOf
<1>9. careful => Shown(s)
  <2>1. careful => PlayersShown(m)
    BY <1>1 DEF IInv, CalmInv, Shown
  <2>2. PlayersShown(m) => PlayersShown(s)
    BY <1>3, <1>6 DEF PlayersShown
  <2>3. InvsShown(s)
    BY <1>1, <1>3, <1>4 DEF InvsShown
  <2> QED BY <1>3, <2>1, <2>2, <2>3 DEF Shown
<1>10. t.kind \in LoadKinds
  BY <1>8 DEF LoadKinds
<1> HIDE DEF t
<1> QED BY <1>1, <1>2, <1>3, <1>5, <1>8, <1>9, <1>10, KeySends

LEMMA StepDescendInventory == IInv /\ DescendInventory => IInv'
<1> SUFFICES ASSUME IInv, DescendInventory PROVE IInv'
  OBVIOUS
<1> DEFINE s == [m EXCEPT !.curType = Under(m, m.invs, levelInventory).typ,
                          !.level = levelItem, !.sel[levelItem] = 0,
                          !.items = <<>>, !.counts[levelItem] = 0, !.loading = TRUE]
           t == loadItems(s)
<1>1. /\ Press /\ m.mode = "nav" /\ m.prompt = "none" /\ m' = s /\ flight' = Append(flight, t)
      /\ m.level = 3 /\ m.sel[3] < Len(m.invs)
      /\ target' = None /\ UNCHANGED <<stock, world, used>>
  BY DEF DescendInventory, Browsing, SendLoad, Send, levelInventory
<1>2. m \in Model /\ InBounds(m) /\ used \in [sorts : Nat, edits : Nat]
  BY DEF IInv, TypeInv
<1>3. m.invs \in Seq(InvRow) /\ Under(m, m.invs, 3) \in InvRow
  <2>1. m.invs \in Seq(InvRow)
    BY <1>2 DEF Model
  <2> QED BY <1>1, <1>2, <2>1, UnderRow
<1>4. Under(m, m.invs, 3).typ \in Kinds
  BY <1>3 DEF InvRow, Kinds
<1>5. /\ s \in Model /\ s.level = 4 /\ s.players = m.players /\ s.invs = m.invs /\ s.items = <<>>
      /\ s.cur = m.cur /\ s.curType = Under(m, m.invs, 3).typ
      /\ s.sel = [m.sel EXCEPT ![4] = 0] /\ s.counts = [m.counts EXCEPT ![4] = 0]
      /\ s.mode = m.mode /\ s.prompt = m.prompt /\ s.loading = TRUE /\ s.running = m.running
  <2> DEFINE sel0 == [m.sel EXCEPT ![4] = 0]
             counts0 == [m.counts EXCEPT ![4] = 0]
  <2>1. sel0 \in [1..4 -> Nat] /\ counts0 \in [1..4 -> Nat]
    <3>1. m.sel \in [1..4 -> Nat] /\ m.counts \in [1..4 -> Nat]
      BY <1>2 DEF Model
    <3> QED BY <3>1, SetAt
  <2>2. s = [m EXCEPT !.curType = Under(m, m.invs, 3).typ, !.level = 4,
                      !.sel = sel0, !.items = <<>>,
                      !.counts = counts0, !.loading = TRUE]
    BY <1>2 DEF Model, levelInventory, levelItem
  <2> HIDE DEF s, sel0, counts0
  <2>3. 4 \in 1..4 /\ <<>> \in Seq(ItemRow)
    OBVIOUS
  <2>4. /\ s \in Model /\ s.sel = sel0 /\ s.counts = counts0
        /\ s.level = 4
    BY ONLY <1>2, <1>4, <2>1, <2>2, <2>3 DEF Model
  <2> QED BY ONLY <1>2, <2>2, <2>4 DEF Model, sel0, counts0
<1> HIDE DEF s
<1>6. /\ s.sel[1] = m.sel[1] /\ s.sel[2] = m.sel[2] /\ s.sel[3] = m.sel[3] /\ s.sel[4] = 0
      /\ s.counts[1] = m.counts[1] /\ s.counts[2] = m.counts[2]
      /\ s.counts[3] = m.counts[3] /\ s.counts[4] = 0
  <2>1. m.sel \in [1..4 -> Nat] /\ m.counts \in [1..4 -> Nat]
    BY <1>2 DEF Model
  <2>2. 1 \in 1..4 /\ 2 \in 1..4 /\ 3 \in 1..4 /\ 4 \in 1..4 /\ 0 \in Nat
    OBVIOUS
  <2>3. \A k \in 1..4 : [m.sel EXCEPT ![4] = 0][k] = IF k = 4 THEN 0 ELSE m.sel[k]
    BY ONLY <2>1, <2>2, SetAt
  <2>4. \A k \in 1..4 : [m.counts EXCEPT ![4] = 0][k] = IF k = 4 THEN 0 ELSE m.counts[k]
    BY ONLY <2>1, <2>2, SetAt
  <2> QED BY <1>5, <2>2, <2>3, <2>4
<1>7. InBounds(s)
  BY <1>2, <1>5, <1>6 DEF InBounds, AtRow
<1>8. selectedHost(s) \in HostSet /\ selectedHost(s) = selectedHost(m)
  BY <1>5, <1>6, <1>7, HostFacts DEF selectedHost, Under, levelHosts
<1>9. /\ Under(s, s.players, 2) = Under(m, m.players, 2)
      /\ Under(s, s.invs, 3) = Under(m, m.invs, 3)
  BY <1>5, <1>6 DEF Under
<1>10. t \in Tasks /\ RowsOf(t) /\ TaskOf(s, t) /\ t.kind = "items"
  <2>1. t = [kind |-> "items", host |-> selectedHost(s), fls |-> s.cur.fls,
             typ |-> s.curType, done |-> FALSE, ok |-> FALSE, rows |-> <<>>]
    BY DEF loadItems, Load
  <2>2. s.cur.fls \in Characters \cup {None} /\ s.curType \in Kinds
    BY <1>5 DEF Model, Who
  <2>3. t \in ItemLoads
    BY <1>8, <2>1, <2>2 DEF ItemLoads
  <2> HIDE DEF t
  <2> QED BY <1>5, <2>1, <2>3 DEF Tasks, RowsOf, TaskOf
<1>11. careful => Shown(s)
  <2>1. careful => PlayersShown(m) /\ InvsShown(m)
    BY <1>1 DEF IInv, CalmInv, Shown
  <2>2. PlayersShown(m) => PlayersShown(s)
    BY <1>5, <1>8 DEF PlayersShown
  <2>3. InvsShown(m) => InvsShown(s)
    BY <1>5, <1>6, <1>8, <1>9 DEF InvsShown
  <2>4. ItemsShown(s)
    BY <1>1, <1>5, <1>6, <1>9 DEF ItemsShown
  <2> QED BY <1>5, <2>1, <2>2, <2>3, <2>4 DEF Shown
<1>12. t.kind \in LoadKinds
  BY <1>10 DEF LoadKinds
<1> HIDE DEF t
<1> QED BY <1>1, <1>2, <1>5, <1>7, <1>10, <1>11, <1>12, KeySends

(* An edit of the row under the cursor.                                      *)
LEMMA EditSends ==
  ASSUME IInv, Press, m.mode = "nav", NEW id \in Nat, NEW qty \in Nat \cup {None},
         NEW row \in ItemRow \cup {None}, NEW s,
         SendEdit(s, Edit(m, id, qty, row)),
         s \in Model, SameView(m, s), s.loading = m.loading, s.running = TRUE,
         s.mode = m.mode, careful => s.prompt = "none",
         careful => OnItem /\ row = Under(m, m.items, 4) /\ id = row.id
  PROVE  IInv'
<1> DEFINE t == Edit(m, id, qty, row)
<1>1. /\ m' = s /\ flight' = Append(flight, t) /\ target' = None /\ UNCHANGED <<stock, world>>
      /\ used' = [used EXCEPT !.edits = @ + 1]
  BY DEF SendEdit, Send
<1>2. m \in Model /\ InBounds(m) /\ used \in [sorts : Nat, edits : Nat]
  BY DEF IInv, TypeInv
<1>3. used' \in [sorts : Nat, edits : Nat]
  BY ONLY <1>1, <1>2
<1>4. selectedHost(m) \in HostSet
  BY <1>2, HostFacts
<1>5. t = [kind |-> "edit", host |-> selectedHost(m), id |-> id, qty |-> qty, row |-> row,
           done |-> FALSE, ok |-> FALSE]
  BY DEF Edit
<1> HIDE DEF t
<1>6. t \in Tasks /\ RowsOf(t) /\ t.kind = "edit" /\ t.kind \notin LoadKinds
  BY <1>4, <1>5 DEF Tasks, Edits, RowsOf, LoadKinds
<1>7. careful => TaskOf(s, t)
  <2>1. SUFFICES ASSUME careful PROVE TaskOf(s, t)
    OBVIOUS
  <2>2. /\ m.level = 4 /\ m.sel[4] + 1 \in 1..Len(m.items)
        /\ row = m.items[m.sel[4] + 1]
    BY <2>1, ItemUnderCursor
  <2>3. ItemsShown(m)
    BY <2>1, <2>2 DEF IInv, CalmInv, Shown
  <2>4. row.host = selectedHost(m)
    BY <2>2, <2>3 DEF ItemsShown
  <2> QED BY <1>5, <2>1, <2>2, <2>4 DEF TaskOf, SameView
<1>8. InBounds(s) /\ (careful => Shown(s))
  BY <1>2, SameViewKeeps DEF IInv, CalmInv
<1> QED BY <1>1, <1>3, <1>6, <1>7, <1>8, KeySends

LEMMA StepStepStack == IInv /\ StepStack => IInv'
<1> SUFFICES ASSUME IInv, StepStack PROVE IInv'
  OBVIOUS
<1> DEFINE row == Under(m, m.items, levelItem)
           s == [m EXCEPT !.running = TRUE]
<1>1. /\ Press /\ m.mode = "nav" /\ m.prompt = "none" /\ OnItem
      /\ \/ SendEdit(s, Edit(m, row.id, row.qty + 1, row))
         \/ SendEdit(s, Edit(m, row.id, IF row.qty = 0 THEN 0 ELSE row.qty - 1, row))
  BY DEF StepStack, Browsing
<1>2. row = Under(m, m.items, 4) /\ row \in ItemRow
  BY <1>1, ItemUnderCursor DEF levelItem
<1>3. m \in Model
  BY DEF IInv, TypeInv
<1>4. /\ s \in Model /\ SameView(m, s) /\ s.loading = m.loading /\ s.running = TRUE
      /\ s.mode = m.mode /\ s.prompt = m.prompt
  BY <1>3 DEF Model, SameView
<1> HIDE DEF row, s
<1>5. row.id \in Nat /\ row.qty \in Nat
  BY <1>2 DEF ItemRow
<1>6. row.qty + 1 \in Nat /\ (IF row.qty = 0 THEN 0 ELSE row.qty - 1) \in Nat
  BY ONLY <1>5
<1>7. CASE SendEdit(s, Edit(m, row.id, row.qty + 1, row))
  BY <1>1, <1>2, <1>4, <1>5, <1>6, <1>7, EditSends
<1>8. CASE SendEdit(s, Edit(m, row.id, IF row.qty = 0 THEN 0 ELSE row.qty - 1, row))
  <2> DEFINE q == IF row.qty = 0 THEN 0 ELSE row.qty - 1
  <2>1. q \in Nat \cup {None} /\ SendEdit(s, Edit(m, row.id, q, row))
    BY <1>6, <1>8
  <2> HIDE DEF q
  <2> QED BY <1>1, <1>2, <1>4, <1>5, <2>1, EditSends
<1> QED BY <1>1, <1>7, <1>8

(* Enter in the inline input, y at the question.                             *)
LEMMA StepPrompted == IInv /\ (ConfirmDelete \/ EnterStack) => IInv'
<1> SUFFICES ASSUME IInv, ConfirmDelete \/ EnterStack PROVE IInv'
  OBVIOUS
<1> DEFINE s == [m EXCEPT !.prompt = "none", !.running = TRUE]
<1>1. /\ Press /\ m.mode = "nav" /\ m.prompt \in {"edit", "delete"}
      /\ \E q \in Nat \cup {None} : SendEdit(s, Edit(m, selectedItemID(m), q, target))
  <2>1. CASE ConfirmDelete
    BY <2>1 DEF ConfirmDelete, Prompted
  <2>2. CASE EnterStack
    BY <2>2 DEF EnterStack, Prompted
  <2> QED BY <2>1, <2>2
<1>2. m \in Model /\ InBounds(m) /\ target \in ItemRow \cup {None}
  BY DEF IInv, TypeInv
<1>3. /\ s \in Model /\ SameView(m, s) /\ s.loading = m.loading /\ s.running = TRUE
      /\ s.mode = m.mode /\ s.prompt = "none"
  BY <1>2 DEF Model, SameView
<1> HIDE DEF s
<1>4. selectedItemID(m) \in Nat
  <2>1. CASE m.level = 4 /\ m.sel[4] < Len(m.items)
    <3>1. m.items \in Seq(ItemRow)
      BY <1>2 DEF Model
    <3>2. Under(m, m.items, 4) \in ItemRow
      BY <1>2, <2>1, <3>1, UnderRow
    <3> QED BY <2>1, <3>2 DEF selectedItemID, levelItem, ItemRow
  <2>2. CASE ~(m.level = 4 /\ m.sel[4] < Len(m.items))
    BY <2>2 DEF selectedItemID, levelItem
  <2> QED BY <2>1, <2>2
<1>5. careful => OnItem /\ target = Under(m, m.items, 4) /\ selectedItemID(m) = target.id
  <2>1. SUFFICES ASSUME careful
                 PROVE  OnItem /\ target = Under(m, m.items, 4) /\ selectedItemID(m) = target.id
    OBVIOUS
  <2>2. m.level = 4 /\ m.items # <<>> /\ target = Under(m, m.items, 4)
    BY <1>1, <2>1 DEF IInv, CalmInv, PromptInv
  <2>3. OnItem
    <3>1. m.items \in Seq(ItemRow)
      BY <1>2 DEF Model
    <3> QED BY <2>2, <3>1 DEF OnItem, levelItem
  <2>4. m.sel[4] < Len(m.items)
    BY <2>3, ItemUnderCursor
  <2> QED BY <2>2, <2>3, <2>4 DEF selectedItemID, levelItem
<1> QED BY <1>1, <1>2, <1>3, <1>4, <1>5, EditSends

LEMMA StepEnterCommand == IInv /\ EnterCommand => IInv'
<1> SUFFICES ASSUME IInv, EnterCommand PROVE IInv'
  OBVIOUS
<1>1. /\ m \in Model /\ InBounds(m) /\ used \in [sorts : Nat, edits : Nat]
      /\ target \in ItemRow \cup {None}
  BY DEF IInv, TypeInv
<1>2. Press /\ m.mode = "cmd" /\ UNCHANGED <<stock, target, world, used>>
  BY DEF EnterCommand, Typing, Show
<1>3. NoPlayer \in Who
  BY DEF NoPlayer, Who
<1>4. careful => m.prompt = "none" /\ Shown(m)
  <2>1. m.mode # "nav"
    BY <1>2
  <2> QED BY <1>1, <2>1 DEF IInv, CalmInv, PromptInv
<1>5. CASE Show([m EXCEPT !.mode = "nav", !.draft = NoPlayer, !.output = TRUE])
  <2>1. m' = [m EXCEPT !.mode = "nav", !.draft = NoPlayer, !.output = TRUE] /\ flight' = flight
    BY <1>5 DEF Show
  <2>2. /\ m' \in Model /\ SameView(m, m') /\ m'.loading = m.loading /\ m'.running = m.running
        /\ m'.prompt = m.prompt
    BY <1>1, <1>3, <2>1 DEF Model, SameView
  <2>3. InBounds(m') /\ (careful => Shown(m') /\ PromptInv(m', target'))
    BY <1>1, <1>4, <2>2, SameViewKeeps DEF PromptInv
  <2> QED BY <1>1, <1>2, <2>1, <2>2, <2>3, KeyKeeps
<1>6. CASE /\ m' = [m EXCEPT !.mode = "nav", !.draft = NoPlayer, !.running = TRUE]
           /\ flight' = Append(flight, Command)
  <2>1. /\ m' \in Model /\ SameView(m, m') /\ m'.loading = m.loading /\ m'.running = TRUE
        /\ m'.prompt = m.prompt /\ m'.mode = "nav"
    BY <1>1, <1>3, <1>6 DEF Model, SameView
  <2>2. InBounds(m') /\ (careful => Shown(m'))
    BY <1>1, <1>4, <2>1, SameViewKeeps
  <2>3. /\ Command \in Tasks /\ RowsOf(Command) /\ TaskOf(m', Command)
        /\ Command.kind \notin LoadKinds
    BY DEF Tasks, Command, RowsOf, TaskOf, LoadKinds
  <2> QED BY <1>1, <1>2, <1>4, <1>6, <2>1, <2>2, <2>3, KeySends
<1> QED BY <1>5, <1>6 DEF EnterCommand

LEMMA StepKey == IInv /\ Key => IInv'
BY StepBarKey, StepCursorKey, StepDescendHosts, StepDescendPlayers, StepDescendInventory,
   StepStepStack, StepPrompted, StepEnterCommand DEF Key, BarKey, CursorKey

-------------------------------------------------------------------------------
(* What runs on a goroutine.                                                 *)

LEMMA KindTells ==
  ASSUME NEW t \in Tasks
  PROVE  /\ t.kind = "players" => t \in PlayerLoads
         /\ t.kind = "invs" => t \in InvLoads
         /\ t.kind = "items" => t \in ItemLoads
         /\ t.kind = "edit" => t \in Edits
BY DEF Tasks, PlayerLoads, InvLoads, ItemLoads, Edits, Command

(* One task in flight makes progress.                                        *)
LEMMA TaskMarks ==
  ASSUME IInv, NEW i \in DOMAIN flight, UNCHANGED <<m, world, target, used>>,
         StockInv',
         stock' \in [HostSet -> UNION {[DOMAIN Place'[h] -> Nat \cup {None}] : h \in HostSet}],
         NEW t \in Tasks, RowsOf(t), t.kind = flight[i].kind,
         TaskOf(m, flight[i]) => TaskOf(m, t),
         flight' = [flight EXCEPT ![i] = t]
  PROVE  IInv'
<1> DEFINE n == Len(flight)
<1>1. /\ n \in Nat /\ DOMAIN flight = 1..n /\ flight \in Seq(Tasks)
      /\ \A j \in 1..n : RowsOf(flight[j])
  BY DEF IInv, TypeInv
<1>2. /\ flight' \in Seq(Tasks) /\ Len(flight') = n
      /\ \A j \in 1..n : flight'[j] = IF j = i THEN t ELSE flight[j]
  BY <1>1
<1> HIDE DEF n
<1>3. TypeInv'
  <2>1. \A j \in 1..n : RowsOf(flight'[j])
    BY <1>1, <1>2
  <2> QED BY <1>2, <2>1 DEF IInv, TypeInv
<1>4. \A j \in 1..n : flight'[j].kind = flight[j].kind
  BY <1>1, <1>2
<1>5. BusyInv'
  BY <1>2, <1>4 DEF IInv, BusyInv, n
<1>6. CalmInv'
  <2>1. careful' = careful
    BY DEF careful
  <2>2. flight # <<>> <=> flight' # <<>>
    BY <1>1, <1>2 DEF n
  <2>3. n <= 1 => n = 1 /\ i = 1
    BY <1>1
  <2>4. careful => TaskOf(m, t)
    BY <1>1, <2>3 DEF IInv, CalmInv, n
  <2>5. n <= 1 => flight'[1] = t /\ flight[1] = flight[i]
    BY <1>1, <1>2, <2>3
  <2> QED BY <1>1, <1>2, <2>1, <2>2, <2>4, <2>5 DEF IInv, CalmInv, n
<1> QED BY <1>3, <1>5, <1>6 DEF IInv, InBounds

LEMMA StockStays ==
  ASSUME IInv, UNCHANGED <<stock, world>>
  PROVE  /\ StockInv'
         /\ stock' \in [HostSet -> UNION {[DOMAIN Place'[h] -> Nat \cup {None}] : h \in HostSet}]
BY DEF IInv, TypeInv, StockInv, Place

LEMMA StepQuery == ASSUME IInv, NEW i \in DOMAIN flight, Query(i) PROVE IInv'
<1> DEFINE t == flight[i]
           R == IF t.kind = "invs" THEN InvRows(t.host, t.fls) ELSE ItemRows(t.host, t.fls, t.typ)
           failed == [t EXCEPT !.done = TRUE]
           read == [t EXCEPT !.done = TRUE, !.ok = TRUE, !.rows = R]
<1>1. TypeInv /\ flight \in Seq(Tasks) /\ t \in Tasks /\ RowsOf(t)
  BY DEF IInv, TypeInv
<1>2. UNCHANGED <<m, world, target, used, stock>> /\ t.kind \in {"invs", "items"}
  BY DEF Query
<1>3. t \in InvLoads \/ t \in ItemLoads
  BY <1>1, <1>2, KindTells
<1>4. CASE flight' = [flight EXCEPT ![i].done = TRUE]
  <2>1. flight' = [flight EXCEPT ![i] = failed]
    BY <1>1, <1>4
  <2>2. failed \in InvLoads \/ failed \in ItemLoads
    BY <1>3 DEF InvLoads, ItemLoads
  <2>3. /\ failed.kind = t.kind /\ failed.host = t.host /\ failed.fls = t.fls
        /\ failed.typ = t.typ /\ failed.ok = t.ok /\ failed.rows = t.rows
    BY <1>3 DEF InvLoads, ItemLoads
  <2> HIDE DEF failed
  <2>4. RowsOf(failed) /\ (TaskOf(m, t) => TaskOf(m, failed))
    BY <1>1, <1>2, <2>3 DEF RowsOf, TaskOf
  <2>5. failed \in Tasks
    BY <2>2 DEF Tasks
  <2> QED BY <1>2, <2>1, <2>3, <2>4, <2>5, StockStays, TaskMarks
<1>5. CASE /\ t.fls # None
           /\ flight' = [[flight EXCEPT ![i].done = TRUE] EXCEPT ![i].ok = TRUE, ![i].rows = R]
  <2>1. flight' = [flight EXCEPT ![i] = read]
    BY <1>1, <1>5
  <2>2. t.host \in HostSet /\ t.fls \in Characters
    BY <1>3, <1>5 DEF InvLoads, ItemLoads
  <2>3. CASE t.kind = "invs"
    <3>1. R = InvRows(t.host, t.fls) /\ t \in InvLoads
      BY <1>1, <2>3, KindTells
    <3>2. /\ R \in Seq(InvRow)
          /\ \A k \in 1..Len(R) : R[k].host = t.host /\ R[k].fls = t.fls
      BY <1>1, <2>2, <3>1, InvRowsType
    <3> HIDE DEF R
    <3>3. /\ read \in InvLoads /\ read.kind = t.kind /\ read.host = t.host /\ read.fls = t.fls
          /\ read.rows = R /\ read.ok = TRUE
      BY <3>1, <3>2 DEF InvLoads
    <3> HIDE DEF read
    <3>4. RowsOf(read) /\ (TaskOf(m, t) => TaskOf(m, read)) /\ read \in Tasks
      BY <2>3, <3>2, <3>3 DEF RowsOf, TaskOf, Tasks
    <3> QED BY <1>2, <2>1, <3>3, <3>4, StockStays, TaskMarks
  <2>4. CASE t.kind = "items"
    <3>1. R = ItemRows(t.host, t.fls, t.typ) /\ t \in ItemLoads
      BY <1>1, <2>4, KindTells
    <3>2. t.typ \in Kinds
      BY <3>1 DEF ItemLoads
    <3>3. /\ R \in Seq(ItemRow)
          /\ \A k \in 1..Len(R) : R[k].host = t.host /\ R[k].fls = t.fls /\ R[k].typ = t.typ
      BY <1>1, <2>2, <3>1, <3>2, ItemRowsType
    <3> HIDE DEF R
    <3>4. /\ read \in ItemLoads /\ read.kind = t.kind /\ read.host = t.host /\ read.fls = t.fls
          /\ read.typ = t.typ /\ read.rows = R /\ read.ok = TRUE
      BY <3>1, <3>3 DEF ItemLoads
    <3> HIDE DEF read
    <3>5. RowsOf(read) /\ (TaskOf(m, t) => TaskOf(m, read)) /\ read \in Tasks
      BY <2>4, <3>3, <3>4 DEF RowsOf, TaskOf, Tasks
    <3> QED BY <1>2, <2>1, <3>4, <3>5, StockStays, TaskMarks
  <2> QED BY <1>2, <2>3, <2>4
<1> QED BY <1>4, <1>5 DEF Query

LEMMA StepApply == ASSUME IInv, NEW i \in DOMAIN flight, Apply(i) PROVE IInv'
<1> DEFINE t == flight[i]
<1>1. TypeInv /\ flight \in Seq(Tasks) /\ t \in Tasks /\ RowsOf(t)
  BY DEF IInv, TypeInv
<1>2. UNCHANGED <<m, world, target, used>> /\ t.kind = "edit" /\ t \in Edits
  BY <1>1, KindTells DEF Apply
<1>3. ASSUME NEW ok \in BOOLEAN,
             flight' = [flight EXCEPT ![i] = [t EXCEPT !.done = TRUE, !.ok = ok]],
             StockInv',
             stock' \in [HostSet -> UNION {[DOMAIN Place'[h] -> Nat \cup {None}] : h \in HostSet}]
      PROVE  IInv'
  <2> DEFINE u == [t EXCEPT !.done = TRUE, !.ok = ok]
  <2>1. u \in Edits /\ u.kind = t.kind /\ u.host = t.host /\ u.row = t.row /\ u.id = t.id
    BY <1>2 DEF Edits
  <2>2. flight' = [flight EXCEPT ![i] = u]
    BY <1>3
  <2> HIDE DEF u
  <2>3. RowsOf(u) /\ u \in Tasks /\ (TaskOf(m, t) => TaskOf(m, u))
    BY <1>2, <2>1 DEF RowsOf, TaskOf, Tasks
  <2> QED BY <1>2, <1>3, <2>1, <2>2, <2>3, TaskMarks
<1>4. CASE flight' = [flight EXCEPT ![i].done = TRUE] /\ UNCHANGED stock
  <2>1. t.ok \in BOOLEAN
    BY <1>2 DEF Edits
  <2>2. [t EXCEPT !.done = TRUE] = [t EXCEPT !.done = TRUE, !.ok = t.ok]
    BY <1>2 DEF Edits
  <2>3. flight' = [flight EXCEPT ![i] = [t EXCEPT !.done = TRUE]]
    BY <1>1, <1>4
  <2> QED BY <1>2, <1>3, <1>4, <2>1, <2>2, <2>3, StockStays
<1>5. CASE /\ t.id \in DOMAIN stock[t.host]
           /\ \E ok \in BOOLEAN : flight' = [flight EXCEPT ![i].done = TRUE, ![i].ok = ok]
           /\ stock' = [stock EXCEPT ![t.host][t.id] = t.qty]
  <2>1. PICK ok \in BOOLEAN : flight' = [flight EXCEPT ![i].done = TRUE, ![i].ok = ok]
    BY <1>5
  <2>2. flight' = [flight EXCEPT ![i] = [t EXCEPT !.done = TRUE, !.ok = ok]]
    BY <1>1, <2>1
  <2>3. t.host \in HostSet /\ t.qty \in Nat \cup {None}
    BY <1>2 DEF Edits
  <2>4. Place' = Place
    BY <1>2 DEF Place
  <2>5. ASSUME NEW h \in HostSet PROVE stock'[h] \in [DOMAIN Place[h] -> Nat \cup {None}]
    <3>1. stock[h] \in [DOMAIN Place[h] -> Nat \cup {None}]
      BY <1>1 DEF TypeInv, StockInv
    <3>2. stock'[h] = IF h = t.host THEN [stock[h] EXCEPT ![t.id] = t.qty] ELSE stock[h]
      BY <1>1, <1>5 DEF TypeInv
    <3> QED BY <2>3, <3>1, <3>2
  <2>6. DOMAIN stock' = HostSet /\ stock' = [h \in HostSet |-> stock'[h]]
    BY <1>1, <1>5 DEF TypeInv
  <2>7. /\ StockInv'
        /\ stock' \in [HostSet -> UNION {[DOMAIN Place'[h] -> Nat \cup {None}] : h \in HostSet}]
    BY <2>4, <2>5, <2>6 DEF StockInv
  <2> QED BY <1>3, <2>1, <2>2, <2>7
<1> QED BY <1>4, <1>5 DEF Apply

-------------------------------------------------------------------------------
(* Replies.                                                                  *)

LEMMA StillInFlight ==
  ASSUME IInv, NEW i \in DOMAIN flight
  PROVE  /\ flight \in Seq(Tasks) /\ RemoveAt(flight, i) \in Seq(Tasks)
         /\ Len(flight) \in Nat \ {0} /\ Len(RemoveAt(flight, i)) = Len(flight) - 1
         /\ i \in 1..Len(flight) /\ flight # <<>>
         /\ \A j \in 1..Len(RemoveAt(flight, i)) : RowsOf(RemoveAt(flight, i)[j])
         /\ \A j \in 1..Len(flight) : j # i =>
              \E k \in 1..Len(RemoveAt(flight, i)) : RemoveAt(flight, i)[k] = flight[j]
<1> DEFINE n == Len(flight)
           rest == RemoveAt(flight, i)
<1>1. flight \in Seq(Tasks) /\ \A j \in 1..n : RowsOf(flight[j])
  BY DEF IInv, TypeInv
<1>2. i \in 1..n /\ flight # <<>>
  BY <1>1
<1>3. /\ rest \in Seq(Tasks) /\ n \in Nat \ {0} /\ Len(rest) = n - 1
      /\ \A k \in 1..(n - 1) : rest[k] = IF k < i THEN flight[k] ELSE flight[k + 1]
  BY <1>1, <1>2, Removed
<1> HIDE DEF n, rest
<1>4. \A k \in 1..(n - 1) : RowsOf(rest[k])
  BY <1>1, <1>2, <1>3
<1>5. ASSUME NEW j \in 1..n, j # i PROVE \E k \in 1..(n - 1) : rest[k] = flight[j]
  <2>1. CASE j < i
    <3>1. j \in 1..(n - 1)
      BY <1>2, <1>3, <2>1
    <3> QED BY <1>3, <2>1, <3>1
  <2>2. CASE j > i
    <3>1. j - 1 \in 1..(n - 1) /\ ~(j - 1 < i) /\ (j - 1) + 1 = j
      BY <1>2, <1>3, <2>2
    <3> QED BY <1>3, <3>1
  <2> QED BY <1>2, <1>3, <1>5, <2>1, <2>2
<1> QED BY <1>1, <1>2, <1>3, <1>4, <1>5 DEF n, rest

LEMMA AloneInFlight ==
  ASSUME IInv, NEW i \in DOMAIN flight, careful
  PROVE  i = 1 /\ Len(flight) = 1 /\ flight # <<>>
<1>1. Len(flight) <= 1
  BY DEF IInv, CalmInv
<1>2. flight # <<>> /\ i \in 1..Len(flight) /\ Len(flight) \in Nat \ {0}
  BY StillInFlight
<1> DEFINE n == Len(flight)
<1>3. n \in Nat \ {0} /\ n <= 1
  BY <1>1, <1>2
<1> HIDE DEF n
<1>4. n = 1
  BY ONLY <1>3
<1> QED BY <1>2, <1>4 DEF n

LEMMA Replied ==
  ASSUME IInv, NEW i \in DOMAIN flight, flight' = RemoveAt(flight, i),
         UNCHANGED <<stock, target, world, used>>, m' \in Model, InBounds(m'),
         \/ flight[i].kind \in LoadKinds /\ m'.loading = FALSE /\ m'.running = m.running
         \/ flight[i].kind \notin LoadKinds /\ m'.running = FALSE /\ m'.loading = m.loading,
         careful => Shown(m') /\ m'.prompt = m.prompt
  PROVE  IInv'
<1>1. TypeInv'
  BY StillInFlight, StockStays DEF IInv, TypeInv
<1>2. BusyInv'
  <2>1. m'.loading => \E j \in 1..Len(flight') : flight'[j].kind \in LoadKinds
    <3>1. SUFFICES ASSUME m'.loading
                   PROVE  \E j \in 1..Len(flight') : flight'[j].kind \in LoadKinds
      OBVIOUS
    <3>2. flight[i].kind \notin LoadKinds /\ m.loading
      BY <3>1
    <3>3. PICK j \in 1..Len(flight) : flight[j].kind \in LoadKinds
      BY <3>2 DEF IInv, BusyInv
    <3>4. j # i
      BY <3>2, <3>3
    <3> QED BY <3>3, <3>4, StillInFlight
  <2>2. m'.running => \E j \in 1..Len(flight') : flight'[j].kind \notin LoadKinds
    <3>1. SUFFICES ASSUME m'.running
                   PROVE  \E j \in 1..Len(flight') : flight'[j].kind \notin LoadKinds
      OBVIOUS
    <3>2. flight[i].kind \in LoadKinds /\ m.running
      BY <3>1
    <3>3. PICK j \in 1..Len(flight) : flight[j].kind \notin LoadKinds
      BY <3>2 DEF IInv, BusyInv
    <3>4. j # i
      BY <3>2, <3>3
    <3> QED BY <3>3, <3>4, StillInFlight
  <2> QED BY <2>1, <2>2 DEF BusyInv
<1>3. CalmInv'
  <2>1. careful' = careful
    BY DEF careful
  <2>2. SUFFICES ASSUME careful
                 PROVE  /\ Shown(m') /\ PromptInv(m', target')
                        /\ Len(flight') = 0 /\ flight' = <<>>
                        /\ ~m'.loading /\ ~m'.running
    BY <2>1 DEF CalmInv
  <2>3. Len(flight) = 1 /\ i = 1 /\ flight # <<>>
    BY <2>2, AloneInFlight
  <2>4. Len(flight') = 0 /\ flight' = <<>>
    BY <2>3, StillInFlight
  <2>5. /\ m.prompt = "none" /\ (m.loading <=> flight[i].kind \in LoadKinds)
        /\ (m.running <=> flight[i].kind \notin LoadKinds)
    BY <2>2, <2>3 DEF IInv, CalmInv
  <2>6. PromptInv(m', target')
    BY <2>2, <2>5 DEF PromptInv
  <2>7. ~m'.loading /\ ~m'.running
    BY <2>5
  <2> QED BY <2>2, <2>4, <2>6, <2>7
<1> QED BY <1>1, <1>2, <1>3 DEF IInv

(* The careful operator is still where the task was asked for.               *)
LEMMA AskedHere ==
  ASSUME IInv, NEW i \in DOMAIN flight, careful
  PROVE  Shown(m) /\ TaskOf(m, flight[i]) /\ m.prompt = "none" /\ m.mode = "nav"
         /\ i = 1 /\ Len(flight) = 1
<1>1. i = 1 /\ Len(flight) = 1 /\ flight # <<>>
  BY AloneInFlight
<1> QED BY <1>1 DEF IInv, CalmInv

LEMMA StepCommandReply == ASSUME IInv, NEW i \in DOMAIN flight, CommandReply(i) PROVE IInv'
<1>1. m \in Model /\ InBounds(m)
  BY DEF IInv, TypeInv
<1>2. PICK shown \in BOOLEAN : Handled(i, cmdResultMsg(m, shown))
  BY DEF CommandReply
<1>3. /\ m' = [m EXCEPT !.mode = "nav", !.draft = NoPlayer, !.running = FALSE, !.output = shown]
      /\ flight' = RemoveAt(flight, i) /\ UNCHANGED <<stock, target, world, used>>
  BY <1>2 DEF Handled, cmdResultMsg
<1>4. NoPlayer \in Who
  BY DEF NoPlayer, Who
<1>5. /\ m' \in Model /\ SameView(m, m') /\ m'.loading = m.loading /\ m'.running = FALSE
      /\ m'.prompt = m.prompt
  BY <1>1, <1>3, <1>4 DEF Model, SameView
<1>6. InBounds(m') /\ (careful => Shown(m'))
  BY <1>1, <1>5, SameViewKeeps DEF IInv, CalmInv
<1>7. flight[i].kind \notin LoadKinds
  BY DEF CommandReply, LoadKinds
<1> QED BY <1>3, <1>5, <1>6, <1>7, Replied

LEMMA StepEditFailed == ASSUME IInv, NEW i \in DOMAIN flight, EditFailed(i) PROVE IInv'
<1>1. m \in Model /\ InBounds(m)
  BY DEF IInv, TypeInv
<1>2. /\ m' = [m EXCEPT !.running = FALSE]
      /\ flight' = RemoveAt(flight, i) /\ UNCHANGED <<stock, target, world, used>>
  BY DEF EditFailed, Handled
<1>3. /\ m' \in Model /\ SameView(m, m') /\ m'.loading = m.loading /\ m'.running = FALSE
      /\ m'.prompt = m.prompt
  BY <1>1, <1>2 DEF Model, SameView
<1>4. InBounds(m') /\ (careful => Shown(m'))
  BY <1>1, <1>3, SameViewKeeps DEF IInv, CalmInv
<1>5. flight[i].kind \notin LoadKinds
  BY DEF EditFailed, LoadKinds
<1> QED BY <1>2, <1>3, <1>4, <1>5, Replied

LEMMA StepPlayersReply == ASSUME IInv, NEW i \in DOMAIN flight, PlayersReply(i) PROVE IInv'
<1> DEFINE t == flight[i]
<1>1. m \in Model /\ InBounds(m) /\ TypeInv /\ t \in Tasks
  BY DEF IInv, TypeInv
<1>2. t.kind = "players" /\ t \in PlayerLoads /\ t.host \in HostSet
  <2>1. t.kind = "players"
    BY DEF PlayersReply
  <2> QED BY <1>1, <2>1, KindTells DEF PlayerLoads
<1>3. PICK rows \in {PlayerRows(t.host), <<>>} : Handled(i, playersMsg(m, rows))
  BY DEF PlayersReply
<1>4. rows \in Seq(PlayerRow) /\ \A k \in 1..Len(rows) : rows[k].host = t.host
  <2>1. CASE rows = PlayerRows(t.host)
    BY <1>1, <1>2, <2>1, PlayerRowsType
  <2>2. CASE rows = <<>>
    BY <2>2
  <2> QED BY <1>3, <2>1, <2>2
<1> DEFINE sel0 == [m.sel EXCEPT ![2] = 0]
           counts0 == [m.counts EXCEPT ![2] = Len(rows)]
           s == [m EXCEPT !.loading = FALSE, !.players = rows, !.counts = counts0, !.sel = sel0]
<1>5. /\ m' = applySort(s) /\ flight' = RemoveAt(flight, i)
      /\ UNCHANGED <<stock, target, world, used>>
  <2>1. m' = playersMsg(m, rows) /\ flight' = RemoveAt(flight, i)
        /\ UNCHANGED <<stock, target, world, used>>
    BY <1>3 DEF Handled
  <2>2. playersMsg(m, rows) = applySort(s)
    BY <1>1 DEF playersMsg, levelPlayers, Model
  <2> QED BY <2>1, <2>2
<1>6. /\ sel0 \in [1..4 -> Nat] /\ counts0 \in [1..4 -> Nat]
      /\ sel0[1] = m.sel[1] /\ sel0[2] = 0 /\ sel0[3] = m.sel[3] /\ sel0[4] = m.sel[4]
      /\ counts0[1] = m.counts[1] /\ counts0[2] = Len(rows)
      /\ counts0[3] = m.counts[3] /\ counts0[4] = m.counts[4]
  <2>1. m.sel \in [1..4 -> Nat] /\ m.counts \in [1..4 -> Nat] /\ 0 \in Nat /\ Len(rows) \in Nat
    BY <1>1, <1>4 DEF Model
  <2>2. 1 \in 1..4 /\ 2 \in 1..4 /\ 3 \in 1..4 /\ 4 \in 1..4
    OBVIOUS
  <2>3. sel0 \in [1..4 -> Nat] /\ \A k \in 1..4 : sel0[k] = IF k = 2 THEN 0 ELSE m.sel[k]
    BY ONLY <2>1, <2>2, SetAt
  <2>4. /\ counts0 \in [1..4 -> Nat]
        /\ \A k \in 1..4 : counts0[k] = IF k = 2 THEN Len(rows) ELSE m.counts[k]
    BY ONLY <2>1, <2>2, SetAt
  <2> HIDE DEF sel0, counts0
  <2> QED BY <2>2, <2>3, <2>4
<1> HIDE DEF sel0, counts0
<1>7. /\ s \in Model /\ s.sel = sel0 /\ s.counts = counts0 /\ s.players = rows
      /\ s.invs = m.invs /\ s.items = m.items /\ s.level = m.level
      /\ s.loading = FALSE /\ s.running = m.running /\ s.prompt = m.prompt
  BY <1>1, <1>4, <1>6 DEF Model
<1> HIDE DEF s
<1>8. InBounds(s)
  BY <1>1, <1>6, <1>7 DEF InBounds, AtRow
<1>9. careful => Shown(s)
  <2>1. SUFFICES ASSUME careful PROVE Shown(s)
    OBVIOUS
  <2>2. m.level = 2 /\ t.host = selectedHost(m)
    BY <1>2, <2>1, AskedHere DEF TaskOf
  <2>3. selectedHost(s) = selectedHost(m)
    BY <1>6, <1>7 DEF selectedHost, Under, levelHosts
  <2> QED BY <1>4, <1>7, <2>2, <2>3 DEF Shown, PlayersShown
<1>10. /\ m' \in Model /\ InBounds(m') /\ (careful => Shown(m') /\ m'.prompt = m.prompt)
       /\ m'.loading = FALSE /\ m'.running = m.running
  BY <1>5, <1>7, <1>8, <1>9, SortKeeps
<1>11. flight[i].kind \in LoadKinds
  BY <1>2 DEF LoadKinds
<1> QED BY <1>5, <1>10, <1>11, Replied

LEMMA StepInvsReply == ASSUME IInv, NEW i \in DOMAIN flight, InvsReply(i) PROVE IInv'
<1> DEFINE t == flight[i]
           player == IF t.ok THEN [host |-> t.host, fls |-> t.fls] ELSE NoPlayer
           rows == t.rows
<1>1. m \in Model /\ InBounds(m) /\ t \in Tasks /\ RowsOf(t)
  BY DEF IInv, TypeInv
<1>2. t.kind = "invs" /\ t \in InvLoads /\ Handled(i, invsMsg(m, player, rows))
  <2>1. t.kind = "invs" /\ Handled(i, invsMsg(m, player, rows))
    BY DEF InvsReply
  <2> QED BY <1>1, <2>1, KindTells
<1>3. /\ rows \in Seq(InvRow) /\ player \in Who
      /\ \A k \in 1..Len(rows) : rows[k].host = t.host /\ rows[k].fls = t.fls
      /\ rows # <<>> => player.fls = t.fls
  <2>1. t.host \in HostSet /\ t.fls \in Characters /\ t.rows \in Seq(InvRow)
    BY <1>2 DEF InvLoads
  <2>2. player \in Who
    BY <2>1 DEF Who, NoPlayer
  <2>3. rows # <<>> => player.fls = t.fls
    BY <1>1, <1>2 DEF RowsOf
  <2> QED BY <1>1, <1>2, <2>1, <2>2, <2>3 DEF RowsOf
<1> DEFINE sel0 == [m.sel EXCEPT ![3] = 0]
           counts0 == [m.counts EXCEPT ![3] = Len(rows)]
           s == [m EXCEPT !.loading = FALSE, !.invs = rows, !.cur = player,
                          !.counts = counts0, !.sel = sel0]
<1>4. m' = s /\ flight' = RemoveAt(flight, i) /\ UNCHANGED <<stock, target, world, used>>
  <2>1. m' = invsMsg(m, player, rows) /\ flight' = RemoveAt(flight, i)
        /\ UNCHANGED <<stock, target, world, used>>
    BY <1>2 DEF Handled
  <2>2. invsMsg(m, player, rows) = s
    BY <1>1 DEF invsMsg, levelInventory, Model
  <2> QED BY <2>1, <2>2
<1>5. /\ sel0 \in [1..4 -> Nat] /\ counts0 \in [1..4 -> Nat]
      /\ sel0[1] = m.sel[1] /\ sel0[2] = m.sel[2] /\ sel0[3] = 0 /\ sel0[4] = m.sel[4]
      /\ counts0[1] = m.counts[1] /\ counts0[2] = m.counts[2]
      /\ counts0[3] = Len(rows) /\ counts0[4] = m.counts[4]
  <2>1. m.sel \in [1..4 -> Nat] /\ m.counts \in [1..4 -> Nat] /\ 0 \in Nat /\ Len(rows) \in Nat
    BY <1>1, <1>3 DEF Model
  <2>2. 1 \in 1..4 /\ 2 \in 1..4 /\ 3 \in 1..4 /\ 4 \in 1..4
    OBVIOUS
  <2>3. sel0 \in [1..4 -> Nat] /\ \A k \in 1..4 : sel0[k] = IF k = 3 THEN 0 ELSE m.sel[k]
    BY ONLY <2>1, <2>2, SetAt
  <2>4. /\ counts0 \in [1..4 -> Nat]
        /\ \A k \in 1..4 : counts0[k] = IF k = 3 THEN Len(rows) ELSE m.counts[k]
    BY ONLY <2>1, <2>2, SetAt
  <2> HIDE DEF sel0, counts0
  <2> QED BY <2>2, <2>3, <2>4
<1> HIDE DEF sel0, counts0, player, rows
<1>6. /\ s \in Model /\ s.sel = sel0 /\ s.counts = counts0 /\ s.players = m.players
      /\ s.invs = rows /\ s.items = m.items /\ s.level = m.level /\ s.cur = player
      /\ s.loading = FALSE /\ s.running = m.running /\ s.prompt = m.prompt
  BY <1>1, <1>3, <1>5 DEF Model
<1> HIDE DEF s
<1>7. InBounds(s)
  BY <1>1, <1>5, <1>6 DEF InBounds, AtRow
<1>8. careful => Shown(s)
  <2>1. SUFFICES ASSUME careful PROVE Shown(s)
    OBVIOUS
  <2>2. /\ m.level = 3 /\ t.host = selectedHost(m)
        /\ t.fls = Under(m, m.players, 2).fls /\ PlayersShown(m) /\ InvsShown(m)
    BY <1>2, <2>1, AskedHere DEF TaskOf, Shown
  <2>3. /\ selectedHost(s) = selectedHost(m)
        /\ Under(s, s.players, 2) = Under(m, m.players, 2)
    BY <1>5, <1>6 DEF selectedHost, Under, levelHosts
  <2>4. PlayersShown(s)
    BY <1>6, <2>2, <2>3 DEF PlayersShown
  <2>5. InvsShown(s)
    BY <1>3, <1>5, <1>6, <2>2, <2>3 DEF InvsShown
  <2> QED BY <1>6, <2>2, <2>4, <2>5 DEF Shown
<1>9. flight[i].kind \in LoadKinds
  BY <1>2 DEF LoadKinds
<1> QED BY <1>4, <1>6, <1>7, <1>8, <1>9, Replied

LEMMA StepItemsReply == ASSUME IInv, NEW i \in DOMAIN flight, ItemsReply(i) PROVE IInv'
<1> DEFINE t == flight[i]
           rows == t.rows
           last == IF rows = <<>> THEN 0 ELSE Len(rows) - 1
           row == IF m.sel[4] > last THEN last ELSE m.sel[4]
           sel0 == [m.sel EXCEPT ![4] = row]
           counts0 == [m.counts EXCEPT ![4] = Len(rows)]
           s == [m EXCEPT !.loading = FALSE, !.items = rows, !.counts = counts0, !.sel = sel0]
<1>1. /\ m \in Model /\ InBounds(m) /\ t \in Tasks /\ RowsOf(t)
      /\ m.sel \in [1..4 -> Nat] /\ m.counts \in [1..4 -> Nat]
  <2>1. m \in Model /\ InBounds(m) /\ t \in Tasks /\ RowsOf(t)
    BY DEF IInv, TypeInv
  <2> QED BY <2>1 DEF Model
<1>2. t.kind = "items" /\ t \in ItemLoads
  <2>1. t.kind = "items"
    BY DEF ItemsReply
  <2> QED BY <1>1, <2>1, KindTells
<1>3. /\ rows \in Seq(ItemRow)
      /\ \A k \in 1..Len(rows) : rows[k].host = t.host /\ rows[k].fls = t.fls /\ rows[k].typ = t.typ
  BY <1>1, <1>2 DEF ItemLoads, RowsOf
<1>4. /\ m' = applySort(s) /\ flight' = RemoveAt(flight, i)
      /\ UNCHANGED <<stock, target, world, used>>
  <2>1. m' = itemsMsg(m, rows) /\ flight' = RemoveAt(flight, i)
        /\ UNCHANGED <<stock, target, world, used>>
    BY DEF ItemsReply, Handled
  <2>2. itemsMsg(m, rows) = applySort(s)
    BY <1>1 DEF itemsMsg, levelItem, Model
  <2> QED BY <2>1, <2>2
<1> HIDE DEF rows
<1>5. row \in Nat /\ AtRow(row, Len(rows))
  <2>1. m.sel[4] \in Nat
    BY <1>1
  <2>2. CASE rows = <<>>
    BY <2>1, <2>2 DEF AtRow
  <2>3. CASE rows # <<>>
    <3>1. Len(rows) \in Nat /\ Len(rows) > 0
      BY <1>3, <2>3
    <3> QED BY <2>1, <2>3, <3>1 DEF AtRow
  <2> QED BY <2>2, <2>3
<1> HIDE DEF row
<1>6. /\ sel0 \in [1..4 -> Nat] /\ counts0 \in [1..4 -> Nat]
      /\ sel0[1] = m.sel[1] /\ sel0[2] = m.sel[2] /\ sel0[3] = m.sel[3] /\ sel0[4] = row
      /\ counts0[1] = m.counts[1] /\ counts0[2] = m.counts[2]
      /\ counts0[3] = m.counts[3] /\ counts0[4] = Len(rows)
  <2>1. Len(rows) \in Nat
    BY <1>3
  <2>2. 1 \in 1..4 /\ 2 \in 1..4 /\ 3 \in 1..4 /\ 4 \in 1..4
    OBVIOUS
  <2>3. sel0 \in [1..4 -> Nat] /\ \A k \in 1..4 : sel0[k] = IF k = 4 THEN row ELSE m.sel[k]
    BY ONLY <1>1, <1>5, <2>2, SetAt
  <2>4. /\ counts0 \in [1..4 -> Nat]
        /\ \A k \in 1..4 : counts0[k] = IF k = 4 THEN Len(rows) ELSE m.counts[k]
    BY ONLY <1>1, <2>1, <2>2, SetAt
  <2> HIDE DEF sel0, counts0
  <2> QED BY <2>2, <2>3, <2>4
<1> HIDE DEF sel0, counts0
<1>7. /\ s \in Model /\ s.sel = sel0 /\ s.counts = counts0 /\ s.players = m.players
      /\ s.invs = m.invs /\ s.items = rows /\ s.level = m.level
      /\ s.cur = m.cur /\ s.curType = m.curType
      /\ s.loading = FALSE /\ s.running = m.running /\ s.prompt = m.prompt
  BY <1>1, <1>3, <1>6 DEF Model
<1> HIDE DEF s
<1>8. InBounds(s)
  BY <1>1, <1>5, <1>6, <1>7 DEF InBounds
<1>9. careful => Shown(s)
  <2>1. SUFFICES ASSUME careful PROVE Shown(s)
    OBVIOUS
  <2>2. /\ m.level = 4 /\ t.host = selectedHost(m) /\ t.fls = m.cur.fls /\ t.typ = m.curType
        /\ PlayersShown(m) /\ InvsShown(m) /\ ItemsShown(m)
    BY <1>2, <2>1, AskedHere DEF TaskOf, Shown
  <2>3. /\ selectedHost(s) = selectedHost(m)
        /\ Under(s, s.players, 2) = Under(m, m.players, 2)
        /\ Under(s, s.invs, 3) = Under(m, m.invs, 3)
    BY <1>6, <1>7 DEF selectedHost, Under, levelHosts
  <2>4. PlayersShown(s)
    BY <1>7, <2>2, <2>3 DEF PlayersShown
  <2>5. InvsShown(s)
    BY <1>6, <1>7, <2>2, <2>3 DEF InvsShown
  <2>6. ItemsShown(s)
    BY <1>3, <1>6, <1>7, <2>2, <2>3 DEF ItemsShown
  <2> QED BY <2>4, <2>5, <2>6 DEF Shown
<1>10. /\ m' \in Model /\ InBounds(m') /\ (careful => Shown(m') /\ m'.prompt = m.prompt)
       /\ m'.loading = FALSE /\ m'.running = m.running
  BY <1>4, <1>7, <1>8, <1>9, SortKeeps
<1>11. flight[i].kind \in LoadKinds
  BY <1>2 DEF LoadKinds
<1> QED BY <1>4, <1>10, <1>11, Replied

LEMMA StepEditDone == ASSUME IInv, NEW i \in DOMAIN flight, EditDone(i) PROVE IInv'
<1> DEFINE s == [m EXCEPT !.running = FALSE, !.loading = TRUE]
           t == loadItems(s)
           rest == RemoveAt(flight, i)
<1>1. /\ m' = s /\ flight' = Append(rest, t) /\ UNCHANGED <<stock, target, world, used>>
      /\ flight[i].kind = "edit"
  BY DEF EditDone
<1>2. m \in Model /\ InBounds(m)
  BY DEF IInv, TypeInv
<1>3. /\ s \in Model /\ SameView(m, s) /\ s.loading = TRUE /\ s.running = FALSE
      /\ s.prompt = m.prompt /\ s.mode = m.mode
  BY <1>2 DEF Model, SameView
<1> HIDE DEF s
<1>4. InBounds(s) /\ (careful => Shown(s))
  BY <1>2, <1>3, SameViewKeeps DEF IInv, CalmInv
<1>5. selectedHost(s) \in HostSet
  BY <1>3, <1>4, HostFacts
<1>6. /\ t = [kind |-> "items", host |-> selectedHost(s), fls |-> s.cur.fls, typ |-> s.curType,
              done |-> FALSE, ok |-> FALSE, rows |-> <<>>]
      /\ s.cur.fls \in Characters \cup {None} /\ s.curType \in Kinds
  BY <1>3 DEF loadItems, Load, Model, Who
<1> HIDE DEF t
<1>7. t \in Tasks /\ RowsOf(t) /\ t.kind = "items" /\ t.kind \in LoadKinds
  <2>1. t \in ItemLoads
    BY <1>5, <1>6 DEF ItemLoads
  <2> QED BY <1>6, <2>1 DEF Tasks, RowsOf, LoadKinds
<1>8. /\ rest \in Seq(Tasks) /\ Len(rest) = Len(flight) - 1 /\ Len(flight) \in Nat
      /\ \A j \in 1..Len(rest) : RowsOf(rest[j])
  BY StillInFlight
<1> DEFINE n == Len(rest)
<1>9. /\ flight' \in Seq(Tasks) /\ n \in Nat /\ Len(flight') = n + 1
      /\ \A j \in 1..n : flight'[j] = rest[j]
      /\ flight'[n + 1] = t /\ n + 1 \in 1..(n + 1)
      /\ \A j \in 1..(n + 1) : j \in 1..n \/ j = n + 1
  <2>1. /\ Append(rest, t) \in Seq(Tasks) /\ n \in Nat /\ Len(Append(rest, t)) = n + 1
        /\ \A j \in 1..n : j \in 1..(n + 1) /\ Append(rest, t)[j] = rest[j]
        /\ Append(rest, t)[n + 1] = t
    BY <1>7, <1>8, Sent
  <2> HIDE DEF n, rest
  <2>2. n + 1 \in 1..(n + 1) /\ \A j \in 1..(n + 1) : j \in 1..n \/ j = n + 1
    BY <2>1
  <2> QED BY <1>1, <2>1, <2>2
<1> HIDE DEF rest
<1>10. TypeInv'
  <2>1. \A j \in 1..Len(flight') : RowsOf(flight'[j])
    BY <1>7, <1>8, <1>9
  <2> QED BY <1>1, <1>3, <1>9, <2>1, StockStays DEF IInv, TypeInv
<1>11. BusyInv'
  BY <1>1, <1>3, <1>7, <1>9 DEF BusyInv
<1>12. CalmInv'
  <2>1. careful' = careful
    BY <1>1 DEF careful
  <2>2. SUFFICES ASSUME careful
                 PROVE  /\ Shown(s) /\ PromptInv(s, target)
                        /\ Len(flight') = 1 /\ flight' # <<>> /\ flight'[1] = t
                        /\ TaskOf(s, t) /\ s.mode = "nav" /\ s.prompt = "none"
    BY <1>1, <1>3, <1>7, <2>1 DEF CalmInv
  <2>3. Len(flight) = 1 /\ m.prompt = "none" /\ m.mode = "nav" /\ m.level = 4
    BY <1>1, <2>2, AskedHere DEF TaskOf
  <2>4. n = 0
    BY <1>8, <2>3
  <2> HIDE DEF n
  <2>5. Len(flight') = 1 /\ flight' # <<>> /\ flight'[1] = t
    BY <1>9, <2>4
  <2>6. TaskOf(s, t)
    BY <1>3, <1>6, <2>3 DEF TaskOf, SameView
  <2> QED BY <1>3, <1>4, <2>2, <2>3, <2>5, <2>6 DEF PromptInv
<1> QED BY <1>1, <1>4, <1>10, <1>11, <1>12 DEF IInv

LEMMA StepIInv == IInv /\ [Next]_vars => IInv'
<1> SUFFICES ASSUME IInv, [Next]_vars PROVE IInv'
  OBVIOUS
<1>1. CASE Key
  BY <1>1, StepKey
<1>2. ASSUME NEW i \in DOMAIN flight,
             \/ Query(i) \/ Apply(i)
             \/ PlayersReply(i) \/ InvsReply(i) \/ ItemsReply(i)
             \/ CommandReply(i) \/ EditFailed(i) \/ EditDone(i)
      PROVE  IInv'
  BY <1>2, StepQuery, StepApply, StepPlayersReply, StepInvsReply, StepItemsReply,
     StepCommandReply, StepEditFailed, StepEditDone
<1>3. CASE UNCHANGED vars
  <2>1. UNCHANGED <<m, flight, stock, target, world, used>>
    BY <1>3 DEF vars
  <2> QED BY <2>1 DEF IInv, TypeInv, StockInv, Place, InBounds, BusyInv, CalmInv, careful
<1> QED BY <1>1, <1>2, <1>3 DEF Next

LEMMA Invariance == Spec => []IInv
BY InitIInv, StepIInv, PTL DEF Spec

-------------------------------------------------------------------------------
(* Theorems.                                                                 *)

(* The item keys of tui/model.go index the list with the cursor, unchecked:  *)
(* the cursor of each level stays on a row, for any replies in any order.    *)
THEOREM SpecCursorInBounds == Spec => []CursorInBounds
<1>1. IInv => CursorInBounds
  <2> SUFFICES ASSUME IInv PROVE CursorInBounds
    OBVIOUS
  <2>1. InBounds(m)
    BY DEF IInv
  <2> SUFFICES ASSUME NEW l \in 1..4
               PROVE  LET list == <<Hosts, m.players, m.invs, m.items>>[l]
                      IN m.counts[l] = Len(list) /\ (m.sel[l] = 0 \/ m.sel[l] < Len(list))
    BY DEF CursorInBounds, levelHosts, levelItem
  <2>2. l = 1 \/ l = 2 \/ l = 3 \/ l = 4
    OBVIOUS
  <2> QED BY <2>1, <2>2 DEF InBounds, AtRow
<1> QED BY <1>1, Invariance, PTL

(* loading and running of tui/model.go have a cause in flight, for anyone;   *)
(* for the operator who waits they are the truth, and no reply closes the    *)
(* command line that is being typed.                                         *)
THEOREM SpecBusyTellsTheTruth == Spec => []BusyTellsTheTruth
<1>1. IInv => BusyTellsTheTruth
  <2> SUFFICES ASSUME IInv PROVE BusyTellsTheTruth
    OBVIOUS
  <2>1. DOMAIN flight = 1..Len(flight) /\ Len(flight) \in Nat
    BY DEF IInv, TypeInv
  <2>2. /\ \A i \in 1..Len(flight) : i \in Loads <=> flight[i].kind \in LoadKinds
        /\ \A i \in 1..Len(flight) : i \in Works <=> flight[i].kind \notin LoadKinds
        /\ Loads \subseteq 1..Len(flight) /\ Works \subseteq 1..Len(flight)
    BY <2>1 DEF Loads, Works, LoadKinds
  <2>3. m.loading => Loads # {}
    BY <2>2 DEF IInv, BusyInv
  <2>4. m.running => Works # {}
    BY <2>2 DEF IInv, BusyInv
  <2>5. ASSUME careful
        PROVE  /\ Cardinality(DOMAIN flight) <= 1
               /\ m.loading <=> Loads # {}
               /\ m.running <=> Works # {}
               /\ m.mode = "cmd" => flight = <<>>
    <3>1. Len(flight) <= 1 /\ CalmInv
      BY <2>5 DEF IInv, CalmInv
    <3>2. Cardinality(1..Len(flight)) = Len(flight)
      <4> DEFINE n == Len(flight)
      <4>1. n \in Nat
        BY <2>1
      <4> HIDE DEF n
      <4>2. Cardinality(1..n) = n
        BY ONLY <4>1, FS_Interval
      <4> QED BY <4>2 DEF n
    <3>3. CASE flight = <<>>
      <4>1. 1..Len(flight) = {}
        BY <3>3
      <4> QED BY <2>1, <2>2, <2>5, <3>1, <3>2, <3>3, <4>1 DEF CalmInv
    <3>4. CASE flight # <<>>
      <4>1. Len(flight) # 0
        <5>1. flight \in Seq(Tasks)
          BY DEF IInv, TypeInv
        <5> QED BY <3>4, <5>1
      <4>2. Len(flight) = 1 /\ 1 \in 1..Len(flight) /\ \A i \in 1..Len(flight) : i = 1
        BY <2>1, <3>1, <4>1
      <4>3. /\ m.mode = "nav" /\ (m.loading <=> flight[1].kind \in LoadKinds)
            /\ (m.running <=> flight[1].kind \notin LoadKinds)
        BY <2>5, <3>1, <3>4 DEF CalmInv
      <4>4. Loads # {} <=> flight[1].kind \in LoadKinds
        BY <2>2, <4>2
      <4>5. Works # {} <=> flight[1].kind \notin LoadKinds
        BY <2>2, <4>2
      <4> QED BY <2>1, <3>1, <3>2, <4>3, <4>4, <4>5
    <3> QED BY <3>3, <3>4
  <2> QED BY <2>3, <2>4, <2>5 DEF BusyTellsTheTruth
<1> QED BY <1>1, Invariance, PTL

(* The rows the operator who waits sees in tui/model.go are those of the     *)
(* host, player and inventory that the breadcrumb shows.                     *)
THEOREM SpecWaitingSeesSelection == Spec => []WaitingSeesSelection
<1>1. IInv => WaitingSeesSelection
  <2> SUFFICES ASSUME IInv, careful PROVE SelectionShown
    BY DEF WaitingSeesSelection
  <2>1. Shown(m) /\ m \in Model
    BY DEF IInv, CalmInv, TypeInv
  <2>2. /\ m.level \in 1..4 /\ DOMAIN m.players = 1..Len(m.players)
        /\ DOMAIN m.invs = 1..Len(m.invs) /\ DOMAIN m.items = 1..Len(m.items)
    BY <2>1 DEF Model
  <2>3. CASE m.level = 1
    BY <2>3 DEF SelectionShown, levelHosts, levelPlayers, levelInventory, levelItem
  <2>4. CASE m.level = 2
    <3>1. PlayersShown(m)
      BY <2>1, <2>4 DEF Shown
    <3> QED BY <2>2, <2>4, <3>1
      DEF SelectionShown, PlayersShown, levelHosts, levelPlayers, levelInventory, levelItem
  <2>5. CASE m.level = 3
    <3>1. InvsShown(m)
      BY <2>1, <2>5 DEF Shown
    <3> QED BY <2>2, <2>5, <3>1
      DEF SelectionShown, InvsShown, levelHosts, levelPlayers, levelInventory, levelItem
  <2>6. CASE m.level = 4
    <3>1. InvsShown(m) /\ ItemsShown(m)
      BY <2>1, <2>6 DEF Shown
    <3>2. m.invs # <<>>
      <4>1. m.sel[3] \in Nat /\ m.sel[3] < Len(m.invs)
        BY <2>1, <3>1 DEF Model, ItemsShown
      <4> QED BY <4>1
    <3>3. m.cur.fls = Under(m, m.players, 2).fls /\ m.sel[2] < Len(m.players)
      BY <3>1, <3>2 DEF InvsShown
    <3>4. /\ m.sel[3] < Len(m.invs) /\ m.curType = Under(m, m.invs, 3).typ
          /\ \A k \in 1..Len(m.items) : /\ m.items[k].host = selectedHost(m)
                                        /\ m.items[k].fls = m.cur.fls
                                        /\ m.items[k].typ = m.curType
      BY <3>1 DEF ItemsShown
    <3> QED BY <2>2, <2>6, <3>3, <3>4
      DEF SelectionShown, levelHosts, levelPlayers, levelInventory, levelItem
  <2> QED BY <2>2, <2>3, <2>4, <2>5, <2>6
<1> QED BY <1>1, Invariance, PTL

(* The item keys of tui/model.go act on the row under the cursor and on the  *)
(* host selected when they are answered: for the operator who waits these    *)
(* are the item and the host of the row that the prompt was opened on.       *)
THEOREM SpecEditHitsItsRow == Spec => []EditHitsItsRow
<1>1. IInv => EditHitsItsRow
  <2> SUFFICES ASSUME IInv, careful, NEW i \in DOMAIN flight, flight[i].kind = "edit"
               PROVE  flight[i].host = flight[i].row.host /\ flight[i].id = flight[i].row.id
    BY DEF EditHitsItsRow
  <2>1. TaskOf(m, flight[i])
    BY AskedHere
  <2> QED BY <2>1 DEF TaskOf
<1> QED BY <1>1, Invariance, PTL

=============================================================================
