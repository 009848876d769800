---------------------------- MODULE PartsProofs ----------------------------
(***************************************************************************)
(* Theorems about six parts that share no state with the others: the skip  *)
(* list of the memtable, the repair of a database, nanopb's decoder, the   *)
(* names of the logos, LevelDB's environment and its cache; for any number *)
(* of keys, files, entries, failures, kills, fields, characters, threads   *)
(* and handles, and any height, limits, sizes, charges and capacities.     *)
(***************************************************************************)
EXTENDS SkipList, Repair, Nanopb, LogoPaths, PosixEnv, LRUCache, TLAPS,
        FiniteSetTheorems, SequenceTheorems, WellFoundedInduction

-----------------------------------------------------------------------------
(* The skip list: a reader without a lock misses nothing.                  *)

(* The greatest value max_height_ has had.                                 *)
LEMMA Tallest ==
  ASSUME ListTypes
  PROVE  /\ Max(heights) \in heights /\ Max(heights) \in 1 .. kMaxHeight
         /\ \A g \in heights : Max(heights) >= g
<1>1. PICK h \in heights : \A g \in heights : h >= g
  BY DEF ListTypes
<1>2. Max(heights) \in heights /\ \A g \in heights : Max(heights) >= g
  BY <1>1 DEF Max
<1>3. QED
  BY <1>2 DEF ListTypes

(* A node of a level is one of the levels below, and has links there.      *)
LEMMA Nested ==
  ASSUME ListTypes, NEW i \in Nat, NEW j \in Nat, j <= i, NEW n \in Linked(i)
  PROVE  n \in Linked(j)
<1>1. n \in DOMAIN next /\ i \in DOMAIN next[n]
  BY DEF Linked
<1>2. PICK h \in 1 .. kMaxHeight : DOMAIN next[n] = 0 .. h - 1
  BY <1>1 DEF ListTypes
<1>3. j \in DOMAIN next[n]
  BY <1>1, <1>2
<1>4. w.i \in Nat
  BY DEF ListTypes
<1>5. QED
  BY <1>1, <1>3, <1>4 DEF Linked

LEMMA OnLevel ==
  ASSUME ListTypes, NEW i, NEW n \in Linked(i)
  PROVE  i \in Levels /\ n \in Nat /\ n \in DOMAIN next /\ i \in DOMAIN next[n]
<1>1. n \in DOMAIN next /\ i \in DOMAIN next[n]
  BY DEF Linked
<1>2. PICK h \in 1 .. kMaxHeight : DOMAIN next[n] = 0 .. h - 1
  BY <1>1 DEF ListTypes
<1>3. n \in Nat
  BY <1>1, ListAssumption DEF ListTypes, Keys, head
<1>4. QED
  BY <1>1, <1>2, <1>3, ListAssumption DEF Levels

(* The head is on every level.                                             *)
LEMMA HeadLinked ==
  ASSUME ListTypes, WriterInv, NEW i \in Levels
  PROVE  head \in Linked(i)
<1>1. head \in DOMAIN next /\ i \in DOMAIN next[head]
  BY DEF ListTypes
<1>2. Linking => w.at.key # head
  BY ListAssumption DEF WriterInv, Keys, head
<1>3. QED
  BY <1>1, <1>2 DEF Linked

(* What a load of a link gives.                                            *)
LEMMA Follow ==
  ASSUME ListTypes, InOrder, NEW i, NEW x \in Linked(i)
  PROVE  /\ next[x][i] \in Nat /\ x < next[x][i]
         /\ next[x][i] # Garbage /\ next[x][i] # head
         /\ next[x][i] \in Linked(i) \cup {NoNode}
         /\ next[x][i] <= NoNode
         /\ next[x][i] # NoNode => next[x][i] \in DOMAIN next
         /\ \A k \in Linked(i) : k <= x \/ next[x][i] <= k
<1>1. i \in Levels /\ x \in Nat
  BY OnLevel
<1>2. /\ next[x][i] \in Linked(i) \cup {NoNode} /\ x < next[x][i]
      /\ \A k \in Linked(i) : k <= x \/ next[x][i] <= k
  BY <1>1 DEF InOrder
<1>3. \A n \in Linked(i) : n \in DOMAIN next /\ n \in Nat /\ n <= MaxKey
  BY ListAssumption DEF Linked, ListTypes, Keys, head
<1>4. NoNode \in Nat /\ Garbage = NoNode + 1 /\ MaxKey < NoNode
  BY ListAssumption DEF NoNode, Garbage
<1> HIDE DEF NoNode, Garbage
<1>5. PICK y : y = next[x][i]
  OBVIOUS
<1>6. y \in Linked(i) \/ y = NoNode
  BY <1>2, <1>5
<1>7. y \in Nat /\ y <= NoNode /\ (y # NoNode => y \in DOMAIN next)
  BY <1>3, <1>4, <1>6, ListAssumption
<1>8. x < y /\ y # Garbage /\ y # head
  BY <1>1, <1>2, <1>4, <1>5, <1>7 DEF head
<1>9. QED
  BY <1>2, <1>5, <1>7, <1>8

-----------------------------------------------------------------------------
(* The writer's steps and the reader.                                      *)

(* No node leaves a level, and none is forgotten.                          *)
Grows ==
  /\ r' = r
  /\ \A i \in Levels : Linked(i) \subseteq Linked(i)'
  /\ inserted \subseteq inserted' /\ inserted' \subseteq Keys \cap Linked(0)'
  /\ DOMAIN next \subseteq DOMAIN next'

LEMMA ReaderKept ==
  ASSUME ReaderInv, ReadersSeeInserted, Grows
  PROVE  ReaderInv' /\ ReadersSeeInserted'
<1>1. 0 \in Levels
  BY ListAssumption DEF Levels
<1>2. ReaderInv'
  BY <1>1 DEF ReaderInv, Grows
<1>3. ReadersSeeInserted'
  BY DEF ReadersSeeInserted, Skipped, Grows
<1>4. QED
  BY <1>2, <1>3

(* No link of a node on its level changes.                                 *)
Same ==
  \A i \in Levels :
    /\ Linked(i)' = Linked(i)
    /\ \A n \in Linked(i) : next'[n][i] = next[n][i]

LEMMA OrderKept ==
  ASSUME InOrder, Same
  PROVE  InOrder'
BY DEF InOrder, Same

-----------------------------------------------------------------------------
(* Insert                                                                  *)

WriterRecord == [at : At, prev : [Levels -> Nat], height : Nat, i : Nat]

LEMMA InsertStep ==
  ASSUME ListInv, NEW k \in Keys, Insert(k)
  PROVE  ListInv'
<1>1. /\ ListTypes /\ InOrder /\ WriterInv /\ ReaderInv /\ ReadersSeeInserted
      /\ w.at.pc = "idle" /\ k \notin DOMAIN next
      /\ next' = next /\ heights' = heights /\ inserted' = inserted /\ r' = r
  BY DEF ListInv, Insert
<1>2. /\ Max(heights) \in 1 .. kMaxHeight /\ Max(heights) - 1 \in Levels
  BY <1>1, Tallest, ListAssumption DEF Levels
<1>3. /\ w'.at.pc = "search" /\ w'.at.op = "notLess" /\ w'.at.key = k
      /\ w'.at.x = head /\ w'.at.level = Max(heights) - 1
      /\ w' \in WriterRecord
  <2> PICK m \in Nat : m = Max(heights) - 1
    BY <1>2, ListAssumption DEF Levels
  <2> DEFINE a == Search("notLess", k, m)
  <2>1. /\ a.pc = "search" /\ a.op = "notLess" /\ a.key = k /\ a.x = head
        /\ a.level = m
    BY DEF Search
  <2>2. a \in At
    BY ListAssumption DEF Search, At, Keys, head
  <2>3. w' = [w EXCEPT !.at = a]
    BY DEF Insert
  <2> HIDE DEF a
  <2>4. w'.at = a /\ w' \in WriterRecord
    BY <1>1, <2>2, <2>3 DEF ListTypes, WriterRecord
  <2>5. QED
    BY <2>1, <2>4
<1>4. \A i : Linked(i)' = Linked(i)
  BY <1>1, <1>3 DEF Linked, Linking
<1>5. ListTypes'
  BY <1>1, <1>3 DEF ListTypes, WriterRecord
<1>6. InOrder'
  BY <1>1, <1>4, OrderKept DEF Same
<1>7. Max(heights)' = Max(heights)
  BY <1>1 DEF Max
<1>8. WriterInv'
  <2>1. \A i \in Levels : i >= Max(heights) => next[head][i] = NoNode
    BY <1>1 DEF WriterInv
  <2>2. head \in Linked(Max(heights) - 1) /\ head < k
    BY <1>1, <1>2, HeadLinked, ListAssumption DEF Keys, head
  <2>3. ~Linking'
    BY <1>3 DEF Linking
  <2> PICK m \in Nat : m = Max(heights)
    BY <1>2
  <2>4. QED
    BY <1>1, <1>3, <1>4, <1>7, <2>1, <2>2, <2>3 DEF WriterInv
<1>9. Grows
  BY <1>1, <1>4 DEF Grows, ReaderInv
<1>10. QED
  BY <1>1, <1>5, <1>6, <1>8, <1>9, ReaderKept DEF ListInv

LEMMA InsertSearchStep ==
  ASSUME ListInv, InsertSearch
  PROVE  ListInv'
<1>1. /\ ListTypes /\ InOrder /\ WriterInv /\ ReaderInv /\ ReadersSeeInserted
      /\ w.at.pc = "search"
      /\ next' = next /\ heights' = heights /\ inserted' = inserted /\ r' = r
  BY DEF ListInv, InsertSearch
<1>2. PICK m : m = Max(heights)
  OBVIOUS
<1>3. m \in 1 .. kMaxHeight /\ m \in Nat
  BY <1>1, <1>2, Tallest, ListAssumption
<1>4. PICK a \in At : a = w.at
  BY <1>1 DEF ListTypes
<1>5. /\ a.key \in Keys /\ a.key \in Nat /\ a.key \notin DOMAIN next
      /\ a.op = "notLess" /\ a.pc = "search" /\ a.level \in Nat
      /\ a.level <= m - 1 /\ a.x \in Linked(a.level) /\ a.x < a.key
      /\ \A l \in 0 .. m - 1 : a.level < l => GoesBehind(l)
  BY <1>1, <1>2, <1>4, ListAssumption DEF WriterInv, Keys, At
<1>6. PICK n : n = next[a.x][a.level]
  OBVIOUS
<1>7. /\ n \in Nat /\ a.x \in Nat /\ a.level \in Levels /\ a.x \in DOMAIN next
      /\ n \in Linked(a.level) \cup {NoNode}
      /\ n # NoNode => n \in DOMAIN next
  BY <1>1, <1>5, <1>6, Follow, OnLevel
<1>8. a.key < NoNode /\ NoNode \in Nat
  BY <1>5, ListAssumption DEF Keys, NoNode
<1> HIDE DEF NoNode
<1>9. /\ w'.at = Turn(a, n) /\ w'.height = w.height /\ w'.i = w.i
      /\ w'.prev = [w.prev EXCEPT ![a.level] = IF GoesOn(a, n) THEN @ ELSE a.x]
  BY <1>1, <1>4, <1>6 DEF InsertSearch, ListTypes
<1>10. w.prev \in [Levels -> Nat]
  BY <1>1 DEF ListTypes
<1>11. /\ w' \in WriterRecord /\ w'.prev \in [Levels -> Nat]
  <2>1. Turn(a, n) \in At
    <3>1. [a EXCEPT !.x = n] \in At
      BY <1>7 DEF At
    <3>2. a.level > 0 => [a EXCEPT !.level = @ - 1] \in At
      <4>1. \A y \in Nat : [a EXCEPT !.level = y] \in At
        BY DEF At
      <4>2. a.level > 0 => a.level - 1 \in Nat
        BY <1>5
      <4>3. QED
        BY <4>1, <4>2
    <3>3. \A y \in Nat : [a EXCEPT !.pc = "found", !.x = y] \in At
      BY DEF At
    <3>4. Answer(a, n) \in Nat
      BY <1>7 DEF Answer
    <3>5. QED
      BY <3>1, <3>2, <3>3, <3>4 DEF Turn
  <2>2. PICK t : t = Turn(a, n)
    OBVIOUS
  <2>3. PICK v : v = IF GoesOn(a, n) THEN w.prev[a.level] ELSE a.x
    OBVIOUS
  <2>4. v \in Nat
    BY <1>7, <1>10, <2>3
  <2>5. w' = [w EXCEPT !.at = t, !.prev[a.level] = v]
    BY <1>1, <1>4, <1>6, <1>7, <1>10, <2>2, <2>3 DEF InsertSearch, ListTypes
  <2>6. QED
    BY <1>1, <1>7, <1>10, <2>1, <2>2, <2>4, <2>5 DEF ListTypes, WriterRecord
<1>12. w'.at.pc \in {"search", "found"} /\ w'.at.key = a.key /\ w'.at.op = a.op
  BY <1>5, <1>9 DEF Turn, At
<1>13. \A i : Linked(i)' = Linked(i)
  BY <1>1, <1>12 DEF Linked, Linking
<1>14. ListTypes'
  BY <1>1, <1>11 DEF ListTypes, WriterRecord
<1>15. InOrder'
  BY <1>1, <1>13, OrderKept DEF Same
<1>16. Max(heights)' = m
  BY <1>1, <1>2 DEF Max
<1>17. Grows
  BY <1>1, <1>13 DEF Grows, ReaderInv
<1>18. \A l \in 0 .. m - 1 : l # a.level /\ a.level < l => GoesBehind(l)'
  <2> TAKE l \in 0 .. m - 1
  <2> HAVE l # a.level /\ a.level < l
  <2>1. GoesBehind(l)
    BY <1>5
  <2>2. l \in Levels
    BY <1>3, ListAssumption DEF Levels
  <2>3. w'.prev[l] = w.prev[l]
    BY <1>9, <1>10, <2>2
  <2>4. Linked(l)' = Linked(l)
    BY <1>13
  <2>5. /\ w.prev[l] \in Linked(l) /\ w.prev[l] < a.key
        /\ a.key < next[w.prev[l]][l]
    BY <1>4, <2>1 DEF GoesBehind
  <2>6. QED
    BY <1>1, <1>12, <2>3, <2>4, <2>5 DEF GoesBehind
<1>19. ~Linking' /\ w'.at.pc # "publish" /\ w'.at.pc # "end"
  BY <1>12 DEF Linking
<1>20. \A i \in Levels : i >= m => next'[head][i] = NoNode
  BY <1>1, <1>2 DEF WriterInv
<1>21. CASE GoesOn(a, n)
  <2>1. n < a.key /\ w'.at = [a EXCEPT !.x = n]
    BY <1>5, <1>9, <1>21 DEF GoesOn, Turn
  <2>2. n \in Linked(a.level)
    BY <1>5, <1>7, <1>8, <2>1
  <2>3. w'.at.x = n /\ w'.at.level = a.level /\ w'.at.pc = "search"
    BY <1>5, <2>1 DEF At
  <2>4. \A l \in 0 .. m - 1 : a.level < l => GoesBehind(l)'
    BY <1>5, <1>18
  <2>5. WriterInv'
    BY <1>1, <1>5, <1>12, <1>13, <1>16, <1>19, <1>20, <2>1, <2>2, <2>3, <2>4
       DEF WriterInv
  <2>6. QED
    BY <1>1, <1>14, <1>15, <1>17, <2>5, ReaderKept DEF ListInv
<1>22. CASE ~GoesOn(a, n)
  <2>1. a.key <= n /\ w'.prev[a.level] = a.x
    BY <1>5, <1>7, <1>9, <1>10, <1>22 DEF GoesOn
  <2>2. a.key < n
    BY <1>5, <1>7, <1>8, <2>1
  <2>3. GoesBehind(a.level)'
    BY <1>1, <1>5, <1>6, <1>12, <1>13, <2>1, <2>2 DEF GoesBehind
  <2>4. \A l \in 0 .. m - 1 : a.level <= l => GoesBehind(l)'
    BY <1>3, <1>5, <1>18, <2>3
  <2>5. CASE a.level > 0
    <3>1. w'.at = [a EXCEPT !.level = a.level - 1]
      BY <1>9, <1>22, <2>5 DEF Turn
    <3>2. w'.at.x = a.x /\ w'.at.level = a.level - 1 /\ w'.at.pc = "search"
      BY <1>5, <3>1 DEF At
    <3>3. a.x \in Linked(a.level - 1)
      BY <1>1, <1>5, <2>5, Nested
    <3>4. \A l \in 0 .. m - 1 : a.level - 1 < l => GoesBehind(l)'
      BY <1>3, <1>5, <2>4
    <3>5. WriterInv'
      BY <1>1, <1>3, <1>5, <1>12, <1>13, <1>16, <1>19, <1>20, <3>2, <3>3, <3>4
         DEF WriterInv
    <3>6. QED
      BY <1>1, <1>14, <1>15, <1>17, <3>5, ReaderKept DEF ListInv
  <2>6. CASE ~(a.level > 0)
    <3>1. w'.at.pc = "found"
      BY <1>5, <1>9, <1>22, <2>6 DEF Turn, At
    <3>2. \A l \in 0 .. m - 1 : GoesBehind(l)'
      BY <1>3, <1>5, <2>4, <2>6
    <3>3. WriterInv'
      BY <1>1, <1>5, <1>12, <1>16, <1>19, <1>20, <3>1, <3>2 DEF WriterInv
    <3>4. QED
      BY <1>1, <1>14, <1>15, <1>17, <3>3, ReaderKept DEF ListInv
  <2>7. QED
    BY <2>5, <2>6
<1>23. QED
  BY <1>21, <1>22

(* The node is made, and not yet on any level.                             *)
LEMMA NewNodeStep ==
  ASSUME ListInv, NEW h \in 1 .. kMaxHeight, NewNode(h)
  PROVE  ListInv'
<1>1. /\ ListTypes /\ InOrder /\ WriterInv /\ ReaderInv /\ ReadersSeeInserted
      /\ w.at.pc = "found" /\ inserted' = inserted /\ r' = r
  BY DEF ListInv, NewNode
<1>2. PICK m : m = Max(heights)
  OBVIOUS
<1>3. /\ m \in 1 .. kMaxHeight /\ m \in Nat /\ m \in heights
      /\ \A g \in heights : m >= g
  BY <1>1, <1>2, Tallest, ListAssumption
<1>4. PICK k : k = w.at.key
  OBVIOUS
<1>5. /\ k \in Keys /\ k \in Nat /\ k \notin DOMAIN next /\ k # head
      /\ k < NoNode /\ h \in Nat
      /\ \A l \in 0 .. m - 1 : GoesBehind(l)
  BY <1>1, <1>2, <1>4, ListAssumption DEF WriterInv, Keys, head, NoNode
<1>6. /\ DOMAIN next' = DOMAIN next \cup {k}
      /\ \A n \in DOMAIN next : next'[n] = next[n]
      /\ DOMAIN next'[k] = 0 .. h - 1
  BY <1>4, <1>5 DEF NewNode
<1>7. w.prev \in [Levels -> Nat] /\ w.at \in At
  BY <1>1 DEF ListTypes
<1>8. /\ w'.at = [w.at EXCEPT !.pc = "link"] /\ w'.height = h /\ w'.i = 0
      /\ w'.prev = [i \in Levels |-> IF i < m THEN w.prev[i] ELSE head]
      /\ w' \in WriterRecord
  <2>1. [w.at EXCEPT !.pc = "link"] \in At
    BY <1>7 DEF At
  <2>2. [i \in Levels |-> IF i < m THEN w.prev[i] ELSE head]
          \in [Levels -> Nat]
    BY <1>7 DEF head
  <2>3. QED
    BY <1>1, <1>2, <1>5, <2>1, <2>2 DEF NewNode, ListTypes, WriterRecord
<1>9. w'.at.pc = "link" /\ w'.at.key = k
  BY <1>4, <1>7, <1>8 DEF At
<1>10. \A i \in Levels : Linked(i)' = Linked(i)
  <2> TAKE i \in Levels
  <2>1. i \in Nat /\ i >= 0
    BY ListAssumption DEF Levels
  <2>2. Linked(i)' = {n \in DOMAIN next' : i \in DOMAIN next'[n] /\ n # k}
    BY <1>8, <1>9, <2>1 DEF Linked, Linking
  <2>3. Linked(i) = {n \in DOMAIN next : i \in DOMAIN next[n]}
    BY <1>1 DEF Linked, Linking
  <2>4. QED
    BY <1>5, <1>6, <2>2, <2>3
<1>11. \A i : \A n \in Linked(i) : n \in DOMAIN next
  BY DEF Linked
<1>12. InOrder'
  BY <1>1, <1>6, <1>10, <1>11, OrderKept DEF Same
<1>13. PICK g \in 1 .. kMaxHeight : /\ g \in heights' /\ m <= g /\ h <= g
                                   /\ \A x \in heights' : g >= x
  <2>1. CASE h > m
    <3>1. heights' = heights \cup {h}
      BY <1>2, <2>1 DEF NewNode
    <3>2. QED
      BY <1>3, <1>5, <2>1, <3>1 DEF ListTypes
  <2>2. CASE ~(h > m)
    <3>1. heights' = heights
      BY <1>2, <2>2 DEF NewNode
    <3>2. QED
      BY <1>3, <1>5, <2>2, <3>1
  <2>3. QED
    BY <2>1, <2>2
<1>14. ListTypes'
  <2>1. heights' \subseteq 1 .. kMaxHeight
    BY <1>1, <1>2 DEF NewNode, ListTypes
  <2>2. \A n \in DOMAIN next' :
          \E x \in 1 .. kMaxHeight : DOMAIN next'[n] = 0 .. x - 1
    BY <1>1, <1>6 DEF ListTypes
  <2>3. DOMAIN next' \subseteq {head} \cup Keys /\ head \in DOMAIN next'
        /\ DOMAIN next'[head] = Levels
    BY <1>1, <1>5, <1>6 DEF ListTypes
  <2>4. QED
    BY <1>1, <1>8, <1>13, <2>1, <2>2, <2>3 DEF ListTypes, WriterRecord
<1>15. Max(heights)' \in Nat /\ m <= Max(heights)' /\ h <= Max(heights)'
  <2>1. /\ Max(heights)' \in 1 .. kMaxHeight
        /\ \A x \in heights' : Max(heights)' >= x
    <3>1. Max(heights') \in heights' /\ \A x \in heights' : Max(heights') >= x
      BY <1>13 DEF Max
    <3>2. QED
      BY <1>14, <3>1 DEF ListTypes
  <2>2. QED
    BY <1>3, <1>13, <2>1, ListAssumption
<1>16. \A l \in 0 .. h - 1 : GoesBehind(l)'
  <2> TAKE l \in 0 .. h - 1
  <2>1. l \in Levels /\ l \in Nat
    BY <1>5, ListAssumption DEF Levels
  <2>2. Linked(l)' = Linked(l)
    BY <1>10, <2>1
  <2>3. CASE l < m
    <3>1. /\ w'.prev[l] = w.prev[l] /\ w.prev[l] \in Linked(l)
          /\ w.prev[l] < k /\ k < next[w.prev[l]][l]
      BY <1>3, <1>4, <1>5, <1>8, <2>1, <2>3 DEF GoesBehind
    <3>2. next'[w.prev[l]] = next[w.prev[l]]
      BY <1>6, <1>11, <3>1
    <3>3. QED
      BY <1>9, <2>2, <3>1, <3>2 DEF GoesBehind
  <2>4. CASE ~(l < m)
    <3>1. w'.prev[l] = head /\ head \in Linked(l)
      BY <1>1, <1>8, <2>1, <2>4, HeadLinked
    <3>2. next'[head] = next[head]
      BY <1>6, <1>11, <3>1
    <3>3. next[head][l] = NoNode
      BY <1>1, <1>2, <1>3, <2>1, <2>4 DEF WriterInv
    <3>4. head < k
      BY <1>5 DEF head
    <3>5. QED
      BY <1>5, <1>9, <2>2, <3>1, <3>2, <3>3, <3>4 DEF GoesBehind
  <2>5. QED
    BY <2>3, <2>4
<1>17. WriterInv'
  <2>1. \A i \in Levels : i >= Max(heights)' => next'[head][i] = NoNode
    <3> TAKE i \in Levels
    <3> HAVE i >= Max(heights)'
    <3>1. i >= m
      BY <1>3, <1>15, ListAssumption DEF Levels
    <3>2. next[head][i] = NoNode /\ head \in DOMAIN next
      BY <1>1, <1>2, <3>1 DEF WriterInv, ListTypes
    <3>3. QED
      BY <1>6, <3>2
  <2>2. \A l \in w'.i .. w'.height - 1 : GoesBehind(l)'
    BY <1>8, <1>16
  <2>3. /\ w'.at.key \in Keys /\ w'.at.key \in DOMAIN next'
        /\ w'.height \in 1 .. Max(heights)' /\ w'.i < w'.height
        /\ DOMAIN next'[w'.at.key] = 0 .. w'.height - 1
    BY <1>5, <1>6, <1>8, <1>9, <1>15
  <2>4. QED
    BY <1>9, <2>1, <2>2, <2>3 DEF WriterInv
<1>18. Grows
  <2>1. 0 \in Levels
    BY ListAssumption DEF Levels
  <2>2. QED
    BY <1>1, <1>6, <1>10, <2>1 DEF Grows, ReaderInv
<1>19. QED
  BY <1>1, <1>12, <1>14, <1>17, <1>18, ReaderKept DEF ListInv

(* A store of one link.                                                    *)
LEMMA Store ==
  ASSUME NEW f, NEW a \in DOMAIN f, NEW b \in DOMAIN f[a], NEW c, NEW g,
         g = [f EXCEPT ![a][b] = c]
  PROVE  /\ DOMAIN g = DOMAIN f /\ g[a][b] = c
         /\ \A n \in DOMAIN f : DOMAIN g[n] = DOMAIN f[n]
         /\ \A n \in DOMAIN f : \A i \in DOMAIN f[n] :
              n # a \/ i # b => g[n][i] = f[n][i]
OBVIOUS

(* A store leaves the heights of the nodes alone.                          *)
LEMMA TypesKept ==
  ASSUME ListTypes, DOMAIN next' = DOMAIN next,
         \A n \in DOMAIN next : DOMAIN next'[n] = DOMAIN next[n],
         w' \in WriterRecord, heights' = heights, r' = r
  PROVE  ListTypes'
BY DEF ListTypes, WriterRecord

(* The link of the new node is written before anyone can see it.           *)
LEMMA LinkStep ==
  ASSUME ListInv, Link
  PROVE  ListInv'
<1>1. /\ ListTypes /\ InOrder /\ WriterInv /\ ReaderInv /\ ReadersSeeInserted
      /\ w.at.pc = "link" /\ Linking
      /\ heights' = heights /\ inserted' = inserted /\ r' = r
  BY DEF ListInv, Link, Linking
<1>2. PICK k, j, p : k = w.at.key /\ j = w.i /\ p = w.prev[j]
  OBVIOUS
<1>3. /\ k \in Keys /\ k \in DOMAIN next /\ j \in Nat /\ w.height \in Nat
      /\ j < w.height /\ DOMAIN next[k] = 0 .. w.height - 1
      /\ w.height \in 1 .. Max(heights)
      /\ \A l \in j .. w.height - 1 : GoesBehind(l)
  BY <1>1, <1>2, ListAssumption DEF WriterInv, ListTypes
<1>4. /\ j \in 0 .. w.height - 1 /\ j \in DOMAIN next[k]
      /\ j \in j .. w.height - 1
  BY <1>3
<1>5. /\ p \in Linked(j) /\ p < k /\ k < next[p][j] /\ p \in Nat /\ k \in Nat
      /\ p \in DOMAIN next /\ j \in DOMAIN next[p]
  BY <1>1, <1>2, <1>3, <1>4, OnLevel, ListAssumption DEF GoesBehind, Keys
<1>6. next' = [next EXCEPT ![k][j] = next[p][j]]
  BY <1>2 DEF Link, Level, BottomUp
<1>7. /\ DOMAIN next' = DOMAIN next /\ next'[k][j] = next[p][j]
      /\ \A n \in DOMAIN next : DOMAIN next'[n] = DOMAIN next[n]
      /\ \A n \in DOMAIN next : \A i \in DOMAIN next[n] :
           n # k \/ i # j => next'[n][i] = next[n][i]
  BY <1>3, <1>4, <1>6, Store
<1>8. /\ w'.at = [w.at EXCEPT !.pc = "publish"] /\ w'.prev = w.prev
      /\ w'.height = w.height /\ w'.i = w.i /\ w' \in WriterRecord
  <2>1. [w.at EXCEPT !.pc = "publish"] \in At
    BY <1>1 DEF ListTypes, At
  <2>2. QED
    BY <1>1, <2>1 DEF Link, ListTypes, WriterRecord
<1>9. w'.at.pc = "publish" /\ w'.at.key = k /\ Linking'
  BY <1>1, <1>2, <1>8 DEF ListTypes, At, Linking
<1>10. \A i : Linked(i)' = Linked(i)
  BY <1>1, <1>2, <1>7, <1>8, <1>9 DEF Linked
<1>11. \A i : \A n \in Linked(i) : next'[n][i] = next[n][i]
  <2> TAKE i
  <2> TAKE n \in Linked(i)
  <2>1. /\ n \in DOMAIN next /\ i \in DOMAIN next[n] /\ i \in Nat
        /\ n # k \/ ~(i >= j)
    BY <1>1, <1>2, OnLevel, ListAssumption DEF Linked, Levels
  <2>2. n # k \/ i # j
    BY <1>3, <2>1
  <2>3. QED
    BY <1>7, <2>1, <2>2
<1>12. InOrder'
  BY <1>1, <1>10, <1>11, OrderKept DEF Same
<1>13. ListTypes'
  BY <1>1, <1>7, <1>8, TypesKept
<1>14. WriterInv'
  <2>1. Max(heights)' = Max(heights)
    BY <1>1 DEF Max
  <2>2. \A i \in Levels : i >= Max(heights) => next'[head][i] = NoNode
    BY <1>1, <1>11, HeadLinked DEF WriterInv
  <2>3. \A l \in j .. w.height - 1 : GoesBehind(l)'
    <3> TAKE l \in j .. w.height - 1
    <3>1. GoesBehind(l)
      BY <1>3
    <3>2. Linked(l)' = Linked(l) /\ next'[w.prev[l]][l] = next[w.prev[l]][l]
      BY <1>10, <1>11, <3>1 DEF GoesBehind
    <3>3. QED
      BY <1>2, <1>8, <1>9, <3>1, <3>2 DEF GoesBehind
  <2>4. next'[p][j] = next[p][j]
    BY <1>5, <1>11
  <2>5. QED
    BY <1>2, <1>3, <1>7, <1>8, <1>9, <2>1, <2>2, <2>3, <2>4 DEF WriterInv
<1>15. Grows
  BY <1>1, <1>7, <1>10 DEF Grows, ReaderInv
<1>16. QED
  BY <1>1, <1>12, <1>13, <1>14, <1>15, ReaderKept DEF ListInv

(* One store puts the new node on a level, behind its predecessor there.   *)
LEMMA PublishStep ==
  ASSUME ListInv, Publish
  PROVE  ListInv'
<1>1. /\ ListTypes /\ InOrder /\ WriterInv /\ ReaderInv /\ ReadersSeeInserted
      /\ w.at.pc = "publish" /\ Linking /\ heights' = heights /\ r' = r
  BY DEF ListInv, Publish, Linking
<1>2. PICK k, j, p : k = w.at.key /\ j = w.i /\ p = w.prev[j]
  OBVIOUS
<1>3. /\ k \in Keys /\ k \in DOMAIN next /\ j \in Nat /\ w.height \in Nat
      /\ j < w.height /\ DOMAIN next[k] = 0 .. w.height - 1
      /\ w.height \in 1 .. Max(heights) /\ k \in Nat
      /\ \A l \in j .. w.height - 1 : GoesBehind(l)
      /\ next[k][j] = next[p][j]
  BY <1>1, <1>2, ListAssumption DEF WriterInv, ListTypes, Keys
<1>4. /\ j \in 0 .. w.height - 1 /\ j \in DOMAIN next[k]
      /\ j \in j .. w.height - 1
  BY <1>3
<1>5. PICK q : q = next[p][j]
  OBVIOUS
<1>6. /\ p \in Linked(j) /\ p < k /\ k < q /\ p \in Nat /\ j \in Levels
      /\ p \in DOMAIN next /\ j \in DOMAIN next[p]
  BY <1>1, <1>2, <1>3, <1>4, <1>5, OnLevel DEF GoesBehind
<1>7. /\ q \in Nat /\ q \in Linked(j) \cup {NoNode}
      /\ \A x \in Linked(j) : x <= p \/ q <= x
  BY <1>1, <1>5, <1>6, Follow
<1>8. next' = [next EXCEPT ![p][j] = k]
  BY <1>2 DEF Publish, Level, BottomUp
<1>9. /\ DOMAIN next' = DOMAIN next /\ next'[p][j] = k
      /\ \A n \in DOMAIN next : DOMAIN next'[n] = DOMAIN next[n]
      /\ \A n \in DOMAIN next : \A i \in DOMAIN next[n] :
           n # p \/ i # j => next'[n][i] = next[n][i]
  BY <1>6, <1>8, Store
<1>10. w.at \in At /\ w.prev \in [Levels -> Nat] /\ w.height \in Nat
  BY <1>1 DEF ListTypes
<1>11. ASSUME j + 1 < w.height
       PROVE  /\ w'.at.pc = "link" /\ w'.at.key = k /\ Linking'
              /\ w'.prev = w.prev /\ w'.height = w.height /\ w'.i = j + 1
              /\ w' \in WriterRecord /\ inserted' = inserted
  <2>1. /\ w' = [w EXCEPT !.at.pc = "link", !.i = @ + 1]
        /\ inserted' = inserted
    BY <1>2, <1>11 DEF Publish
  <2>2. /\ w'.at = [w.at EXCEPT !.pc = "link"] /\ w'.prev = w.prev
        /\ w'.height = w.height /\ w'.i = j + 1 /\ w' \in WriterRecord
    <3>1. [w.at EXCEPT !.pc = "link"] \in At
      BY <1>10 DEF At
    <3>2. j + 1 \in Nat
      BY <1>3
    <3>3. QED
      BY <1>1, <1>2, <2>1, <3>1, <3>2 DEF ListTypes, WriterRecord
  <2>3. w'.at.pc = "link" /\ w'.at.key = k /\ Linking'
    BY <1>2, <1>10, <2>2 DEF At, Linking
  <2>4. QED
    BY <2>1, <2>2, <2>3
<1>12. ASSUME ~(j + 1 < w.height)
       PROVE  /\ w'.at = Idle /\ w'.at.pc = "idle" /\ ~Linking'
              /\ w' \in WriterRecord /\ inserted' = inserted \cup {k}
              /\ w.height = j + 1
  <2>1. /\ w' = [w EXCEPT !.at = Idle, !.height = 0, !.i = 0,
                          !.prev = [i \in Levels |-> head]]
        /\ inserted' = inserted \cup {k}
    BY <1>2, <1>12 DEF Publish
  <2>2. Idle \in At /\ Idle.pc = "idle"
    BY DEF Idle, At, head
  <2>3. [i \in Levels |-> head] \in [Levels -> Nat]
    BY DEF head
  <2>4. w'.at = Idle /\ w' \in WriterRecord
    BY <1>1, <2>1, <2>2, <2>3 DEF ListTypes, WriterRecord
  <2>5. w.height = j + 1
    BY <1>3, <1>12
  <2>6. QED
    BY <2>1, <2>2, <2>4, <2>5 DEF Linking
<1>13. w' \in WriterRecord
  BY <1>11, <1>12
<1>14. \A i \in Levels : k \in Linked(i)' <=> i <= j
  <2> TAKE i \in Levels
  <2>1. i \in Nat
    BY ListAssumption DEF Levels
  <2>2. k \in DOMAIN next' /\ DOMAIN next'[k] = 0 .. w.height - 1
    BY <1>3, <1>9
  <2>3. CASE j + 1 < w.height
    BY <1>3, <1>11, <2>1, <2>2, <2>3 DEF Linked
  <2>4. CASE ~(j + 1 < w.height)
    BY <1>3, <1>12, <2>1, <2>2, <2>4 DEF Linked
  <2>5. QED
    BY <2>3, <2>4
<1>15. \A i \in Levels : k \in Linked(i) <=> i < j
  BY <1>1, <1>2, <1>3, ListAssumption DEF Linked, Levels
<1>16. \A i \in Levels : \A n : n # k => (n \in Linked(i)' <=> n \in Linked(i))
  <2>1. CASE j + 1 < w.height
    BY <1>2, <1>9, <1>11, <2>1 DEF Linked
  <2>2. CASE ~(j + 1 < w.height)
    BY <1>2, <1>9, <1>12, <2>2 DEF Linked
  <2>3. QED
    BY <2>1, <2>2
<1>17. /\ Linked(j)' = Linked(j) \cup {k}
       /\ \A i \in Levels : i # j => Linked(i)' = Linked(i)
  <2>1. \A i \in Levels : i # j => (i <= j <=> i < j)
    BY <1>3, ListAssumption DEF Levels
  <2>2. k \in Linked(j)'
    BY <1>3, <1>6, <1>14
  <2>3. ASSUME NEW n PROVE n \in Linked(j)' <=> n \in Linked(j) \cup {k}
    BY <1>6, <1>16, <2>2
  <2>4. ASSUME NEW i \in Levels, i # j, NEW n
        PROVE  n \in Linked(i)' <=> n \in Linked(i)
    BY <1>14, <1>15, <1>16, <2>1, <2>4
  <2>5. QED
    BY <2>3, <2>4
<1>18. \A i \in Levels : \A n \in Linked(i) :
         n # p \/ i # j => next'[n][i] = next[n][i]
  BY <1>1, <1>9, OnLevel
<1>19. next'[k][j] = q
  BY <1>3, <1>4, <1>5, <1>6, <1>9
<1>20. InOrder'
  <2> SUFFICES ASSUME NEW i \in Levels, NEW n \in Linked(i)'
               PROVE  /\ next'[n][i] \in Linked(i)' \cup {NoNode}
                      /\ n < next'[n][i]
                      /\ \A x \in Linked(i)' : x <= n \/ next'[n][i] <= x
    BY DEF InOrder
  <2>1. CASE i # j
    <3>1. Linked(i)' = Linked(i) /\ next'[n][i] = next[n][i]
      BY <1>17, <1>18, <2>1
    <3>2. QED
      BY <1>1, <3>1 DEF InOrder
  <2>2. CASE i = j /\ n = k
    <3>1. next'[n][i] = q
      BY <1>19, <2>2
    <3>2. q \in Linked(i)' \cup {NoNode} /\ n < q
      BY <1>6, <1>7, <1>17, <2>2
    <3>3. ASSUME NEW x \in Linked(i)' PROVE x <= n \/ q <= x
      <4>1. CASE x = k
        BY <1>3, <2>2, <4>1
      <4>2. CASE x \in Linked(j)
        <5>1. x \in Nat /\ (x <= p \/ q <= x)
          BY <1>1, <1>7, <4>2, OnLevel
        <5>2. QED
          BY <1>3, <1>6, <2>2, <5>1
      <4>3. QED
        BY <1>17, <2>2, <4>1, <4>2
    <3>4. QED
      BY <3>1, <3>2, <3>3
  <2>3. CASE i = j /\ n = p
    <3>1. next'[n][i] = k
      BY <1>9, <2>3
    <3>2. k \in Linked(i)' /\ n < k
      BY <1>6, <1>17, <2>3
    <3>3. ASSUME NEW x \in Linked(i)' PROVE x <= n \/ k <= x
      <4>1. CASE x = k
        BY <1>3, <4>1
      <4>2. CASE x \in Linked(j)
        <5>1. x \in Nat /\ (x <= p \/ q <= x)
          BY <1>1, <1>7, <4>2, OnLevel
        <5>2. QED
          BY <1>3, <1>6, <1>7, <2>3, <5>1
      <4>3. QED
        BY <1>17, <2>3, <4>1, <4>2
    <3>4. QED
      BY <3>1, <3>2, <3>3
  <2>4. CASE i = j /\ n # k /\ n # p
    <3>1. n \in Linked(j)
      BY <1>17, <2>4
    <3>2. PICK y : y = next[n][j]
      OBVIOUS
    <3>3. /\ next'[n][i] = y /\ n \in Nat /\ y \in Nat /\ n < y
          /\ y \in Linked(j) \cup {NoNode}
          /\ \A x \in Linked(j) : x <= n \/ y <= x
      BY <1>1, <1>6, <1>18, <2>4, <3>1, <3>2, Follow, OnLevel
    <3>4. k <= n \/ y <= k
      <4>1. p <= n \/ y <= p
        BY <1>6, <3>3
      <4>2. n <= p \/ q <= n
        BY <1>7, <3>1
      <4>3. QED
        BY <1>3, <1>6, <1>7, <2>4, <3>3, <4>1, <4>2
    <3>5. QED
      BY <1>17, <2>4, <3>3, <3>4
  <2>5. QED
    BY <2>1, <2>2, <2>3, <2>4
<1>21. ListTypes'
  BY <1>1, <1>9, <1>13, TypesKept
<1>22. Max(heights)' = Max(heights)
  BY <1>1 DEF Max
<1>23. \A i \in Levels : i >= Max(heights) => next'[head][i] = NoNode
  <2> TAKE i \in Levels
  <2> HAVE i >= Max(heights)
  <2>1. Max(heights) \in Nat
    BY <1>1, Tallest, ListAssumption
  <2>2. i # j
    BY <1>3, <2>1, ListAssumption DEF Levels
  <2>3. QED
    BY <1>1, <1>18, <2>2, HeadLinked DEF WriterInv
<1>24. WriterInv'
  <2>1. CASE j + 1 < w.height
    <3>1. ASSUME NEW l \in j + 1 .. w.height - 1 PROVE GoesBehind(l)'
      <4>1. l \in j .. w.height - 1 /\ l # j
        BY <1>3
      <4>2. GoesBehind(l)
        BY <1>3, <4>1
      <4>3. l \in Levels
        BY <1>1, <4>2, OnLevel DEF GoesBehind
      <4>4. /\ Linked(l)' = Linked(l)
            /\ next'[w.prev[l]][l] = next[w.prev[l]][l]
        BY <1>17, <1>18, <4>1, <4>2, <4>3 DEF GoesBehind
      <4>5. w'.prev[l] = w.prev[l] /\ w'.at.key = w.at.key
        BY <1>2, <1>11, <2>1
      <4>6. QED
        BY <4>2, <4>4, <4>5 DEF GoesBehind
    <3>2. \A l \in w'.i .. w'.height - 1 : GoesBehind(l)'
      BY <1>11, <2>1, <3>1
    <3>3. /\ w'.at.key \in Keys /\ w'.at.key \in DOMAIN next'
          /\ w'.height \in 1 .. Max(heights)' /\ w'.i < w'.height
          /\ DOMAIN next'[w'.at.key] = 0 .. w'.height - 1
      BY <1>3, <1>9, <1>11, <1>22, <2>1
    <3>4. QED
      BY <1>11, <1>22, <1>23, <2>1, <3>2, <3>3 DEF WriterInv
  <2>2. CASE ~(j + 1 < w.height)
    BY <1>12, <1>22, <1>23, <2>2 DEF WriterInv
  <2>3. QED
    BY <2>1, <2>2
<1>25. Grows
  <2>1. 0 \in Levels /\ 0 <= j
    BY <1>3, ListAssumption DEF Levels
  <2>2. k \in Linked(0)'
    BY <1>14, <2>1
  <2>3. \A i \in Levels : Linked(i) \subseteq Linked(i)'
    BY <1>17
  <2>4. inserted' = inserted \/ inserted' = inserted \cup {k}
    BY <1>11, <1>12
  <2>5. inserted \subseteq Keys \cap Linked(0)
    BY <1>1 DEF ReaderInv
  <2>6. QED
    BY <1>1, <1>3, <1>9, <2>1, <2>2, <2>3, <2>4, <2>5 DEF Grows
<1>26. QED
  BY <1>1, <1>20, <1>21, <1>24, <1>25, ReaderKept DEF ListInv

-----------------------------------------------------------------------------
(* The iterator                                                            *)

ReaderRecord == [at : At, node : Nat, before : SUBSET Keys]

(* A reader's step writes nothing.                                         *)
LEMMA ReaderMoves ==
  ASSUME ListInv, UNCHANGED <<next, heights, inserted, w>>,
         r' \in ReaderRecord, ReaderInv', ReadersSeeInserted'
  PROVE  ListInv'
<1>1. \A i : Linked(i)' = Linked(i)
  BY DEF Linked, Linking
<1>2. ListTypes'
  BY DEF ListInv, ListTypes, ReaderRecord
<1>3. InOrder'
  BY <1>1, OrderKept DEF ListInv, Same
<1>4. Max(heights)' = Max(heights)
  BY DEF Max
<1>5. WriterInv'
  BY <1>1, <1>4 DEF ListInv, WriterInv, GoesBehind, Linking
<1>6. QED
  BY <1>2, <1>3, <1>5 DEF ListInv

(* A search begins at the head.                                            *)
LEMMA BeginStep ==
  ASSUME ListInv, NEW op \in {"notLess", "less", "last"}, NEW key \in Nat,
         NEW h \in heights, head < key, key <= NoNode, Begin(op, key, h)
  PROVE  ListInv'
<1>1. /\ ListTypes /\ InOrder /\ WriterInv /\ ReaderInv /\ ReadersSeeInserted
      /\ UNCHANGED <<next, heights, inserted, w>>
  BY DEF ListInv, Begin
<1>2. h \in Nat /\ h - 1 \in Levels /\ h - 1 \in Nat
  BY <1>1, ListAssumption DEF ListTypes, Levels
<1>3. PICK a : a = Search(op, key, h - 1)
  OBVIOUS
<1>4. /\ a.pc = "search" /\ a.op = op /\ a.key = key /\ a.x = head
      /\ a.level = h - 1 /\ a \in At
  BY <1>2, <1>3 DEF Search, At, head
<1>5. /\ r'.at = a /\ r'.node = r.node /\ r'.before = inserted
      /\ r' \in ReaderRecord
  <2>1. r' = [r EXCEPT !.at = a, !.before = inserted]
    BY <1>3 DEF Begin
  <2>2. inserted \in SUBSET Keys
    BY <1>1 DEF ReaderInv
  <2>3. QED
    BY <1>1, <1>4, <2>1, <2>2 DEF ListTypes, ReaderRecord
<1>6. \A i : Linked(i)' = Linked(i)
  BY <1>1 DEF Linked, Linking
<1>7. head \in Linked(h - 1)
  BY <1>1, <1>2, HeadLinked
<1>8. head # Garbage
  BY ListAssumption DEF head, Garbage
<1>9. ReaderInv'
  BY <1>1, <1>2, <1>4, <1>5, <1>6, <1>7 DEF ReaderInv
<1>10. ReadersSeeInserted'
  BY <1>1, <1>4, <1>5, <1>8 DEF ReadersSeeInserted
<1>11. QED
  BY <1>1, <1>5, <1>9, <1>10, ReaderMoves

(* Where a call may end: no node of the list lies between where it was     *)
(* sent and the answer.                                                    *)
Arrives(op, key, n) ==
  /\ n \in Linked(0) \cup {NoNode} /\ n # head
  /\ \A k \in Keys \cap Linked(0) :
       /\ op = "notLess" => k < key \/ n <= k
       /\ op = "less" => key <= k \/ (n # NoNode /\ k <= n)
       /\ op = "last" => n # NoNode /\ k <= n
  /\ n # NoNode => /\ op = "notLess" => n >= key
                   /\ op = "less" => n < key

LEMMA EndStep ==
  ASSUME ListInv, NEW op \in {"notLess", "less", "last"}, NEW key \in Nat,
         NEW n \in Nat, Arrives(op, key, n), SetNode(op, key, n),
         UNCHANGED <<next, heights, inserted, w>>
  PROVE  ListInv'
<1>1. ListTypes /\ ReaderInv /\ ReadersSeeInserted
  BY DEF ListInv
<1>2. PICK a : a = [pc |-> "end", op |-> op, key |-> key, x |-> head, level |-> 0]
  OBVIOUS
<1>3. /\ a.pc = "end" /\ a.op = op /\ a.key = key /\ a.x = head /\ a \in At
  BY <1>2 DEF At, head
<1>4. PICK b : b = IF r.at.pc = "search" THEN r.before ELSE inserted
  OBVIOUS
<1>5. b \subseteq inserted /\ inserted \subseteq Keys \cap Linked(0)
  BY <1>1, <1>4 DEF ReaderInv
<1>6. r'.at = a /\ r'.node = n /\ r'.before = b /\ r' \in ReaderRecord
  <2>1. r' = [r EXCEPT !.at = a, !.before = b, !.node = n]
    BY <1>1, <1>2, <1>4 DEF SetNode, ListTypes
  <2>2. b \in SUBSET Keys
    BY <1>5
  <2>3. QED
    BY <1>1, <1>3, <2>1, <2>2 DEF ListTypes, ReaderRecord
<1>7. \A i : Linked(i)' = Linked(i)
  BY DEF Linked, Linking
<1>8. ReaderInv'
  BY <1>1, <1>3, <1>5, <1>6, <1>7 DEF ReaderInv, Arrives
<1>9. n # NoNode => n \in DOMAIN next /\ n <= MaxKey
  BY <1>1, ListAssumption DEF Arrives, Linked, ListTypes, Keys, head
<1>10. head # Garbage /\ n # Garbage
  BY <1>9, ListAssumption DEF head, Garbage, NoNode
<1>11. \A k \in b : k \in Nat /\ k \in Keys \cap Linked(0)
  BY <1>5, ListAssumption DEF Keys
<1>12. Skipped' = {}
  <2>1. CASE op = "notLess"
    <3>1. Skipped' = {k \in b : key <= k /\ k < n}
      BY <1>3, <1>6, <2>1 DEF Skipped
    <3>2. \A k \in b : k < key \/ n <= k
      BY <1>11, <2>1 DEF Arrives
    <3>3. QED
      BY <1>11, <3>1, <3>2
  <2>2. CASE op = "less"
    <3>1. Skipped' = {k \in b : k < key /\ (n = NoNode \/ n < k)}
      BY <1>3, <1>6, <2>2 DEF Skipped
    <3>2. \A k \in b : key <= k \/ (n # NoNode /\ k <= n)
      BY <1>11, <2>2 DEF Arrives
    <3>3. QED
      BY <1>11, <3>1, <3>2
  <2>3. CASE op = "last"
    <3>1. Skipped' = {k \in b : n = NoNode \/ n < k}
      BY <1>3, <1>6, <2>3 DEF Skipped
    <3>2. \A k \in b : n # NoNode /\ k <= n
      BY <1>11, <2>3 DEF Arrives
    <3>3. QED
      BY <1>11, <3>1, <3>2
  <2>4. QED
    BY <2>1, <2>2, <2>3
<1>13. ReadersSeeInserted'
  BY <1>3, <1>6, <1>9, <1>10, <1>12 DEF ReadersSeeInserted, Arrives
<1>14. QED
  BY <1>6, <1>8, <1>13, ReaderMoves

(* Where the iterator stands is a key of the list.                         *)
LEMMA OnKey ==
  ASSUME ListInv, r.node # NoNode
  PROVE  r.node \in Linked(0) /\ r.node \in Keys /\ r.node \in Nat
<1>1. r.node \in Linked(0) /\ r.node # head
  BY DEF ListInv, ReaderInv
<1>2. QED
  BY <1>1, ListAssumption DEF ListInv, ListTypes, Linked, Keys

LEMMA SeekSteps ==
  ASSUME ListInv, NEW h \in heights,
         (\E k \in Keys : Seek(k, h)) \/ SeekToLast(h) \/ Prev(h)
  PROVE  ListInv'
<1>1. \A k \in Keys : k \in Nat /\ head < k /\ k <= NoNode
  BY ListAssumption DEF Keys, head, NoNode
<1>2. NoNode \in Nat /\ head < NoNode /\ NoNode <= NoNode
  BY ListAssumption DEF head, NoNode
<1>3. CASE \E k \in Keys : Seek(k, h)
  BY <1>1, <1>3, BeginStep DEF Seek
<1>4. CASE SeekToLast(h)
  BY <1>2, <1>4, BeginStep DEF SeekToLast
<1>5. CASE Prev(h)
  <2>1. r.node \in Keys /\ Begin("less", r.node, h)
    BY <1>5, OnKey DEF Prev, Valid
  <2>2. QED
    BY <1>1, <2>1, BeginStep
<1>6. QED
  BY <1>3, <1>4, <1>5

LEMMA FirstStep ==
  ASSUME ListInv, SeekToFirst
  PROVE  ListInv'
<1>1. head \in Linked(0)
  BY HeadLinked, ListAssumption DEF ListInv, Levels
<1>2. PICK n : n = next[head][0]
  OBVIOUS
<1>3. /\ n \in Nat /\ head < n /\ n # head /\ n \in Linked(0) \cup {NoNode}
      /\ \A k \in Linked(0) : k <= head \/ n <= k
  BY <1>1, <1>2, Follow DEF ListInv
<1>4. \A k \in Keys : ~(k <= head)
  BY ListAssumption DEF Keys, head
<1>5. n >= 1
  BY <1>3 DEF head
<1>6. Arrives("notLess", 1, n)
  BY <1>3, <1>4, <1>5 DEF Arrives
<1>7. QED
  BY <1>2, <1>3, <1>6, EndStep DEF SeekToFirst

LEMMA NextStep ==
  ASSUME ListInv, Next_
  PROVE  ListInv'
<1>1. PICK y \in Nat : y = r.node /\ y \in Linked(0)
  BY OnKey DEF Next_, Valid
<1>2. PICK n : n = next[y][0]
  OBVIOUS
<1>3. /\ n \in Nat /\ y < n /\ n # head /\ n \in Linked(0) \cup {NoNode}
      /\ \A k \in Linked(0) : k <= y \/ n <= k
  BY <1>1, <1>2, Follow DEF ListInv
<1>4. \A k \in Keys : k <= y => k < y + 1
  BY ListAssumption DEF Keys
<1>5. n >= y + 1 /\ y + 1 \in Nat
  BY <1>1, <1>3
<1>6. Arrives("notLess", y + 1, n)
  BY <1>3, <1>4, <1>5 DEF Arrives
<1>7. QED
  BY <1>1, <1>2, <1>3, <1>5, <1>6, EndStep DEF Next_

(* A turn of a search: further, down, or to its end on the lowest level,   *)
(* where no link passes over a node.                                       *)
LEMMA ReadSearchStep ==
  ASSUME ListInv, ReadSearch
  PROVE  ListInv'
<1>1. /\ ListTypes /\ InOrder /\ WriterInv /\ ReaderInv /\ ReadersSeeInserted
      /\ UNCHANGED <<next, heights, inserted, w>>
  BY DEF ListInv, ReadSearch
<1>2. PICK a \in At : a = r.at
  BY <1>1 DEF ListTypes
<1>3. /\ a.pc = "search" /\ a.op \in {"notLess", "less", "last"}
      /\ a.key \in Nat /\ a.level \in Nat /\ a.level \in Levels
      /\ a.x \in Linked(a.level)
      /\ a.op # "last" => a.x < a.key /\ a.key <= NoNode
  BY <1>1, <1>2 DEF ReadSearch, ReaderInv, At
<1>4. PICK n : n = next[a.x][a.level]
  OBVIOUS
<1>5. /\ n \in Nat /\ a.x < n /\ n # Garbage /\ n # head /\ n <= NoNode
      /\ n \in Linked(a.level) \cup {NoNode} /\ a.x \in Nat
      /\ a.x \in DOMAIN next
      /\ \A k \in Linked(a.level) : k <= a.x \/ n <= k
  BY <1>1, <1>3, <1>4, Follow, OnLevel
<1>6. NoNode \in Nat /\ \A k \in {head} \cup Keys : k \in Nat /\ k < NoNode
  BY ListAssumption DEF NoNode, Keys, head
<1>7. a.x # Garbage /\ a.x < NoNode
  BY <1>1, <1>5, <1>6, ListAssumption DEF ListTypes, Garbage, NoNode
<1> HIDE DEF NoNode, Garbage
<1>8. LET s == Turn(a, n)
      IN  IF s.pc = "found"
          THEN SetNode(s.op, s.key, IF s.x = head THEN NoNode ELSE s.x)
          ELSE r' = [r EXCEPT !.at = s]
  BY <1>2, <1>4 DEF ReadSearch
<1>9. \A i : Linked(i)' = Linked(i)
  BY <1>1 DEF Linked, Linking
<1>10. ASSUME NEW b \in At, b = Turn(a, n), b.pc = "search", b.op = a.op,
              b.key = a.key, b.level \in Levels, b.x \in Linked(b.level),
              b.x # Garbage, a.op # "last" => b.x < a.key
       PROVE  ListInv'
  <2>1. r' = [r EXCEPT !.at = b]
    BY <1>8, <1>10
  <2>2. /\ r'.at = b /\ r'.node = r.node /\ r'.before = r.before
        /\ r' \in ReaderRecord
    BY <1>1, <2>1 DEF ListTypes, ReaderRecord
  <2>3. ReaderInv'
    BY <1>1, <1>3, <1>9, <1>10, <2>2 DEF ReaderInv
  <2>4. ReadersSeeInserted'
    BY <1>1, <1>10, <2>2 DEF ReadersSeeInserted
  <2>5. QED
    BY <1>1, <2>2, <2>3, <2>4, ReaderMoves
<1>11. CASE GoesOn(a, n)
  <2>1. Turn(a, n) = [a EXCEPT !.x = n]
    BY <1>11 DEF Turn
  <2>2. PICK b : b = [a EXCEPT !.x = n]
    OBVIOUS
  <2>3. /\ b \in At /\ b.pc = a.pc /\ b.op = a.op /\ b.key = a.key
        /\ b.level = a.level /\ b.x = n
    BY <1>5, <2>2 DEF At
  <2>4. n # NoNode /\ (a.op # "last" => n < a.key)
    BY <1>3, <1>5, <1>6, <1>11 DEF GoesOn
  <2>5. n \in Linked(a.level)
    BY <1>5, <2>4
  <2>6. QED
    BY <1>3, <1>5, <1>10, <2>1, <2>2, <2>3, <2>4, <2>5
<1>12. CASE ~GoesOn(a, n) /\ a.level > 0
  <2>1. Turn(a, n) = [a EXCEPT !.level = a.level - 1]
    BY <1>12 DEF Turn
  <2>2. PICK y \in Nat : y = a.level - 1
    BY <1>3, <1>12
  <2>3. PICK b : b = [a EXCEPT !.level = y]
    OBVIOUS
  <2>4. /\ b \in At /\ b.pc = a.pc /\ b.op = a.op /\ b.key = a.key
        /\ b.level = y /\ b.x = a.x
    BY <2>2, <2>3 DEF At
  <2>5. y \in Levels /\ y <= a.level
    BY <1>3, <2>2, ListAssumption DEF Levels
  <2>6. a.x \in Linked(y)
    BY <1>1, <1>3, <2>5, Nested
  <2>7. QED
    BY <1>3, <1>7, <1>10, <2>1, <2>2, <2>3, <2>4, <2>5, <2>6
<1>13. CASE ~GoesOn(a, n) /\ ~(a.level > 0)
  <2>1. a.level = 0
    BY <1>3, <1>13
  <2>2. PICK z : z = Answer(a, n)
    OBVIOUS
  <2>3. Turn(a, n) = [a EXCEPT !.pc = "found", !.x = z]
    BY <1>13, <2>2 DEF Turn
  <2>4. PICK m : m = IF z = head THEN NoNode ELSE z
    OBVIOUS
  <2>5. SetNode(a.op, a.key, m)
    BY <1>8, <2>3, <2>4 DEF At
  <2>6. \A k \in Keys \cap Linked(0) : k \in Nat /\ k # head /\ k < NoNode
    BY <1>6, ListAssumption DEF Keys, head
  <2>7. m \in Nat /\ Arrives(a.op, a.key, m)
    <3>1. CASE a.op = "notLess"
      <4>1. z = n /\ m = n /\ ~(n < a.key)
        BY <1>5, <1>13, <2>2, <2>4, <3>1 DEF Answer, GoesOn
      <4>2. \A k \in Keys \cap Linked(0) : k < a.key \/ n <= k
        BY <1>3, <1>5, <2>1, <2>6, <3>1
      <4>3. QED
        BY <1>3, <1>5, <2>1, <3>1, <4>1, <4>2 DEF Arrives
    <3>2. CASE a.op = "less"
      <4>1. z = a.x /\ ~(n < a.key)
        BY <1>13, <2>2, <3>2 DEF Answer, GoesOn
      <4>2. \A k \in Keys \cap Linked(0) :
              a.key <= k \/ (m # NoNode /\ k <= m)
        <5> TAKE k \in Keys \cap Linked(0)
        <5>1. k <= a.x \/ n <= k
          BY <1>5, <2>1
        <5>2. a.x = head => ~(k <= a.x)
          BY <2>6, ListAssumption DEF Keys, head
        <5>3. QED
          BY <1>3, <1>5, <1>7, <2>4, <2>6, <4>1, <5>1, <5>2
      <4>3. /\ m \in Nat /\ m \in Linked(0) \cup {NoNode} /\ m # head
            /\ m # NoNode => m < a.key
        BY <1>3, <1>5, <1>6, <2>1, <2>4, <3>2, <4>1
      <4>4. QED
        BY <3>2, <4>2, <4>3 DEF Arrives
    <3>3. CASE a.op = "last"
      <4>1. z = a.x /\ n = NoNode
        BY <1>13, <2>2, <3>3 DEF Answer, GoesOn
      <4>2. \A k \in Keys \cap Linked(0) : m # NoNode /\ k <= m
        <5> TAKE k \in Keys \cap Linked(0)
        <5>1. k <= a.x \/ n <= k
          BY <1>5, <2>1
        <5>2. k <= a.x
          BY <1>6, <2>6, <4>1, <5>1
        <5>3. a.x # head
          BY <5>2, ListAssumption DEF Keys, head
        <5>4. QED
          BY <1>5, <1>7, <2>4, <4>1, <5>2, <5>3, <1>6
      <4>3. m \in Nat /\ m \in Linked(0) \cup {NoNode} /\ m # head
        BY <1>3, <1>5, <1>6, <2>1, <2>4, <4>1
      <4>4. QED
        BY <3>3, <4>2, <4>3 DEF Arrives
    <3>4. QED
      BY <1>3, <3>1, <3>2, <3>3
  <2>8. QED
    BY <1>1, <1>3, <2>5, <2>7, EndStep
<1>14. QED
  BY <1>11, <1>12, <1>13

-----------------------------------------------------------------------------
LEMMA ListInitOK ==
  ASSUME ListInit
  PROVE  ListInv
<1>1. /\ DOMAIN next = {head} /\ DOMAIN next[head] = Levels
      /\ \A i \in Levels : next[head][i] = NoNode
      /\ heights = {1} /\ inserted = {}
  BY DEF ListInit
<1>2. Idle \in At /\ Idle.pc = "idle" /\ Idle.x = head
  BY DEF Idle, At, head
<1>3. /\ w.at = Idle /\ w \in WriterRecord
      /\ r.at = Idle /\ r.node = NoNode /\ r.before = {} /\ r \in ReaderRecord
  BY <1>2, ListAssumption DEF ListInit, WriterRecord, ReaderRecord, head, NoNode
<1>4. /\ NoNode \in Nat /\ head < NoNode /\ NoNode # head
      /\ head # Garbage /\ NoNode # Garbage
  BY ListAssumption DEF head, NoNode, Garbage
<1> HIDE DEF NoNode, Garbage
<1>5. ListTypes
  <2>1. \E h \in 1 .. kMaxHeight : Levels = 0 .. h - 1
    BY ListAssumption DEF Levels
  <2>2. QED
    BY <1>1, <1>3, <2>1, ListAssumption DEF ListTypes, WriterRecord, ReaderRecord
<1>6. ~Linking /\ \A i \in Levels : Linked(i) = {head}
  BY <1>1, <1>2, <1>3 DEF Linked, Linking
<1>7. InOrder
  BY <1>1, <1>4, <1>6 DEF InOrder, head
<1>8. WriterInv
  BY <1>1, <1>2, <1>3, <1>6 DEF WriterInv
<1>9. ReaderInv
  BY <1>1, <1>2, <1>3, <1>4 DEF ReaderInv
<1>10. ReadersSeeInserted
  BY <1>2, <1>3, <1>4 DEF ReadersSeeInserted
<1>11. QED
  BY <1>5, <1>7, <1>8, <1>9, <1>10 DEF ListInv

(* What holds in every state, whatever the numbers of keys and levels: the *)
(* levels are in order and nest, no link passes over a node of its level,  *)
(* the node being inserted goes behind its predecessors, and an iterator   *)
(* stands on a node of the level it reads (skiplist.h:238-376).            *)
THEOREM ListSound == ListSpec => []ListInv
<1>1. ListInit => ListInv
  BY ListInitOK
<1>2. ListInv /\ [ListNext]_listVars => ListInv'
  <2> SUFFICES ASSUME ListInv, [ListNext]_listVars PROVE ListInv'
    OBVIOUS
  <2>1. CASE \E k \in Keys : Insert(k)
    BY <2>1, InsertStep
  <2>2. CASE InsertSearch
    BY <2>2, InsertSearchStep
  <2>3. CASE Link
    BY <2>3, LinkStep
  <2>4. CASE Publish
    BY <2>4, PublishStep
  <2>5. CASE \E h \in 1 .. kMaxHeight : NewNode(h)
    BY <2>5, NewNodeStep
  <2>6. CASE \E h \in heights :
               (\E k \in Keys : Seek(k, h)) \/ SeekToLast(h) \/ Prev(h)
    BY <2>6, SeekSteps
  <2>7. CASE SeekToFirst
    BY <2>7, FirstStep
  <2>8. CASE Next_
    BY <2>8, NextStep
  <2>9. CASE ReadSearch
    BY <2>9, ReadSearchStep
  <2>10. CASE UNCHANGED listVars
    <3>1. \A i : Linked(i)' = Linked(i)
      BY <2>10 DEF listVars, Linked, Linking
    <3>2. Max(heights)' = Max(heights)
      BY <2>10 DEF listVars, Max
    <3>3. r' \in ReaderRecord /\ UNCHANGED <<next, heights, inserted, w, r>>
      BY <2>10 DEF listVars, ListInv, ListTypes, ReaderRecord
    <3>4. ReaderInv' /\ ReadersSeeInserted'
      BY <3>1, <3>3 DEF ListInv, ReaderInv, ReadersSeeInserted, Skipped
    <3>5. QED
      BY <3>3, <3>4, ReaderMoves
  <2>11. QED
    BY <2>1, <2>2, <2>3, <2>4, <2>5, <2>6, <2>7, <2>8, <2>9, <2>10 DEF ListNext
<1>3. QED
  BY <1>1, <1>2, PTL DEF ListSpec

(* An iterator that reads while another thread inserts never follows an    *)
(* unwritten link, goes where it was sent, and passes over no key whose    *)
(* Insert had returned when the call began (skiplist.h:15-28).             *)
THEOREM ReadersMissNothing == ListSpec => []ReadersSeeInserted
<1>1. ListInv => ReadersSeeInserted
  BY DEF ListInv
<1>2. QED
  BY ListSound, <1>1, PTL

-----------------------------------------------------------------------------
(* A set of numbers up to n has a greatest one.                            *)
LEMMA GreatestOf ==
  ASSUME NEW n \in Nat, NEW T \in SUBSET (0 .. n), T # {}
  PROVE  Max(T) \in T /\ \A y \in T : y <= Max(T)
<1> DEFINE R == {ss \in Nat \X Nat : ss[1] < ss[2]}
           U == {n - x : x \in T}
<1>0. IsWellFoundedOn(R, Nat)
  BY NatLessThanWellFounded, Zenon DEF OpToRel
<1>a. \A a, b \in Nat : a < b => <<a, b>> \in R
  OBVIOUS
<1>b. U \in SUBSET Nat /\ U # {}
  <2>1. PICK x \in T : TRUE
    OBVIOUS
  <2>2. n - x \in U
    OBVIOUS
  <2>3. \A y \in T : y \in 0 .. n /\ n - y \in Nat
    OBVIOUS
  <2>4. QED
    BY <2>2, <2>3
<1> HIDE DEF R
<1>1. PICK u \in U : \A y \in U : ~(<<y, u>> \in R)
  BY <1>0, <1>b, WFMin
<1>2. PICK x \in T : u = n - x
  BY <1>1
<1>3. ASSUME NEW y \in T PROVE x >= y
  <2>1. x \in Nat /\ y \in Nat /\ n - y \in U /\ n - y \in Nat /\ n - x \in Nat
    OBVIOUS
  <2>2. ~(n - y < n - x)
    BY <2>1, <1>1, <1>2, <1>a
  <2>3. QED
    BY <2>1, <2>2
<1>4. PICK z \in T : Max(T) = z /\ \A y \in T : z >= y
  BY <1>3 DEF Max
<1>5. QED
  BY <1>4

-----------------------------------------------------------------------------
(* Repair: what the files of a directory are.                              *)

(* The file of a number in a directory, and what several of them have.     *)
FileIn(D, n) == CHOOSE f \in D : f.kind # "manifest" /\ f.n = n
HasIn(D, S) == UNION {FileIn(D, n).has : n \in S}
Unique(D) == \A f, g \in Data(D) : f.n = g.n => f = g

LEMMA FileIs ==
  ASSUME NEW D, Unique(D), NEW f \in Data(D)
  PROVE  FileIn(D, f.n) = f
<1>1. f \in D /\ f.kind # "manifest" /\ f.n = f.n
  BY DEF Data
<1>2. ASSUME NEW g \in D, g.kind # "manifest", g.n = f.n PROVE g = f
  BY <1>2 DEF Data, Unique
<1>3. QED
  BY <1>1, <1>2, Zenon DEF FileIn

(* The files that are in both directories have the same entries there.     *)
LEMMA HasKept ==
  ASSUME NEW D, NEW E, Unique(D), Unique(E), NEW S,
         \A n \in S : \E f \in Data(D) : f.n = n /\ f \in Data(E)
  PROVE  HasIn(D, S) = HasIn(E, S)
<1>1. ASSUME NEW n \in S PROVE FileIn(D, n) = FileIn(E, n)
  <2>1. PICK f \in Data(D) : f.n = n /\ f \in Data(E)
    OBVIOUS
  <2>2. QED
    BY <2>1, FileIs
<1>2. {FileIn(D, n).has : n \in S} = {FileIn(E, n).has : n \in S}
  BY <1>1
<1>3. QED
  BY <1>2 DEF HasIn

LEMMA HasMore ==
  ASSUME NEW D, NEW S, NEW n \in S
  PROVE  FileIn(D, n).has \subseteq HasIn(D, S)
BY DEF HasIn

LEMMA HasIsIn ==
  ASSUME NEW D, Unique(D), NEW S, \A n \in S : \E f \in Data(D) : f.n = n
  PROVE  HasIn(D, S) \subseteq In(D)
<1>1. ASSUME NEW n \in S PROVE FileIn(D, n) \in Data(D)
  BY FileIs
<1>2. QED
  BY <1>1 DEF HasIn, In

(* Writing a table under a number that no other kind of file has.          *)
LEMMA PutTable ==
  ASSUME NEW D, Unique(D), NEW t, t.kind = "table",
         \A f \in Data(D) : f.n = t.n => f.kind = "table"
  PROVE  /\ Data(Put(D, t)) = {f \in Data(D) : f.n # t.n} \cup {t}
         /\ Unique(Put(D, t))
         /\ \A f \in Put(D, t) : f.kind = "manifest" <=> f \in D /\ f.kind = "manifest"
<1>1. Data(Put(D, t)) = {f \in Data(D) : f.n # t.n} \cup {t}
  BY DEF Data, Put
<1>2. Unique(Put(D, t))
  <2> SUFFICES ASSUME NEW f \in Data(Put(D, t)), NEW g \in Data(Put(D, t)), f.n = g.n
               PROVE  f = g
    BY DEF Unique
  <2>1. f = t \/ (f \in Data(D) /\ f.n # t.n)
    BY <1>1
  <2>2. g = t \/ (g \in Data(D) /\ g.n # t.n)
    BY <1>1
  <2>3. QED
    BY <2>1, <2>2 DEF Unique
<1>3. \A f \in Put(D, t) : f.kind = "manifest" <=> f \in D /\ f.kind = "manifest"
  BY DEF Put
<1>4. QED
  BY <1>1, <1>2, <1>3

(* A file taken away.                                                      *)
LEMMA TakenAway ==
  ASSUME NEW D, Unique(D), NEW f
  PROVE  Data(Without(D, f)) = Data(D) \ {f} /\ Unique(Without(D, f))
BY DEF Data, Without, Unique

LEMMA PutManifest ==
  ASSUME NEW D, NEW m, m.kind = "manifest"
  PROVE  Data(Put(D, m)) = Data(D) /\ (Unique(D) => Unique(Put(D, m)))
<1>1. Data(Put(D, m)) = Data(D)
  BY DEF Data, Put
<1>2. QED
  BY <1>1 DEF Unique

(* The invariant in these terms.                                           *)
AllListed == HasIn(dir, table_numbers_ \cup tables_)

LEMMA InTerms ==
  /\ OneOfEach <=> Unique(dir)
  /\ \A n : File(n) = FileIn(dir, n)
  /\ UNION {File(n).has : n \in table_numbers_ \cup tables_} = AllListed
BY DEF OneOfEach, Unique, File, FileIn, HasIn, AllListed

(* A step of a repair that goes on: what is left to show.                  *)
LEMMA RepairGoesOn ==
  ASSUME Working', RepairTypes', Unique(dir'),
         \A f \in Data(dir') : f.n < next_file_number_',
         there' \ excused' \subseteq In(logs_') \cup Held' \cup AllListed',
         ListsOf', InHand'
  PROVE  RepairInv'
<1>1. OneOfEach'
  BY DEF OneOfEach, Unique
<1>2. NumbersBelow'
  BY DEF NumbersBelow
<1>3. UNION {File(n)'.has : n \in (table_numbers_ \cup tables_)'} = AllListed'
  BY DEF File, FileIn, HasIn, AllListed
<1>4. Kept'
  BY <1>3 DEF Kept
<1>5. QED
  BY <1>1, <1>2, <1>4 DEF RepairInv

LEMMA WorkingFacts ==
  ASSUME RepairInv, Working
  PROVE  /\ Unique(dir) /\ \A f \in Data(dir) : f.n < next_file_number_
         /\ there \ excused \subseteq In(logs_) \cup Held \cup AllListed
         /\ RepairTypes /\ ListsOf /\ InHand
BY InTerms DEF RepairInv, NumbersBelow, Kept

LEMMA KindsAreData ==
  ASSUME NEW D
  PROVE  \A f \in D : f.kind \in {"log", "table"} => f \in Data(D)
BY DEF Data

(* A table is begun under the next number.                                 *)
LEMMA NewTable ==
  ASSUME RepairTypes, Unique(dir), ListsOf,
         \A f \in Data(dir) : f.n < next_file_number_,
         dir' = Put(dir, TableOf(next_file_number_, {}, TRUE))
  PROVE  \E t \in DataFile :
           /\ t.n = next_file_number_ /\ t.kind = "table" /\ t.bad = TRUE
           /\ Data(dir') = Data(dir) \cup {t} /\ Unique(dir')
           /\ dir' = dir \cup {t} /\ OfKind("table")' = OfKind("table") \cup {t}
           /\ OfKind("log")' = OfKind("log") /\ OfKind("manifest")' = OfKind("manifest")
           /\ HasIn(dir', table_numbers_ \cup tables_) = AllListed
           /\ next_file_number_ \notin table_numbers_ \cup tables_
           /\ \A f \in Data(dir) : f.n # next_file_number_
<1>1. PICK t : t = TableOf(next_file_number_, {}, TRUE)
  OBVIOUS
<1>2. t.n = next_file_number_ /\ t.kind = "table" /\ t.bad = TRUE /\ t \in DataFile
  BY <1>1 DEF TableOf, DataFile, RepairTypes
<1>3. \A f \in Data(dir) : f.n # t.n
  BY <1>2 DEF RepairTypes, DataFile
<1>4. Data(dir') = Data(dir) \cup {t} /\ Unique(dir')
  <2>1. /\ Data(Put(dir, t)) = {f \in Data(dir) : f.n # t.n} \cup {t}
        /\ Unique(Put(dir, t))
    BY <1>2, <1>3, PutTable
  <2>2. {f \in Data(dir) : f.n # t.n} = Data(dir)
    BY <1>3
  <2>3. QED
    BY <1>1, <2>1, <2>2
<1>5. dir' = dir \cup {t}
  <2>1. dir' = Put(dir, t)
    BY <1>1
  <2>2. \A f \in dir : f.n # t.n \/ f.kind # t.kind
    BY <1>2, <1>3 DEF Data
  <2>3. QED
    BY <2>1, <2>2 DEF Put
<1>6. /\ OfKind("table")' = OfKind("table") \cup {t}
      /\ OfKind("log")' = OfKind("log") /\ OfKind("manifest")' = OfKind("manifest")
  BY <1>2, <1>5 DEF OfKind
<1>7. \A n \in table_numbers_ \cup tables_ : \E f \in Data(dir) : f.n = n
  BY DEF ListsOf, OfKind, NumbersOf, Data
<1>8. HasIn(dir', table_numbers_ \cup tables_) = AllListed
  <2>1. PICK D, E, S : D = dir /\ E = dir' /\ S = table_numbers_ \cup tables_
    OBVIOUS
  <2>2. \A n \in S : \E f \in Data(D) : f.n = n /\ f \in Data(E)
    BY <1>4, <1>7, <2>1
  <2>3. Unique(D) /\ Unique(E)
    BY <1>4, <2>1
  <2>4. HasIn(D, S) = HasIn(E, S)
    BY <2>2, <2>3, HasKept
  <2>5. QED
    BY <2>1, <2>4 DEF AllListed
<1>9. QED
  BY <1>2, <1>3, <1>4, <1>5, <1>6, <1>7, <1>8

LEMMA ConvertStep ==
  ASSUME RepairInv, NEW l \in logs_, Convert(l)
  PROVE  RepairInv'
<1>0. /\ repairPc = "logs" /\ Working /\ item' = l.n /\ logs_' = logs_ \ {l}
      /\ UNCHANGED <<lost, current, manifests_, table_numbers_, tables_>>
  BY DEF Convert, Working
<1>1. /\ Unique(dir) /\ (\A f \in Data(dir) : f.n < next_file_number_)
      /\ there \ excused \subseteq In(logs_) \cup AllListed
      /\ RepairTypes /\ ListsOf
  BY <1>0, WorkingFacts DEF Held
<1>2. l \in Data(dir) /\ l \in OfKind("log") /\ l.kind = "log" /\ l \in DataFile
      /\ FileIn(dir, l.n) = l
  <2>1. l \in OfKind("log") /\ l.kind = "log"
    BY <1>1 DEF ListsOf, OfKind
  <2>2. QED
    BY <1>1, <2>1, FileIs DEF OfKind, Data, RepairTypes
<1>a. In(logs_) = In(logs_') \cup l.has
  <2>1. \A f \in logs_ : f.kind = "log"
    BY <1>1 DEF ListsOf, OfKind
  <2>2. QED
    BY <1>0, <2>1 DEF In, Data
<1>3. CASE /\ dir' = dir /\ repairPc' = "archive" /\ made' = made /\ there' = there
           /\ excused \subseteq excused' /\ l.has \subseteq excused'
           /\ next_file_number_' \in {next_file_number_, next_file_number_ + 1}
  <2>1. AllListed' = AllListed /\ Working' /\ File(item)' = l /\ Held' = {}
    BY <1>0, <1>2, <1>3 DEF AllListed, Working, File, FileIn, Held
  <2>2. RepairTypes'
    BY <1>0, <1>1, <1>2, <1>3 DEF RepairTypes, DataFile
  <2>3. \A f \in Data(dir') : f.n < next_file_number_'
    BY <1>1, <1>3 DEF RepairTypes, DataFile
  <2>4. there' \ excused' \subseteq In(logs_') \cup Held' \cup AllListed'
    BY <1>1, <1>3, <1>a, <2>1
  <2>5. ListsOf'
    BY <1>0, <1>1, <1>3 DEF ListsOf, OfKind, NumbersOf
  <2>6. InHand'
    <3>1. l \in OfKind("log")' /\ l.n = item' /\ l \notin logs_'
      BY <1>0, <1>2, <1>3 DEF OfKind
    <3>2. QED
      BY <1>3, <2>1, <3>1 DEF InHand
  <2>7. QED
    BY <1>1, <1>3, <2>1, <2>2, <2>3, <2>4, <2>5, <2>6, RepairGoesOn
<1>4. CASE /\ made' = next_file_number_ /\ next_file_number_' = next_file_number_ + 1
           /\ dir' = Put(dir, TableOf(next_file_number_, {}, TRUE))
           /\ repairPc' = "build" /\ UNCHANGED repairHist
  <2>1. PICK t \in DataFile :
          /\ t.n = next_file_number_ /\ t.kind = "table" /\ t.bad = TRUE
          /\ Data(dir') = Data(dir) \cup {t} /\ Unique(dir')
          /\ dir' = dir \cup {t} /\ OfKind("table")' = OfKind("table") \cup {t}
          /\ OfKind("log")' = OfKind("log") /\ OfKind("manifest")' = OfKind("manifest")
          /\ HasIn(dir', table_numbers_ \cup tables_) = AllListed
          /\ next_file_number_ \notin table_numbers_ \cup tables_
          /\ \A f \in Data(dir) : f.n # next_file_number_
    BY <1>1, <1>4, NewTable
  <2>2. AllListed' = AllListed
    BY <1>0, <2>1 DEF AllListed
  <2>3. File(item)' = l /\ Held' = l.has /\ Working'
    <3>1. FileIn(dir', l.n) = l
      BY <1>2, <2>1, FileIs
    <3>2. QED
      BY <1>0, <1>4, <3>1 DEF File, FileIn, Held, Working
  <2>a. next_file_number_ \in Nat \ {0}
    BY <1>1 DEF RepairTypes
  <2>4. RepairTypes'
    <3>1. \A f \in Data(dir') \cup Data(lost') : f \in DataFile
      BY <1>0, <1>1, <2>1 DEF RepairTypes
    <3>2. there' \subseteq Entries /\ item' \in Nat
      BY <1>0, <1>1, <1>2, <1>4 DEF RepairTypes, repairHist, DataFile
    <3>3. {item', made'} \subseteq Nat /\ next_file_number_' \in Nat \ {0}
      BY <1>4, <2>a, <3>2
    <3>4. QED
      BY <3>1, <3>2, <3>3 DEF RepairTypes
  <2>5. \A f \in Data(dir') : f.n < next_file_number_'
    <3>1. \A f \in Data(dir) : f.n \in Nat
      BY <1>1 DEF RepairTypes, DataFile
    <3>2. \A f \in Data(dir) : f.n < next_file_number_ + 1
      BY <1>1, <2>a, <3>1
    <3>3. Data(dir') = Data(dir) \cup {t} /\ t.n < next_file_number_ + 1
      BY <2>1, <2>a
    <3>4. \A f \in Data(dir') : f.n < next_file_number_ + 1
      BY <3>2, <3>3
    <3>5. QED
      BY <1>4, <3>4
  <2>6. there' \ excused' \subseteq In(logs_') \cup Held' \cup AllListed'
    BY <1>1, <1>4, <1>a, <2>2, <2>3 DEF repairHist
  <2>7. ListsOf'
    <3>1. /\ NumbersOf(OfKind("table")) \subseteq NumbersOf(OfKind("table")')
          /\ NumbersOf({f \in OfKind("table") : ~f.bad}) \subseteq
               NumbersOf({f \in OfKind("table")' : ~f.bad})
      BY <2>1 DEF NumbersOf
    <3>2. QED
      BY <1>0, <1>1, <1>4, <2>1, <3>1 DEF ListsOf
  <2>8. InHand'
    <3>1. l \in OfKind("log")' /\ l.n = item' /\ l \notin logs_' /\ item' # made'
      BY <1>0, <1>2, <1>4, <2>1
    <3>2. made' \notin (table_numbers_ \cup tables_)'
      BY <1>0, <1>4, <2>1
    <3>3. Begun(TRUE)'
      BY <1>4, <2>1, <3>2 DEF Begun
    <3>4. QED
      BY <1>4, <3>1, <3>3 DEF InHand
  <2>9. QED
    BY <2>1, <2>2, <2>3, <2>4, <2>5, <2>6, <2>7, <2>8, RepairGoesOn
<1>5. QED
  BY <1>0, <1>3, <1>4 DEF Convert, Fails, Fine, repairHist

LEMMA HasTwo ==
  ASSUME NEW D, NEW S, NEW n
  PROVE  HasIn(D, S \cup {n}) = HasIn(D, S) \cup FileIn(D, n).has
BY DEF HasIn

(* A step that touches no file but the ones of some numbers: the others are *)
(* still there, and have what they had.                                    *)
LEMMA OthersOf ==
  ASSUME ListsOf, Unique(dir), Unique(dir'), NEW K, NEW S1, NEW S2,
         S1 \subseteq table_numbers_, S2 \subseteq tables_, K \cap (S1 \cup S2) = {},
         \A f \in Data(dir) : f.n \notin K => f \in Data(dir')
  PROVE  /\ HasIn(dir', S1 \cup S2) = HasIn(dir, S1 \cup S2)
         /\ S1 \subseteq NumbersOf(OfKind("table")')
         /\ S2 \subseteq NumbersOf({f \in OfKind("table")' : ~f.bad})
         /\ \A f \in OfKind("log") : f.n \notin K => f \in OfKind("log")'
<1>1. \A f \in OfKind("table") \cup OfKind("log") : f.n \notin K =>
        f \in Data(dir) /\ f \in Data(dir') /\ f \in dir'
  BY DEF OfKind, Data
<1>2. \A n \in S1 : \E f \in OfKind("table") : f.n = n /\ f \in dir' /\ f \in Data(dir)
                                               /\ f \in Data(dir')
  BY <1>1 DEF ListsOf, NumbersOf
<1>3. \A n \in S2 : \E f \in OfKind("table") : f.n = n /\ ~f.bad /\ f \in dir'
                                               /\ f \in Data(dir) /\ f \in Data(dir')
  BY <1>1 DEF ListsOf, NumbersOf
<1>4. HasIn(dir', S1 \cup S2) = HasIn(dir, S1 \cup S2)
  <2>1. PICK D, E, S : D = dir /\ E = dir' /\ S = S1 \cup S2
    OBVIOUS
  <2>2. \A n \in S : \E f \in Data(D) : f.n = n /\ f \in Data(E)
    BY <1>2, <1>3, <2>1
  <2>3. Unique(D) /\ Unique(E)
    BY <2>1
  <2>4. HasIn(D, S) = HasIn(E, S)
    BY <2>2, <2>3, HasKept
  <2>5. QED
    BY <2>1, <2>4
<1>5. S1 \subseteq NumbersOf(OfKind("table")')
  BY <1>2 DEF OfKind, NumbersOf
<1>6. S2 \subseteq NumbersOf({f \in OfKind("table")' : ~f.bad})
  BY <1>3 DEF OfKind, NumbersOf
<1>7. \A f \in OfKind("log") : f.n \notin K => f \in OfKind("log")'
  BY <1>1 DEF OfKind
<1>8. QED
  BY <1>4, <1>5, <1>6, <1>7

LEMMA OthersHave ==
  ASSUME ListsOf, Unique(dir), Unique(dir'), NEW K, NEW S1, NEW S2,
         S1 \subseteq table_numbers_, S2 \subseteq tables_, K \cap (S1 \cup S2) = {},
         \A f \in Data(dir) : f.n \notin K => f \in Data(dir')
  PROVE  HasIn(dir', S1 \cup S2) = HasIn(dir, S1 \cup S2)
<1>1. /\ HasIn(dir', S1 \cup S2) = HasIn(dir, S1 \cup S2)
      /\ S1 \subseteq NumbersOf(OfKind("table")')
      /\ S2 \subseteq NumbersOf({f \in OfKind("table")' : ~f.bad})
      /\ \A f \in OfKind("log") : f.n \notin K => f \in OfKind("log")'
  BY OthersOf
<1>2. QED
  BY <1>1

LEMMA Others ==
  ASSUME ListsOf, Unique(dir), Unique(dir'), NEW k, NEW S1, NEW S2,
         S1 \subseteq table_numbers_, S2 \subseteq tables_, k \notin S1 \cup S2,
         \A f \in Data(dir) : f.n # k => f \in Data(dir')
  PROVE  HasIn(dir', S1 \cup S2) = HasIn(dir, S1 \cup S2)
<1>1. PICK K : K = {k}
  OBVIOUS
<1>2. K \cap (S1 \cup S2) = {} /\ \A f \in Data(dir) : f.n \notin K => f \in Data(dir')
  BY <1>1
<1>3. QED
  BY <1>2, OthersHave

LEMMA PutTypes ==
  ASSUME NEW L, NEW f
  PROVE  \A g \in Data(Put(L, f)) : g \in Data(L) \/ (g = f /\ f.kind # "manifest")
BY DEF Data, Put

(* In the middle of a repair: what is left to show for a step that touches *)
(* only files of the numbers K, none of which is to be scanned or listed   *)
(* later.                                                                  *)
LEMMA GoesOnWithoutAll ==
  ASSUME RepairInv, Working,
         repairPc' \in {"logs", "build", "archive", "copy", "finish", "rename"},
         NEW K, NEW S1, NEW S2, NEW R1, NEW R2,
         S1 \subseteq table_numbers_, S2 \subseteq tables_, K \cap (S1 \cup S2) = {},
         table_numbers_' = S1 \cup R1, tables_' = S2 \cup R2,
         table_numbers_' \cap tables_' = {},
         R1 \subseteq NumbersOf(OfKind("table")'),
         R2 \subseteq NumbersOf({f \in OfKind("table")' : ~f.bad}),
         Unique(dir'), \A f \in Data(dir) : f.n \notin K => f \in Data(dir'),
         \A f \in Data(dir') : f \in Data(dir) \/ (f.n < next_file_number_' /\ f \in DataFile),
         \A f \in Data(lost') : f \in Data(lost) \/ f \in Data(dir),
         \A f \in dir : f.kind = "manifest" => f \in dir',
         manifests_' = manifests_, there' = there,
         logs_' \subseteq logs_, \A f \in logs_' : f.n \notin K,
         repairPc' \in {"copy", "finish", "rename"} => logs_' = {},
         item' \in Nat, made' \in Nat, next_file_number_' \in Nat,
         next_file_number_' >= next_file_number_,
         there' \ excused' \subseteq In(logs_') \cup Held' \cup AllListed',
         InHand'
  PROVE  RepairInv'
<1>1. /\ Unique(dir) /\ (\A f \in Data(dir) : f.n < next_file_number_)
      /\ RepairTypes /\ ListsOf
  BY WorkingFacts
<1>2. /\ S1 \subseteq NumbersOf(OfKind("table")')
      /\ S2 \subseteq NumbersOf({f \in OfKind("table")' : ~f.bad})
      /\ \A f \in OfKind("log") : f.n \notin K => f \in OfKind("log")'
  BY <1>1, OthersOf
<1>3. ListsOf'
  <2>1. logs_' \subseteq OfKind("log")'
    BY <1>1, <1>2 DEF ListsOf
  <2>2. manifests_' \subseteq OfKind("manifest")'
    BY <1>1 DEF ListsOf, OfKind
  <2>3. /\ table_numbers_' \subseteq NumbersOf(OfKind("table")')
        /\ tables_' \subseteq NumbersOf({f \in OfKind("table")' : ~f.bad})
    BY <1>2
  <2>4. QED
    BY <2>1, <2>2, <2>3 DEF ListsOf
<1>4. \A f \in Data(dir) : f \in DataFile /\ f.n \in Nat
  BY <1>1 DEF RepairTypes, DataFile
<1>5. \A f \in Data(dir') : f \in DataFile /\ f.n < next_file_number_'
  <2>1. next_file_number_ \in Nat
    BY <1>1 DEF RepairTypes
  <2>2. \A f \in Data(dir) : f.n < next_file_number_'
    BY <1>1, <1>4, <2>1
  <2>3. QED
    BY <1>4, <2>2
<1>6. RepairTypes'
  <2>1. \A f \in Data(dir') \cup Data(lost') : f \in DataFile
    BY <1>1, <1>4, <1>5 DEF RepairTypes
  <2>2. next_file_number_' \in Nat \ {0} /\ {item', made'} \subseteq Nat
        /\ there' \subseteq Entries
    BY <1>1 DEF RepairTypes
  <2>3. QED
    BY <2>1, <2>2 DEF RepairTypes
<1>7. Working'
  BY DEF Working
<1>8. QED
  BY <1>3, <1>5, <1>6, <1>7, RepairGoesOn

LEMMA GoesOnWithout ==
  ASSUME RepairInv, Working,
         repairPc' \in {"logs", "build", "archive", "copy", "finish", "rename"},
         NEW k, NEW S1, NEW S2, NEW R1, NEW R2,
         S1 \subseteq table_numbers_, S2 \subseteq tables_, k \notin S1 \cup S2,
         table_numbers_' = S1 \cup R1, tables_' = S2 \cup R2,
         table_numbers_' \cap tables_' = {},
         R1 \subseteq NumbersOf(OfKind("table")'),
         R2 \subseteq NumbersOf({f \in OfKind("table")' : ~f.bad}),
         Unique(dir'), \A f \in Data(dir) : f.n # k => f \in Data(dir'),
         \A f \in Data(dir') : f \in Data(dir) \/ (f.n < next_file_number_' /\ f \in DataFile),
         \A f \in Data(lost') : f \in Data(lost) \/ f \in Data(dir),
         \A f \in dir : f.kind = "manifest" => f \in dir',
         manifests_' = manifests_, there' = there,
         logs_' \subseteq logs_, \A f \in logs_' : f.n # k,
         repairPc' \in {"copy", "finish", "rename"} => logs_' = {},
         item' \in Nat, made' \in Nat, next_file_number_' \in Nat,
         next_file_number_' >= next_file_number_,
         there' \ excused' \subseteq In(logs_') \cup Held' \cup AllListed',
         InHand'
  PROVE  RepairInv'
<1>1. PICK K : K = {k}
  OBVIOUS
<1>2. /\ K \cap (S1 \cup S2) = {}
      /\ \A f \in Data(dir) : f.n \notin K => f \in Data(dir')
      /\ \A f \in logs_' : f.n \notin K
  BY <1>1
<1>3. QED
  BY <1>2, GoesOnWithoutAll

(* The files in the hands of the repair.                                   *)
LEMMA ItemLog ==
  ASSUME RepairInv, repairPc \in {"build", "archive"}
  PROVE  \E l \in Data(dir) :
           /\ l.n = item /\ l.kind = "log" /\ l \in DataFile /\ l \notin logs_
           /\ File(item) = l /\ item \notin table_numbers_ \cup tables_
           /\ \A f \in logs_ : f.n # item
<1>1. /\ Working /\ Unique(dir) /\ RepairTypes /\ ListsOf /\ InHand
  BY WorkingFacts DEF Working
<1>2. PICK l \in OfKind("log") : l.n = item /\ l \notin logs_
  BY <1>1 DEF InHand
<1>3. l \in Data(dir) /\ l.kind = "log"
  BY <1>2 DEF OfKind, Data
<1>4. l \in DataFile
  BY <1>1, <1>3 DEF RepairTypes
<1>5. File(item) = l
  BY <1>1, <1>2, <1>3, FileIs, InTerms
<1>6. \A f \in Data(dir) : f.n = item => f = l
  BY <1>1, <1>2, <1>3 DEF Unique
<1>7. item \notin table_numbers_ \cup tables_
  <2>1. \A n \in table_numbers_ \cup tables_ :
          \E f \in Data(dir) : f.n = n /\ f.kind = "table"
    BY <1>1 DEF ListsOf, NumbersOf, OfKind, Data
  <2>2. QED
    BY <1>3, <1>6, <2>1
<1>8. \A f \in logs_ : f.n # item
  <2>1. \A f \in logs_ : f \in Data(dir)
    BY <1>1 DEF ListsOf, OfKind, Data
  <2>2. QED
    BY <1>2, <1>6, <2>1
<1>9. QED
  BY <1>2, <1>3, <1>4, <1>5, <1>7, <1>8

LEMMA MadeTable ==
  ASSUME RepairInv, repairPc \in {"build", "copy", "finish", "rename"}
  PROVE  \E t \in Data(dir) :
           /\ t.n = made /\ t.kind = "table" /\ t \in DataFile /\ File(made) = t
           /\ made \notin table_numbers_ \cup tables_ /\ item # made
           /\ \A f \in logs_ : f.n # made
           /\ \A f \in Data(dir) : f.n = made => f = t
           /\ made \in Nat /\ made < next_file_number_
<1>1. /\ Working /\ Unique(dir) /\ RepairTypes /\ ListsOf /\ InHand
      /\ \A f \in Data(dir) : f.n < next_file_number_
  BY WorkingFacts DEF Working
<1>2. PICK t \in OfKind("table") : t.n = made
  BY <1>1 DEF InHand, Begun
<1>3. t \in Data(dir) /\ t.kind = "table"
  BY <1>2 DEF OfKind, Data
<1>4. t \in DataFile /\ made \in Nat /\ made < next_file_number_
  BY <1>1, <1>2, <1>3 DEF RepairTypes
<1>5. File(made) = t
  BY <1>1, <1>2, <1>3, FileIs, InTerms
<1>6. \A f \in Data(dir) : f.n = made => f = t
  BY <1>1, <1>2, <1>3 DEF Unique
<1>7. made \notin table_numbers_ \cup tables_ /\ item # made
  BY <1>1 DEF InHand, Begun
<1>8. \A f \in logs_ : f.n # made
  <2>1. \A f \in logs_ : f \in Data(dir) /\ f.kind = "log"
    BY <1>1 DEF ListsOf, OfKind, Data
  <2>2. QED
    BY <1>3, <1>6, <2>1
<1>9. QED
  BY <1>2, <1>3, <1>4, <1>5, <1>6, <1>7, <1>8

LEMMA BuildStep ==
  ASSUME RepairInv, Build
  PROVE  RepairInv'
<1>0. /\ repairPc = "build" /\ Working /\ repairPc' = "archive"
      /\ UNCHANGED <<lost, current, manifests_, logs_, tables_,
                     next_file_number_, item, made>>
  BY DEF Build, Working
<1>1. /\ Unique(dir) /\ (\A f \in Data(dir) : f.n < next_file_number_)
      /\ there \ excused \subseteq In(logs_) \cup Held \cup AllListed
      /\ RepairTypes /\ ListsOf
  BY <1>0, WorkingFacts
<1>2. PICK l \in Data(dir) :
           /\ l.n = item /\ l.kind = "log" /\ l \in DataFile /\ l \notin logs_
           /\ File(item) = l /\ item \notin table_numbers_ \cup tables_
           /\ \A f \in logs_ : f.n # item
  BY <1>0, ItemLog
<1>3. PICK t \in Data(dir) :
           /\ t.n = made /\ t.kind = "table" /\ t \in DataFile /\ File(made) = t
           /\ made \notin table_numbers_ \cup tables_ /\ item # made
           /\ \A f \in logs_ : f.n # made
           /\ \A f \in Data(dir) : f.n = made => f = t
           /\ made \in Nat /\ made < next_file_number_
  BY <1>0, MadeTable
<1>4. Held = l.has /\ Held' = {}
  BY <1>0, <1>2 DEF Held
<1>5. /\ item' \in Nat /\ made' \in Nat /\ next_file_number_' \in Nat
      /\ next_file_number_' >= next_file_number_
  BY <1>0, <1>1 DEF RepairTypes
<1>6. PICK k, S1, S2 : k = made /\ S1 = table_numbers_ /\ S2 = tables_
  OBVIOUS
<1>h. ASSUME Unique(dir'), \A f \in Data(dir) : f.n # made => f \in Data(dir')
      PROVE  InHand'
  <2>1. l \in Data(dir') /\ l.n = item' /\ l \notin logs_'
    BY <1>0, <1>2, <1>3, <1>h
  <2>2. l \in OfKind("log")'
    BY <1>2, <2>1 DEF OfKind, Data
  <2>3. QED
    BY <1>0, <2>1, <2>2 DEF InHand
<1>7. CASE /\ dir' = Put(dir, TableOf(made, File(item).has, FALSE))
           /\ table_numbers_' = table_numbers_ \cup {made}
           /\ Fine
  <2>1. PICK g : g = TableOf(made, File(item).has, FALSE)
    OBVIOUS
  <2>2. g.n = made /\ g.kind = "table" /\ g.bad = FALSE /\ g.has = l.has /\ g \in DataFile
    BY <1>2, <1>3, <2>1 DEF TableOf, DataFile
  <2>3. dir' = Put(dir, g)
    BY <1>7, <2>1
  <2>4. Data(dir') = {f \in Data(dir) : f.n # made} \cup {g} /\ Unique(dir')
    BY <1>1, <1>3, <2>2, <2>3, PutTable
  <2>5. \A f \in dir : f.kind = "manifest" => f \in dir'
    BY <2>2, <2>3 DEF Put
  <2>6. g \in OfKind("table")'
    BY <2>2, <2>4 DEF OfKind, Data
  <2>7. InHand'
    BY <1>h, <2>4
  <2>8. AllListed' = AllListed \cup l.has
    <3>1. HasIn(dir', S1 \cup S2) = HasIn(dir, S1 \cup S2)
      BY <1>1, <1>3, <1>6, <2>4, Others
    <3>2. FileIn(dir', made) = g
      BY <2>2, <2>4, FileIs
    <3>3. HasIn(dir', (S1 \cup S2) \cup {made}) = HasIn(dir', S1 \cup S2) \cup FileIn(dir', made).has
      BY HasTwo
    <3>4. (S1 \cup S2) \cup {made} = table_numbers_' \cup tables_'
      BY <1>0, <1>6, <1>7
    <3>5. QED
      BY <1>6, <2>2, <3>1, <3>2, <3>3, <3>4 DEF AllListed
  <2>9. there' \ excused' \subseteq In(logs_') \cup Held' \cup AllListed'
    BY <1>0, <1>1, <1>4, <1>7, <2>8 DEF Fine, repairHist
  <2>10. table_numbers_' = S1 \cup {made} /\ tables_' = S2 \cup {}
         /\ table_numbers_' \cap tables_' = {}
         /\ {made} \subseteq NumbersOf(OfKind("table")')
         /\ {} \subseteq NumbersOf({f \in OfKind("table")' : ~f.bad})
    BY <1>0, <1>1, <1>3, <1>6, <1>7, <2>2, <2>6 DEF ListsOf, NumbersOf
  <2>11. \A f \in Data(dir') : f \in Data(dir) \/ (f.n < next_file_number_' /\ f \in DataFile)
    BY <1>0, <1>3, <2>2, <2>4
  <2>12. there' = there
    BY <1>7 DEF Fine, repairHist
  <2>13. QED
    BY <1>0, <1>3, <1>5, <1>6, <2>4, <2>5, <2>7, <2>9, <2>10, <2>11, <2>12, GoesOnWithout
<1>8. CASE /\ Fails(File(item).has)
           /\ dir' = Without(dir, File(made))
           /\ UNCHANGED table_numbers_
  <2>4. Data(dir') = Data(dir) \ {t} /\ Unique(dir')
    BY <1>1, <1>3, <1>8, TakenAway
  <2>5. \A f \in dir : f.kind = "manifest" => f \in dir'
    BY <1>3, <1>8 DEF Without
  <2>6. \A f \in Data(dir) : f.n # made => f \in Data(dir')
    BY <1>3, <2>4
  <2>7. InHand'
    BY <1>h, <2>4, <2>6
  <2>8. AllListed' = AllListed
    <3>1. HasIn(dir', S1 \cup S2) = HasIn(dir, S1 \cup S2)
      BY <1>1, <1>3, <1>6, <2>4, <2>6, Others
    <3>2. QED
      BY <1>0, <1>6, <1>8, <3>1 DEF AllListed
  <2>9. there' \ excused' \subseteq In(logs_') \cup Held' \cup AllListed'
    BY <1>0, <1>1, <1>2, <1>4, <1>8, <2>8 DEF Fails
  <2>10. table_numbers_' = S1 \cup {} /\ tables_' = S2 \cup {}
         /\ table_numbers_' \cap tables_' = {}
         /\ {} \subseteq NumbersOf(OfKind("table")')
         /\ {} \subseteq NumbersOf({f \in OfKind("table")' : ~f.bad})
    BY <1>0, <1>1, <1>6, <1>8 DEF ListsOf
  <2>11. \A f \in Data(dir') : f \in Data(dir)
    BY <2>4
  <2>12. there' = there
    BY <1>8 DEF Fails
  <2>13. QED
    BY <1>0, <1>3, <1>5, <1>6, <2>4, <2>5, <2>6, <2>7, <2>9, <2>10, <2>11, <2>12, GoesOnWithout
<1>9. QED
  BY <1>7, <1>8 DEF Build

(* A file set aside, or left where it is.                                  *)
LEMMA SetAside ==
  ASSUME Unique(dir), NEW f \in Data(dir), Archive(f)
  PROVE  /\ Data(dir') = Data(dir) \ {f} /\ Unique(dir')
         /\ \A g \in dir : g.kind = "manifest" => g \in dir'
         /\ \A g \in Data(dir) : g.n # f.n => g \in Data(dir')
         /\ \A g \in Data(lost') : g \in Data(lost) \/ g \in Data(dir)
<1>1. dir' = Without(dir, f) /\ lost' = Put(lost, f)
  BY DEF Archive
<1>2. Data(dir') = Data(dir) \ {f} /\ Unique(dir')
  BY <1>1, TakenAway
<1>3. f.kind # "manifest"
  BY DEF Data
<1>4. \A g \in dir : g.kind = "manifest" => g \in dir'
  BY <1>1, <1>3 DEF Without
<1>5. \A g \in Data(dir) : g.n # f.n => g \in Data(dir')
  BY <1>2
<1>6. \A g \in Data(lost') : g \in Data(lost) \/ g \in Data(dir)
  BY <1>1, PutTypes
<1>7. QED
  BY <1>2, <1>4, <1>5, <1>6

LEMMA MayArchive ==
  ASSUME Unique(dir), NEW f \in Data(dir), Archived(f)
  PROVE  /\ Unique(dir') /\ excused \subseteq excused' /\ there' = there
         /\ \A g \in dir : g.kind = "manifest" => g \in dir'
         /\ \A g \in Data(dir) : g.n # f.n => g \in Data(dir')
         /\ \A g \in Data(dir') : g \in Data(dir)
         /\ \A g \in Data(lost') : g \in Data(lost) \/ g \in Data(dir)
<1>1. CASE Archive(f) /\ Fine
  BY <1>1, SetAside DEF Fine, repairHist
<1>2. CASE Fails({}) /\ UNCHANGED <<dir, lost>>
  BY <1>2 DEF Fails
<1>3. QED
  BY <1>1, <1>2 DEF Archived

LEMMA ArchiveLogStep ==
  ASSUME RepairInv, ArchiveLog
  PROVE  RepairInv'
<1>0. /\ repairPc = "archive" /\ Working /\ repairPc' = "logs"
      /\ UNCHANGED <<current, manifests_, logs_, table_numbers_, tables_,
                     next_file_number_, item, made>>
  BY DEF ArchiveLog, Working, repairWork
<1>1. /\ Unique(dir)
      /\ there \ excused \subseteq In(logs_) \cup Held \cup AllListed
      /\ RepairTypes /\ ListsOf
  BY <1>0, WorkingFacts
<1>2. PICK l \in Data(dir) :
           /\ l.n = item /\ l.kind = "log" /\ l \in DataFile /\ l \notin logs_
           /\ File(item) = l /\ item \notin table_numbers_ \cup tables_
           /\ \A f \in logs_ : f.n # item
  BY <1>0, ItemLog
<1>3. /\ Unique(dir') /\ excused \subseteq excused' /\ there' = there
      /\ \A g \in dir : g.kind = "manifest" => g \in dir'
      /\ \A g \in Data(dir) : g.n # item => g \in Data(dir')
      /\ \A g \in Data(dir') : g \in Data(dir)
      /\ \A g \in Data(lost') : g \in Data(lost) \/ g \in Data(dir)
  BY <1>1, <1>2, MayArchive DEF ArchiveLog
<1>4. Held = {} /\ Held' = {} /\ InHand'
  BY <1>0 DEF Held, InHand
<1>5. /\ item' \in Nat /\ made' \in Nat /\ next_file_number_' \in Nat
      /\ next_file_number_' >= next_file_number_
  BY <1>0, <1>1 DEF RepairTypes
<1>6. PICK k, S1, S2 : k = item /\ S1 = table_numbers_ /\ S2 = tables_
  OBVIOUS
<1>7. AllListed' = AllListed
  <2>1. HasIn(dir', S1 \cup S2) = HasIn(dir, S1 \cup S2)
    BY <1>1, <1>2, <1>3, <1>6, Others
  <2>2. QED
    BY <1>0, <1>6, <2>1 DEF AllListed
<1>8. there' \ excused' \subseteq In(logs_') \cup Held' \cup AllListed'
  BY <1>0, <1>1, <1>3, <1>4, <1>7
<1>9. table_numbers_' = S1 \cup {} /\ tables_' = S2 \cup {}
      /\ table_numbers_' \cap tables_' = {}
      /\ {} \subseteq NumbersOf(OfKind("table")')
      /\ {} \subseteq NumbersOf({f \in OfKind("table")' : ~f.bad})
  BY <1>0, <1>1, <1>6 DEF ListsOf
<1>10. QED
  BY <1>0, <1>2, <1>3, <1>4, <1>5, <1>6, <1>8, <1>9, GoesOnWithout

(* A table still to be scanned.                                            *)
LEMMA ScanTable ==
  ASSUME RepairInv, Working, NEW n \in table_numbers_
  PROVE  \E t \in Data(dir) :
           /\ t.n = n /\ t.kind = "table" /\ t \in DataFile /\ File(n) = t
           /\ n \notin tables_ /\ \A f \in logs_ : f.n # n
           /\ \A f \in Data(dir) : f.n = n => f = t
           /\ AllListed = HasIn(dir, (table_numbers_ \ {n}) \cup tables_) \cup t.has
<1>1. Unique(dir) /\ RepairTypes /\ ListsOf
  BY WorkingFacts
<1>2. PICK t \in OfKind("table") : t.n = n
  BY <1>1 DEF ListsOf, NumbersOf
<1>3. t \in Data(dir) /\ t.kind = "table"
  BY <1>2 DEF OfKind, Data
<1>4. t \in DataFile
  BY <1>1, <1>3 DEF RepairTypes
<1>5. FileIn(dir, n) = t /\ File(n) = t
  BY <1>1, <1>2, <1>3, FileIs, InTerms
<1>6. \A f \in Data(dir) : f.n = n => f = t
  BY <1>1, <1>2, <1>3 DEF Unique
<1>7. n \notin tables_
  BY <1>1 DEF ListsOf
<1>8. \A f \in logs_ : f.n # n
  <2>1. \A f \in logs_ : f \in Data(dir) /\ f.kind = "log"
    BY <1>1 DEF ListsOf, OfKind, Data
  <2>2. QED
    BY <1>3, <1>6, <2>1
<1>9. AllListed = HasIn(dir, (table_numbers_ \ {n}) \cup tables_) \cup t.has
  <2>1. PICK S : S = (table_numbers_ \ {n}) \cup tables_
    OBVIOUS
  <2>2. S \cup {n} = table_numbers_ \cup tables_
    BY <2>1
  <2>3. HasIn(dir, S \cup {n}) = HasIn(dir, S) \cup FileIn(dir, n).has
    BY HasTwo
  <2>4. QED
    BY <1>5, <2>1, <2>2, <2>3 DEF AllListed
<1>10. QED
  BY <1>2, <1>3, <1>4, <1>5, <1>6, <1>7, <1>8, <1>9

LEMMA ScanStep ==
  ASSUME RepairInv, NEW n \in table_numbers_, Scan(n)
  PROVE  RepairInv'
<1>0. /\ repairPc = "logs" /\ repairPc' = "logs" /\ Working /\ ~File(n).bad /\ logs_ = {}
      /\ table_numbers_' = table_numbers_ \ {n} /\ tables_' = tables_ \cup {n}
      /\ UNCHANGED <<dir, lost, current, manifests_, logs_, next_file_number_,
                     item, made, there, excused>>
  BY DEF Scan, Working, Fine, dirs, repairHist
<1>1. /\ Unique(dir)
      /\ there \ excused \subseteq In(logs_) \cup Held \cup AllListed
      /\ RepairTypes /\ ListsOf
  BY <1>0, WorkingFacts
<1>2. PICK t \in Data(dir) :
           /\ t.n = n /\ t.kind = "table" /\ File(n) = t
  BY <1>0, ScanTable
<1>3. Held = {} /\ Held' = {} /\ InHand'
  BY <1>0 DEF Held, InHand
<1>4. AllListed' = AllListed
  <2>1. table_numbers_' \cup tables_' = table_numbers_ \cup tables_
    BY <1>0
  <2>2. QED
    BY <1>0, <2>1 DEF AllListed
<1>5. PICK S1, S2 : S1 = table_numbers_ \ {n} /\ S2 = tables_
  OBVIOUS
<1>6. n \notin S1 \cup S2
  BY <1>1, <1>5 DEF ListsOf
<1>7. /\ table_numbers_' = S1 \cup {} /\ tables_' = S2 \cup {n}
      /\ table_numbers_' \cap tables_' = {}
      /\ {} \subseteq NumbersOf(OfKind("table")')
      /\ {n} \subseteq NumbersOf({f \in OfKind("table")' : ~f.bad})
  <2>1. t \in OfKind("table")' /\ ~t.bad
    BY <1>0, <1>2 DEF OfKind, Data
  <2>2. {n} \subseteq NumbersOf({f \in OfKind("table")' : ~f.bad})
    BY <1>2, <2>1 DEF NumbersOf
  <2>3. table_numbers_' \cap tables_' = {}
    BY <1>0, <1>1 DEF ListsOf
  <2>4. QED
    BY <1>0, <1>5, <2>2, <2>3
<1>8. /\ item' \in Nat /\ made' \in Nat /\ next_file_number_' \in Nat
      /\ next_file_number_' >= next_file_number_
  BY <1>0, <1>1 DEF RepairTypes
<1>9. /\ Unique(dir') /\ (\A f \in Data(dir) : f.n # n => f \in Data(dir'))
      /\ \A f \in Data(dir') : f \in Data(dir)
      /\ \A f \in Data(lost') : f \in Data(lost)
      /\ \A f \in dir : f.kind = "manifest" => f \in dir'
      /\ there' \ excused' \subseteq In(logs_') \cup Held' \cup AllListed'
  BY <1>0, <1>1, <1>3, <1>4
<1>10. QED
  BY <1>0, <1>3, <1>5, <1>6, <1>7, <1>8, <1>9, GoesOnWithout

LEMMA ScanDropsStep ==
  ASSUME RepairInv, NEW n \in table_numbers_, ScanDrops(n)
  PROVE  RepairInv'
<1>0. /\ repairPc = "logs" /\ repairPc' = "logs" /\ Working /\ logs_ = {}
      /\ table_numbers_' = table_numbers_ \ {n}
      /\ Fails(File(n).has) /\ Archive(File(n))
      /\ UNCHANGED <<current, manifests_, logs_, tables_, next_file_number_,
                     item, made>>
  BY DEF ScanDrops, Working
<1>1. /\ Unique(dir)
      /\ there \ excused \subseteq In(logs_) \cup Held \cup AllListed
      /\ RepairTypes /\ ListsOf
  BY <1>0, WorkingFacts
<1>2. PICK t \in Data(dir) :
           /\ t.n = n /\ t.kind = "table" /\ t \in DataFile /\ File(n) = t
           /\ n \notin tables_
           /\ AllListed = HasIn(dir, (table_numbers_ \ {n}) \cup tables_) \cup t.has
  BY <1>0, ScanTable
<1>3. Held = {} /\ Held' = {} /\ InHand'
  BY <1>0 DEF Held, InHand
<1>4. /\ Data(dir') = Data(dir) \ {t} /\ Unique(dir')
      /\ \A g \in dir : g.kind = "manifest" => g \in dir'
      /\ \A g \in Data(dir) : g.n # n => g \in Data(dir')
      /\ \A g \in Data(lost') : g \in Data(lost) \/ g \in Data(dir)
  BY <1>0, <1>1, <1>2, SetAside
<1>5. PICK S1, S2 : S1 = table_numbers_ \ {n} /\ S2 = tables_
  OBVIOUS
<1>6. n \notin S1 \cup S2
  BY <1>2, <1>5
<1>7. AllListed' = HasIn(dir, S1 \cup S2)
  <2>1. HasIn(dir', S1 \cup S2) = HasIn(dir, S1 \cup S2)
    BY <1>1, <1>4, <1>5, <1>6, Others
  <2>2. QED
    BY <1>0, <1>5, <2>1 DEF AllListed
<1>8. excused' = excused \cup t.has /\ there' = there
  BY <1>0, <1>2 DEF Fails
<1>9. there' \ excused' \subseteq In(logs_') \cup Held' \cup AllListed'
  <2>1. AllListed = HasIn(dir, S1 \cup S2) \cup t.has
    BY <1>2, <1>5
  <2>2. QED
    BY <1>0, <1>1, <1>3, <1>7, <1>8, <2>1
<1>10. /\ table_numbers_' = S1 \cup {} /\ tables_' = S2 \cup {}
       /\ table_numbers_' \cap tables_' = {}
       /\ {} \subseteq NumbersOf(OfKind("table")')
       /\ {} \subseteq NumbersOf({f \in OfKind("table")' : ~f.bad})
  BY <1>0, <1>1, <1>5 DEF ListsOf
<1>11. /\ item' \in Nat /\ made' \in Nat /\ next_file_number_' \in Nat
       /\ next_file_number_' >= next_file_number_
  BY <1>0, <1>1 DEF RepairTypes
<1>12. \A f \in Data(dir') : f \in Data(dir)
  BY <1>4
<1>13. QED
  BY <1>0, <1>3, <1>4, <1>5, <1>6, <1>8, <1>9, <1>10, <1>11, <1>12, GoesOnWithout

LEMMA RepairTableStep ==
  ASSUME RepairInv, NEW n \in table_numbers_, RepairTable(n)
  PROVE  RepairInv'
<1>0. /\ repairPc = "logs" /\ Working /\ logs_ = {} /\ File(n).bad
      /\ table_numbers_' = table_numbers_ \ {n}
      /\ next_file_number_' = next_file_number_ + 1
      /\ UNCHANGED <<lost, current, manifests_, logs_, tables_>>
  BY DEF RepairTable, Working
<1>1. /\ Unique(dir) /\ (\A f \in Data(dir) : f.n < next_file_number_)
      /\ there \ excused \subseteq In(logs_) \cup Held \cup AllListed
      /\ RepairTypes /\ ListsOf
  BY <1>0, WorkingFacts
<1>2. PICK t \in Data(dir) :
           /\ t.n = n /\ t.kind = "table" /\ t \in DataFile /\ File(n) = t
           /\ n \notin tables_
           /\ (\A f \in Data(dir) : f.n = n => f = t)
           /\ AllListed = HasIn(dir, (table_numbers_ \ {n}) \cup tables_) \cup t.has
  BY <1>0, ScanTable
<1>3. Held = {}
  BY <1>0 DEF Held
<1>4. PICK S1, S2 : S1 = table_numbers_ \ {n} /\ S2 = tables_
  OBVIOUS
<1>5. n \notin S1 \cup S2
  BY <1>2, <1>4
<1>6. next_file_number_' \in Nat /\ next_file_number_' >= next_file_number_
      /\ {item, made, n} \subseteq Nat
  BY <1>0, <1>1, <1>2 DEF RepairTypes, DataFile
<1>7. /\ table_numbers_' = S1 \cup {} /\ tables_' = S2 \cup {}
      /\ table_numbers_' \cap tables_' = {}
      /\ {} \subseteq NumbersOf(OfKind("table")')
      /\ {} \subseteq NumbersOf({f \in OfKind("table")' : ~f.bad})
  BY <1>0, <1>1, <1>4 DEF ListsOf
<1>8. AllListed = HasIn(dir, S1 \cup S2) \cup t.has
  BY <1>2, <1>4
<1>9. CASE Fails(File(n).has) /\ UNCHANGED <<dir, repairPc, item, made>>
  <2>1. Held' = {} /\ InHand' /\ repairPc' = "logs"
    BY <1>0, <1>9 DEF Held, InHand
  <2>2. AllListed' = HasIn(dir, S1 \cup S2)
    BY <1>0, <1>4, <1>9 DEF AllListed
  <2>3. excused' = excused \cup t.has /\ there' = there
    BY <1>2, <1>9 DEF Fails
  <2>4. there' \ excused' \subseteq In(logs_') \cup Held' \cup AllListed'
    BY <1>0, <1>1, <1>3, <1>8, <2>1, <2>2, <2>3
  <2>5. item' \in Nat /\ made' \in Nat
    BY <1>6, <1>9
  <2>6. /\ Unique(dir') /\ \A f \in Data(dir) : f.n # n => f \in Data(dir')
        /\ \A f \in Data(dir') : f \in Data(dir)
        /\ \A f \in Data(lost') : f \in Data(lost)
        /\ \A f \in dir : f.kind = "manifest" => f \in dir'
    BY <1>0, <1>1, <1>9
  <2>7. /\ Working /\ S1 \subseteq table_numbers_ /\ S2 \subseteq tables_
        /\ manifests_' = manifests_ /\ logs_' \subseteq logs_ /\ \A f \in logs_' : f.n # n
    BY <1>0, <1>4
  <2>8. PICK R : /\ table_numbers_' = S1 \cup R /\ tables_' = S2 \cup R
                 /\ R \subseteq NumbersOf(OfKind("table")')
                 /\ R \subseteq NumbersOf({f \in OfKind("table")' : ~f.bad})
    BY <1>7
  <2>9. /\ \A f \in Data(dir') : f \in Data(dir) \/ (f.n < next_file_number_' /\ f \in DataFile)
        /\ \A f \in Data(lost') : f \in Data(lost) \/ f \in Data(dir)
    BY <2>6
  <2>10. QED
    BY <1>5, <1>6, <1>7, <2>1, <2>3, <2>4, <2>5, <2>6, <2>7, <2>8, <2>9, GoesOnWithout
<1>10. CASE /\ item' = n /\ made' = next_file_number_
            /\ dir' = Put(dir, TableOf(next_file_number_, {}, TRUE))
            /\ repairPc' = "copy" /\ Fine
  <2>1. PICK g \in DataFile :
          /\ g.n = next_file_number_ /\ g.kind = "table" /\ g.bad = TRUE
          /\ Data(dir') = Data(dir) \cup {g} /\ Unique(dir')
          /\ dir' = dir \cup {g} /\ OfKind("table")' = OfKind("table") \cup {g}
          /\ next_file_number_ \notin table_numbers_ \cup tables_
          /\ \A f \in Data(dir) : f.n # next_file_number_
    BY <1>1, <1>10, NewTable
  <2>u. Unique(dir') /\ \A f \in Data(dir) : f.n # n => f \in Data(dir')
    BY <2>1
  <2>2. AllListed' = HasIn(dir, S1 \cup S2)
    <3>1. HasIn(dir', S1 \cup S2) = HasIn(dir, S1 \cup S2)
      BY <1>1, <1>4, <1>5, <2>u, Others
    <3>2. QED
      BY <1>0, <1>4, <3>1 DEF AllListed
  <2>3. t \in Data(dir') /\ File(item)' = t /\ Held' = t.has
    <3>1. t \in Data(dir') /\ FileIn(dir', n) = t
      BY <1>2, <2>1, FileIs
    <3>2. QED
      BY <1>10, <3>1 DEF Held, File, FileIn
  <2>4. there' = there /\ excused' = excused
    BY <1>10 DEF Fine, repairHist
  <2>5. there' \ excused' \subseteq In(logs_') \cup Held' \cup AllListed'
    BY <1>0, <1>1, <1>3, <1>8, <2>2, <2>3, <2>4
  <2>6. InHand'
    <3>1. Begun(TRUE)'
      BY <1>0, <1>10, <2>1 DEF Begun
    <3>2. item' # made' /\ item' \notin (table_numbers_ \cup tables_)'
      BY <1>0, <1>2, <1>10, <2>1
    <3>a. item' < next_file_number_'
      BY <1>0, <1>1, <1>2, <1>10 DEF RepairTypes, DataFile
    <3>3. \A f \in Data(dir') : f.n = item' => f.kind = "table" /\ f.bad
      BY <1>0, <1>2, <1>10, <2>1
    <3>4. t \in Originals(dir)'
      BY <1>2, <1>10, <2>3 DEF Originals, Data
    <3>5. QED
      BY <1>10, <3>1, <3>2, <3>a, <3>3, <3>4 DEF InHand
  <2>7. next_file_number_ \in Nat
    BY <1>1 DEF RepairTypes
  <2>8. \A f \in Data(dir') : f \in Data(dir) \/ (f.n < next_file_number_' /\ f \in DataFile)
    BY <1>0, <2>1, <2>7
  <2>9. \A f \in dir : f.kind = "manifest" => f \in dir'
    BY <2>1
  <2>10. item' \in Nat /\ made' \in Nat
    BY <1>6, <1>10, <2>7
  <2>11. /\ repairPc' = "copy" /\ logs_' = {} /\ manifests_' = manifests_ /\ Working
         /\ \A f \in Data(lost') : f \in Data(lost)
    BY <1>0, <1>10
  <2>12. PICK R1, R2 : R1 = {} /\ R2 = {}
    OBVIOUS
  <2>13. /\ S1 \subseteq table_numbers_ /\ S2 \subseteq tables_
         /\ table_numbers_' = S1 \cup R1 /\ tables_' = S2 \cup R2
         /\ table_numbers_' \cap tables_' = {}
         /\ R1 \subseteq NumbersOf(OfKind("table")')
         /\ R2 \subseteq NumbersOf({f \in OfKind("table")' : ~f.bad})
    BY <1>4, <1>7, <2>12
  <2>14. QED
    BY <1>5, <1>6, <2>u, <2>4, <2>5, <2>6, <2>8, <2>9, <2>10, <2>11, <2>13,
       GoesOnWithout
<1>11. QED
  BY <1>9, <1>10 DEF RepairTable

(* The table being copied, in either directory.                            *)
LEMMA CopySource ==
  ASSUME RepairInv, repairPc \in {"copy", "finish"}
  PROVE  /\ Source \in DataFile /\ Source.kind = "table" /\ Source.n = item
         /\ Originals(dir) # {} => /\ Source \in Data(dir) /\ Source.bad
                                   /\ File(item) = Source
                                   /\ Originals(dir) = {Source}
         /\ Originals(dir) = {} => \A f \in Data(dir) : f.n # item
<1>1. Working /\ Unique(dir) /\ RepairTypes /\ ListsOf /\ InHand
  BY WorkingFacts DEF Working
<1>2. PICK S : S = IF Originals(dir) # {} THEN Originals(dir) ELSE Originals(lost)
  OBVIOUS
<1>3. S # {}
  BY <1>1, <1>2 DEF InHand
<1>4. Source \in S
  BY <1>2, <1>3 DEF Source
<1>5. \A f \in S : f.kind = "table" /\ f.n = item /\ f \in DataFile
  <2>1. \A f \in S : f.kind = "table" /\ f.n = item /\ (f \in dir \/ f \in lost)
    BY <1>2 DEF Originals
  <2>2. \A f \in S : f \in Data(dir) \cup Data(lost)
    BY <2>1 DEF Data
  <2>3. QED
    BY <1>1, <2>1, <2>2 DEF RepairTypes
<1>6. ASSUME Originals(dir) # {}
      PROVE  /\ Source \in Data(dir) /\ Source.bad /\ File(item) = Source
             /\ Originals(dir) = {Source}
  <2>1. Source \in Originals(dir)
    BY <1>2, <1>4, <1>6
  <2>2. Source \in Data(dir) /\ Source.n = item
    BY <2>1 DEF Originals, Data
  <2>3. Source.bad
    BY <1>1, <2>2 DEF InHand
  <2>4. File(item) = Source
    BY <1>1, <2>2, FileIs, InTerms
  <2>5. \A f \in Originals(dir) : f = Source
    BY <1>1, <2>2 DEF Originals, Unique, Data
  <2>6. QED
    BY <2>1, <2>2, <2>3, <2>4, <2>5
<1>7. ASSUME Originals(dir) = {} PROVE \A f \in Data(dir) : f.n # item
  <2>1. \A f \in Data(dir) : f.n = item => f.kind = "table"
    BY <1>1 DEF InHand
  <2>2. QED
    BY <1>7, <2>1 DEF Originals, Data
<1>8. QED
  BY <1>4, <1>5, <1>6, <1>7

LEMMA BegunKept ==
  ASSUME NEW b, Begun(b), NEW k, made # k, made' = made,
         \A f \in Data(dir) : f.n # k => f \in Data(dir'),
         table_numbers_' \cup tables_' \subseteq table_numbers_ \cup tables_
  PROVE  Begun(b)'
<1>1. PICK f \in OfKind("table") : f.n = made /\ f.bad = b
  BY DEF Begun
<1>2. f \in OfKind("table")'
  BY <1>1 DEF OfKind, Data
<1>3. made \notin table_numbers_' \cup tables_'
  BY DEF Begun
<1>4. QED
  BY <1>1, <1>2, <1>3 DEF Begun

LEMMA ArchiveSourceStep ==
  ASSUME RepairInv, ArchiveSource
  PROVE  RepairInv'
<1>0. /\ repairPc = "copy" /\ Working /\ repairPc' = "finish" /\ Archived(File(item))
      /\ UNCHANGED <<current, manifests_, logs_, table_numbers_, tables_,
                     next_file_number_, item, made>>
  BY DEF ArchiveSource, Working, repairWork
<1>1. /\ Unique(dir)
      /\ there \ excused \subseteq In(logs_) \cup Held \cup AllListed
      /\ RepairTypes /\ ListsOf /\ InHand
  BY <1>0, WorkingFacts
<1>2. PICK f \in DataFile :
           /\ f = Source /\ f.kind = "table" /\ f.n = item /\ f \in Data(dir) /\ f.bad
           /\ File(item) = f /\ Originals(dir) = {f}
  BY <1>0, <1>1, CopySource DEF InHand
<1>3. /\ Unique(dir') /\ excused \subseteq excused' /\ there' = there
      /\ \A g \in dir : g.kind = "manifest" => g \in dir'
      /\ \A g \in Data(dir) : g.n # item => g \in Data(dir')
      /\ \A g \in Data(dir') : g \in Data(dir)
      /\ \A g \in Data(lost') : g \in Data(lost) \/ g \in Data(dir)
  BY <1>0, <1>1, <1>2, MayArchive
<1>4. /\ Begun(TRUE) /\ item # made /\ item \notin table_numbers_ \cup tables_
      /\ item < next_file_number_
      /\ \A g \in Data(dir) : g.n = item => g.kind = "table" /\ g.bad
  BY <1>0, <1>1 DEF InHand
<1>5. \/ Originals(dir)' = {f}
      \/ Originals(dir)' = {} /\ Originals(lost)' = {f}
  <2>1. CASE Archive(File(item))
    <3>1. dir' = Without(dir, f) /\ lost' = Put(lost, f)
      BY <1>2, <2>1 DEF Archive
    <3>2. Originals(dir)' = {}
      BY <1>0, <1>2, <3>1 DEF Originals, Without
    <3>3. Originals(lost)' = {f}
      BY <1>0, <1>2, <3>1 DEF Originals, Put
    <3>4. QED
      BY <3>2, <3>3
  <2>2. CASE UNCHANGED <<dir, lost>>
    BY <1>0, <1>2, <2>2 DEF Originals
  <2>3. QED
    BY <1>0, <2>1, <2>2 DEF Archived
<1>6. Source' = f
  <2>1. (IF Originals(dir) # {} THEN Originals(dir) ELSE Originals(lost))' = {f}
    BY <1>5
  <2>2. PICK S : S = (IF Originals(dir) # {} THEN Originals(dir) ELSE Originals(lost))'
    OBVIOUS
  <2>3. (CHOOSE g \in S : TRUE) = f
    BY <2>1, <2>2
  <2>4. QED
    BY <2>2, <2>3 DEF Source
<1>7. Held = f.has /\ Held' = f.has
  BY <1>0, <1>2, <1>6 DEF Held
<1>8. PICK k, S1, S2, R : k = item /\ S1 = table_numbers_ /\ S2 = tables_ /\ R = {}
  OBVIOUS
<1>9. AllListed' = AllListed
  <2>1. HasIn(dir', S1 \cup S2) = HasIn(dir, S1 \cup S2)
    BY <1>1, <1>3, <1>4, <1>8, Others
  <2>2. QED
    BY <1>0, <1>8, <2>1 DEF AllListed
<1>10. there' \ excused' \subseteq In(logs_') \cup Held' \cup AllListed'
  BY <1>0, <1>1, <1>3, <1>7, <1>9
<1>11. InHand'
  <2>1. Begun(TRUE)'
    BY <1>0, <1>3, <1>4, BegunKept
  <2>2. item' # made' /\ item' \notin (table_numbers_ \cup tables_)'
        /\ item' < next_file_number_'
        /\ \A g \in Data(dir') : g.n = item' => g.kind = "table" /\ g.bad
    BY <1>0, <1>3, <1>4
  <2>3. Originals(dir)' # {} \/ \E g \in Originals(lost)' : Originals(lost)' = {g}
    BY <1>5
  <2>4. QED
    BY <1>0, <2>1, <2>2, <2>3 DEF InHand
<1>12. /\ item' \in Nat /\ made' \in Nat /\ next_file_number_' \in Nat
       /\ next_file_number_' >= next_file_number_
  BY <1>0, <1>1 DEF RepairTypes
<1>13. /\ S1 \subseteq table_numbers_ /\ S2 \subseteq tables_ /\ k \notin S1 \cup S2
       /\ table_numbers_' = S1 \cup R /\ tables_' = S2 \cup R
       /\ table_numbers_' \cap tables_' = {}
       /\ R \subseteq NumbersOf(OfKind("table")')
       /\ R \subseteq NumbersOf({g \in OfKind("table")' : ~g.bad})
  BY <1>0, <1>1, <1>4, <1>8 DEF ListsOf
<1>14. logs_ = {} /\ manifests_' = manifests_ /\ logs_' = logs_
  BY <1>0, <1>1 DEF ListsOf
<1>15. QED
  BY <1>0, <1>3, <1>8, <1>10, <1>11, <1>12, <1>13, <1>14, GoesOnWithout

LEMMA FinishCopyStep ==
  ASSUME RepairInv, FinishCopy
  PROVE  RepairInv'
<1>0. /\ repairPc = "finish" /\ Working
      /\ UNCHANGED <<lost, current, manifests_, logs_, table_numbers_, tables_,
                     next_file_number_, item, made>>
  BY DEF FinishCopy, Working, repairWork
<1>1. /\ Unique(dir)
      /\ there \ excused \subseteq In(logs_) \cup Held \cup AllListed
      /\ RepairTypes /\ ListsOf /\ InHand
  BY <1>0, WorkingFacts
<1>2. PICK s \in DataFile : s = Source /\ s.n = item
  BY <1>0, CopySource
<1>3. PICK t \in Data(dir) :
           /\ t.n = made /\ t.kind = "table" /\ t \in DataFile /\ File(made) = t
           /\ made \notin table_numbers_ \cup tables_ /\ item # made
           /\ (\A f \in logs_ : f.n # made)
           /\ (\A f \in Data(dir) : f.n = made => f = t)
           /\ made \in Nat /\ made < next_file_number_
  BY <1>0, MadeTable
<1>4. /\ item \notin table_numbers_ \cup tables_ /\ item < next_file_number_
      /\ \A g \in Data(dir) : g.n = item => g.kind = "table" /\ g.bad
  BY <1>0, <1>1 DEF InHand
<1>5. Held = s.has /\ logs_ = {} /\ logs_' = {}
  BY <1>0, <1>1, <1>2 DEF Held, ListsOf
<1>8. PICK k, S1, S2, R : k = made /\ S1 = table_numbers_ /\ S2 = tables_ /\ R = {}
  OBVIOUS
<1>9. ASSUME Unique(dir'), \A g \in Data(dir) : g.n # made => g \in Data(dir')
      PROVE  AllListed' = AllListed
  <2>1. HasIn(dir', S1 \cup S2) = HasIn(dir, S1 \cup S2)
    BY <1>1, <1>3, <1>8, <1>9, Others
  <2>2. QED
    BY <1>0, <1>8, <2>1 DEF AllListed
<1>12. /\ item' \in Nat /\ made' \in Nat /\ next_file_number_' \in Nat
       /\ next_file_number_' >= next_file_number_
  BY <1>0, <1>1 DEF RepairTypes
<1>13. /\ S1 \subseteq table_numbers_ /\ S2 \subseteq tables_ /\ k \notin S1 \cup S2
       /\ table_numbers_' = S1 \cup R /\ tables_' = S2 \cup R
       /\ table_numbers_' \cap tables_' = {}
       /\ R \subseteq NumbersOf(OfKind("table")')
       /\ R \subseteq NumbersOf({g \in OfKind("table")' : ~g.bad})
  BY <1>0, <1>1, <1>3, <1>8 DEF ListsOf
<1>14. ASSUME Unique(dir'), \A g \in Data(dir) : g.n # made => g \in Data(dir'),
              \A g \in Data(dir') : g \in Data(dir) \/ (g.n < next_file_number_' /\ g \in DataFile),
              \A g \in dir : g.kind = "manifest" => g \in dir', there' = there,
              s.has \subseteq excused' \cup Held', excused \subseteq excused',
              InHand', repairPc' \in {"logs", "rename"}
       PROVE  RepairInv'
  <2>1. AllListed' = AllListed
    BY <1>9, <1>14
  <2>2. there' \ excused' \subseteq In(logs_') \cup Held' \cup AllListed'
    BY <1>1, <1>5, <1>14, <2>1
  <2>3. manifests_' = manifests_ /\ \A g \in Data(lost') : g \in Data(lost)
    BY <1>0
  <2>4. QED
    BY <1>0, <1>5, <1>8, <1>12, <1>13, <1>14, <2>2, <2>3, GoesOnWithout
<1>15. CASE Source.has = {} /\ repairPc' = "logs" /\ Fine /\ UNCHANGED dir
  <2>1. InHand'
    BY <1>15 DEF InHand
  <2>2. there' = there /\ excused' = excused /\ s.has \subseteq excused'
    BY <1>2, <1>15 DEF Fine, repairHist
  <2>3. QED
    BY <1>1, <1>14, <1>15, <2>1, <2>2
<1>16. CASE /\ dir' = Put(dir, TableOf(made, Source.has, FALSE))
            /\ repairPc' = "rename" /\ Fine
  <2>1. PICK g : g = TableOf(made, Source.has, FALSE)
    OBVIOUS
  <2>2. g.n = made /\ g.kind = "table" /\ g.bad = FALSE /\ g.has = s.has /\ g \in DataFile
    BY <1>2, <1>3, <2>1 DEF TableOf, DataFile
  <2>3. dir' = Put(dir, g)
    BY <1>16, <2>1
  <2>4. Data(dir') = {f \in Data(dir) : f.n # made} \cup {g} /\ Unique(dir')
    BY <1>1, <1>3, <2>2, <2>3, PutTable
  <2>5. \A f \in dir : f.kind = "manifest" => f \in dir'
    BY <2>2, <2>3 DEF Put
  <2>6. g \in OfKind("table")'
    BY <2>2, <2>4 DEF OfKind, Data
  <2>7. InHand'
    <3>1. Begun(FALSE)'
      BY <1>0, <1>3, <2>2, <2>6 DEF Begun
    <3>2. item' # made' /\ item' \notin (table_numbers_ \cup tables_)'
          /\ item' < next_file_number_'
          /\ \A f \in Data(dir') : f.n = item' => f.kind = "table" /\ f.bad
      BY <1>0, <1>3, <1>4, <2>2, <2>4
    <3>3. QED
      BY <1>16, <3>1, <3>2 DEF InHand
  <2>8. Held' = s.has
    <3>1. FileIn(dir', made) = g
      BY <2>2, <2>4, FileIs
    <3>2. QED
      BY <1>0, <1>16, <2>2, <3>1 DEF Held, File, FileIn
  <2>9. there' = there /\ excused' = excused
    BY <1>16 DEF Fine, repairHist
  <2>10. \A f \in Data(dir') : f \in Data(dir) \/ (f.n < next_file_number_' /\ f \in DataFile)
    BY <1>0, <1>3, <2>2, <2>4
  <2>11. repairPc' = "rename" /\ \A f \in Data(dir) : f.n # made => f \in Data(dir')
    BY <1>16, <2>4
  <2>12. QED
    BY <1>14, <2>4, <2>5, <2>7, <2>8, <2>9, <2>10, <2>11
<1>17. CASE /\ Fails(Source.has)
            /\ dir' = Without(dir, File(made))
            /\ repairPc' = "logs"
  <2>1. Data(dir') = Data(dir) \ {t} /\ Unique(dir')
    BY <1>1, <1>3, <1>17, TakenAway
  <2>2. \A f \in dir : f.kind = "manifest" => f \in dir'
    BY <1>3, <1>17 DEF Without
  <2>3. InHand'
    BY <1>17 DEF InHand
  <2>4. there' = there /\ excused \subseteq excused' /\ s.has \subseteq excused'
    BY <1>2, <1>17 DEF Fails
  <2>5. QED
    BY <1>3, <1>14, <1>17, <2>1, <2>2, <2>3, <2>4
<1>18. QED
  BY <1>15, <1>16, <1>17 DEF FinishCopy

LEMMA RenameCopyStep ==
  ASSUME RepairInv, RenameCopy
  PROVE  RepairInv'
<1>0. /\ repairPc = "rename" /\ Working /\ repairPc' = "logs"
      /\ UNCHANGED <<lost, current, manifests_, logs_, table_numbers_,
                     next_file_number_, item, made>>
  BY DEF RenameCopy, Working
<1>1. /\ Unique(dir) /\ (\A f \in Data(dir) : f.n < next_file_number_)
      /\ there \ excused \subseteq In(logs_) \cup Held \cup AllListed
      /\ RepairTypes /\ ListsOf /\ InHand
  BY <1>0, WorkingFacts
<1>3. PICK t \in Data(dir) :
           /\ t.n = made /\ t.kind = "table" /\ t \in DataFile /\ File(made) = t
           /\ made \notin table_numbers_ \cup tables_ /\ item # made
           /\ (\A f \in Data(dir) : f.n = made => f = t)
           /\ made \in Nat /\ made < next_file_number_
  BY <1>0, MadeTable
<1>4. /\ item \notin table_numbers_ \cup tables_ /\ logs_ = {} /\ item < next_file_number_
      /\ \A g \in Data(dir) : g.n = item => g.kind = "table" /\ g.bad
  BY <1>0, <1>1 DEF InHand, ListsOf
<1>5. Held = t.has /\ Held' = {} /\ InHand'
  BY <1>0, <1>3 DEF Held, InHand
<1>6. /\ item' \in Nat /\ made' \in Nat /\ next_file_number_' \in Nat
      /\ next_file_number_' >= next_file_number_
  BY <1>0, <1>1 DEF RepairTypes
<1>7. PICK K, S1, S2, R : K = {made, item} /\ S1 = table_numbers_ /\ S2 = tables_ /\ R = {}
  OBVIOUS
<1>8. K \cap (S1 \cup S2) = {} /\ S1 \subseteq table_numbers_ /\ S2 \subseteq tables_
  BY <1>3, <1>4, <1>7
<1>9. CASE /\ dir' = Put(Without(dir, File(made)), TableOf(item, File(made).has, FALSE))
           /\ tables_' = tables_ \cup {item}
           /\ Fine
  <2>1. PICK g, D : g = TableOf(item, File(made).has, FALSE) /\ D = Without(dir, File(made))
    OBVIOUS
  <2>2. g.n = item /\ g.kind = "table" /\ g.bad = FALSE /\ g.has = t.has /\ g \in DataFile
    BY <1>1, <1>3, <2>1 DEF TableOf, DataFile, RepairTypes
  <2>3. Data(D) = Data(dir) \ {t} /\ Unique(D)
    BY <1>1, <1>3, <2>1, TakenAway
  <2>4. \A f \in Data(D) : f.n = item => f.kind = "table"
    BY <1>4, <2>3
  <2>5. dir' = Put(D, g)
    BY <1>9, <2>1
  <2>6. Data(dir') = {f \in Data(D) : f.n # item} \cup {g} /\ Unique(dir')
    BY <2>2, <2>3, <2>4, <2>5, PutTable
  <2>7. \A f \in dir : f.kind = "manifest" => f \in dir'
    BY <1>3, <2>1, <2>2, <2>5 DEF Put, Without
  <2>8. \A f \in Data(dir) : f.n \notin K => f \in Data(dir')
    BY <1>3, <1>7, <2>3, <2>6
  <2>9. AllListed' = AllListed \cup t.has
    <3>a. Unique(dir') /\ Unique(dir) /\ ListsOf
      BY <1>1, <2>6
    <3>1. HasIn(dir', S1 \cup S2) = HasIn(dir, S1 \cup S2)
      BY <1>8, <2>8, <3>a, OthersHave
    <3>2. FileIn(dir', item) = g
      BY <2>2, <2>6, FileIs
    <3>3. HasIn(dir', (S1 \cup S2) \cup {item}) = HasIn(dir', S1 \cup S2) \cup FileIn(dir', item).has
      BY HasTwo
    <3>4. (S1 \cup S2) \cup {item} = table_numbers_' \cup tables_'
      BY <1>0, <1>7, <1>9
    <3>5. QED
      BY <1>7, <2>2, <3>1, <3>2, <3>3, <3>4 DEF AllListed
  <2>10. there' = there /\ excused' = excused
    BY <1>9 DEF Fine, repairHist
  <2>11. there' \ excused' \subseteq In(logs_') \cup Held' \cup AllListed'
    BY <1>0, <1>1, <1>5, <2>9, <2>10
  <2>12. PICK I : I = {item}
    OBVIOUS
  <2>13. /\ table_numbers_' = S1 \cup R /\ tables_' = S2 \cup I
         /\ table_numbers_' \cap tables_' = {}
         /\ R \subseteq NumbersOf(OfKind("table")')
         /\ I \subseteq NumbersOf({f \in OfKind("table")' : ~f.bad})
    <3>1. g \in OfKind("table")' /\ ~g.bad
      BY <2>2, <2>6 DEF OfKind, Data
    <3>2. I \subseteq NumbersOf({f \in OfKind("table")' : ~f.bad})
      BY <2>2, <2>12, <3>1 DEF NumbersOf
    <3>3. table_numbers_' \cap tables_' = {}
      BY <1>0, <1>1, <1>4, <1>9 DEF ListsOf
    <3>4. QED
      BY <1>0, <1>7, <1>9, <2>12, <3>2, <3>3
  <2>14. \A f \in Data(dir') : f \in Data(dir) \/ (f.n < next_file_number_' /\ f \in DataFile)
    BY <1>0, <1>4, <2>2, <2>3, <2>6
  <2>15. /\ manifests_' = manifests_ /\ logs_' = {} /\ repairPc' = "logs"
         /\ \A f \in Data(lost') : f \in Data(lost)
    BY <1>0, <1>4
  <2>16. Working /\ Unique(dir') /\ logs_' \subseteq logs_ /\ \A f \in logs_' : f.n \notin K
    BY <1>0, <2>6, <2>15
  <2>17. InHand' /\ there' = there
    BY <1>5, <2>10
  <2>18. QED
    BY <1>6, <1>8, <2>7, <2>8, <2>11, <2>13, <2>14, <2>15, <2>16, <2>17,
       GoesOnWithoutAll
<1>10. CASE /\ Fails(File(made).has) /\ dir' = Without(dir, File(made))
            /\ UNCHANGED tables_
  <2>1. Data(dir') = Data(dir) \ {t} /\ Unique(dir')
    BY <1>1, <1>3, <1>10, TakenAway
  <2>2. \A f \in dir : f.kind = "manifest" => f \in dir'
    BY <1>3, <1>10 DEF Without
  <2>3. \A f \in Data(dir) : f.n \notin K => f \in Data(dir')
    BY <1>3, <1>7, <2>1
  <2>4. AllListed' = AllListed
    <3>1. HasIn(dir', S1 \cup S2) = HasIn(dir, S1 \cup S2)
      BY <1>1, <1>8, <2>1, <2>3, OthersHave
    <3>2. QED
      BY <1>0, <1>7, <1>10, <3>1 DEF AllListed
  <2>5. there' = there /\ excused' = excused \cup t.has
    BY <1>3, <1>10 DEF Fails
  <2>6. there' \ excused' \subseteq In(logs_') \cup Held' \cup AllListed'
    BY <1>0, <1>1, <1>5, <2>4, <2>5
  <2>7. /\ table_numbers_' = S1 \cup R /\ tables_' = S2 \cup R
        /\ table_numbers_' \cap tables_' = {}
        /\ R \subseteq NumbersOf(OfKind("table")')
        /\ R \subseteq NumbersOf({f \in OfKind("table")' : ~f.bad})
    BY <1>0, <1>1, <1>7, <1>10 DEF ListsOf
  <2>8. /\ manifests_' = manifests_ /\ logs_' = {} /\ repairPc' = "logs"
        /\ \A f \in Data(lost') : f \in Data(lost)
        /\ \A f \in Data(dir') : f \in Data(dir)
    BY <1>0, <1>4, <2>1
  <2>9. QED
    BY <1>0, <1>5, <1>6, <1>8, <2>1, <2>2, <2>3, <2>5, <2>6, <2>7, <2>8, GoesOnWithoutAll,
       ZenonT(40)
<1>11. QED
  BY <1>9, <1>10 DEF RenameCopy

(* The end of a repair, with a result, or by a kill.                       *)
LEMMA ListedIsIn ==
  ASSUME Unique(dir), ListsOf
  PROVE  In(logs_) \subseteq In(dir) /\ AllListed \subseteq In(dir)
<1>1. \A f \in logs_ : f \in Data(dir)
  BY DEF ListsOf, OfKind, Data
<1>2. In(logs_) \subseteq In(dir)
  BY <1>1 DEF In, Data
<1>3. \A n \in table_numbers_ \cup tables_ : \E f \in Data(dir) : f.n = n
  BY DEF ListsOf, OfKind, NumbersOf, Data
<1>4. QED
  BY <1>2, <1>3, HasIsIn DEF AllListed

LEMMA Stops ==
  ASSUME RepairInv, Working, repairPc' \in {"idle", "failed"},
         UNCHANGED <<dir, lost, next_file_number_, item, made, there>>,
         there \ excused' \subseteq In(dir)
  PROVE  RepairInv'
<1>1. /\ Unique(dir) /\ (\A f \in Data(dir) : f.n < next_file_number_)
      /\ RepairTypes
  BY WorkingFacts
<1>2. RepairTypes' /\ ~Working'
  BY <1>1 DEF RepairTypes, Working
<1>3. OneOfEach' /\ NumbersBelow' /\ Kept'
  BY <1>1, <1>2 DEF OneOfEach, Unique, NumbersBelow, Kept
<1>4. QED
  BY <1>2, <1>3 DEF RepairInv

LEMMA KillStep ==
  ASSUME RepairInv, KillRepair
  PROVE  RepairInv'
<1>0. /\ repairPc' = "idle" /\ Working
      /\ UNCHANGED <<dir, lost, next_file_number_, item, made, there>>
      /\ excused' = excused \cup (IF repairPc = "finish" THEN Source.has ELSE {})
  BY DEF KillRepair, Working, dirs, repairWork
<1>1. /\ Unique(dir) /\ ListsOf
      /\ there \ excused \subseteq In(logs_) \cup Held \cup AllListed
  BY <1>0, WorkingFacts
<1>2. CASE repairPc = "build"
  <2>1. PICK l \in Data(dir) : File(item) = l
    BY <1>2, ItemLog
  <2>2. Held \subseteq In(dir)
    BY <1>2, <2>1 DEF Held, In
  <2>3. QED
    BY <1>0, <1>1, <2>2, ListedIsIn, Stops
<1>3. CASE repairPc = "copy"
  <2>1. Originals(dir) # {}
    BY <1>0, <1>3, WorkingFacts DEF InHand
  <2>2. Source \in Data(dir) /\ File(item) = Source
    BY <1>3, <2>1, CopySource
  <2>3. Held \subseteq In(dir)
    BY <1>3, <2>2 DEF Held, In
  <2>4. QED
    BY <1>0, <1>1, <2>3, ListedIsIn, Stops
<1>4. CASE repairPc = "finish"
  <2>1. Held = Source.has /\ excused' = excused \cup Source.has
    BY <1>0, <1>4 DEF Held
  <2>2. there \ excused' \subseteq In(dir)
    BY <1>1, <2>1, ListedIsIn
  <2>3. QED
    BY <1>0, <2>2, Stops
<1>5. CASE repairPc = "rename"
  <2>1. PICK t \in Data(dir) : File(made) = t
    BY <1>5, MadeTable
  <2>2. Held \subseteq In(dir)
    BY <1>5, <2>1 DEF Held, In
  <2>3. QED
    BY <1>0, <1>1, <2>2, ListedIsIn, Stops
<1>6. CASE repairPc \notin {"build", "copy", "finish", "rename"}
  <2>1. Held = {}
    BY <1>6 DEF Held
  <2>2. QED
    BY <1>0, <1>1, <1>6, <2>1, ListedIsIn, Stops
<1>7. QED
  BY <1>2, <1>3, <1>4, <1>5, <1>6

LEMMA WriteDescriptorStep ==
  ASSUME RepairInv, WriteDescriptor
  PROVE  RepairInv'
<1>0. /\ repairPc = "logs" /\ Working /\ logs_ = {} /\ table_numbers_ = {}
      /\ UNCHANGED <<dir, lost, current, manifests_, logs_, table_numbers_, tables_,
                     next_file_number_, item, made, there>>
      /\ excused' = excused
      /\ repairPc' \in {"discard", "failed"}
  BY DEF WriteDescriptor, Working, dirs, repairWork, Fine, repairHist, Fails
<1>1. /\ Unique(dir) /\ (\A f \in Data(dir) : f.n < next_file_number_)
      /\ there \ excused \subseteq In(logs_) \cup Held \cup AllListed
      /\ RepairTypes /\ ListsOf
  BY <1>0, WorkingFacts
<1>2. Held = {} /\ AllListed' = AllListed
  BY <1>0 DEF Held, AllListed
<1>3. CASE repairPc' = "failed"
  BY <1>0, <1>1, <1>2, <1>3, ListedIsIn, Stops
<1>4. CASE repairPc' = "discard"
  <2>1. Working' /\ Held' = {} /\ InHand' /\ RepairTypes'
    BY <1>0, <1>1, <1>4 DEF Working, Held, InHand, RepairTypes
  <2>2. ListsOf'
    BY <1>0, <1>1, <1>4 DEF ListsOf, OfKind, NumbersOf
  <2>3. QED
    BY <1>0, <1>1, <1>2, <2>1, <2>2, RepairGoesOn
<1>5. QED
  BY <1>0, <1>3, <1>4

LEMMA SetCurrentFileStep ==
  ASSUME RepairInv, SetCurrentFile
  PROVE  RepairInv'
<1>0. /\ repairPc = "current" /\ Working
      /\ UNCHANGED <<dir, lost, manifests_, logs_, table_numbers_, tables_,
                     next_file_number_, item, made, there>>
      /\ excused' = excused
      /\ repairPc' = "failed" \/ (repairPc' = "ok" /\ current' = 1)
  BY DEF SetCurrentFile, Working, repairWork, Fine, repairHist, Fails
<1>1. /\ Unique(dir) /\ (\A f \in Data(dir) : f.n < next_file_number_)
      /\ there \ excused \subseteq In(logs_) \cup Held \cup AllListed
      /\ RepairTypes /\ ListsOf
  BY <1>0, WorkingFacts
<1>2. Held = {} /\ AllListed' = AllListed
  BY <1>0 DEF Held, AllListed
<1>3. CASE repairPc' = "failed"
  BY <1>0, <1>1, <1>2, <1>3, ListedIsIn, Stops
<1>4. CASE repairPc' = "ok" /\ current' = 1
  <2>1. Working' /\ Held' = {} /\ InHand' /\ RepairTypes'
    BY <1>0, <1>1, <1>4 DEF Working, Held, InHand, RepairTypes
  <2>2. Listed' = Listed /\ Listed \in dir
    BY <1>0, <1>1 DEF Listed, File, ListsOf
  <2>3. ListsOf'
    BY <1>0, <1>1, <1>4, <2>2 DEF ListsOf, OfKind, NumbersOf
  <2>4. QED
    BY <1>0, <1>1, <1>2, <2>1, <2>3, RepairGoesOn
<1>5. QED
  BY <1>0, <1>3, <1>4

(* Descriptors come and go, and the files that can be read stay.           *)
LEMMA SameData ==
  ASSUME NEW D, NEW E, Data(D) = Data(E), Unique(D)
  PROVE  /\ Unique(E) /\ In(D) = In(E)
         /\ \A S : (\A n \in S : \E f \in Data(D) : f.n = n) => HasIn(D, S) = HasIn(E, S)
         /\ \A k : k # "manifest" => {f \in D : f.kind = k} = {f \in E : f.kind = k}
<1>1. Unique(E) /\ In(D) = In(E)
  BY DEF Unique, In
<1>2. ASSUME NEW S, \A n \in S : \E f \in Data(D) : f.n = n
      PROVE  HasIn(D, S) = HasIn(E, S)
  BY <1>1, <1>2, HasKept
<1>3. ASSUME NEW k, k # "manifest"
      PROVE  {f \in D : f.kind = k} = {f \in E : f.kind = k}
  <2>1. \A f : f \in D /\ f.kind = k => f \in Data(D) /\ f \in E
    BY <1>3 DEF Data
  <2>2. \A f : f \in E /\ f.kind = k => f \in Data(E) /\ f \in D
    BY <1>3 DEF Data
  <2>3. QED
    BY <2>1, <2>2
<1>4. QED
  BY <1>1, <1>2, <1>3

LEMMA DiscardStep ==
  ASSUME RepairInv, NEW m \in manifests_, Discard(m)
  PROVE  RepairInv'
<1>0. /\ repairPc = "discard" /\ repairPc' = "discard" /\ Working
      /\ manifests_' = manifests_ \ {m} /\ Archived(m)
      /\ UNCHANGED <<current, logs_, table_numbers_, tables_,
                     next_file_number_, item, made>>
  BY DEF Discard, Working
<1>1. /\ Unique(dir) /\ (\A f \in Data(dir) : f.n < next_file_number_)
      /\ there \ excused \subseteq In(logs_) \cup Held \cup AllListed
      /\ RepairTypes /\ ListsOf
  BY <1>0, WorkingFacts
<1>2. m.kind = "manifest"
  BY <1>1 DEF ListsOf, OfKind
<1>3. /\ Data(dir') = Data(dir) /\ Data(lost') = Data(lost)
      /\ \A f \in dir : f # m => f \in dir'
      /\ there' = there /\ excused' = excused
  <2>1. CASE Archive(m) /\ Fine
    <3>1. dir' = Without(dir, m) /\ lost' = Put(lost, m)
      BY <2>1 DEF Archive
    <3>2. Data(dir') = Data(dir) /\ \A f \in dir : f # m => f \in dir'
      BY <1>2, <3>1 DEF Data, Without
    <3>3. Data(lost') = Data(lost)
      BY <1>2, <3>1, PutManifest
    <3>4. QED
      BY <2>1, <3>2, <3>3 DEF Fine, repairHist
  <2>2. CASE Fails({}) /\ UNCHANGED <<dir, lost>>
    BY <2>2 DEF Fails
  <2>3. QED
    BY <1>0, <2>1, <2>2 DEF Archived
<1>4. Working' /\ Held = {} /\ Held' = {} /\ InHand'
  BY <1>0 DEF Working, Held, InHand
<1>5. PICK D, E, S : D = dir /\ E = dir' /\ S = table_numbers_ \cup tables_
  OBVIOUS
<1>6. /\ Unique(E)
      /\ (\A n \in S : \E f \in Data(D) : f.n = n) => HasIn(D, S) = HasIn(E, S)
      /\ {f \in D : f.kind = "log"} = {f \in E : f.kind = "log"}
      /\ {f \in D : f.kind = "table"} = {f \in E : f.kind = "table"}
  BY <1>1, <1>3, <1>5, SameData
<1>7. \A n \in S : \E f \in Data(D) : f.n = n
  BY <1>1, <1>5 DEF ListsOf, OfKind, NumbersOf, Data
<1>8. AllListed' = AllListed
  BY <1>0, <1>5, <1>6, <1>7 DEF AllListed
<1>9. OfKind("log")' = OfKind("log") /\ OfKind("table")' = OfKind("table")
  BY <1>5, <1>6 DEF OfKind
<1>10. ListsOf'
  <2>1. manifests_' \subseteq OfKind("manifest")'
    BY <1>0, <1>1, <1>3 DEF ListsOf, OfKind
  <2>2. QED
    BY <1>0, <1>1, <1>9, <2>1 DEF ListsOf
<1>11. RepairTypes'
  BY <1>0, <1>1, <1>3 DEF RepairTypes
<1>12. /\ Unique(dir') /\ (\A f \in Data(dir') : f.n < next_file_number_')
       /\ there' \ excused' \subseteq In(logs_') \cup Held' \cup AllListed'
  BY <1>0, <1>1, <1>3, <1>4, <1>5, <1>6, <1>8
<1>13. QED
  BY <1>4, <1>10, <1>11, <1>12, RepairGoesOn

LEMMA InstallStep ==
  ASSUME RepairInv, Install
  PROVE  RepairInv'
<1>0. /\ repairPc = "discard" /\ manifests_ = {} /\ Working
      /\ UNCHANGED <<lost, current, manifests_, logs_, table_numbers_, tables_,
                     next_file_number_, item, made, there>>
      /\ excused' = excused
      /\ \/ dir' = Put(dir, Listed) /\ repairPc' = "current"
         \/ repairPc' = "failed" /\ UNCHANGED dir
  BY DEF Install, Working, repairWork, Fine, repairHist, Fails
<1>1. /\ Unique(dir) /\ (\A f \in Data(dir) : f.n < next_file_number_)
      /\ there \ excused \subseteq In(logs_) \cup Held \cup AllListed
      /\ RepairTypes /\ ListsOf
  BY <1>0, WorkingFacts
<1>2. Held = {}
  BY <1>0 DEF Held
<1>3. CASE repairPc' = "failed" /\ UNCHANGED dir
  BY <1>0, <1>1, <1>2, <1>3, ListedIsIn, Stops
<1>4. CASE dir' = Put(dir, Listed) /\ repairPc' = "current"
  <2>1. PICK m : m = Listed /\ m.kind = "manifest"
    <3>1. PICK m, x : m = Listed /\ x = Max({0} \cup UNION {File(n).has : n \in tables_})
      OBVIOUS
    <3>2. m = Manifest(1, tables_, next_file_number_, x)
      BY <3>1 DEF Listed
    <3>3. m.kind = "manifest"
      BY <3>2 DEF Manifest
    <3>4. QED
      BY <3>1, <3>3
  <2>a. dir' = Put(dir, m)
    BY <1>4, <2>1
  <2>b. m \in dir'
    BY <2>a DEF Put
  <2>2. Data(dir') = Data(dir) /\ m \in dir'
    BY <2>1, <2>a, <2>b, PutManifest
  <2>3. PICK D, E, S : D = dir /\ E = dir' /\ S = table_numbers_ \cup tables_
    OBVIOUS
  <2>4. /\ Unique(E)
        /\ (\A n \in S : \E f \in Data(D) : f.n = n) => HasIn(D, S) = HasIn(E, S)
        /\ {f \in D : f.kind = "log"} = {f \in E : f.kind = "log"}
        /\ {f \in D : f.kind = "table"} = {f \in E : f.kind = "table"}
    BY <1>1, <2>2, <2>3, SameData
  <2>5. \A n \in S : \E f \in Data(D) : f.n = n
    BY <1>1, <2>3 DEF ListsOf, OfKind, NumbersOf, Data
  <2>6. AllListed' = AllListed
    BY <1>0, <2>3, <2>4, <2>5 DEF AllListed
  <2>7. \A n \in tables_ : FileIn(dir', n) = FileIn(dir, n)
    <3>1. ASSUME NEW n \in tables_ PROVE FileIn(dir', n) = FileIn(dir, n)
      <4>1. PICK f \in Data(D) : f.n = n
        BY <2>3, <2>5
      <4>2. FileIn(D, f.n) = f /\ FileIn(E, f.n) = f
        BY <1>1, <2>2, <2>3, <2>4, <4>1, FileIs
      <4>3. QED
        BY <2>3, <4>1, <4>2
    <3>2. QED
      BY <3>1
  <2>8. Listed' = Listed
    <3>1. {FileIn(dir', n).has : n \in tables_} = {FileIn(dir, n).has : n \in tables_}
      BY <2>7
    <3>2. UNION {File(n)'.has : n \in tables_'} = UNION {File(n).has : n \in tables_}
      BY <1>0, <3>1 DEF File, FileIn
    <3>3. QED
      BY <1>0, <3>2 DEF Listed, Manifest
  <2>9. OfKind("log")' = OfKind("log") /\ OfKind("table")' = OfKind("table")
    BY <2>3, <2>4 DEF OfKind
  <2>10. ListsOf'
    <3>1. manifests_' \subseteq OfKind("manifest")' /\ Listed' \in dir'
      BY <1>0, <2>1, <2>2, <2>8
    <3>2. QED
      BY <1>0, <1>1, <1>4, <2>9, <3>1 DEF ListsOf
  <2>11. RepairTypes'
    BY <1>0, <1>1, <2>2 DEF RepairTypes
  <2>12. Working' /\ Held' = {} /\ InHand'
    BY <1>4 DEF Working, Held, InHand
  <2>13. /\ Unique(dir') /\ (\A f \in Data(dir') : f.n < next_file_number_')
         /\ there' \ excused' \subseteq In(logs_') \cup Held' \cup AllListed'
    <3>1. Unique(dir')
      BY <2>3, <2>4
    <3>2. QED
      BY <1>0, <1>1, <1>2, <2>2, <2>6, <2>12, <3>1
  <2>14. QED
    BY <2>10, <2>11, <2>12, <2>13, RepairGoesOn
<1>5. QED
  BY <1>0, <1>3, <1>4

(* FindFiles takes over every file there is.                               *)
LEMMA FindFilesStep ==
  ASSUME RepairInv, FindFiles
  PROVE  RepairInv'
<1>0. /\ repairPc' = "logs" /\ manifests_' = OfKind("manifest") /\ logs_' = OfKind("log")
      /\ table_numbers_' = NumbersOf(OfKind("table")) /\ tables_' = {}
      /\ next_file_number_' = AfterLast(NumbersOf(OfKind("log") \cup OfKind("table")))
      /\ UNCHANGED <<dir, lost, current, item, made, there, excused>>
      /\ repairPc \in {"idle", "ok", "failed"}
  BY DEF FindFiles, dirs
<1>1. Unique(dir) /\ RepairTypes /\ NumbersBelow
  BY InTerms DEF RepairInv
<1>2. there \ excused \subseteq In(dir)
  <2>1. CASE Working
    <3>1. there \ excused \subseteq In(logs_) \cup Held \cup AllListed /\ ListsOf
      BY <2>1, WorkingFacts
    <3>2. Held = {}
      BY <1>0 DEF Held
    <3>3. QED
      BY <1>1, <3>1, <3>2, ListedIsIn
  <2>2. CASE ~Working
    BY <2>2 DEF RepairInv, Kept
  <2>3. QED
    BY <2>1, <2>2
<1>3. \A f \in Data(dir) : f \in DataFile /\ f.n \in Nat /\ f.kind \in {"log", "table"}
  BY <1>1 DEF RepairTypes, DataFile
<1>4. Data(dir) = OfKind("log") \cup OfKind("table")
  BY <1>3 DEF OfKind, Data
<1>5. next_file_number_' \in Nat \ {0} /\ \A f \in Data(dir) : f.n < next_file_number_'
  <2> DEFINE N == NumbersOf(Data(dir)) \cup {0}
  <2>1. PICK b \in Nat : b >= next_file_number_ /\ b >= MaxNumber
    <3>1. next_file_number_ \in Nat /\ MaxNumber \in Nat
      BY <1>1, RepairAssumption DEF RepairTypes
    <3>2. CASE next_file_number_ >= MaxNumber
      BY <3>1, <3>2
    <3>3. CASE ~(next_file_number_ >= MaxNumber)
      BY <3>1, <3>3
    <3>4. QED
      BY <3>2, <3>3
  <2>2. \A f \in Data(dir) : f.n \in 0 .. b
    BY <1>1, <1>3, <2>1, RepairAssumption DEF NumbersBelow, RepairTypes
  <2>3. N \in SUBSET (0 .. b) /\ 0 \in N /\ \A f \in Data(dir) : f.n \in N
    BY <2>2 DEF NumbersOf
  <2>4. next_file_number_' = Max(N) + 1
    BY <1>0, <1>4 DEF AfterLast
  <2> HIDE DEF N
  <2>5. PICK x : x = Max(N)
    OBVIOUS
  <2>6. x \in N /\ \A y \in N : y <= x
    BY <2>3, <2>5, GreatestOf
  <2>7. x \in Nat /\ \A f \in Data(dir) : f.n <= x
    <3>1. x \in 0 .. b
      BY <2>3, <2>6
    <3>2. x \in Nat
      BY <3>1
    <3>3. \A f \in Data(dir) : f.n <= x
      BY <2>3, <2>6
    <3>4. QED
      BY <3>2, <3>3
  <2>8. \A f \in Data(dir) : f.n < x + 1
    BY <1>3, <2>7
  <2>9. QED
    BY <2>4, <2>5, <2>7, <2>8
<1>6. In(dir) \subseteq In(logs_') \cup AllListed'
  <2>1. ASSUME NEW f \in Data(dir) PROVE f.has \subseteq In(logs_') \cup AllListed'
    <3>1. CASE f.kind = "log"
      BY <1>0, <3>1 DEF OfKind, Data, In
    <3>2. CASE f.kind = "table"
      <4>1. f.n \in table_numbers_' \cup tables_'
        BY <1>0, <3>2 DEF OfKind, NumbersOf, Data
      <4>2. FileIn(dir', f.n) = f
        BY <1>0, <1>1, FileIs
      <4>3. PICK S, n : S = table_numbers_' \cup tables_' /\ n = f.n /\ n \in S
        BY <4>1
      <4>4. FileIn(dir', n).has \subseteq HasIn(dir', S)
        BY <4>3, HasMore
      <4>5. QED
        BY <4>2, <4>3, <4>4 DEF AllListed
    <3>3. QED
      BY <1>3, <3>1, <3>2
  <2>2. QED
    BY <2>1 DEF In
<1>7. Working' /\ Held' = {} /\ InHand'
  BY <1>0 DEF Working, Held, InHand
<1>8. ListsOf'
  BY <1>0 DEF ListsOf, OfKind
<1>9. RepairTypes'
  BY <1>0, <1>1, <1>5 DEF RepairTypes
<1>10. /\ Unique(dir') /\ (\A f \in Data(dir') : f.n < next_file_number_')
       /\ there' \ excused' \subseteq In(logs_') \cup Held' \cup AllListed'
  BY <1>0, <1>1, <1>2, <1>5, <1>6, <1>7
<1>11. QED
  BY <1>7, <1>8, <1>9, <1>10, RepairGoesOn

LEMMA BrokenStep ==
  ASSUME RepairInv, Broken
  PROVE  RepairInv'
<1>1. PICK ns \in (SUBSET Numbers) \ {{}} :
        \E f \in [ns -> UNION {Contents(n) : n \in ns}] :
         /\ \A n \in ns : f[n].n = n
         /\ dir' = {f[n] : n \in ns} \cup {Manifest(MaxNumber + 1, {}, 0, 0)}
         /\ there' = UNION {f[n].has : n \in ns}
  BY DEF Broken
<1>2. PICK f \in [ns -> UNION {Contents(n) : n \in ns}] :
         /\ \A n \in ns : f[n].n = n
         /\ dir' = {f[n] : n \in ns} \cup {Manifest(MaxNumber + 1, {}, 0, 0)}
         /\ there' = UNION {f[n].has : n \in ns}
  BY <1>1
<1>3. \A n \in ns : n \in Nat /\ n <= MaxNumber
  BY RepairAssumption DEF Numbers
<1>4. \A n \in ns : f[n] \in DataFile
  <2>1. ASSUME NEW n \in ns, NEW g \in Contents(n) PROVE g \in DataFile
    <3>0. n \in Nat
      BY <1>3
    <3>1. CASE \E s \in SUBSET Entries : g = LogOf(n, s)
      BY <3>0, <3>1 DEF LogOf, DataFile
    <3>2. CASE \E s \in SUBSET Entries : g = TableOf(n, s, TRUE)
      BY <3>0, <3>2 DEF TableOf, DataFile
    <3>3. CASE \E s \in SUBSET Entries : g = TableOf(n, s, FALSE)
      BY <3>0, <3>3 DEF TableOf, DataFile
    <3>4. QED
      BY <3>1, <3>2, <3>3 DEF Contents
  <2>2. QED
    BY <2>1
<1>5. Data(dir') = {f[n] : n \in ns}
  <2>1. Manifest(MaxNumber + 1, {}, 0, 0).kind = "manifest"
    BY DEF Manifest
  <2>2. \A n \in ns : f[n].kind # "manifest"
    BY <1>4 DEF DataFile
  <2>3. QED
    BY <1>2, <2>1, <2>2 DEF Data
<1>6. \A g \in Data(dir') : g \in DataFile /\ g.n <= MaxNumber
  BY <1>2, <1>3, <1>4, <1>5
<1>7. OneOfEach'
  <2>1. \A g, h \in Data(dir') : g.n = h.n => g = h
    BY <1>2, <1>5
  <2>2. QED
    BY <2>1 DEF OneOfEach
<1>8. there' = In(dir') /\ there' \subseteq Entries
  <2>1. there' = In(dir')
    <3>1. ASSUME NEW x PROVE x \in there' <=> \E n \in ns : x \in f[n].has
      BY <1>2
    <3>2. ASSUME NEW x PROVE x \in In(dir') <=> \E g \in Data(dir') : x \in g.has
      BY DEF In
    <3>3. ASSUME NEW x
          PROVE  (\E g \in Data(dir') : x \in g.has) <=> \E n \in ns : x \in f[n].has
      BY <1>5
    <3>4. \A x : x \in there' <=> x \in In(dir')
      BY <3>1, <3>2, <3>3, Zenon
    <3>5. QED
      BY <3>4
  <2>2. \A g \in Data(dir') : g.has \subseteq Entries
    BY <1>4, <1>5 DEF DataFile
  <2>3. QED
    BY <2>1, <2>2 DEF In
<1>9. repairPc' = "idle" /\ ~Working' /\ UNCHANGED <<lost, next_file_number_, item, made>>
  BY DEF Broken, repairWork, Working
<1>10. RepairTypes'
  BY <1>6, <1>8, <1>9 DEF RepairInv, RepairTypes
<1>11. NumbersBelow' /\ Kept'
  BY <1>6, <1>8, <1>9 DEF NumbersBelow, Kept
<1>12. QED
  BY <1>7, <1>9, <1>10, <1>11 DEF RepairInv

(* The invariant holds in every state: at any moment of a repair the files *)
(* still to be converted or scanned, those that will be listed and the one *)
(* in its hands have the entries to be kept (repair.cc:59-90).             *)
THEOREM RepairInvariant == RepairSpec => []RepairInv
<1>1. RepairInit => RepairInv
  <2> SUFFICES ASSUME RepairInit PROVE RepairInv
    OBVIOUS
  <2>1. Data(dir) = {} /\ Data(lost) = {} /\ In(dir) = {} /\ ~Working
    BY DEF RepairInit, Data, In, Working
  <2>2. RepairTypes /\ OneOfEach /\ NumbersBelow /\ Kept
    BY <2>1 DEF RepairInit, RepairTypes, OneOfEach, NumbersBelow, Kept
  <2>3. QED
    BY <2>1, <2>2 DEF RepairInv
<1>2. RepairInv /\ [RepairNext]_repairVars => RepairInv'
  <2> SUFFICES ASSUME RepairInv, [RepairNext]_repairVars PROVE RepairInv'
    OBVIOUS
  <2>1. CASE UNCHANGED repairVars
    <3>0. UNCHANGED <<dir, lost, current, repairPc, manifests_, logs_, table_numbers_,
                      tables_, next_file_number_, item, made, there, excused>>
      BY <2>1 DEF repairVars, dirs, repairWork, repairHist
    <3>1. RepairTypes' /\ Unique(dir) /\ NumbersBelow
      BY <3>0, InTerms DEF RepairInv, RepairTypes
    <3>2. CASE ~Working
      <4>1. ~Working'
        BY <3>0, <3>2 DEF Working
      <4>2. OneOfEach' /\ NumbersBelow' /\ Kept'
        BY <3>0, <3>1, <3>2, <4>1 DEF RepairInv, OneOfEach, Unique, NumbersBelow, Kept
      <4>3. QED
        BY <3>1, <4>1, <4>2 DEF RepairInv
    <3>3. CASE Working
      <4>1. /\ \A f \in Data(dir) : f.n < next_file_number_
            /\ there \ excused \subseteq In(logs_) \cup Held \cup AllListed
            /\ ListsOf /\ InHand
        BY <3>3, WorkingFacts
      <4>2. Working' /\ AllListed' = AllListed
        BY <3>0, <3>3 DEF Working, AllListed
      <4>3. Listed' = Listed
        BY <3>0 DEF Listed, File
      <4>4. File(item)' = File(item) /\ File(made)' = File(made) /\ Source' = Source
        BY <3>0 DEF File, Source, Originals
      <4>5. Held' = Held
        BY <3>0, <4>4 DEF Held
      <4>6. ListsOf'
        BY <3>0, <4>1, <4>3 DEF ListsOf, OfKind, NumbersOf
      <4>7. Originals(dir)' = Originals(dir) /\ Originals(lost)' = Originals(lost)
        BY <3>0 DEF Originals
      <4>8. InHand'
        BY <3>0, <4>1, <4>7 DEF InHand, Begun, OfKind
      <4>9. QED
        BY <3>0, <3>1, <4>1, <4>2, <4>5, <4>6, <4>8, RepairGoesOn
    <3>4. QED
      BY <3>2, <3>3
  <2>2. CASE RepairNext
    BY <2>2, ConvertStep, BuildStep, ArchiveLogStep, ScanStep, ScanDropsStep,
       RepairTableStep, ArchiveSourceStep, FinishCopyStep, RenameCopyStep, KillStep,
       WriteDescriptorStep, SetCurrentFileStep, DiscardStep, InstallStep,
       FindFilesStep, BrokenStep DEF RepairNext
  <2>3. QED
    BY <2>1, <2>2
<1>3. QED
  BY <1>1, <1>2, PTL DEF RepairSpec

(* A repair that succeeds leaves a descriptor that can be opened and has   *)
(* every entry that could be read, but for those in a file on which a call *)
(* failed or whose copy was cut; and wherever it is killed, the next one   *)
(* finds them again: for any files, and any number of failures, kills and  *)
(* repairs (repair.cc:59-90, 97-329).                                      *)
THEOREM RepairLosesNothing == RepairSpec => []RepairSound
<1>1. ASSUME RepairInv PROVE RepairSound
  <2>0. Unique(dir) /\ RepairTypes /\ Kept
    BY <1>1, InTerms DEF RepairInv
  <2>1. RepairKeeps
    <3>1. CASE ~Working
      BY <2>0, <3>1 DEF Kept, RepairKeeps
    <3>2. CASE Working
      <4>1. there \ excused \subseteq In(logs_) \cup Held \cup AllListed /\ ListsOf /\ InHand
        BY <1>1, <3>2, WorkingFacts
      <4>2. Held \subseteq In(dir) \cup (IF repairPc = "finish" THEN Source.has ELSE {})
        <5>1. CASE repairPc = "build"
          <6>1. PICK l \in Data(dir) : File(item) = l
            BY <1>1, <5>1, ItemLog
          <6>2. QED
            BY <5>1, <6>1 DEF Held, In
        <5>2. CASE repairPc = "copy"
          <6>1. Source \in Data(dir) /\ File(item) = Source
            BY <1>1, <4>1, <5>2, CopySource DEF InHand
          <6>2. QED
            BY <5>2, <6>1 DEF Held, In
        <5>3. CASE repairPc = "rename"
          <6>1. PICK t \in Data(dir) : File(made) = t
            BY <1>1, <5>3, MadeTable
          <6>2. QED
            BY <5>3, <6>1 DEF Held, In
        <5>4. CASE repairPc \notin {"build", "copy", "rename"}
          BY <5>4 DEF Held
        <5>5. QED
          BY <5>1, <5>2, <5>3, <5>4
      <4>3. QED
        BY <2>0, <4>1, <4>2, ListedIsIn DEF RepairKeeps
    <3>3. QED
      BY <3>1, <3>2
  <2>2. ASSUME repairPc = "ok"
        PROVE  \E m \in OfKind("manifest") :
                 /\ m.n = current
                 /\ m.lists \subseteq NumbersOf({f \in OfKind("table") : ~f.bad})
                 /\ \A f \in OfKind("log") \cup OfKind("table") : f.n < m.next
                 /\ there \ excused \subseteq UNION {File(n).has : n \in m.lists}
                 /\ \A n \in m.lists : \A s \in File(n).has : s <= m.last
    <3>1. Working /\ Held = {}
      BY <2>2 DEF Working, Held
    <3>2. /\ there \ excused \subseteq In(logs_) \cup Held \cup AllListed /\ ListsOf
          /\ \A f \in Data(dir) : f.n < next_file_number_
      BY <1>1, <3>1, WorkingFacts
    <3>3. PICK T : T = {0} \cup UNION {File(n).has : n \in tables_}
      OBVIOUS
    <3>4. PICK m : m = Listed /\ m \in dir
      BY <2>2, <3>2 DEF ListsOf
    <3>5. /\ m.kind = "manifest" /\ m.n = 1 /\ m.lists = tables_
          /\ m.next = next_file_number_ /\ m.last = Max(T)
      BY <3>3, <3>4 DEF Listed, Manifest
    <3>6. m \in OfKind("manifest") /\ current = 1
      BY <2>2, <3>2, <3>4, <3>5 DEF OfKind, ListsOf
    <3>7. \A f \in OfKind("log") \cup OfKind("table") : f.n < m.next
      BY <3>2, <3>5 DEF OfKind, Data
    <3>8. there \ excused \subseteq UNION {File(n).has : n \in m.lists}
      <4>1. table_numbers_ = {} /\ logs_ = {}
        BY <2>2, <3>2 DEF ListsOf
      <4>2. In(logs_) = {} /\ table_numbers_ \cup tables_ = tables_
        BY <4>1 DEF In, Data
      <4>3. AllListed = UNION {File(n).has : n \in tables_}
        BY <4>2 DEF AllListed, HasIn, File, FileIn
      <4>4. QED
        BY <3>1, <3>2, <3>5, <4>2, <4>3
    <3>9. \A n \in tables_ : \A s \in File(n).has : s \in T
      BY <3>3
    <3>10. T \in SUBSET (0 .. MaxEntry) /\ 0 \in T
      <4>1. ASSUME NEW n \in tables_ PROVE File(n).has \subseteq Entries
        <5>1. PICK f \in Data(dir) : f.n = n
          BY <3>2 DEF ListsOf, NumbersOf, OfKind, Data
        <5>2. File(n) = f
          BY <2>0, <5>1, FileIs, InTerms
        <5>3. QED
          BY <2>0, <5>2 DEF RepairTypes, DataFile
      <4>2. Entries \subseteq 0 .. MaxEntry /\ 0 \in 0 .. MaxEntry
        BY RepairAssumption DEF Entries
      <4>3. QED
        BY <3>3, <4>1, <4>2
    <3>11. \A y \in T : y <= m.last
      <4>1. Max(T) \in T /\ \A y \in T : y <= Max(T)
        BY <3>10, RepairAssumption, GreatestOf
      <4>2. QED
        BY <3>5, <4>1
    <3>12. m.lists \subseteq NumbersOf({f \in OfKind("table") : ~f.bad})
      BY <3>2, <3>5 DEF ListsOf
    <3>13. QED
      BY <3>5, <3>6, <3>7, <3>8, <3>9, <3>11, <3>12
  <2>3. QED
    BY <2>1, <2>2 DEF RepairSound, RepairOpens
<1>2. QED
  BY <1>1, RepairInvariant, PTL

-----------------------------------------------------------------------------
(* nanopb: what the fields say, as functions of the sequence of fields.    *)

LastIn(s, name, P) ==
  LET at == {i \in P : s[i].name = name}
  IN  IF at = {} THEN Absent ELSE s[Max(at)].val
ConfigsIn(s) == {i \in 1 .. Len(s) : s[i].name = "config"}
InsideIn(s, i) ==
  {j \in 1 .. Len(s) : j > i /\ \A k \in ConfigsIn(s) : k <= i \/ k > j}
Nth(s, i) == Cardinality({j \in ConfigsIn(s) : j <= i})
ItemAt(s, i) == [qos |-> LastIn(s, "qos", InsideIn(s, i)),
                 source |-> LastIn(s, "source", InsideIn(s, i))]

(* A field appended changes no earlier value of a set of places ...        *)
LEMMA LastKept ==
  ASSUME NEW s \in Seq(PbField), NEW e \in PbField, NEW name,
         NEW P \in SUBSET (1 .. Len(s))
  PROVE  LastIn(Append(s, e), name, P) = LastIn(s, name, P)
<1> DEFINE t == Append(s, e)
           at == {i \in P : s[i].name = name}
<1>1. Len(s) \in Nat /\ \A i \in 1 .. Len(s) : t[i] = s[i]
  BY LenProperties, AppendProperties
<1> HIDE DEF t
<1>2. {i \in P : t[i].name = name} = at
  BY <1>1
<1>3. ASSUME at # {} PROVE t[Max(at)] = s[Max(at)]
  <2>1. at \in SUBSET (0 .. Len(s)) /\ at \subseteq 1 .. Len(s)
    <3>1. at \subseteq 1 .. Len(s)
      OBVIOUS
    <3>2. 1 .. Len(s) \subseteq 0 .. Len(s)
      BY <1>1
    <3> HIDE DEF at
    <3>3. QED
      BY <3>1, <3>2
  <2> HIDE DEF at
  <2>2. Max(at) \in at
    BY <1>1, <1>3, <2>1, GreatestOf
  <2>3. QED
    BY <1>1, <2>1, <2>2
<1>4. LastIn(t, name, P) = IF at = {} THEN Absent ELSE t[Max(at)].val
  BY <1>2 DEF LastIn
<1>5. LastIn(s, name, P) = IF at = {} THEN Absent ELSE s[Max(at)].val
  BY DEF LastIn
<1>6. LastIn(t, name, P) = LastIn(s, name, P)
  <2> HIDE DEF at
  <2>1. QED
    BY <1>3, <1>4, <1>5
<1>7. QED
  BY <1>6 DEF t

(* ... and is the value of its name where its own place counts.            *)
LEMMA LastAdded ==
  ASSUME NEW s \in Seq(PbField), NEW e \in PbField, NEW name,
         NEW P \in SUBSET (1 .. Len(s))
  PROVE  LastIn(Append(s, e), name, P \cup {Len(s) + 1}) =
           IF e.name = name THEN e.val ELSE LastIn(s, name, P)
<1> DEFINE t == Append(s, e)
           n == Len(s) + 1
           at == {i \in P : t[i].name = name}
           to == {i \in P \cup {n} : t[i].name = name}
<1>1. Len(s) \in Nat /\ t[n] = e
  BY LenProperties, AppendProperties
<1>2. LastIn(t, name, P \cup {n}) = IF to = {} THEN Absent ELSE t[Max(to)].val
  BY DEF LastIn
<1>3. CASE e.name = name
  <2>1. n \in to /\ to \in SUBSET (0 .. n) /\ n \in Nat
    <3>1. n \in to /\ to \subseteq P \cup {n}
      BY <1>1, <1>3
    <3>2. P \cup {n} \subseteq 0 .. n /\ n \in Nat
      <4>1. n \in Nat /\ n \in 0 .. n
        BY <1>1
      <4>2. \A i \in 1 .. Len(s) : i \in 0 .. n
        BY <1>1
      <4> HIDE DEF n
      <4>3. QED
        BY <4>1, <4>2
    <3> HIDE DEF to, n
    <3>3. QED
      BY <3>1, <3>2
  <2>2. PICK m : m = Max(to)
    OBVIOUS
  <2> HIDE DEF to
  <2>3. m \in to /\ \A y \in to : y <= m
    BY <2>1, <2>2, GreatestOf
  <2>4. m \in 0 .. n /\ n <= m
    BY <2>1, <2>3
  <2>5. m = n
    BY <1>1, <2>4
  <2>6. QED
    BY <1>1, <1>2, <1>3, <2>1, <2>2, <2>5 DEF t, n
<1>4. CASE e.name # name
  <2>1. to = at
    BY <1>1, <1>4
  <2>2. LastIn(t, name, P) = IF at = {} THEN Absent ELSE t[Max(at)].val
    BY DEF LastIn
  <2>3. LastIn(t, name, P \cup {n}) = LastIn(t, name, P)
    <3> HIDE DEF at, to, n, t
    <3>1. QED
      BY <1>2, <2>1, <2>2
  <2>4. QED
    BY <1>4, <2>3, LastKept DEF t, n
<1>5. QED
  BY <1>3, <1>4

(* The places of the fields after one more.                                *)
LEMMA PlacesAfter ==
  ASSUME NEW s \in Seq(PbField), NEW e \in PbField
  PROVE  /\ Append(s, e) \in Seq(PbField) /\ Len(s) \in Nat
         /\ Len(Append(s, e)) = Len(s) + 1
         /\ 1 .. Len(Append(s, e)) = (1 .. Len(s)) \cup {Len(s) + 1}
         /\ \A i \in 1 .. Len(s) : Append(s, e)[i] = s[i]
         /\ Append(s, e)[Len(s) + 1] = e
<1>1. /\ Append(s, e) \in Seq(PbField) /\ Len(Append(s, e)) = Len(s) + 1
      /\ \A i \in 1 .. Len(s) : Append(s, e)[i] = s[i]
      /\ Append(s, e)[Len(s) + 1] = e
  BY AppendProperties
<1>2. Len(s) \in Nat
  BY LenProperties
<1>3. 1 .. (Len(s) + 1) = (1 .. Len(s)) \cup {Len(s) + 1}
  BY <1>2
<1>4. QED
  BY <1>1, <1>2, <1>3

LEMMA ConfigsFinite ==
  ASSUME NEW s \in Seq(PbField)
  PROVE  IsFiniteSet(ConfigsIn(s)) /\ Cardinality(ConfigsIn(s)) \in Nat
<1>1. Len(s) \in Int /\ 1 \in Int
  BY LenProperties
<1>2. IsFiniteSet(1 .. Len(s))
  BY <1>1, FS_Interval
<1>3. ConfigsIn(s) \in SUBSET (1 .. Len(s))
  BY DEF ConfigsIn
<1>4. IsFiniteSet(ConfigsIn(s))
  BY <1>2, <1>3, FS_Subset
<1>5. QED
  BY <1>4, FS_CardinalityType

(* The place of an item in the array; that of the last one is the count.   *)
LEMMA NthIs ==
  ASSUME NEW s \in Seq(PbField), NEW i \in ConfigsIn(s)
  PROVE  /\ Nth(s, i) \in 1 .. Cardinality(ConfigsIn(s))
         /\ Nth(s, i) = Cardinality(ConfigsIn(s)) <=> \A k \in ConfigsIn(s) : k <= i
<1> DEFINE C == ConfigsIn(s)
           B == {j \in C : j <= i}
<1>1. IsFiniteSet(C) /\ Cardinality(C) \in Nat
  BY ConfigsFinite
<1>2. i \in Int /\ C \subseteq Int
  BY DEF ConfigsIn
<1>3. B \in SUBSET C /\ i \in B
  BY <1>2
<1>4. Nth(s, i) = Cardinality(B)
  BY DEF Nth
<1>5. (\A k \in C : k <= i) => B = C
  OBVIOUS
<1>6. B = C => \A k \in C : k <= i
  OBVIOUS
<1> HIDE DEF B
<1>7. IsFiniteSet(B) /\ Cardinality(B) <= Cardinality(C) /\ (Cardinality(C) = Cardinality(B) => C = B)
  BY <1>1, <1>3, FS_Subset
<1>8. Cardinality(B) \in Nat /\ Cardinality(B) # 0
  BY <1>3, <1>7, FS_CardinalityType, FS_EmptySet
<1>9. QED
  BY <1>1, <1>4, <1>5, <1>6, <1>7, <1>8

(* A config begins an item after those there are, with nothing in it yet.  *)
LEMMA AddConfig ==
  ASSUME NEW s \in Seq(PbField), NEW e \in PbField, e.name = "config"
  PROVE  /\ ConfigsIn(Append(s, e)) = ConfigsIn(s) \cup {Len(s) + 1}
         /\ Len(s) + 1 \notin ConfigsIn(s)
         /\ Cardinality(ConfigsIn(Append(s, e))) = Cardinality(ConfigsIn(s)) + 1
<1>1. PICK t, n : t = Append(s, e) /\ n = Len(s) + 1
  OBVIOUS
<1>2. /\ Len(s) \in Nat /\ 1 .. Len(t) = (1 .. Len(s)) \cup {n}
      /\ \A i \in 1 .. Len(s) : t[i] = s[i]
      /\ t[n] = e
  BY <1>1, PlacesAfter
<1>3. ConfigsIn(t) = ConfigsIn(s) \cup {n} /\ n \notin ConfigsIn(s)
  BY <1>1, <1>2 DEF ConfigsIn
<1>4. Cardinality(ConfigsIn(t)) = Cardinality(ConfigsIn(s)) + 1
  BY <1>3, ConfigsFinite, FS_AddElement
<1>5. QED
  BY <1>1, <1>3, <1>4

LEMMA EarlierItems ==
  ASSUME NEW s \in Seq(PbField), NEW e \in PbField, e.name = "config", NEW i \in ConfigsIn(s)
  PROVE  Nth(Append(s, e), i) = Nth(s, i) /\ ItemAt(Append(s, e), i) = ItemAt(s, i)
<1>1. PICK t, n : t = Append(s, e) /\ n = Len(s) + 1
  OBVIOUS
<1>2. Len(s) \in Nat /\ 1 .. Len(t) = (1 .. Len(s)) \cup {n}
  BY <1>1, PlacesAfter
<1>3. ConfigsIn(t) = ConfigsIn(s) \cup {n} /\ n \notin ConfigsIn(s)
  BY <1>1, AddConfig
<1>4. i \in 1 .. Len(s) /\ i < n
  BY <1>1, <1>2 DEF ConfigsIn
<1>5. {j \in ConfigsIn(t) : j <= i} = {j \in ConfigsIn(s) : j <= i}
  BY <1>1, <1>2, <1>3, <1>4
<1>6. InsideIn(t, i) = InsideIn(s, i)
  <2>1. n \notin InsideIn(t, i)
    BY <1>1, <1>2, <1>3, <1>4 DEF InsideIn
  <2>2. ASSUME NEW j \in 1 .. Len(s)
        PROVE  (\A k \in ConfigsIn(t) : k <= i \/ k > j) <=> \A k \in ConfigsIn(s) : k <= i \/ k > j
    BY <1>1, <1>2, <1>3
  <2>3. QED
    BY <1>2, <2>1, <2>2 DEF InsideIn
<1>7. PICK P : P = InsideIn(s, i)
  OBVIOUS
<1>8. P \in SUBSET (1 .. Len(s))
  BY <1>7 DEF InsideIn
<1>9. LastIn(t, "qos", P) = LastIn(s, "qos", P) /\ LastIn(t, "source", P) = LastIn(s, "source", P)
  BY <1>1, <1>8, LastKept
<1>10. Nth(t, i) = Nth(s, i) /\ ItemAt(t, i) = ItemAt(s, i)
  BY <1>5, <1>6, <1>7, <1>9 DEF Nth, ItemAt
<1>11. QED
  BY <1>1, <1>10

LEMMA FirstOfItem ==
  ASSUME NEW s \in Seq(PbField), NEW e \in PbField, e.name = "config"
  PROVE  /\ Nth(Append(s, e), Len(s) + 1) = Cardinality(ConfigsIn(Append(s, e)))
         /\ ItemAt(Append(s, e), Len(s) + 1) = NewItem
<1>1. PICK t, n : t = Append(s, e) /\ n = Len(s) + 1
  OBVIOUS
<1>2. /\ t \in Seq(PbField) /\ Len(s) \in Nat /\ Len(t) = n
      /\ t[n] = e
  <2>1. /\ Append(s, e) \in Seq(PbField) /\ Len(s) \in Nat
        /\ Len(Append(s, e)) = Len(s) + 1 /\ Append(s, e)[Len(s) + 1] = e
    BY PlacesAfter
  <2>2. QED
    BY <1>1, <2>1
<1>3. Nth(t, n) = Cardinality(ConfigsIn(t))
  <2>1. n \in ConfigsIn(t) /\ \A k \in ConfigsIn(t) : k <= n
    BY <1>1, <1>2 DEF ConfigsIn
  <2>2. QED
    BY <1>2, <2>1, NthIs
<1>4. ItemAt(t, n) = NewItem
  <2>1. InsideIn(t, n) = {}
    BY <1>1, <1>2 DEF InsideIn
  <2>2. QED
    BY <2>1 DEF ItemAt, NewItem, LastIn
<1>5. QED
  BY <1>1, <1>3, <1>4

(* Any other field belongs to the last item.                               *)
LEMMA AddOther ==
  ASSUME NEW s \in Seq(PbField), NEW e \in PbField, e.name # "config",
         NEW t, t = Append(s, e), NEW n, n = Len(s) + 1
  PROVE  /\ ConfigsIn(t) = ConfigsIn(s)
         /\ \A i \in ConfigsIn(s) :
              /\ Nth(t, i) = Nth(s, i)
              /\ (Nth(s, i) # Cardinality(ConfigsIn(s)) \/ e.name \notin {"qos", "source"}) =>
                   ItemAt(t, i) = ItemAt(s, i)
              /\ (Nth(s, i) = Cardinality(ConfigsIn(s)) /\ e.name = "qos") =>
                   ItemAt(t, i) = [qos |-> e.val, source |-> ItemAt(s, i).source]
              /\ (Nth(s, i) = Cardinality(ConfigsIn(s)) /\ e.name = "source") =>
                   ItemAt(t, i) = [qos |-> ItemAt(s, i).qos, source |-> e.val]
<1>1. /\ t \in Seq(PbField) /\ Len(s) \in Nat /\ Len(t) = n
      /\ 1 .. Len(t) = (1 .. Len(s)) \cup {n}
      /\ \A i \in 1 .. Len(s) : t[i] = s[i]
      /\ t[n] = e
  BY PlacesAfter
<1>2. ConfigsIn(t) = ConfigsIn(s)
  BY <1>1 DEF ConfigsIn
<1>3. ASSUME NEW i \in ConfigsIn(s)
      PROVE  /\ Nth(t, i) = Nth(s, i)
             /\ (Nth(s, i) # Cardinality(ConfigsIn(s)) \/ e.name \notin {"qos", "source"}) =>
                   ItemAt(t, i) = ItemAt(s, i)
             /\ (Nth(s, i) = Cardinality(ConfigsIn(s)) /\ e.name = "qos") =>
                   ItemAt(t, i) = [qos |-> e.val, source |-> ItemAt(s, i).source]
             /\ (Nth(s, i) = Cardinality(ConfigsIn(s)) /\ e.name = "source") =>
                   ItemAt(t, i) = [qos |-> ItemAt(s, i).qos, source |-> e.val]
  <2>1. Nth(t, i) = Nth(s, i)
    BY <1>2 DEF Nth
  <2>2. i \in 1 .. Len(s) /\ \A k \in ConfigsIn(s) : k \in 1 .. Len(s)
    BY DEF ConfigsIn
  <2>3. PICK P : P = InsideIn(s, i)
    OBVIOUS
  <2>4. P \in SUBSET (1 .. Len(s))
    BY <2>3 DEF InsideIn
  <2>5. InsideIn(t, i) = P \cup {j \in {n} : \A k \in ConfigsIn(s) : k <= i}
    <3>1. \A j \in 1 .. Len(s) : j \in InsideIn(t, i) <=> j \in P
      BY <1>1, <1>2, <2>3 DEF InsideIn
    <3>2. n \in InsideIn(t, i) <=> \A k \in ConfigsIn(s) : k <= i \/ k > n
      <4>1. n \in 1 .. Len(t) /\ n > i
        BY <1>1, <2>2
      <4>2. QED
        BY <1>2, <4>1 DEF InsideIn
    <3>3. \A k \in ConfigsIn(s) : ~(k > n)
      BY <1>1, <2>2
    <3>4. InsideIn(t, i) \subseteq 1 .. Len(t)
      BY DEF InsideIn
    <3>5. n \in InsideIn(t, i) <=> \A k \in ConfigsIn(s) : k <= i
      BY <3>2, <3>3
    <3>6. QED
      BY <1>1, <2>4, <3>1, <3>4, <3>5
  <2>6. Nth(s, i) = Cardinality(ConfigsIn(s)) <=> \A k \in ConfigsIn(s) : k <= i
    BY NthIs
  <2>7. ASSUME NEW name
        PROVE  /\ LastIn(t, name, P) = LastIn(s, name, P)
               /\ LastIn(t, name, P \cup {n}) = IF e.name = name THEN e.val ELSE LastIn(s, name, P)
    BY <2>4, LastKept, LastAdded
  <2>8. ItemAt(s, i) = [qos |-> LastIn(s, "qos", P), source |-> LastIn(s, "source", P)]
    BY <2>3 DEF ItemAt
  <2>9. CASE \A k \in ConfigsIn(s) : k <= i
    <3>1. InsideIn(t, i) = P \cup {n}
      BY <2>5, <2>9
    <3>2. ItemAt(t, i) = [qos |-> LastIn(t, "qos", P \cup {n}),
                          source |-> LastIn(t, "source", P \cup {n})]
      BY <3>1 DEF ItemAt
    <3>3. PICK a, b, c, d : /\ a = LastIn(t, "qos", P \cup {n}) /\ b = LastIn(t, "source", P \cup {n})
                            /\ c = LastIn(s, "qos", P) /\ d = LastIn(s, "source", P)
      OBVIOUS
    <3>4. /\ a = IF e.name = "qos" THEN e.val ELSE c
          /\ b = IF e.name = "source" THEN e.val ELSE d
      BY <2>7, <3>3
    <3>5. ItemAt(t, i) = [qos |-> a, source |-> b] /\ ItemAt(s, i) = [qos |-> c, source |-> d]
      BY <2>8, <3>2, <3>3
    <3>6. Nth(s, i) = Cardinality(ConfigsIn(s))
      BY <2>6, <2>9
    <3>7. QED
      BY <2>1, <3>4, <3>5, <3>6
  <2>10. CASE ~ \A k \in ConfigsIn(s) : k <= i
    <3>1. InsideIn(t, i) = P
      BY <2>5, <2>10
    <3>2. ItemAt(t, i) = ItemAt(s, i)
      BY <2>7, <2>8, <3>1 DEF ItemAt
    <3>3. Nth(s, i) # Cardinality(ConfigsIn(s))
      BY <2>6, <2>10
    <3>4. QED
      BY <2>1, <3>2, <3>3
  <2>11. QED
    BY <2>9, <2>10
<1>4. QED
  BY <1>2, <1>3

LEMMA OtherConfigs ==
  ASSUME NEW s \in Seq(PbField), NEW e \in PbField, e.name # "config"
  PROVE  /\ ConfigsIn(Append(s, e)) = ConfigsIn(s)
         /\ \A i \in ConfigsIn(s) : Nth(Append(s, e), i) = Nth(s, i)
<1>1. PICK t, n : t = Append(s, e) /\ n = Len(s) + 1
  OBVIOUS
<1>2. ConfigsIn(t) = ConfigsIn(s) /\ \A i \in ConfigsIn(s) : Nth(t, i) = Nth(s, i)
  BY <1>1, AddOther
<1>3. QED
  BY <1>1, <1>2

LEMMA OtherItem ==
  ASSUME NEW s \in Seq(PbField), NEW e \in PbField, e.name # "config", NEW i \in ConfigsIn(s),
         Nth(s, i) # Cardinality(ConfigsIn(s)) \/ e.name \notin {"qos", "source"}
  PROVE  ItemAt(Append(s, e), i) = ItemAt(s, i)
<1>1. PICK t, n : t = Append(s, e) /\ n = Len(s) + 1
  OBVIOUS
<1>2. ItemAt(t, i) = ItemAt(s, i)
  BY <1>1, AddOther
<1>3. QED
  BY <1>1, <1>2

LEMMA LastItem ==
  ASSUME NEW s \in Seq(PbField), NEW e \in PbField, e.name # "config", NEW i \in ConfigsIn(s),
         Nth(s, i) = Cardinality(ConfigsIn(s))
  PROVE  /\ e.name = "qos" =>
              ItemAt(Append(s, e), i) = [qos |-> e.val, source |-> ItemAt(s, i).source]
         /\ e.name = "source" =>
              ItemAt(Append(s, e), i) = [qos |-> ItemAt(s, i).qos, source |-> e.val]
<1>1. PICK t, n : t = Append(s, e) /\ n = Len(s) + 1
  OBVIOUS
<1>2. e.name = "qos" => ItemAt(t, i) = [qos |-> e.val, source |-> ItemAt(s, i).source]
  BY <1>1, AddOther
<1>3. e.name = "source" => ItemAt(t, i) = [qos |-> ItemAt(s, i).qos, source |-> e.val]
  BY <1>1, AddOther
<1>4. QED
  BY <1>1, <1>2, <1>3

(* Decoded, of a struct, a heap and the fields.                            *)
Holds(p, h, s) ==
  /\ p.wait = LastIn(s, "wait", 1 .. Len(s))
  /\ p.print = LastIn(s, "print", 1 .. Len(s))
  /\ p.tier <=> (\E i \in 1 .. Len(s) : s[i].name = "tier")
  /\ p.count = Cardinality(ConfigsIn(s))
  /\ p.count > 0 => \A i \in ConfigsIn(s) : h[p.array][Nth(s, i)] = ItemAt(s, i)

LEMMA DecodedIs ==
  ASSUME seen \in Seq(PbField) PROVE Decoded <=> Holds(response, heap, seen)
<1>1. Places = 1 .. Len(seen)
  BY LenProperties DEF Places
<1>2. Configs = ConfigsIn(seen)
  BY <1>1 DEF Configs, ConfigsIn
<1>3. \A i : Inside(i) = InsideIn(seen, i)
  BY <1>1, <1>2 DEF Inside, InsideIn
<1>4. \A name, P : LastOf(name, P) = LastIn(seen, name, P)
  BY DEF LastOf, LastIn
<1>5. \A i : /\ Cardinality({j \in Configs : j <= i}) = Nth(seen, i)
             /\ [qos |-> LastOf("qos", Inside(i)), source |-> LastOf("source", Inside(i))]
                  = ItemAt(seen, i)
  BY <1>2, <1>3, <1>4 DEF Nth, ItemAt
<1>6. QED
  BY <1>1, <1>2, <1>4, <1>5 DEF Decoded, Holds

LEMMA DecodedNext ==
  ASSUME seen' \in Seq(PbField) PROVE Decoded' <=> Holds(response', heap', seen')
<1>1. Places' = 1 .. Len(seen')
  BY LenProperties DEF Places
<1>2. Configs' = ConfigsIn(seen')
  BY <1>1 DEF Configs, ConfigsIn
<1>3. \A i : Inside(i)' = InsideIn(seen', i)
  BY <1>1, <1>2 DEF Inside, InsideIn
<1>4. \A name, P : LastOf(name, P)' = LastIn(seen', name, P)
  BY DEF LastOf, LastIn
<1>5. \A i : /\ Cardinality({j \in Configs' : j <= i}) = Nth(seen', i)
             /\ [qos |-> LastIn(seen', "qos", Inside(i)'),
                 source |-> LastIn(seen', "source", Inside(i)')] = ItemAt(seen', i)
  BY <1>2, <1>3 DEF Nth, ItemAt
<1>6. QED
  BY <1>1, <1>2, <1>4, <1>5 DEF Decoded, Holds

(* A scalar or a tier of a message, or a field nobody knows.               *)
LEMMA OtherField ==
  ASSUME NEW s \in Seq(PbField), NEW e \in PbField, NEW p, NEW q, NEW h, Holds(p, h, s),
         e.name \notin {"config", "qos", "source"},
         q.array = p.array, q.count = p.count,
         q.wait = IF e.name = "wait" THEN e.val ELSE p.wait,
         q.print = IF e.name = "print" THEN e.val ELSE p.print,
         q.tier <=> (p.tier \/ e.name = "tier")
  PROVE  Holds(q, h, Append(s, e))
<1>0. PICK t, n : t = Append(s, e) /\ n = Len(s) + 1
  OBVIOUS
<1>1. /\ 1 .. Len(t) = (1 .. Len(s)) \cup {n}
      /\ \A i \in 1 .. Len(s) : t[i] = s[i]
      /\ t[n] = e
  BY <1>0, PlacesAfter
<1>2. PICK P : P = 1 .. Len(s)
  OBVIOUS
<1>3. P \in SUBSET (1 .. Len(s)) /\ 1 .. Len(t) = P \cup {n}
  BY <1>1, <1>2
<1>4. ASSUME NEW name
      PROVE  LastIn(t, name, 1 .. Len(t)) = IF e.name = name THEN e.val ELSE LastIn(s, name, P)
  <2>1. LastIn(Append(s, e), name, P \cup {Len(s) + 1}) =
          IF e.name = name THEN e.val ELSE LastIn(s, name, P)
    BY <1>3, LastAdded
  <2>2. QED
    BY <1>0, <1>3, <2>1
<1>5. q.wait = LastIn(t, "wait", 1 .. Len(t)) /\ q.print = LastIn(t, "print", 1 .. Len(t))
  BY <1>2, <1>4 DEF Holds
<1>6. q.tier <=> (\E i \in 1 .. Len(t) : t[i].name = "tier")
  BY <1>1 DEF Holds
<1>7. ConfigsIn(t) = ConfigsIn(s)
  BY <1>0, OtherConfigs
<1>8. ASSUME NEW i \in ConfigsIn(s) PROVE Nth(t, i) = Nth(s, i) /\ ItemAt(t, i) = ItemAt(s, i)
  BY <1>0, OtherConfigs, OtherItem
<1>9. q.count = Cardinality(ConfigsIn(t))
  BY <1>7 DEF Holds
<1>10. q.count > 0 => \A i \in ConfigsIn(t) : h[q.array][Nth(t, i)] = ItemAt(t, i)
  BY <1>7, <1>8 DEF Holds
<1>11. QED
  BY <1>0, <1>5, <1>6, <1>9, <1>10 DEF Holds

(* The fields that are not of the LogResponse or of its tier leave those.  *)
LEMMA SameFields ==
  ASSUME NEW s \in Seq(PbField), NEW e \in PbField, NEW p, NEW q, NEW h, Holds(p, h, s),
         e.name \in {"config", "qos", "source"},
         q.wait = p.wait, q.print = p.print, q.tier <=> p.tier
  PROVE  LET t == Append(s, e)
         IN  /\ q.wait = LastIn(t, "wait", 1 .. Len(t))
             /\ q.print = LastIn(t, "print", 1 .. Len(t))
             /\ q.tier <=> (\E i \in 1 .. Len(t) : t[i].name = "tier")
<1>0. PICK t, n : t = Append(s, e) /\ n = Len(s) + 1
  OBVIOUS
<1>1. /\ 1 .. Len(t) = (1 .. Len(s)) \cup {n}
      /\ \A i \in 1 .. Len(s) : t[i] = s[i]
      /\ t[n] = e
  BY <1>0, PlacesAfter
<1>2. PICK P : P = 1 .. Len(s)
  OBVIOUS
<1>3. P \in SUBSET (1 .. Len(s)) /\ 1 .. Len(t) = P \cup {n}
  BY <1>1, <1>2
<1>4. ASSUME NEW name
      PROVE  LastIn(t, name, 1 .. Len(t)) = IF e.name = name THEN e.val ELSE LastIn(s, name, P)
  <2>1. LastIn(Append(s, e), name, P \cup {Len(s) + 1}) =
          IF e.name = name THEN e.val ELSE LastIn(s, name, P)
    BY <1>3, LastAdded
  <2>2. QED
    BY <1>0, <1>3, <2>1
<1>5. q.wait = LastIn(t, "wait", 1 .. Len(t)) /\ q.print = LastIn(t, "print", 1 .. Len(t))
  BY <1>2, <1>4 DEF Holds
<1>6. q.tier <=> (\E i \in 1 .. Len(t) : t[i].name = "tier")
  BY <1>1 DEF Holds
<1>7. QED
  BY <1>0, <1>5, <1>6

(* The array with one more item.                                           *)
LEMMA ConfigField ==
  ASSUME NEW s \in Seq(PbField), NEW e \in PbField, NEW p, NEW q, NEW h, NEW g, Holds(p, h, s),
         e.name = "config", NEW old \in Seq(PbItem), Len(old) = p.count,
         p.count > 0 => old = h[p.array],
         g[q.array] = Append(old, NewItem), q.count = p.count + 1,
         q.wait = p.wait, q.print = p.print, q.tier <=> p.tier
  PROVE  Holds(q, g, Append(s, e))
<1>0. PICK t, n : t = Append(s, e) /\ n = Len(s) + 1
  OBVIOUS
<1>1. /\ q.wait = LastIn(t, "wait", 1 .. Len(t)) /\ q.print = LastIn(t, "print", 1 .. Len(t))
      /\ q.tier <=> (\E i \in 1 .. Len(t) : t[i].name = "tier")
  BY <1>0, SameFields
<1>2. PICK C, D : C = ConfigsIn(s) /\ D = ConfigsIn(t)
  OBVIOUS
<1>3. /\ D = C \cup {n} /\ n \notin C
      /\ Cardinality(D) = Cardinality(C) + 1
      /\ \A i \in C : Nth(t, i) = Nth(s, i) /\ ItemAt(t, i) = ItemAt(s, i)
      /\ Nth(t, n) = Cardinality(D) /\ ItemAt(t, n) = NewItem
  <2>1. /\ ConfigsIn(t) = ConfigsIn(s) \cup {n} /\ n \notin ConfigsIn(s)
        /\ Cardinality(ConfigsIn(t)) = Cardinality(ConfigsIn(s)) + 1
        /\ \A i \in ConfigsIn(s) : Nth(t, i) = Nth(s, i) /\ ItemAt(t, i) = ItemAt(s, i)
        /\ Nth(t, n) = Cardinality(ConfigsIn(t)) /\ ItemAt(t, n) = NewItem
    <3>1. ConfigsIn(t) = ConfigsIn(s) \cup {n} /\ n \notin ConfigsIn(s)
      BY <1>0, AddConfig
    <3>2. Cardinality(ConfigsIn(t)) = Cardinality(ConfigsIn(s)) + 1
      BY <1>0, AddConfig
    <3>3. ASSUME NEW i \in ConfigsIn(s) PROVE Nth(t, i) = Nth(s, i) /\ ItemAt(t, i) = ItemAt(s, i)
      BY <1>0, EarlierItems
    <3>4. Nth(t, n) = Cardinality(ConfigsIn(t)) /\ ItemAt(t, n) = NewItem
      BY <1>0, FirstOfItem
    <3>5. QED
      BY <3>1, <3>2, <3>3, <3>4
  <2>2. QED
    BY <1>2, <2>1
<1>4. p.count = Cardinality(C) /\ p.count \in Nat
  BY <1>2, ConfigsFinite DEF Holds
<1>5. q.count = Cardinality(D)
  BY <1>3, <1>4
<1>6. NewItem \in PbItem
  BY DEF NewItem, PbItem, PbValue
<1>7. /\ \A i \in 1 .. Len(old) : Append(old, NewItem)[i] = old[i]
      /\ Append(old, NewItem)[Len(old) + 1] = NewItem
  BY <1>6, AppendProperties
<1>8. ASSUME NEW i \in C PROVE g[q.array][Nth(t, i)] = ItemAt(t, i)
  <2>1. Nth(s, i) \in 1 .. Cardinality(C)
    BY <1>2, NthIs
  <2>2. p.count > 0 /\ Nth(s, i) \in 1 .. Len(old)
    BY <1>4, <2>1
  <2>3. old[Nth(s, i)] = ItemAt(s, i)
    BY <1>2, <2>2 DEF Holds
  <2>4. g[q.array][Nth(s, i)] = old[Nth(s, i)]
    BY <1>7, <2>2
  <2>5. QED
    BY <1>3, <2>3, <2>4
<1>9. g[q.array][Nth(t, n)] = ItemAt(t, n)
  BY <1>3, <1>4, <1>7
<1>10. \A i \in D : g[q.array][Nth(t, i)] = ItemAt(t, i)
  BY <1>3, <1>8, <1>9
<1>11. QED
  BY <1>0, <1>1, <1>2, <1>5, <1>10 DEF Holds

(* A value of the item that is being decoded.                              *)
LEMMA ItemField ==
  ASSUME NEW s \in Seq(PbField), NEW e \in PbField, NEW p, NEW h, NEW g, Holds(p, h, s),
         e.name \in {"qos", "source"}, NEW old \in Seq(PbItem), Len(old) = p.count,
         p.count > 0, old = h[p.array], NEW it \in PbItem,
         e.name = "qos" => it = [qos |-> e.val, source |-> old[p.count].source],
         e.name = "source" => it = [qos |-> old[p.count].qos, source |-> e.val],
         \A j \in 1 .. Len(old) : g[p.array][j] = IF j = p.count THEN it ELSE old[j]
  PROVE  Holds(p, g, Append(s, e))
<1>0. PICK t, n, c : t = Append(s, e) /\ n = Len(s) + 1 /\ c = p.count
  OBVIOUS
<1>1. /\ p.wait = LastIn(t, "wait", 1 .. Len(t)) /\ p.print = LastIn(t, "print", 1 .. Len(t))
      /\ p.tier <=> (\E i \in 1 .. Len(t) : t[i].name = "tier")
  BY <1>0, SameFields
<1>2. PICK C : C = ConfigsIn(s)
  OBVIOUS
<1>3. c = Cardinality(C) /\ c \in Nat /\ c \in 1 .. Len(old)
  BY <1>0, <1>2, ConfigsFinite DEF Holds
<1>4. ConfigsIn(t) = C
  BY <1>0, <1>2, OtherConfigs
<1>5. \A j \in 1 .. Len(old) : g[p.array][j] = IF j = c THEN it ELSE old[j]
  BY <1>0
<1>6. ASSUME NEW i \in C PROVE g[p.array][Nth(t, i)] = ItemAt(t, i)
  <2>1. PICK k : k = Nth(s, i)
    OBVIOUS
  <2>2. k \in 1 .. Len(old)
    BY <1>0, <1>2, <1>3, <2>1, NthIs
  <2>3. old[k] = ItemAt(s, i)
    BY <1>2, <2>1 DEF Holds
  <2>4. Nth(t, i) = k
    BY <1>0, <1>2, <2>1, OtherConfigs
  <2>5. CASE k # c
    <3>1. ItemAt(t, i) = ItemAt(s, i)
      BY <1>0, <1>2, <1>3, <2>1, <2>5, OtherItem
    <3>2. QED
      BY <1>5, <2>2, <2>3, <2>4, <2>5, <3>1
  <2>6. CASE k = c
    <3>0. Nth(s, i) = Cardinality(ConfigsIn(s)) /\ i \in ConfigsIn(s)
      BY <1>2, <1>3, <2>1, <2>6
    <3>1. CASE e.name = "qos"
      <4>1. ItemAt(t, i) = [qos |-> e.val, source |-> ItemAt(s, i).source]
        BY <1>0, <3>0, <3>1, LastItem
      <4>2. QED
        BY <1>0, <1>5, <2>2, <2>3, <2>4, <2>6, <3>1, <4>1
    <3>2. CASE e.name = "source"
      <4>1. ItemAt(t, i) = [qos |-> ItemAt(s, i).qos, source |-> e.val]
        BY <1>0, <3>0, <3>2, LastItem
      <4>2. QED
        BY <1>0, <1>5, <2>2, <2>3, <2>4, <2>6, <3>2, <4>1
    <3>3. QED
      BY <3>1, <3>2
  <2>7. QED
    BY <2>5, <2>6
<1>7. QED
  BY <1>0, <1>1, <1>2, <1>3, <1>4, <1>6 DEF Holds

-----------------------------------------------------------------------------
(* nanopb: the steps.                                                      *)

Struct(n) == [wait : PbValue, tier : BOOLEAN, array : 0 .. n, count : Nat, print : PbValue]

(* No block is left once the array is freed.                               *)
LEMMA NothingLeft ==
  ASSUME NEW h PROVE [a \in {} |-> h[a]] = << >>
OBVIOUS

LEMMA DefaultFits == ASSUME NEW n \in Nat PROVE Default \in Struct(n)
BY DEF Default, Struct, PbValue, Absent, NullPtr

(* A step that decodes: what is left to show.                              *)
LEMMA PbGoesOn ==
  ASSUME pbPc' = "decode", ~wild', addresses' \in Nat, level' \in 0 .. 2,
         response' \in Struct(addresses'), seen' \in Seq(PbField),
         DOMAIN heap' = {response'.array} \ {NullPtr},
         Holds(response', heap', seen'),
         response'.count = 0 <=> response'.array = NullPtr,
         response'.count > 0 =>
           /\ heap' = [a \in {response'.array} |-> heap'[response'.array]]
           /\ heap'[response'.array] \in Seq(PbItem)
           /\ Len(heap'[response'.array]) = response'.count,
         level' = 2 => response'.count > 0
  PROVE  PbInv'
<1>1. PbTypes'
  BY DEF PbTypes, Struct
<1>2. Owned'
  BY DEF Owned
<1>3. Decoded'
  BY DecodedNext
<1>4. Growing'
  BY <1>3 DEF Growing
<1>5. QED
  BY <1>1, <1>2, <1>4 DEF PbInv

LEMMA PbFacts ==
  ASSUME PbInv
  PROVE  /\ addresses \in Nat /\ level \in 0 .. 2 /\ response \in Struct(addresses)
         /\ seen \in Seq(PbField) /\ ~wild
         /\ DOMAIN heap = {response.array} \ {NullPtr}
BY DEF PbInv, PbTypes, Owned, Struct

LEMMA PbGrowing ==
  ASSUME PbInv, pbPc \in {"decode", "true"}
  PROVE  /\ Holds(response, heap, seen)
         /\ response.count = 0 <=> response.array = NullPtr
         /\ response.count > 0 =>
              /\ heap = [a \in {response.array} |-> heap[response.array]]
              /\ heap[response.array] \in Seq(PbItem)
              /\ Len(heap[response.array]) = response.count
         /\ level = 2 => response.count > 0
BY PbFacts, DecodedIs DEF PbInv, Growing

LEMMA PbInitStep == PbInit => PbInv
<1> SUFFICES ASSUME PbInit PROVE PbInv
  OBVIOUS
<1>1. Default \in Struct(0) /\ << >> \in Seq(PbField)
  BY DefaultFits, EmptySeq
<1>2. PbTypes
  BY <1>1 DEF PbInit, PbTypes, Struct
<1>3. Owned
  BY DEF PbInit, Owned, Default, NullPtr
<1>4. QED
  BY <1>2, <1>3 DEF PbInit, PbInv

LEMMA DecodeStep ==
  ASSUME PbInv, Decode
  PROVE  PbInv'
<1>1. /\ pbPc' = "decode" /\ response' = Default /\ seen' = << >> /\ level' = 0
      /\ ~wild' /\ addresses' \in Nat /\ UNCHANGED heap /\ response = Default
  BY PbFacts DEF Decode, PbInv, Owned
<1>2. response' \in Struct(addresses') /\ seen' \in Seq(PbField) /\ Len(seen') = 0
  BY <1>1, DefaultFits, EmptySeq
<1>3. DOMAIN heap' = {response'.array} \ {NullPtr}
  BY <1>1, PbFacts
<1>4. 1 .. Len(seen') = {}
  BY <1>2
<1>5. PICK s : s = seen' /\ 1 .. Len(s) = {}
  BY <1>4
<1>6. ConfigsIn(s) = {} /\ \A name : LastIn(s, name, 1 .. Len(s)) = Absent
  BY <1>5 DEF ConfigsIn, LastIn
<1>7. Holds(response', heap', s)
  <2>1. Cardinality(ConfigsIn(s)) = 0
    BY <1>6, FS_EmptySet
  <2>2. QED
    BY <1>1, <1>5, <1>6, <2>1 DEF Holds, Default
<1>8. response'.count = 0 /\ response'.array = NullPtr
  BY <1>1 DEF Default
<1>9. QED
  BY <1>1, <1>2, <1>3, <1>5, <1>7, <1>8, PbGoesOn

(* A field that leaves the array alone.                                    *)
LEMMA ScalarStep ==
  ASSUME PbInv, NEW e \in PbField, NEW q,
         e.name \notin {"config", "qos", "source"},
         pbPc = "decode", pbPc' = "decode", level' \in {0, 1, level},
         response' = q, q \in Struct(addresses), q.array = response.array, q.count = response.count,
         q.wait = IF e.name = "wait" THEN e.val ELSE response.wait,
         q.print = IF e.name = "print" THEN e.val ELSE response.print,
         q.tier <=> (response.tier \/ e.name = "tier"),
         seen' = Append(seen, e), UNCHANGED <<heap, addresses, wild>>
  PROVE  PbInv'
<1>1. /\ addresses' \in Nat /\ level' \in 0 .. 2 /\ ~wild'
      /\ response' \in Struct(addresses') /\ seen \in Seq(PbField)
      /\ DOMAIN heap' = {response'.array} \ {NullPtr}
  BY PbFacts
<1>2. seen' \in Seq(PbField)
  BY <1>1, PlacesAfter
<1>3. /\ Holds(response, heap, seen)
      /\ response.count = 0 <=> response.array = NullPtr
      /\ response.count > 0 =>
           /\ heap = [a \in {response.array} |-> heap[response.array]]
           /\ heap[response.array] \in Seq(PbItem)
           /\ Len(heap[response.array]) = response.count
      /\ level = 2 => response.count > 0
  BY PbGrowing
<1>4. Holds(q, heap, Append(seen, e))
  BY <1>1, <1>3, OtherField
<1>5. Holds(response', heap', seen')
  BY <1>4
<1>6. QED
  BY <1>1, <1>2, <1>3, <1>5, PbGoesOn

LEMMA SkipStep ==
  ASSUME PbInv, Skip
  PROVE  PbInv'
<1>1. PICK e : e = [name |-> "unknown", val |-> 0]
  OBVIOUS
<1>2. e \in PbField /\ e.name = "unknown"
  BY <1>1 DEF PbField, PbValue, Absent
<1>3. /\ pbPc = "decode" /\ pbPc' = "decode" /\ seen' = Append(seen, e)
      /\ UNCHANGED <<level, response, heap, addresses, wild>>
  BY <1>1 DEF Skip, Reads
<1>4. response \in Struct(addresses)
  BY PbFacts
<1>5. /\ response.wait = IF e.name = "wait" THEN e.val ELSE response.wait
      /\ response.print = IF e.name = "print" THEN e.val ELSE response.print
      /\ response.tier <=> (response.tier \/ e.name = "tier")
  BY <1>2, <1>4
<1>6. e.name \notin {"config", "qos", "source"} /\ level' \in {0, 1, level}
  BY <1>2, <1>3
<1>7. QED
  BY <1>2, <1>3, <1>4, <1>5, <1>6, ScalarStep

LEMMA WaitMillisStep ==
  ASSUME PbInv, NEW v \in Values, WaitMillis(v)
  PROVE  PbInv'
<1>1. PICK e, q : e = [name |-> "wait", val |-> v] /\ q = [response EXCEPT !.wait = v]
  OBVIOUS
<1>2. e \in PbField /\ e.name = "wait" /\ e.val = v
  BY <1>1 DEF PbField, PbValue
<1>3. /\ pbPc = "decode" /\ pbPc' = "decode" /\ seen' = Append(seen, e) /\ response' = q
      /\ UNCHANGED <<level, heap, addresses, wild>>
  BY <1>1 DEF WaitMillis, Reads
<1>4. /\ q \in Struct(addresses) /\ q.array = response.array /\ q.count = response.count
      /\ q.wait = v /\ q.print = response.print /\ q.tier = response.tier
  BY <1>1, PbFacts DEF Struct, PbValue
<1>5. /\ q.wait = IF e.name = "wait" THEN e.val ELSE response.wait
      /\ q.print = IF e.name = "print" THEN e.val ELSE response.print
      /\ q.tier <=> (response.tier \/ e.name = "tier")
  BY <1>2, <1>4
<1>6. e.name \notin {"config", "qos", "source"} /\ level' \in {0, 1, level}
  BY <1>2, <1>3
<1>7. QED
  BY <1>2, <1>3, <1>4, <1>5, <1>6, ScalarStep

LEMMA FingerprintStep ==
  ASSUME PbInv, NEW v \in Values, Fingerprint(v)
  PROVE  PbInv'
<1>1. PICK e, q : e = [name |-> "print", val |-> v] /\ q = [response EXCEPT !.print = v]
  OBVIOUS
<1>2. e \in PbField /\ e.name = "print" /\ e.val = v
  BY <1>1 DEF PbField, PbValue
<1>3. /\ pbPc = "decode" /\ pbPc' = "decode" /\ seen' = Append(seen, e) /\ response' = q
      /\ UNCHANGED <<level, heap, addresses, wild>>
  BY <1>1 DEF Fingerprint, Reads
<1>4. /\ q \in Struct(addresses) /\ q.array = response.array /\ q.count = response.count
      /\ q.wait = response.wait /\ q.print = v /\ q.tier = response.tier
  BY <1>1, PbFacts DEF Struct, PbValue
<1>5. /\ q.wait = IF e.name = "wait" THEN e.val ELSE response.wait
      /\ q.print = IF e.name = "print" THEN e.val ELSE response.print
      /\ q.tier <=> (response.tier \/ e.name = "tier")
  BY <1>2, <1>4
<1>6. e.name \notin {"config", "qos", "source"} /\ level' \in {0, 1, level}
  BY <1>2, <1>3
<1>7. QED
  BY <1>2, <1>3, <1>4, <1>5, <1>6, ScalarStep

LEMMA TierStep ==
  ASSUME PbInv, Tier
  PROVE  PbInv'
<1>1. PICK e, q : e = [name |-> "tier", val |-> 0] /\ q = [response EXCEPT !.tier = TRUE]
  OBVIOUS
<1>2. e \in PbField /\ e.name = "tier"
  BY <1>1 DEF PbField, PbValue, Absent
<1>3. /\ pbPc = "decode" /\ pbPc' = "decode" /\ seen' = Append(seen, e) /\ response' = q
      /\ level' = 1 /\ UNCHANGED <<heap, addresses, wild>>
  BY <1>1 DEF Tier, Reads
<1>4. /\ q \in Struct(addresses) /\ q.array = response.array /\ q.count = response.count
      /\ q.wait = response.wait /\ q.print = response.print /\ q.tier = TRUE
  BY <1>1, PbFacts DEF Struct, PbValue
<1>5. /\ q.wait = IF e.name = "wait" THEN e.val ELSE response.wait
      /\ q.print = IF e.name = "print" THEN e.val ELSE response.print
      /\ q.tier <=> (response.tier \/ e.name = "tier")
  BY <1>2, <1>4
<1>6. e.name \notin {"config", "qos", "source"} /\ level' \in {0, 1, level}
  BY <1>2, <1>3
<1>7. QED
  BY <1>2, <1>3, <1>4, <1>5, <1>6, ScalarStep

LEMMA EndOfMessageStep ==
  ASSUME PbInv, End
  PROVE  PbInv'
<1>1. /\ pbPc = "decode" /\ pbPc' \in {"decode", "true"}
      /\ level' \in 0 .. 1
      /\ UNCHANGED <<response, heap, addresses, wild, seen>>
  BY PbFacts DEF End
<1>2. PbTypes'
  BY <1>1 DEF PbInv, PbTypes
<1>3. Owned'
  BY <1>1 DEF PbInv, Owned
<1>4. Growing /\ seen \in Seq(PbField)
  BY <1>1, PbFacts DEF PbInv
<1>5. Decoded'
  <2>1. Holds(response, heap, seen)
    BY <1>4, DecodedIs DEF Growing
  <2>2. Holds(response', heap', seen') /\ seen' \in Seq(PbField)
    BY <1>1, <1>4, <2>1
  <2>3. QED
    BY <2>2, DecodedNext
<1>6. Growing'
  BY <1>1, <1>4, <1>5 DEF Growing
<1>7. QED
  BY <1>2, <1>3, <1>6 DEF PbInv

(* The message is released: the array is all it owns.                      *)
LEMMA Releases ==
  ASSUME PbInv, NEW p \in Struct(addresses), p.array = response.array, Freed(p),
         response' = Forgotten(p), pbPc' \in {"false", "released"},
         level' \in 0 .. 2, UNCHANGED <<addresses, seen>>
  PROVE  PbInv'
<1>1. DOMAIN heap \ {p.array} = {}
  BY PbFacts
<1>2. heap' = << >>
  BY <1>1, NothingLeft DEF Freed
<1>3. ~wild'
  BY PbFacts DEF Freed
<1>4. response' \in Struct(addresses) /\ response'.array = NullPtr
  <2>1. 0 \in 0 .. addresses /\ 0 \in Nat
    BY PbFacts
  <2>2. PICK q : q = [p EXCEPT !.count = 0, !.array = 0]
    OBVIOUS
  <2>3. q \in Struct(addresses) /\ q.array = 0
    BY <2>1, <2>2 DEF Struct
  <2>4. QED
    BY <2>2, <2>3 DEF Forgotten, NullPtr
<1>5. PbTypes'
  BY <1>4, PbFacts DEF PbTypes, Struct
<1>6. Owned'
  BY <1>2, <1>3, <1>4 DEF Owned
<1>7. QED
  BY <1>5, <1>6 DEF PbInv

LEMMA FailStep ==
  ASSUME PbInv, Fail
  PROVE  PbInv'
BY PbFacts, Releases DEF Fail

LEMMA ReleaseStep ==
  ASSUME PbInv, ReleaseResponse
  PROVE  PbInv'
<1>1. /\ pbPc \in {"true", "false"} /\ pbPc' = "released" /\ Freed(Reset)
      /\ response' = Forgotten(Reset) /\ UNCHANGED <<level, addresses, seen>>
  BY DEF ReleaseResponse
<1>2. PICK p : p = Reset
  OBVIOUS
<1>3. p \in Struct(addresses) /\ p.array = response.array
  <2>1. CASE pbPc = "true"
    BY <1>2, <2>1, PbFacts DEF Reset
  <2>2. CASE pbPc = "false"
    <3>1. p = Default /\ heap = << >>
      BY <1>2, <2>2 DEF Reset, PbInv, Owned
    <3>2. DOMAIN heap = {}
      BY <3>1
    <3>3. response.array = NullPtr
      BY <3>2, PbFacts
    <3>4. QED
      BY <3>1, <3>3, PbFacts, DefaultFits DEF Default
  <2>3. QED
    BY <1>1, <2>1, <2>2
<1>4. QED
  BY <1>1, <1>2, <1>3, PbFacts, Releases

LEMMA ConfigStep ==
  ASSUME PbInv, Config
  PROVE  PbInv'
<1>1. PICK e, n, p : e = [name |-> "config", val |-> 0] /\ n = addresses + 1 /\ p = response
  OBVIOUS
<1>2. e \in PbField /\ e.name = "config"
  BY <1>1 DEF PbField, PbValue, Absent
<1>3. /\ pbPc = "decode" /\ pbPc' = "decode" /\ seen' = Append(seen, e) /\ level' = 2
      /\ addresses' = n /\ heap' = Moved(Append(Old, NewItem))
      /\ wild' = (wild \/ p.array \notin DOMAIN heap \cup {NullPtr})
      /\ response' = [p EXCEPT !.array = n, !.count = @ + 1]
  BY <1>1 DEF Config, Reads
<1>4. /\ addresses \in Nat /\ p \in Struct(addresses) /\ seen \in Seq(PbField) /\ ~wild
      /\ DOMAIN heap = {p.array} \ {NullPtr}
  BY <1>1, PbFacts
<1>5. /\ Holds(p, heap, seen)
      /\ p.count = 0 <=> p.array = NullPtr
      /\ p.count > 0 =>
              /\ heap[p.array] \in Seq(PbItem)
              /\ Len(heap[p.array]) = p.count
  BY <1>1, <1>3, PbGrowing
<1>6. n \in Nat /\ n # 0 /\ p.count \in Nat /\ n \in 0 .. n
  BY <1>1, <1>4 DEF Struct
<1>7. PICK old : old = Old
  OBVIOUS
<1>8. old \in Seq(PbItem) /\ Len(old) = p.count /\ (p.count > 0 => old = heap[p.array])
  <2>1. CASE p.count = 0
    <3>1. p.array \notin DOMAIN heap
      BY <1>4, <1>5, <2>1
    <3>2. old = << >>
      BY <1>1, <1>7, <3>1 DEF Old
    <3>3. QED
      BY <2>1, <3>2, EmptySeq
  <2>2. CASE p.count > 0
    <3>1. p.array \in DOMAIN heap
      BY <1>4, <1>5, <1>6, <2>2
    <3>2. old = heap[p.array]
      BY <1>1, <1>7, <3>1 DEF Old
    <3>3. QED
      BY <1>5, <2>2, <3>2
  <2>3. QED
    BY <1>6, <2>1, <2>2
<1>9. PICK items : items = Append(old, NewItem)
  OBVIOUS
<1>10. items \in Seq(PbItem) /\ Len(items) = p.count + 1
  <2>1. NewItem \in PbItem
    BY DEF NewItem, PbItem, PbValue
  <2>2. QED
    BY <1>8, <1>9, <2>1, AppendProperties
<1>11. heap' = [a \in {n} |-> items]
  <2>1. (DOMAIN heap \ {p.array}) \cup {n} = {n}
    BY <1>4
  <2>2. heap' = [a \in {n} |-> IF a = n THEN items ELSE heap[a]]
    BY <1>1, <1>3, <1>7, <1>9, <2>1 DEF Moved
  <2>3. QED
    BY <2>2
<1>12. PICK g, q : g = heap' /\ q = response'
  OBVIOUS
<1>13. g = [a \in {n} |-> items] /\ DOMAIN g = {n} /\ g[n] = items
  BY <1>11, <1>12
<1>14. /\ q \in Struct(n) /\ q.array = n /\ q.count = p.count + 1
       /\ q.wait = p.wait /\ q.print = p.print /\ q.tier = p.tier
  <2>1. p.count + 1 \in Nat
    BY <1>6
  <2>2. QED
    BY <1>3, <1>4, <1>6, <1>12, <2>1 DEF Struct
<1>15. Holds(q, g, Append(seen, e))
  BY <1>2, <1>4, <1>5, <1>8, <1>9, <1>13, <1>14, ConfigField
<1>16. ~wild' /\ DOMAIN g = {q.array} \ {NullPtr} /\ q.count > 0 /\ q.array # NullPtr
  <2>1. p.array \in DOMAIN heap \cup {NullPtr}
    BY <1>4
  <2>2. ~wild'
    BY <1>3, <1>4, <2>1
  <2>3. q.array # NullPtr /\ q.count > 0
    BY <1>6, <1>14 DEF NullPtr
  <2>4. QED
    BY <1>13, <1>14, <2>2, <2>3
<1>17. seen' \in Seq(PbField)
  BY <1>2, <1>3, <1>4, PlacesAfter
<1>18. g = [a \in {q.array} |-> g[q.array]] /\ g[q.array] \in Seq(PbItem) /\ Len(g[q.array]) = q.count
  BY <1>10, <1>13, <1>14
<1>19. q.count # 0 /\ level' \in 0 .. 2
  BY <1>3, <1>6, <1>14
<1>20. QED
  BY <1>3, <1>6, <1>12, <1>14, <1>15, <1>16, <1>17, <1>18, <1>19, PbGoesOn

LEMMA StoreItemStep ==
  ASSUME PbInv, NEW v \in Values, NEW name \in {"qos", "source"}, StoreItem(v, name)
  PROVE  PbInv'
<1>1. PICK e, p, c, old : /\ e = [name |-> name, val |-> v] /\ p = response
                          /\ c = response.count /\ old = heap[response.array]
  OBVIOUS
<1>2. e \in PbField /\ e.name = name /\ e.val = v
  BY <1>1 DEF PbField, PbValue
<1>3. /\ pbPc = "decode" /\ pbPc' = "decode" /\ seen' = Append(seen, e) /\ level = 2
      /\ heap' = [heap EXCEPT ![p.array][c][name] = v]
      /\ UNCHANGED <<level, response, addresses, wild>>
  BY <1>1 DEF StoreItem, Reads
<1>4. /\ addresses \in Nat /\ p \in Struct(addresses) /\ seen \in Seq(PbField) /\ ~wild
      /\ DOMAIN heap = {p.array} \ {NullPtr}
  BY <1>1, PbFacts
<1>5. /\ Holds(p, heap, seen)
      /\ p.count = 0 <=> p.array = NullPtr
      /\ p.count > 0 =>
              /\ heap = [a \in {p.array} |-> old]
              /\ old \in Seq(PbItem)
              /\ Len(old) = p.count
      /\ p.count > 0
  BY <1>1, <1>3, PbGrowing
<1>6. /\ old \in Seq(PbItem) /\ Len(old) = c /\ c \in Nat /\ c > 0 /\ p.count = c
      /\ old = heap[p.array] /\ heap = [a \in {p.array} |-> old]
  BY <1>1, <1>4, <1>5 DEF Struct
<1>7. c \in 1 .. Len(old) /\ old[c] \in PbItem
  <2>1. c \in 1 .. Len(old)
    BY <1>6
  <2>2. QED
    BY <1>6, <2>1, LenProperties
<1>8. PICK it : it = [old[c] EXCEPT ![name] = v]
  OBVIOUS
<1>9. /\ it \in PbItem
      /\ name = "qos" => it = [qos |-> v, source |-> old[c].source]
      /\ name = "source" => it = [qos |-> old[c].qos, source |-> v]
  <2>1. PICK x \in PbValue, y \in PbValue : old[c] = [qos |-> x, source |-> y]
    BY <1>7 DEF PbItem
  <2>2. v \in PbValue
    BY DEF PbValue
  <2>3. CASE name = "qos"
    <3>1. it = [qos |-> v, source |-> y]
      <4>1. it = [old[c] EXCEPT !["qos"] = v]
        BY <1>8, <2>3
      <4>2. PICK o : o = [qos |-> x, source |-> y] /\ it = [o EXCEPT !["qos"] = v]
        BY <2>1, <4>1
      <4>3. QED
        BY <4>2
    <3>2. QED
      BY <2>1, <2>2, <2>3, <3>1 DEF PbItem
  <2>4. CASE name = "source"
    <3>1. it = [qos |-> x, source |-> v]
      <4>1. it = [old[c] EXCEPT !["source"] = v]
        BY <1>8, <2>4
      <4>2. PICK o : o = [qos |-> x, source |-> y] /\ it = [o EXCEPT !["source"] = v]
        BY <2>1, <4>1
      <4>3. QED
        BY <4>2
    <3>2. QED
      BY <2>1, <2>2, <2>4, <3>1 DEF PbItem
  <2>5. QED
    BY <2>3, <2>4
<1>10. PICK g, new : g = heap' /\ new = [old EXCEPT ![c] = it]
  OBVIOUS
<1>11. g = [a \in {p.array} |-> new] /\ g[p.array] = new /\ DOMAIN g = {p.array}
  <2>1. g = [heap EXCEPT ![p.array] = [old EXCEPT ![c] = [old[c] EXCEPT ![name] = v]]]
    BY <1>3, <1>6, <1>10
  <2>2. g = [heap EXCEPT ![p.array] = new]
    BY <1>8, <1>10, <2>1
  <2>3. g = [a \in {p.array} |-> new]
    BY <1>6, <2>2
  <2>4. QED
    BY <2>3
<1>12. new \in Seq(PbItem) /\ Len(new) = p.count
  BY <1>6, <1>7, <1>9, <1>10, ExceptSeq
<1>13. Holds(p, g, Append(seen, e))
  <2>1. /\ e.name = "qos" => it = [qos |-> e.val, source |-> old[p.count].source]
        /\ e.name = "source" => it = [qos |-> old[p.count].qos, source |-> e.val]
        /\ e.name \in {"qos", "source"}
    BY <1>2, <1>6, <1>9
  <2>2. \A j \in 1 .. Len(old) : new[j] = IF j = c THEN it ELSE old[j]
    BY <1>6, <1>7, <1>9, <1>10, ExceptSeq
  <2>3. \A j \in 1 .. Len(old) : g[p.array][j] = IF j = p.count THEN it ELSE old[j]
    BY <1>6, <1>11, <2>2
  <2>4. /\ Holds(p, heap, seen) /\ old \in Seq(PbItem) /\ Len(old) = p.count
        /\ p.count > 0 /\ old = heap[p.array]
    BY <1>5, <1>6
  <2>5. e \in PbField /\ it \in PbItem /\ seen \in Seq(PbField)
    BY <1>2, <1>4, <1>9
  <2>6. QED
    BY <2>1, <2>4, <2>5, <2>3, ItemField, ZenonT(60)
<1>14. seen' \in Seq(PbField)
  BY <1>2, <1>3, <1>4, PlacesAfter
<1>15. DOMAIN g = {p.array} \ {NullPtr}
  BY <1>5, <1>6, <1>11
<1>16. /\ g = [a \in {p.array} |-> g[p.array]] /\ g[p.array] \in Seq(PbItem)
       /\ Len(g[p.array]) = p.count
  BY <1>11, <1>12
<1>17. response' = p /\ heap' = g /\ seen' = Append(seen, e) /\ level' = 2 /\ level' \in 0 .. 2
  BY <1>1, <1>3, <1>10
<1>18. pbPc' = "decode" /\ ~wild' /\ addresses' \in Nat /\ response' \in Struct(addresses')
  BY <1>3, <1>4, <1>17
<1>19. (p.count = 0 <=> p.array = NullPtr) /\ p.count > 0
  BY <1>5
<1>20. QED
  BY <1>13, <1>14, <1>15, <1>16, <1>17, <1>18, <1>19, PbGoesOn

(* Whatever arrives, and however long it is, the struct owns at most one   *)
(* block, and after every field it has what the fields so far say          *)
(* (pb_decode.c:490-551, 656-672, 1157-1262).                              *)
THEOREM DecodeInvariant == PbSpec => []PbInv
<1>1. PbInit => PbInv
  BY PbInitStep
<1>2. PbInv /\ [PbNext]_pbVars => PbInv'
  <2> SUFFICES ASSUME PbInv, [PbNext]_pbVars PROVE PbInv'
    OBVIOUS
  <2>1. CASE UNCHANGED pbVars
    <3>1. UNCHANGED <<pbPc, level, response, heap, addresses, wild, seen>>
      BY <2>1 DEF pbVars
    <3>2. PbTypes' /\ Owned'
      BY <3>1 DEF PbInv, PbTypes, Owned
    <3>3. ASSUME pbPc \in {"decode", "true"} PROVE Growing'
      <4>1. Holds(response, heap, seen) /\ seen \in Seq(PbField)
        BY <3>3, PbGrowing, PbFacts
      <4>2. Holds(response', heap', seen') /\ seen' \in Seq(PbField)
        BY <3>1, <4>1
      <4>3. Decoded'
        BY <4>2, DecodedNext
      <4>4. QED
        BY <3>1, <3>3, <4>3 DEF PbInv, Growing
    <3>4. QED
      BY <3>1, <3>2, <3>3 DEF PbInv
  <2>2. CASE PbNext
    BY <2>2, DecodeStep, SkipStep, TierStep, ConfigStep, EndOfMessageStep, FailStep, ReleaseStep,
       WaitMillisStep, FingerprintStep, StoreItemStep DEF PbNext
  <2>3. QED
    BY <2>1, <2>2
<1>3. QED
  BY <1>1, <1>2, PTL DEF PbSpec

(* Decoding is sound for any bytes, of any length: no block is leaked,     *)
(* used or freed twice, and a response that decodes has the last value of  *)
(* each field and an item for each one that came.                          *)
THEOREM DecodingIsSound == PbSpec => []DecodeSound
<1>1. PbInv => DecodeSound
  BY DEF PbInv, Owned, Growing, DecodeSound
<1>2. QED
  BY <1>1, DecodeInvariant, PTL

-----------------------------------------------------------------------------
(* The names of the logos.                                                 *)

(* A set of positions that is not empty has a least and a greatest one.    *)
LEMMA FirstAndLast ==
  ASSUME NEW n \in Nat, NEW P, P \subseteq 1 .. n, P # {}
  PROVE  /\ Max(P) \in P /\ \A i \in P : Max(P) >= i
         /\ Min(P) \in P /\ \A i \in P : Min(P) <= i
<1> DEFINE R == {ss \in Nat \X Nat : ss[1] < ss[2]}
<1>1. IsWellFoundedOn(R, Nat)
  BY NatLessThanWellFounded, Zenon DEF OpToRel
<1>2. \A a, b \in Nat : a < b => <<a, b>> \in R
  OBVIOUS
<1> HIDE DEF R
<1>3. P \in SUBSET Nat /\ \A i \in P : i \in Nat
  OBVIOUS
<1>4. PICK f \in P : \A j \in P : ~(<<j, f>> \in R)
  BY <1>1, <1>3, WFMin
<1>5. ASSUME NEW j \in P PROVE f <= j
  <2>1. j \in Nat /\ f \in Nat /\ ~(<<j, f>> \in R)
    BY <1>3, <1>4
  <2>2. ~(j < f)
    BY <1>2, <2>1
  <2> QED
    BY <2>1, <2>2
<1>6. Min(P) \in P /\ \A i \in P : Min(P) <= i
  BY <1>5 DEF Min
<1>7. Max(P) \in P /\ \A i \in P : i <= Max(P)
  <2>1. P \in SUBSET (0 .. n)
    OBVIOUS
  <2> QED
    BY <2>1, GreatestOf
<1> QED
  BY <1>3, <1>6, <1>7

(* Turning a sequence round: the i-th from the front is the i-th from the  *)
(* back.                                                                   *)
LEMMA TurnedRound ==
  ASSUME NEW S, NEW s \in Seq(S)
  PROVE  /\ Reverse(s) \in Seq(S) /\ Len(Reverse(s)) = Len(s)
         /\ \A i \in 1 .. Len(s) : Reverse(s)[i] = s[Len(s) - i + 1]
<1>1. Len(s) \in Nat /\ \A i \in 1 .. Len(s) : s[i] \in S
  BY LenProperties, ElementOfSeq
<1>2. \A i \in 1 .. Len(s) : Len(s) - i + 1 \in 1 .. Len(s)
  BY <1>1
<1>3. Reverse(s) = [i \in 1 .. Len(s) |-> s[Len(s) - i + 1]]
  BY DEF Reverse
<1>4. Reverse(s) \in [1 .. Len(s) -> S]
  BY <1>1, <1>2, <1>3
<1>5. Reverse(s) \in Seq(S) /\ Len(Reverse(s)) = Len(s)
  <2>1. Reverse(s) \in Seq(S)
    BY <1>1, <1>4, SeqDef
  <2>2. DOMAIN Reverse(s) = 1 .. Len(s)
    BY <1>3
  <2>3. DOMAIN Reverse(s) = 1 .. Len(Reverse(s)) /\ Len(Reverse(s)) \in Nat
    BY <2>1, LenProperties
  <2> QED
    BY <2>1, <2>2, <2>3, <1>1
<1> QED
  BY <1>3, <1>5

(* indexOf counts what precedes the first occurrence.                      *)
LEMMA IndexOfFirst ==
  ASSUME NEW S, NEW s \in Seq(S), NEW ch
  PROVE  /\ Positions(s, ch) = {} => IndexOf(s, ch) = -1
         /\ Positions(s, ch) # {} =>
              /\ IndexOf(s, ch) \in 0 .. (Len(s) - 1)
              /\ s[IndexOf(s, ch) + 1] = ch
              /\ \A i \in 1 .. IndexOf(s, ch) : s[i] # ch
<1>1. Positions(s, ch) = {} => IndexOf(s, ch) = -1
  BY DEF IndexOf
<1>2. ASSUME Positions(s, ch) # {}
      PROVE  /\ IndexOf(s, ch) \in 0 .. (Len(s) - 1)
             /\ s[IndexOf(s, ch) + 1] = ch
             /\ \A i \in 1 .. IndexOf(s, ch) : s[i] # ch
  <2>1. Len(s) \in Nat /\ DOMAIN s = 1 .. Len(s)
    BY LenProperties
  <2>2. PICK f : f = Min(Positions(s, ch))
    OBVIOUS
  <2>3. /\ f \in Positions(s, ch) /\ \A i \in Positions(s, ch) : f <= i
        /\ Positions(s, ch) \subseteq 1 .. Len(s)
    BY <1>2, <2>1, <2>2, FirstAndLast DEF Positions
  <2>4. f \in 1 .. Len(s) /\ s[f] = ch /\ IndexOf(s, ch) = f - 1
    BY <1>2, <2>1, <2>2, <2>3 DEF Positions, IndexOf
  <2>5. ASSUME NEW i \in 1 .. (f - 1) PROVE s[i] # ch
    <3>1. i \in 1 .. Len(s) /\ ~(f <= i)
      BY <2>1, <2>4
    <3> QED
      BY <3>1, <2>1, <2>3 DEF Positions
  <2>6. f - 1 + 1 = f
    BY <2>4
  <2> QED
    BY <2>1, <2>4, <2>5, <2>6
<1> QED
  BY <1>1, <1>2

(* With a '/', the file name follows the last one, and the title turned    *)
(* round has as many characters before its first one.                      *)
LEMMA LastSlash ==
  ASSUME NEW p \in Seq(Char), Positions(p, "/") # {}
  PROVE  \E m \in 1 .. Len(p) :
           /\ Len(FileName(p)) = Len(p) - m
           /\ \A x \in 1 .. (Len(p) - m) : FileName(p)[x] = p[m + x]
           /\ IndexOf(Reverse(p), "/") = Len(p) - m
<1>1. Len(p) \in Nat /\ DOMAIN p = 1 .. Len(p)
  BY LenProperties
<1>2. PICK m : m = Max(Positions(p, "/"))
  OBVIOUS
<1>3. m \in Positions(p, "/") /\ \A i \in Positions(p, "/") : m >= i
  <2>1. Positions(p, "/") \subseteq 1 .. Len(p)
    BY <1>1 DEF Positions
  <2> QED
    BY <1>1, <1>2, <2>1, FirstAndLast
<1>4. m \in 1 .. Len(p) /\ p[m] = "/"
  BY <1>1, <1>3 DEF Positions
<1>5. FileName(p) = SubSeq(p, m + 1, Len(p))
  BY <1>2 DEF FileName
<1>6. /\ Len(FileName(p)) = Len(p) - m
      /\ \A x \in 1 .. (Len(p) - m) : FileName(p)[x] = p[m + x]
  <2>1. \A i \in (m + 1) .. Len(p) : p[i] \in Char
    BY <1>1, <1>4, ElementOfSeq
  <2>2. m + 1 \in Int /\ Len(p) \in Int
    BY <1>1, <1>4
  <2>3. /\ Len(FileName(p)) = IF m + 1 <= Len(p) THEN Len(p) - (m + 1) + 1 ELSE 0
        /\ \A x \in 1 .. (Len(p) - (m + 1) + 1) :
             FileName(p)[x] = p[m + 1 + x - 1]
    BY <1>5, <2>1, <2>2, SubSeqProperties
  <2>4. Len(p) - (m + 1) + 1 = Len(p) - m
    BY <1>1, <1>4
  <2>5. \A x \in 1 .. (Len(p) - m) : m + 1 + x - 1 = m + x
    BY <1>1, <1>4
  <2>6. Len(FileName(p)) = Len(p) - m
    <3>1. Len(FileName(p)) = IF m + 1 <= Len(p) THEN Len(p) - m ELSE 0
      BY <2>3, <2>4, Zenon
    <3>2. CASE m + 1 <= Len(p)
      BY <3>1, <3>2
    <3>3. CASE m = Len(p)
      BY <3>1, <3>3, <1>1, <1>4
    <3>4. m + 1 <= Len(p) \/ m = Len(p)
      BY <2>2, <1>4
    <3> QED
      BY <3>2, <3>3, <3>4
  <2>7. \A x \in 1 .. (Len(p) - m) : FileName(p)[x] = p[m + 1 + x - 1]
    BY <2>3, <2>4
  <2> QED
    BY <2>5, <2>6, <2>7
<1>7. PICK t : t = Reverse(p)
  OBVIOUS
<1>8. /\ t \in Seq(Char) /\ Len(t) = Len(p)
      /\ \A i \in 1 .. Len(p) : t[i] = p[Len(p) - i + 1]
  BY <1>7, TurnedRound
<1>9. DOMAIN t = 1 .. Len(p)
  BY <1>8, LenProperties
<1>10. Len(p) - m + 1 \in Positions(t, "/")
  <2>1. Len(p) - m + 1 \in 1 .. Len(p) /\ Len(p) - (Len(p) - m + 1) + 1 = m
    BY <1>1, <1>4
  <2>2. t[Len(p) - m + 1] = p[m]
    BY <1>8, <2>1
  <2> QED
    BY <2>1, <2>2, <1>4, <1>9 DEF Positions
<1>11. PICK k : k = IndexOf(t, "/")
  OBVIOUS
<1>12. /\ k \in 0 .. (Len(p) - 1) /\ t[k + 1] = "/"
       /\ \A i \in 1 .. k : t[i] # "/"
  BY <1>8, <1>10, <1>11, IndexOfFirst
<1>13. k >= Len(p) - m /\ k \in Int /\ Len(p) - m \in Int
  <2>1. k + 1 \in 1 .. Len(p) /\ Len(p) - (k + 1) + 1 \in 1 .. Len(p)
    BY <1>1, <1>12
  <2>2. p[Len(p) - (k + 1) + 1] = "/"
    BY <1>8, <1>12, <2>1
  <2>3. Len(p) - (k + 1) + 1 \in Positions(p, "/")
    BY <1>1, <2>1, <2>2 DEF Positions
  <2>4. m >= Len(p) - (k + 1) + 1
    BY <1>3, <2>3
  <2> QED
    BY <2>4, <1>1, <1>4, <1>12
<1>14. k <= Len(p) - m
  <2> SUFFICES ASSUME k > Len(p) - m PROVE FALSE
    BY <1>1, <1>4, <1>12
  <2>1. Len(p) - m + 1 \in 1 .. k
    BY <1>1, <1>4, <1>12
  <2> QED
    BY <2>1, <1>10, <1>12 DEF Positions
<1>15. k = Len(p) - m
  BY <1>13, <1>14
<1> QED
  BY <1>4, <1>6, <1>7, <1>11, <1>15

(* substring, of what it does not throw on.                                *)
LEMMA SubstringIs ==
  ASSUME NEW S, NEW s \in Seq(S), NEW from \in Nat, NEW to \in Nat,
         from <= to, to <= Len(s)
  PROVE  /\ Substring(s, from, to) \in Seq(S)
         /\ Len(Substring(s, from, to)) = to - from
         /\ \A i \in 1 .. (to - from) : Substring(s, from, to)[i] = s[from + i]
<1>1. Len(s) \in Nat
  BY LenProperties
<1>2. \A i \in (from + 1) .. to : s[i] \in S
  BY <1>1, ElementOfSeq
<1>3. /\ Substring(s, from, to) \in Seq(S)
      /\ Len(Substring(s, from, to)) =
           IF from + 1 <= to THEN to - (from + 1) + 1 ELSE 0
      /\ \A i \in 1 .. (to - (from + 1) + 1) :
           Substring(s, from, to)[i] = s[from + 1 + i - 1]
  BY <1>2, SubSeqProperties DEF Substring
<1>4. to - (from + 1) + 1 = to - from
  OBVIOUS
<1>5. \A i \in 1 .. (to - from) : from + 1 + i - 1 = from + i
  OBVIOUS
<1> QED
  BY <1>3, <1>4, <1>5

(* What is left of the path, turned round twice, is the file name without  *)
(* its last four characters.                                               *)
LEMMA BaseOfFile ==
  ASSUME NEW p \in Seq(Char), Positions(p, "/") # {}
  PROVE  /\ TitleThrows(p) <=> Len(FileName(p)) < 4
         /\ ~TitleThrows(p) =>
              /\ BaseName(p) \in Seq(Char)
              /\ Len(BaseName(p)) = Len(FileName(p)) - 4
              /\ \A x \in 1 .. Len(BaseName(p)) : BaseName(p)[x] = FileName(p)[x]
<1>1. Len(p) \in Nat
  BY LenProperties
<1>2. PICK m \in 1 .. Len(p) :
        /\ Len(FileName(p)) = Len(p) - m
        /\ \A x \in 1 .. (Len(p) - m) : FileName(p)[x] = p[m + x]
        /\ IndexOf(Reverse(p), "/") = Len(p) - m
  BY LastSlash
<1>3. PICK t : t = Reverse(p)
  OBVIOUS
<1>4. /\ t \in Seq(Char) /\ Len(t) = Len(p)
      /\ \A i \in 1 .. Len(p) : t[i] = p[Len(p) - i + 1]
  BY <1>3, TurnedRound
<1>5. TitleThrows(p) <=> Len(FileName(p)) < 4
  BY <1>1, <1>2, <1>3, <1>4 DEF TitleThrows, SubstringThrows, Extension
<1>6. ASSUME ~TitleThrows(p)
      PROVE  /\ BaseName(p) \in Seq(Char)
             /\ Len(BaseName(p)) = Len(FileName(p)) - 4
             /\ \A x \in 1 .. Len(BaseName(p)) : BaseName(p)[x] = FileName(p)[x]
  <2>1. PICK k \in Nat : k = Len(p) - m
    BY <1>1
  <2>2. 4 <= k /\ k <= Len(t) /\ k - 4 \in Nat
    BY <1>1, <1>2, <1>4, <1>5, <1>6, <2>1
  <2>0. 4 \in Nat
    OBVIOUS
  <2>3. PICK u : u = Substring(t, 4, k)
    OBVIOUS
  <2>4. /\ u \in Seq(Char) /\ Len(u) = k - 4
        /\ \A i \in 1 .. (k - 4) : u[i] = t[4 + i]
    <3>1. /\ Substring(t, 4, k) \in Seq(Char)
          /\ Len(Substring(t, 4, k)) = k - 4
          /\ \A i \in 1 .. (k - 4) : Substring(t, 4, k)[i] = t[4 + i]
      <4>1. ASSUME NEW c \in Nat, c <= k
            PROVE  /\ Substring(t, c, k) \in Seq(Char)
                   /\ Len(Substring(t, c, k)) = k - c
                   /\ \A i \in 1 .. (k - c) : Substring(t, c, k)[i] = t[c + i]
        <5>1. t \in Seq(Char) /\ k \in Nat /\ k <= Len(t)
          BY <1>4, <2>1, <2>2, <2>0
        <5> QED
          BY <4>1, <5>1, SubstringIs
      <4> QED
        BY <4>1, <1>4, <2>1, <2>2, <2>0
    <3> QED
      BY <2>3, <3>1, Zenon
  <2>5. BaseName(p) = Reverse(u)
    BY <1>2, <1>3, <2>1, <2>3 DEF BaseName, Extension
  <2>6. /\ BaseName(p) \in Seq(Char) /\ Len(BaseName(p)) = k - 4
        /\ \A x \in 1 .. (k - 4) : BaseName(p)[x] = u[k - 4 - x + 1]
    <3>1. /\ Reverse(u) \in Seq(Char) /\ Len(Reverse(u)) = Len(u)
          /\ \A x \in 1 .. Len(u) : Reverse(u)[x] = u[Len(u) - x + 1]
      BY <2>4, TurnedRound
    <3> QED
      BY <2>4, <2>5, <3>1, Zenon
  <2>7. ASSUME NEW x \in 1 .. (k - 4) PROVE BaseName(p)[x] = FileName(p)[x]
    <3>1. /\ k - 4 - x + 1 \in 1 .. (k - 4) /\ 4 + (k - 4 - x + 1) = k - x + 1
          /\ k - x + 1 \in 1 .. Len(p) /\ Len(p) - (k - x + 1) + 1 = m + x
          /\ x \in 1 .. (Len(p) - m)
      BY <1>1, <2>1, <2>2
    <3>2. BaseName(p)[x] = t[k - x + 1]
      BY <2>4, <2>6, <3>1
    <3>3. t[k - x + 1] = p[m + x]
      BY <1>4, <3>1
    <3> QED
      BY <1>2, <3>1, <3>2, <3>3
  <2> QED
    BY <1>2, <2>1, <2>6, <2>7
<1> QED
  BY <1>5, <1>6

(* The loop leaves out the first '-' and what follows it.                  *)
LEMMA UpToDash ==
  ASSUME NEW s \in Seq(Char)
  PROVE  /\ BeforeDash(s) \in Seq(Char) /\ Len(BeforeDash(s)) <= Len(s)
         /\ Len(BeforeDash(s)) = Len(s) \/ s[Len(BeforeDash(s)) + 1] = "-"
         /\ \A x \in 1 .. Len(BeforeDash(s)) :
              BeforeDash(s)[x] = s[x] /\ s[x] # "-"
<1>1. Len(s) \in Nat /\ DOMAIN s = 1 .. Len(s)
  BY LenProperties
<1>2. CASE Positions(s, "-") = {}
  <2>1. BeforeDash(s) = s
    BY <1>2, IndexOfFirst DEF BeforeDash
  <2>2. \A x \in 1 .. Len(s) : s[x] # "-"
    BY <1>1, <1>2 DEF Positions
  <2> QED
    BY <1>1, <2>1, <2>2
<1>3. CASE Positions(s, "-") # {}
  <2>1. PICK k : k = IndexOf(s, "-")
    OBVIOUS
  <2>2. /\ k \in 0 .. (Len(s) - 1) /\ s[k + 1] = "-"
        /\ \A i \in 1 .. k : s[i] # "-"
    BY <1>3, <2>1, IndexOfFirst
  <2>3. k \in Nat /\ k # -1 /\ 0 <= k /\ k <= Len(s)
    BY <1>1, <2>2
  <2>0. 0 \in Nat
    OBVIOUS
  <2>4. BeforeDash(s) = Substring(s, 0, k)
    BY <2>1, <2>3 DEF BeforeDash
  <2>5. /\ BeforeDash(s) \in Seq(Char) /\ Len(BeforeDash(s)) = k - 0
        /\ \A x \in 1 .. (k - 0) : BeforeDash(s)[x] = s[0 + x]
    <3>1. /\ Substring(s, 0, k) \in Seq(Char)
          /\ Len(Substring(s, 0, k)) = k - 0
          /\ \A i \in 1 .. (k - 0) : Substring(s, 0, k)[i] = s[0 + i]
      <4>1. ASSUME NEW c \in Nat, c <= k
            PROVE  /\ Substring(s, c, k) \in Seq(Char)
                   /\ Len(Substring(s, c, k)) = k - c
                   /\ \A i \in 1 .. (k - c) : Substring(s, c, k)[i] = s[c + i]
        <5>1. s \in Seq(Char) /\ k \in Nat /\ k <= Len(s)
          BY <2>0, <2>3
        <5> QED
          BY <4>1, <5>1, SubstringIs
      <4> QED
        BY <4>1, <2>0, <2>3
    <3> QED
      BY <2>4, <3>1, Zenon
  <2>6. k - 0 = k /\ \A x \in 1 .. k : 0 + x = x
    BY <2>3
  <2> QED
    BY <2>2, <2>3, <2>5, <2>6
<1> QED
  BY <1>2, <1>3

(* Of every path the name is taken as the player expects.                  *)
LEMMA NameOfPath == path \in Seq(Char) => NamesSound
<1> SUFFICES ASSUME path \in Seq(Char) PROVE NamesSound
  OBVIOUS
<1>1. OnlyShortNamesThrow
  BY BaseOfFile DEF OnlyShortNamesThrow
<1>2. ASSUME Positions(path, "/") # {}, ~TitleThrows(path)
      PROVE  /\ Len(TitleOf(path)) <= Len(FileName(path)) - 4
             /\ \/ Len(TitleOf(path)) = Len(FileName(path)) - 4
                \/ FileName(path)[Len(TitleOf(path)) + 1] = "-"
             /\ \A x \in DOMAIN TitleOf(path) :
                  /\ FileName(path)[x] # "-"
                  /\ TitleOf(path)[x] = Upper(FileName(path)[x])
  <2>1. PICK b : b = BaseName(path)
    OBVIOUS
  <2>2. /\ b \in Seq(Char) /\ Len(b) = Len(FileName(path)) - 4
        /\ \A x \in 1 .. Len(b) : b[x] = FileName(path)[x]
    BY <1>2, <2>1, BaseOfFile
  <2>3. PICK d : d = BeforeDash(b)
    OBVIOUS
  <2>4. /\ d \in Seq(Char) /\ Len(d) <= Len(b)
        /\ Len(d) = Len(b) \/ b[Len(d) + 1] = "-"
        /\ \A x \in 1 .. Len(d) : d[x] = b[x] /\ b[x] # "-"
    BY <2>2, <2>3, UpToDash
  <2>5. /\ Len(d) \in Nat /\ DOMAIN d = 1 .. Len(d) /\ Len(b) \in Nat
    BY <2>2, <2>4, LenProperties
  <2>6. TitleOf(path) = [x \in 1 .. Len(d) |-> Upper(d[x])]
    BY <2>1, <2>3, <2>5 DEF TitleOf
  <2>7. Len(TitleOf(path)) = Len(d) /\ DOMAIN TitleOf(path) = 1 .. Len(d)
    <3>1. TitleOf(path) \in Seq({Upper(d[x]) : x \in 1 .. Len(d)})
      BY <2>5, <2>6, IsASeq
    <3>2. DOMAIN TitleOf(path) = 1 .. Len(TitleOf(path))
          /\ Len(TitleOf(path)) \in Nat
      BY <3>1, LenProperties
    <3> QED
      BY <2>5, <2>6, <3>2
  <2>8. ASSUME NEW x \in 1 .. Len(d)
        PROVE  /\ FileName(path)[x] # "-"
               /\ TitleOf(path)[x] = Upper(FileName(path)[x])
    <3>1. x \in 1 .. Len(b)
      BY <2>4, <2>5
    <3> QED
      BY <2>2, <2>4, <2>6, <3>1
  <2>9. Len(d) # Len(b) => Len(d) + 1 \in 1 .. Len(b)
    BY <2>4, <2>5
  <2> QED
    BY <2>2, <2>4, <2>7, <2>8, <2>9
<1>3. TitleIsFromFileName
  BY <1>2 DEF TitleIsFromFileName
<1> QED
  BY <1>1, <1>3 DEF NamesSound

(* For paths of any length over any characters: the letters asked for are  *)
(* those of the file name up to its first '-' and without its last four    *)
(* characters, and only a shorter file name makes task() throw             *)
(* (Quiz.dart:167-185).                                                    *)
THEOREM NamesAreRight == PathSpec => []NamesSound
<1>1. PathInit => path \in Seq(Char)
  BY DEF PathInit
<1>2. path \in Seq(Char) /\ [PathNext]_path => (path \in Seq(Char))'
  BY AppendProperties DEF PathNext
<1> QED
  BY <1>1, <1>2, NameOfPath, PTL DEF PathSpec

-----------------------------------------------------------------------------
(* The environment. First its limits.                                      *)

(* How one thread entering or leaving a set of threads changes its size.   *)
LEMMA Counting ==
  ASSUME NEW S \in SUBSET Threads, NEW t \in Threads
  PROVE  /\ IsFiniteSet(S) /\ Cardinality(S) \in Nat
         /\ Cardinality(S \cup {t}) \in Nat /\ Cardinality(S \ {t}) \in Nat
         /\ t \notin S => Cardinality(S \cup {t}) = Cardinality(S) + 1
         /\ t \notin S => Cardinality(S \ {t}) = Cardinality(S)
         /\ t \in S => Cardinality(S \cup {t}) = Cardinality(S)
         /\ t \in S => Cardinality(S \ {t}) = Cardinality(S) - 1
<1>1. IsFiniteSet(S)
  BY EnvConstants, FS_Subset
<1>2. IsFiniteSet(S \cup {t}) /\ IsFiniteSet(S \ {t})
  BY <1>1, FS_AddElement, FS_RemoveElement
<1>3. /\ Cardinality(S) \in Nat
      /\ Cardinality(S \cup {t}) \in Nat /\ Cardinality(S \ {t}) \in Nat
  BY <1>1, <1>2, FS_CardinalityType
<1>4. /\ t \notin S => Cardinality(S \cup {t}) = Cardinality(S) + 1
      /\ t \in S => Cardinality(S \cup {t}) = Cardinality(S)
  BY <1>1, FS_AddElement
<1>5. /\ t \notin S => Cardinality(S \ {t}) = Cardinality(S)
      /\ t \in S => Cardinality(S \ {t}) = Cardinality(S) - 1
  BY <1>1, FS_RemoveElement
<1>6. QED
  BY <1>1, <1>3, <1>4, <1>5

(* A number that counts one thread, or no longer counts it.                *)
Changes(n, n2, in, in2) ==
  /\ (in <=> in2) => n2 = n
  /\ ~in /\ in2 => n2 = n + 1
  /\ in /\ ~in2 => n2 = n - 1

(* How a step of thread t changes the number of those with a file of kind  *)
(* k, or on the way to or from one.                                        *)
LEMMA TakenCount ==
  ASSUME NEW t \in Threads,
         \A u \in Threads \ {t} : call'[u] = call[u] /\ kind'[u] = kind[u],
         NEW CONSTANT k, NEW CONSTANT pcs
  PROVE  /\ Cardinality(Taken(kind, call, k, pcs)) \in Nat
         /\ Cardinality(Taken(kind', call', k, pcs)) \in Nat
         /\ Changes(Cardinality(Taken(kind, call, k, pcs)),
                    Cardinality(Taken(kind', call', k, pcs)),
                    kind[t] = k \/ call[t] \in pcs,
                    kind'[t] = k \/ call'[t] \in pcs)
<1> DEFINE S == Taken(kind, call, k, pcs)
           T == Taken(kind', call', k, pcs)
<1>1. S \in SUBSET Threads /\ T \in SUBSET Threads
  BY DEF Taken
<1>2. t \in S <=> kind[t] = k \/ call[t] \in pcs
  BY DEF Taken
<1>3. CASE kind'[t] = k \/ call'[t] \in pcs
  <2>1. T = S \cup {t}
    BY <1>3 DEF Taken
  <2> HIDE DEF S, T
  <2>2. /\ Cardinality(S) \in Nat /\ Cardinality(T) \in Nat
        /\ t \notin S => Cardinality(T) = Cardinality(S) + 1
        /\ t \in S => Cardinality(T) = Cardinality(S)
    BY <1>1, <2>1, Counting
  <2>3. QED
    BY <1>2, <1>3, <2>2 DEF S, T, Changes
<1>4. CASE ~(kind'[t] = k \/ call'[t] \in pcs)
  <2>1. T = S \ {t}
    BY <1>4 DEF Taken
  <2> HIDE DEF S, T
  <2>2. /\ Cardinality(S) \in Nat /\ Cardinality(T) \in Nat
        /\ t \notin S => Cardinality(T) = Cardinality(S)
        /\ t \in S => Cardinality(T) = Cardinality(S) - 1
    BY <1>1, <2>1, Counting
  <2>3. QED
    BY <1>2, <1>4, <2>2 DEF S, T, Changes
<1>5. QED
  BY <1>3, <1>4

(* Every operation of a thread keeps the counters right.                   *)
LEMMA LimitsStep ==
  ASSUME LimitsInv, LimitsNext
  PROVE  LimitsInv'
<1>1. PICK t \in Threads : \/ AcquireMmap(t) \/ UndoMmap(t) \/ AcquireFd(t)
                           \/ UndoFd(t) \/ Map(t) \/ MapFails(t)
                           \/ Destroy(t) \/ Release(t)
  BY DEF LimitsNext
<1> DEFINE Calls == {"idle", "map", "undo-mmap", "no-mmap", "undo-fd",
                     "release-mmap", "release-fd"}
           Files == {"none", "mmap", "fd", "reopen"}
           Mset == {"map", "undo-mmap", "release-mmap"}
           Hset == {"map", "release-mmap"}
           Fset == {"undo-fd", "release-fd"}
           Gset == {"release-fd"}
           M  == Cardinality(Taken(kind, call, "mmap", Mset))
           M2 == Cardinality(Taken(kind', call', "mmap", Mset))
           H  == Cardinality(Taken(kind, call, "mmap", Hset))
           H2 == Cardinality(Taken(kind', call', "mmap", Hset))
           F  == Cardinality(Taken(kind, call, "fd", Fset))
           F2 == Cardinality(Taken(kind', call', "fd", Fset))
           G  == Cardinality(Taken(kind, call, "fd", Gset))
           G2 == Cardinality(Taken(kind', call', "fd", Gset))
<1>2. /\ mmaps \in Int /\ fds \in Int /\ MaxMmaps \in Nat /\ MaxOpenFiles \in Nat
      /\ mmaps = MaxMmaps - M /\ H <= MaxMmaps
      /\ fds = MaxOpenFiles - F /\ G <= MaxOpenFiles
      /\ call[t] # "idle" => kind[t] = "none"
  BY EnvConstants DEF LimitsInv
<1>3. /\ call' \in [Threads -> Calls] /\ kind' \in [Threads -> Files]
      /\ \A u \in Threads \ {t} : call'[u] = call[u] /\ kind'[u] = kind[u]
  BY <1>1 DEF LimitsInv, AcquireMmap, UndoMmap, AcquireFd, UndoFd, Map,
     MapFails, Destroy, Release, To, Becomes
<1>4. H <= M /\ G <= F
  <2>1. /\ Taken(kind, call, "mmap", Hset) \subseteq Taken(kind, call, "mmap", Mset)
        /\ Taken(kind, call, "fd", Gset) \subseteq Taken(kind, call, "fd", Fset)
    BY DEF Taken
  <2>2. /\ IsFiniteSet(Taken(kind, call, "mmap", Mset))
        /\ IsFiniteSet(Taken(kind, call, "fd", Fset))
    BY EnvConstants, FS_Subset DEF Taken
  <2>3. QED
    BY <2>1, <2>2, FS_Subset
<1>5. /\ M \in Nat /\ M2 \in Nat
      /\ Changes(M, M2, kind[t] = "mmap" \/ call[t] \in Mset,
                 kind'[t] = "mmap" \/ call'[t] \in Mset)
  BY <1>3, TakenCount DEF Changes
<1>6. /\ H \in Nat /\ H2 \in Nat
      /\ Changes(H, H2, kind[t] = "mmap" \/ call[t] \in Hset,
                 kind'[t] = "mmap" \/ call'[t] \in Hset)
  BY <1>3, TakenCount DEF Changes
<1>7. /\ F \in Nat /\ F2 \in Nat
      /\ Changes(F, F2, kind[t] = "fd" \/ call[t] \in Fset,
                 kind'[t] = "fd" \/ call'[t] \in Fset)
  BY <1>3, TakenCount DEF Changes
<1>8. /\ G \in Nat /\ G2 \in Nat
      /\ Changes(G, G2, kind[t] = "fd" \/ call[t] \in Gset,
                 kind'[t] = "fd" \/ call'[t] \in Gset)
  BY <1>3, TakenCount DEF Changes
<1>9. (call'[t] # "idle" => kind'[t] = "none")
  BY <1>1 DEF LimitsInv, AcquireMmap, UndoMmap, AcquireFd, UndoFd, Map,
     MapFails, Destroy, Release, To, Becomes
<1> SUFFICES /\ mmaps' \in Int /\ fds' \in Int
             /\ mmaps' = MaxMmaps - M2 /\ H2 <= MaxMmaps
             /\ fds' = MaxOpenFiles - F2 /\ G2 <= MaxOpenFiles
  <2>1. \A u \in Threads : call'[u] # "idle" => kind'[u] = "none"
    BY <1>3, <1>9 DEF LimitsInv
  <2>2. QED
    BY <1>3, <2>1 DEF LimitsInv
<1> HIDE DEF M, M2, H, H2, F, F2, G, G2
<1>10. call[t] \in Calls /\ kind[t] \in Files
  BY DEF LimitsInv
<1>11. CASE AcquireMmap(t)
  <2>1. /\ kind'[t] = "none" /\ kind[t] = "none" /\ call[t] = "idle"
        /\ mmaps' = mmaps - 1 /\ fds' = fds
        /\ (mmaps > 0 => call'[t] = "map")
        /\ (~(mmaps > 0) => call'[t] = "undo-mmap")
    BY <1>11 DEF AcquireMmap, To, LimitsInv
  <2>2. CASE mmaps > 0
    BY <1>2, <1>4, <1>5, <1>6, <1>7, <1>8, <2>1, <2>2 DEF Changes
  <2>3. CASE ~(mmaps > 0)
    BY <1>2, <1>4, <1>5, <1>6, <1>7, <1>8, <2>1, <2>3 DEF Changes
  <2>4. QED
    BY <2>2, <2>3
<1>12. CASE UndoMmap(t)
  <2>1. /\ kind'[t] = "none" /\ kind[t] = "none" /\ call[t] = "undo-mmap"
        /\ mmaps' = mmaps + 1 /\ fds' = fds /\ call'[t] = "no-mmap"
    BY <1>12 DEF UndoMmap, To, LimitsInv
  <2>2. QED
    BY <1>2, <1>5, <1>6, <1>7, <1>8, <2>1 DEF Changes
<1>13. CASE AcquireFd(t)
  <2>1. /\ kind[t] = "none" /\ call[t] = "no-mmap"
        /\ fds' = fds - 1 /\ mmaps' = mmaps
        /\ \/ fds > 0 /\ call'[t] = "idle" /\ kind'[t] = "fd"
           \/ fds <= 0 /\ call'[t] = "undo-fd" /\ kind'[t] = "none"
    BY <1>13 DEF AcquireFd, To, Becomes, LimitsInv
  <2>2. CASE fds > 0 /\ call'[t] = "idle" /\ kind'[t] = "fd"
    BY <1>2, <1>4, <1>5, <1>6, <1>7, <1>8, <2>1, <2>2 DEF Changes
  <2>3. CASE fds <= 0 /\ call'[t] = "undo-fd" /\ kind'[t] = "none"
    BY <1>2, <1>4, <1>5, <1>6, <1>7, <1>8, <2>1, <2>3 DEF Changes
  <2>4. QED
    BY <2>1, <2>2, <2>3
<1>14. CASE UndoFd(t)
  <2>1. /\ kind[t] = "none" /\ call[t] = "undo-fd"
        /\ fds' = fds + 1 /\ mmaps' = mmaps
        /\ call'[t] = "idle" /\ kind'[t] = "reopen"
    BY <1>14 DEF UndoFd, To, Becomes, LimitsInv
  <2>2. QED
    BY <1>2, <1>5, <1>6, <1>7, <1>8, <2>1 DEF Changes
<1>15. CASE Map(t)
  <2>1. /\ kind[t] = "none" /\ call[t] = "map" /\ mmaps' = mmaps /\ fds' = fds
        /\ call'[t] = "idle" /\ kind'[t] = "mmap"
    BY <1>15 DEF Map, To, Becomes, LimitsInv
  <2>2. QED
    BY <1>2, <1>5, <1>6, <1>7, <1>8, <2>1 DEF Changes
<1>16. CASE MapFails(t)
  <2>1. /\ kind[t] = "none" /\ call[t] = "map" /\ mmaps' = mmaps + 1
        /\ fds' = fds /\ call'[t] = "idle" /\ kind'[t] = "none"
    BY <1>16 DEF MapFails, To, LimitsInv
  <2>2. QED
    BY <1>2, <1>5, <1>6, <1>7, <1>8, <2>1 DEF Changes
<1>17. CASE Destroy(t)
  <2>1. /\ kind[t] # "none" /\ call[t] = "idle" /\ mmaps' = mmaps
        /\ fds' = fds /\ kind'[t] = "none"
        /\ (kind[t] = "mmap" => call'[t] = "release-mmap")
        /\ (kind[t] = "fd" => call'[t] = "release-fd")
        /\ (kind[t] = "reopen" => call'[t] = "idle")
    BY <1>17 DEF Destroy, To, Becomes, LimitsInv
  <2>2. QED
    BY <1>2, <1>5, <1>6, <1>7, <1>8, <1>10, <2>1 DEF Changes
<1>18. CASE Release(t)
  <2>1. /\ kind'[t] = "none" /\ kind[t] = "none" /\ call'[t] = "idle"
        /\ \/ call[t] = "release-mmap" /\ mmaps' = mmaps + 1 /\ fds' = fds
           \/ call[t] = "release-fd" /\ fds' = fds + 1 /\ mmaps' = mmaps
    BY <1>18 DEF Release, To, LimitsInv
  <2>2. QED
    BY <1>2, <1>5, <1>6, <1>7, <1>8, <2>1 DEF Changes
<1>19. QED
  BY <1>1, <1>11, <1>12, <1>13, <1>14, <1>15, <1>16, <1>17, <1>18

(* The counters give the limits.                                           *)
LEMMA LimitsFollow ==
  ASSUME LimitsInv
  PROVE  LimitsHold
<1> DEFINE Using_(k) == {t \in Threads : kind[t] = k}
           Between_(pcs) == {t \in Threads : call[t] \in pcs}
<1>1. ASSUME NEW k \in {"mmap", "fd"}, NEW pcs, "idle" \notin pcs
      PROVE  /\ Cardinality(Taken(kind, call, k, pcs)) = Using(k) + Between(pcs)
             /\ Using(k) \in Nat /\ Between(pcs) \in Nat
  <2>1. IsFiniteSet(Using_(k)) /\ IsFiniteSet(Between_(pcs))
    BY EnvConstants, FS_Subset
  <2>2. Using_(k) \cap Between_(pcs) = {}
    BY <1>1 DEF LimitsInv
  <2>3. Using_(k) \cup Between_(pcs) = Taken(kind, call, k, pcs)
    BY DEF Taken
  <2> HIDE DEF Using_, Between_
  <2>4. Cardinality(Using_(k)) \in Nat /\ Cardinality(Between_(pcs)) \in Nat
    BY <2>1, FS_CardinalityType
  <2>5. Cardinality(Taken(kind, call, k, pcs))
          = Cardinality(Using_(k)) + Cardinality(Between_(pcs)) - 0
    BY <2>1, <2>2, <2>3, FS_Union, FS_EmptySet
  <2>6. QED
    BY <2>4, <2>5 DEF Using, Between, Using_, Between_
<1> DEFINE Mset == {"map", "undo-mmap", "release-mmap"}
           Hset == {"map", "release-mmap"}
           Fset == {"undo-fd", "release-fd"}
           Gset == {"release-fd"}
<1>2. "idle" \notin Mset /\ "idle" \notin Hset /\ "idle" \notin Fset
      /\ "idle" \notin Gset
  OBVIOUS
<1>3. /\ mmaps = MaxMmaps - Cardinality(Taken(kind, call, "mmap", Mset))
      /\ Cardinality(Taken(kind, call, "mmap", Hset)) <= MaxMmaps
      /\ fds = MaxOpenFiles - Cardinality(Taken(kind, call, "fd", Fset))
      /\ Cardinality(Taken(kind, call, "fd", Gset)) <= MaxOpenFiles
  BY DEF LimitsInv
<1>4. SUFFICES /\ Using("mmap") <= MaxMmaps /\ Using("fd") <= MaxOpenFiles
               /\ mmaps = MaxMmaps - Using("mmap") - Between(Mset)
               /\ fds = MaxOpenFiles - Using("fd") - Between(Fset)
  BY DEF LimitsHold
<1> HIDE DEF Mset, Hset, Fset, Gset
<1>5. /\ Cardinality(Taken(kind, call, "mmap", Mset))
           = Using("mmap") + Between(Mset)
      /\ Cardinality(Taken(kind, call, "mmap", Hset))
           = Using("mmap") + Between(Hset)
      /\ Cardinality(Taken(kind, call, "fd", Fset))
           = Using("fd") + Between(Fset)
      /\ Cardinality(Taken(kind, call, "fd", Gset))
           = Using("fd") + Between(Gset)
      /\ Using("mmap") \in Nat /\ Using("fd") \in Nat /\ Between(Mset) \in Nat
      /\ Between(Hset) \in Nat /\ Between(Fset) \in Nat /\ Between(Gset) \in Nat
  BY <1>1, <1>2
<1>6. MaxMmaps \in Nat /\ MaxOpenFiles \in Nat
  BY EnvConstants
<1>7. QED
  BY <1>3, <1>5, <1>6

-----------------------------------------------------------------------------
(* The background thread.                                                  *)

(* One item more in a list of the first n.                                 *)
LEMMA NextInOrder ==
  ASSUME NEW n \in Nat, NEW s, s = [i \in 1 .. n |-> i]
  PROVE  Append(s, n + 1) = [i \in 1 .. n + 1 |-> i]
<1>1. s \in Seq(Nat) /\ Len(s) = n
  <2>1. s \in Seq(Nat)
    BY SeqDef
  <2>2. QED
    BY <2>1, LenProperties
<1>2. /\ Append(s, n + 1) \in Seq(Nat) /\ Len(Append(s, n + 1)) = n + 1
      /\ \A i \in 1 .. n : Append(s, n + 1)[i] = s[i]
      /\ Append(s, n + 1)[n + 1] = n + 1
  BY <1>1, AppendProperties
<1>3. Append(s, n + 1) = [i \in 1 .. n + 1 |-> Append(s, n + 1)[i]]
  BY <1>2, LenProperties
<1>4. \A i \in 1 .. n + 1 : Append(s, n + 1)[i] = i
  BY <1>2
<1>5. QED
  BY <1>3, <1>4

(* Adding to the queue adds to what is run and to be run.                  *)
LEMMA AppendLast ==
  ASSUME NEW s \in Seq(Nat), NEW q \in Seq(Nat), NEW x \in Nat
  PROVE  s \o Append(q, x) = Append(s \o q, x)
<1>1. <<x>> \in Seq(Nat) /\ s \o q \in Seq(Nat)
  BY ConcatProperties
<1>2. Append(q, x) = q \o <<x>> /\ Append(s \o q, x) = (s \o q) \o <<x>>
  BY <1>1, AppendIsConcat
<1>3. QED
  BY <1>1, <1>2, ConcatAssociative

(* Taking the first item only moves it.                                    *)
LEMMA MoveFirst ==
  ASSUME NEW s \in Seq(Nat), NEW q \in Seq(Nat), q # << >>
  PROVE  Append(s, Head(q)) \o Tail(q) = s \o q
<1>1. Head(q) \in Nat /\ Tail(q) \in Seq(Nat) /\ Len(q) \in Nat \ {0}
  BY HeadTailProperties, EmptySeq
<1>2. 1 \in 1 .. Len(q) /\ Len(q) \in 1 .. Len(q)
  BY <1>1
<1>3. SubSeq(q, 1, Len(q)) = <<q[1]>> \o SubSeq(q, 1 + 1, Len(q))
  BY <1>2, SubSeqRecursiveFirst
<1>4. q = <<Head(q)>> \o Tail(q)
  <2>1. SubSeq(q, 1, Len(q)) = q /\ Tail(q) = SubSeq(q, 2, Len(q))
    BY SubSeqFull, TailIsSubSeq
  <2>2. Head(q) = q[1] /\ 1 + 1 = 2
    OBVIOUS
  <2>3. QED
    BY <1>3, <2>1, <2>2
<1>5. Append(s, Head(q)) = s \o <<Head(q)>> /\ <<Head(q)>> \in Seq(Nat)
  BY <1>1, AppendIsConcat
<1>6. (s \o <<Head(q)>>) \o Tail(q) = s \o (<<Head(q)>> \o Tail(q))
  BY <1>1, <1>5, ConcatAssociative
<1>7. QED
  BY <1>4, <1>5, <1>6

(* Every step of the queue keeps its order and its thread awake.           *)
LEMMA WorkStep ==
  ASSUME WorkInv, WorkNext
  PROVE  WorkInv'
<1>1. /\ queue \in Seq(Nat) /\ ran \in Seq(Nat) /\ scheduled \in Nat
      /\ bg \in {"none", "start", "waiting", "signalled", "running"}
      /\ ran \o queue = [i \in 1 .. scheduled |-> i]
      /\ queue # << >> => bg \notin {"none", "waiting"}
  BY DEF WorkInv, WorkIsRun
<1>2. CASE Schedule
  <2>1. /\ scheduled' = scheduled + 1 /\ queue' = Append(queue, scheduled + 1)
        /\ ran' = ran /\ scheduled' \in Nat
    BY <1>1, <1>2 DEF Schedule
  <2>2. queue' \in Seq(Nat)
    BY <1>1, <2>1, AppendProperties
  <2>3. ran' \o queue' = [i \in 1 .. scheduled' |-> i]
    <3>1. ran' \o queue' = Append(ran \o queue, scheduled + 1)
      BY <1>1, <2>1, AppendLast
    <3>2. QED
      BY <1>1, <2>1, <3>1, NextInOrder
  <2>4. bg' \in {"start", "signalled", "running"}
    BY <1>1, <1>2 DEF Schedule, Signalled
  <2>5. QED
    BY <1>1, <2>1, <2>2, <2>3, <2>4 DEF WorkInv, WorkIsRun
<1>3. CASE Wait
  BY <1>1, <1>3 DEF Wait, WorkInv, WorkIsRun
<1>4. CASE Run
  <2>1. /\ queue # << >> /\ bg' = "running" /\ ran' = Append(ran, Head(queue))
        /\ queue' = Tail(queue) /\ scheduled' = scheduled
    BY <1>4 DEF Run
  <2>2. queue' \in Seq(Nat) /\ ran' \in Seq(Nat)
    BY <1>1, <2>1, HeadTailProperties, AppendProperties
  <2>3. ran' \o queue' = ran \o queue
    BY <1>1, <2>1, MoveFirst
  <2>4. QED
    BY <1>1, <2>1, <2>2, <2>3 DEF WorkInv, WorkIsRun
<1>5. QED
  BY <1>2, <1>3, <1>4 DEF WorkNext

-----------------------------------------------------------------------------
(* The file: sequences.                                                    *)

(* p is a beginning of q.                                                  *)
Starts(p, q) == Len(p) <= Len(q) /\ \A i \in 1 .. Len(p) : p[i] = q[i]

(* s grows from place to place, up to a.                                   *)
Rising(s, a) ==
  /\ \A i, j \in DOMAIN s : i < j => s[i] < s[j]
  /\ \A i \in DOMAIN s : s[i] <= a

(* The places of a concatenation.                                          *)
LEMMA ConcatAt ==
  ASSUME NEW s \in Seq(Nat), NEW t \in Seq(Nat)
  PROVE  /\ s \o t \in Seq(Nat) /\ Len(s \o t) = Len(s) + Len(t)
         /\ Len(s) \in Nat /\ Len(t) \in Nat
         /\ DOMAIN (s \o t) = 1 .. Len(s) + Len(t)
         /\ \A i \in 1 .. Len(s) : (s \o t)[i] = s[i]
         /\ \A j \in 1 .. Len(t) : (s \o t)[Len(s) + j] = t[j]
         /\ \A i \in 1 .. Len(s) + Len(t) :
              i \in 1 .. Len(s) \/ \E j \in 1 .. Len(t) : i = Len(s) + j
<1>1. /\ s \o t \in Seq(Nat) /\ Len(s \o t) = Len(s) + Len(t)
      /\ \A i \in 1 .. Len(s) + Len(t) :
           (s \o t)[i] = IF i <= Len(s) THEN s[i] ELSE t[i - Len(s)]
  BY ConcatProperties
<1>2. Len(s) \in Nat /\ Len(t) \in Nat /\ DOMAIN (s \o t) = 1 .. Len(s) + Len(t)
  BY <1>1, LenProperties
<1>3. ASSUME NEW i \in 1 .. Len(s) PROVE (s \o t)[i] = s[i]
  <2>1. i \in 1 .. Len(s) + Len(t) /\ i <= Len(s)
    BY <1>2
  <2>2. QED
    BY <1>1, <2>1
<1>4. ASSUME NEW j \in 1 .. Len(t) PROVE (s \o t)[Len(s) + j] = t[j]
  <2>1. Len(s) + j \in 1 .. Len(s) + Len(t) /\ ~(Len(s) + j <= Len(s))
        /\ Len(s) + j - Len(s) = j
    BY <1>2
  <2>2. QED
    BY <1>1, <2>1
<1>5. ASSUME NEW i \in 1 .. Len(s) + Len(t), i \notin 1 .. Len(s)
      PROVE  \E j \in 1 .. Len(t) : i = Len(s) + j
  <2>1. i - Len(s) \in 1 .. Len(t) /\ i = Len(s) + (i - Len(s))
    BY <1>2, <1>5
  <2>2. QED
    BY <2>1
<1>6. QED
  BY <1>1, <1>2, <1>3, <1>4, <1>5

(* The bytes of one call of Append.                                        *)
LEMMA BytesSeq ==
  ASSUME NEW a \in Nat, NEW n \in Nat
  PROVE  /\ Bytes(a, n) \in Seq(Nat) /\ Len(Bytes(a, n)) = n
         /\ \A i \in 1 .. n : Bytes(a, n)[i] = a + i
<1>1. Bytes(a, n) \in [1 .. n -> Nat]
  BY DEF Bytes
<1>2. Bytes(a, n) \in Seq(Nat)
  BY <1>1, SeqDef
<1>3. DOMAIN Bytes(a, n) = 1 .. n
  BY DEF Bytes
<1>4. Len(Bytes(a, n)) = n
  BY <1>2, <1>3, LenProperties
<1>5. QED
  BY <1>2, <1>4 DEF Bytes

(* They follow on those appended before.                                   *)
LEMMA BytesJoin ==
  ASSUME NEW a \in Nat, NEW n \in Nat
  PROVE  Bytes(0, a) \o Bytes(a, n) = Bytes(0, a + n)
<1> DEFINE s == Bytes(0, a)
           t == Bytes(a, n)
           u == Bytes(0, a + n)
<1>1. /\ s \in Seq(Nat) /\ Len(s) = a /\ \A i \in 1 .. a : s[i] = 0 + i
      /\ t \in Seq(Nat) /\ Len(t) = n /\ \A i \in 1 .. n : t[i] = a + i
      /\ u \in Seq(Nat) /\ Len(u) = a + n /\ \A i \in 1 .. a + n : u[i] = 0 + i
  <2>1. 0 \in Nat /\ a + n \in Nat
    OBVIOUS
  <2>2. s \in Seq(Nat) /\ Len(s) = a /\ \A i \in 1 .. a : s[i] = 0 + i
    BY <2>1, BytesSeq
  <2>3. t \in Seq(Nat) /\ Len(t) = n /\ \A i \in 1 .. n : t[i] = a + i
    BY BytesSeq
  <2> DEFINE b == a + n
  <2>4. u \in Seq(Nat) /\ Len(u) = b /\ \A i \in 1 .. b : u[i] = 0 + i
    <3> HIDE DEF b
    <3>1. Bytes(0, b) \in Seq(Nat) /\ Len(Bytes(0, b)) = b
          /\ \A i \in 1 .. b : Bytes(0, b)[i] = 0 + i
      BY <2>1, BytesSeq DEF b
    <3>2. u = Bytes(0, b)
      BY DEF b
    <3>3. QED
      BY <3>1, <3>2
  <2>5. QED
    BY <2>2, <2>3, <2>4
<1> HIDE DEF s, t, u
<1>2. /\ s \o t \in Seq(Nat) /\ Len(s \o t) = a + n
      /\ \A i \in 1 .. a : (s \o t)[i] = s[i]
      /\ \A j \in 1 .. n : (s \o t)[a + j] = t[j]
      /\ \A i \in 1 .. a + n : i \in 1 .. a \/ \E j \in 1 .. n : i = a + j
  <2>1. /\ s \o t \in Seq(Nat) /\ Len(s \o t) = Len(s) + Len(t)
        /\ \A i \in 1 .. Len(s) : (s \o t)[i] = s[i]
        /\ \A j \in 1 .. Len(t) : (s \o t)[Len(s) + j] = t[j]
        /\ \A i \in 1 .. Len(s) + Len(t) :
             i \in 1 .. Len(s) \/ \E j \in 1 .. Len(t) : i = Len(s) + j
    BY <1>1, ConcatAt
  <2>2. QED
    BY <1>1, <2>1
<1>3. ASSUME NEW i \in 1 .. a + n PROVE (s \o t)[i] = u[i]
  <2>1. u[i] = i
    BY <1>1
  <2>2. CASE i \in 1 .. a
    BY <1>1, <1>2, <2>1, <2>2
  <2>3. ASSUME NEW j \in 1 .. n, i = a + j PROVE (s \o t)[i] = u[i]
    BY <1>1, <1>2, <2>1, <2>3
  <2>4. QED
    BY <1>2, <2>2, <2>3
<1>4. s \o t = u
  <2>1. \A i \in 1 .. Len(s \o t) : (s \o t)[i] = u[i]
    BY <1>2, <1>3
  <2>2. s \o t \in Seq(Nat) /\ u \in Seq(Nat) /\ Len(s \o t) = Len(u)
    BY <1>1, <1>2
  <2>3. QED
    BY <2>1, <2>2, SeqEqual, Zenon
<1>5. QED
  BY <1>4 DEF s, t, u

(* New bytes go on rising.                                                 *)
LEMMA RisingOn ==
  ASSUME NEW s \in Seq(Nat), NEW a \in Nat, NEW n \in Nat, Rising(s, a)
  PROVE  Rising(s \o Bytes(a, n), a + n)
<1> DEFINE t == Bytes(a, n)
<1>1. t \in Seq(Nat) /\ Len(t) = n /\ \A i \in 1 .. n : t[i] = a + i
  BY BytesSeq
<1> HIDE DEF t
<1>2. /\ s \o t \in Seq(Nat) /\ DOMAIN (s \o t) = 1 .. Len(s) + n
      /\ Len(s) \in Nat
      /\ \A i \in 1 .. Len(s) : (s \o t)[i] = s[i]
      /\ \A j \in 1 .. n : (s \o t)[Len(s) + j] = t[j]
      /\ \A i \in 1 .. Len(s) + n :
           i \in 1 .. Len(s) \/ \E j \in 1 .. n : i = Len(s) + j
  BY <1>1, ConcatAt
<1>3. DOMAIN s = 1 .. Len(s) /\ \A i \in 1 .. Len(s) : s[i] \in Nat /\ s[i] <= a
  BY LenProperties DEF Rising
<1>4. \A j \in 1 .. n : (s \o t)[Len(s) + j] = a + j
  BY <1>1, <1>2
<1>5. ASSUME NEW i \in 1 .. Len(s) + n PROVE (s \o t)[i] <= a + n
  <2>1. CASE i \in 1 .. Len(s)
    <3>1. (s \o t)[i] = s[i] /\ s[i] \in Nat /\ s[i] <= a
      BY <1>2, <1>3, <2>1
    <3>2. QED
      BY <3>1
  <2>2. ASSUME NEW j \in 1 .. n, i = Len(s) + j PROVE (s \o t)[i] <= a + n
    <3>1. (s \o t)[i] = a + j
      BY <1>4, <2>2, Zenon
    <3>2. j <= n /\ j \in Nat
      OBVIOUS
    <3>3. a + j <= a + n
      BY <3>2
    <3>4. QED
      BY <3>1, <3>3
  <2>3. QED
    BY <1>2, <2>1, <2>2
<1>6. ASSUME NEW i \in 1 .. Len(s) + n, NEW j \in 1 .. Len(s) + n, i < j
      PROVE  (s \o t)[i] < (s \o t)[j]
  <2>1. CASE j \in 1 .. Len(s)
    <3>1. i \in 1 .. Len(s)
      BY <1>2, <1>6, <2>1
    <3>2. s[i] < s[j]
      BY <1>3, <1>6, <2>1, <3>1 DEF Rising
    <3>3. QED
      BY <1>2, <2>1, <3>1, <3>2
  <2>2. ASSUME NEW l \in 1 .. n, j = Len(s) + l
        PROVE  (s \o t)[i] < (s \o t)[j]
    <3>1. (s \o t)[j] = a + l
      BY <1>4, <2>2
    <3>2. CASE i \in 1 .. Len(s)
      <4>1. (s \o t)[i] = s[i] /\ s[i] \in Nat /\ s[i] <= a
        BY <1>2, <1>3, <3>2
      <4>2. QED
        BY <3>1, <4>1
    <3>3. ASSUME NEW k \in 1 .. n, i = Len(s) + k
          PROVE  (s \o t)[i] < (s \o t)[j]
      <4>1. (s \o t)[i] = a + k /\ k < l
        BY <1>2, <1>4, <1>6, <2>2, <3>3
      <4>2. QED
        BY <3>1, <4>1
    <3>4. QED
      BY <1>2, <3>2, <3>3
  <2>3. QED
    BY <1>2, <2>1, <2>2
<1>7. Rising(s \o t, a + n)
  BY <1>2, <1>5, <1>6 DEF Rising
<1>8. QED
  BY <1>7 DEF t

(* A beginning of what rises rises.                                        *)
LEMMA RisingStart ==
  ASSUME NEW p \in Seq(Nat), NEW q \in Seq(Nat), Starts(p, q),
         NEW a, Rising(q, a)
  PROVE  Rising(p, a)
<1>1. DOMAIN p = 1 .. Len(p) /\ DOMAIN q = 1 .. Len(q)
      /\ Len(p) \in Nat /\ Len(q) \in Nat
  BY LenProperties
<1>2. \A i \in 1 .. Len(p) : i \in 1 .. Len(q) /\ p[i] = q[i]
  BY <1>1 DEF Starts
<1>3. QED
  BY <1>1, <1>2 DEF Rising

(* A part of what is to be written is a beginning of all of it.            *)
LEMMA CutStarts ==
  ASSUME NEW b \in Seq(Nat), NEW d \in Seq(Nat), NEW k \in Nat, k <= Len(d)
  PROVE  /\ SubSeq(d, 1, k) \in Seq(Nat) /\ Len(SubSeq(d, 1, k)) = k
         /\ b \o SubSeq(d, 1, k) \in Seq(Nat)
         /\ Starts(b \o SubSeq(d, 1, k), b \o d)
<1> DEFINE c == SubSeq(d, 1, k)
<1>1. /\ Len(d) \in Nat /\ Len(b) \in Nat /\ 1 \in Int /\ k \in Int
      /\ \A i \in 1 .. k : i \in 1 .. Len(d) /\ d[i] \in Nat
  BY LenProperties
<1>2. /\ c \in Seq(Nat) /\ Len(c) = IF 1 <= k THEN k - 1 + 1 ELSE 0
      /\ \A i \in 1 .. k - 1 + 1 : c[i] = d[1 + i - 1]
  BY <1>1, SubSeqProperties
<1> HIDE DEF c
<1>3. Len(c) = k /\ \A i \in 1 .. k : c[i] = d[i]
  <2>1. CASE k = 0
    BY <1>2, <2>1
  <2>2. CASE k > 0
    BY <1>2, <2>2
  <2>3. QED
    BY <2>1, <2>2
<1>4. /\ b \o c \in Seq(Nat) /\ Len(b \o c) = Len(b) + k
      /\ \A i \in 1 .. Len(b) : (b \o c)[i] = b[i]
      /\ \A j \in 1 .. k : (b \o c)[Len(b) + j] = c[j]
      /\ \A i \in 1 .. Len(b) + k :
           i \in 1 .. Len(b) \/ \E j \in 1 .. k : i = Len(b) + j
  BY <1>2, <1>3, ConcatAt
<1>5. /\ Len(b \o d) = Len(b) + Len(d)
      /\ \A i \in 1 .. Len(b) : (b \o d)[i] = b[i]
      /\ \A j \in 1 .. Len(d) : (b \o d)[Len(b) + j] = d[j]
  BY ConcatAt
<1>6. ASSUME NEW i \in 1 .. Len(b) + k PROVE (b \o c)[i] = (b \o d)[i]
  <2>1. CASE i \in 1 .. Len(b)
    BY <1>4, <1>5, <2>1
  <2>2. ASSUME NEW j \in 1 .. k, i = Len(b) + j
        PROVE  (b \o c)[i] = (b \o d)[i]
    BY <1>1, <1>3, <1>4, <1>5, <2>2
  <2>3. QED
    BY <1>4, <2>1, <2>2
<1>7. Starts(b \o c, b \o d)
  <2>1. Len(b \o c) = Len(b) + k /\ Len(b \o c) <= Len(b \o d)
    BY <1>1, <1>4, <1>5
  <2>2. \A i \in 1 .. Len(b \o c) : (b \o c)[i] = (b \o d)[i]
    BY <1>6, <2>1
  <2>3. QED
    BY <2>1, <2>2 DEF Starts
<1>8. QED
  BY <1>2, <1>3, <1>4, <1>7 DEF c

(* So is one of anything longer.                                           *)
LEMMA StartsLonger ==
  ASSUME NEW p \in Seq(Nat), NEW q \in Seq(Nat), NEW z \in Seq(Nat),
         Starts(p, q)
  PROVE  Starts(p, q \o z)
<1>1. Len(p) \in Nat /\ Len(q) \in Nat /\ Len(z) \in Nat
  BY LenProperties
<1>2. /\ Len(q \o z) = Len(q) + Len(z)
      /\ \A i \in 1 .. Len(q) : (q \o z)[i] = q[i]
  BY ConcatAt
<1>3. \A i \in 1 .. Len(p) : i \in 1 .. Len(q) /\ p[i] = q[i]
  BY <1>1 DEF Starts
<1>4. QED
  BY <1>1, <1>2, <1>3 DEF Starts

-----------------------------------------------------------------------------
(* The file: its operations.                                               *)

(* What one call writes and keeps is all that was there and was given, or  *)
(* a beginning of it if the call failed.                                   *)
Takes(data) ==
  /\ written' \in Seq(Nat) /\ buf' \in Seq(Nat) /\ failed' \in BOOLEAN
  /\ Len(buf') <= BufferBytes
  /\ Starts(written' \o buf', (written \o buf) \o data)
  /\ ~failed' => ~failed /\ written' \o buf' = (written \o buf) \o data

(* Every list starts with itself.                                          *)
LEMMA StartsSelf ==
  ASSUME NEW p \in Seq(Nat)
  PROVE  Starts(p, p)
BY LenProperties DEF Starts

(* The order of concatenating does not matter.                             *)
LEMMA Associative ==
  ASSUME NEW s \in Seq(Nat), NEW t \in Seq(Nat), NEW u \in Seq(Nat)
  PROVE  (s \o t) \o u = s \o (t \o u)
BY ConcatAssociative, SMTT(30)

(* What fits into the buffer and the rest.                                 *)
LEMMA FullRest ==
  ASSUME FileInv, NEW data \in Seq(Nat)
  PROVE  /\ Full(data) \in Seq(Nat) /\ Rest(data) \in Seq(Nat)
         /\ Len(Full(data)) \in Nat /\ Len(Full(data)) <= BufferBytes
         /\ Full(data) \o Rest(data) = buf \o data
         /\ (written \o buf) \o data = written \o (Full(data) \o Rest(data))
<1> DEFINE k == Min2(Len(data), BufferBytes - Len(buf))
<1>1. /\ buf \in Seq(Nat) /\ written \in Seq(Nat) /\ Len(buf) \in Nat
      /\ Len(data) \in Nat /\ BufferBytes \in Nat /\ Len(buf) <= BufferBytes
  BY EnvConstants, LenProperties DEF FileInv
<1>2. k \in Nat /\ k <= Len(data) /\ Len(buf) + k <= BufferBytes
  BY <1>1 DEF Min2
<1> HIDE DEF k
<1>3. SubSeq(data, 1, k) \in Seq(Nat) /\ Len(SubSeq(data, 1, k)) = k
  BY <1>1, <1>2, CutStarts
<1>4. SubSeq(data, k + 1, Len(data)) \in Seq(Nat)
  <2>1. k + 1 \in Int /\ Len(data) \in Int
        /\ \A i \in k + 1 .. Len(data) : i \in 1 .. Len(data)
    BY <1>1, <1>2
  <2>2. \A i \in k + 1 .. Len(data) : data[i] \in Nat
    BY <2>1, LenProperties
  <2>3. QED
    BY <2>1, <2>2, SubSeqProperties
<1>5. SubSeq(data, 1, k) \o SubSeq(data, k + 1, Len(data)) = data
  <2>1. 1 \in 1 .. Len(data) + 1 /\ k \in 1 - 1 .. Len(data)
        /\ Len(data) \in k .. Len(data)
    BY <1>1, <1>2
  <2>2. SubSeq(data, 1, k) \o SubSeq(data, k + 1, Len(data))
          = SubSeq(data, 1, Len(data))
    BY <2>1, ConcatAdjacentSubSeq
  <2>3. QED
    BY <2>2, SubSeqFull
<1>6. /\ Full(data) = buf \o SubSeq(data, 1, k)
      /\ Rest(data) = SubSeq(data, k + 1, Len(data))
  BY DEF Full, Rest, k
<1>7. Full(data) \in Seq(Nat) /\ Len(Full(data)) = Len(buf) + k
  BY <1>1, <1>3, <1>6, ConcatProperties
<1>8. Full(data) \o Rest(data) = buf \o data
  <2> DEFINE A == SubSeq(data, 1, k)
             B == SubSeq(data, k + 1, Len(data))
  <2>1. A \in Seq(Nat) /\ B \in Seq(Nat) /\ A \o B = data
    BY <1>3, <1>4, <1>5
  <2>2. Full(data) = buf \o A /\ Rest(data) = B
    BY <1>6
  <2> HIDE DEF A, B
  <2>3. (buf \o A) \o B = buf \o (A \o B)
    <3>1. buf \in Seq(Nat) /\ A \in Seq(Nat) /\ B \in Seq(Nat)
      BY <1>1, <2>1
    <3>2. QED
      BY <3>1, Associative, Zenon
  <2>4. QED
    BY <2>1, <2>2, <2>3
<1>9. (written \o buf) \o data = written \o (buf \o data)
  BY <1>1, Associative, Zenon
<1>10. Len(Full(data)) \in Nat /\ Len(Full(data)) <= BufferBytes
  BY <1>1, <1>2, <1>7
<1>11. QED
  BY <1>4, <1>6, <1>7, <1>8, <1>9, <1>10

(* Append, in each of its ways.                                            *)
LEMMA AppendTakes ==
  ASSUME FileInv, NEW data \in Seq(Nat),
         \/ AppendFits(data) \/ AppendFlushes(data) \/ AppendDirect(data)
         \/ \E n \in 0 .. MaxBytes : AppendFails(data, n) \/ DirectFails(data, n)
  PROVE  Takes(data)
<1> DEFINE F == Full(data)
           R == Rest(data)
           all == (written \o buf) \o data
<1>1. /\ F \in Seq(Nat) /\ R \in Seq(Nat) /\ Len(F) \in Nat
      /\ Len(F) <= BufferBytes /\ all = written \o (F \o R)
  BY FullRest
<1>2. written \in Seq(Nat) /\ buf \in Seq(Nat) /\ failed \in BOOLEAN
      /\ BufferBytes \in Nat
  BY EnvConstants DEF FileInv
<1>3. Len(R) \in Nat /\ F \o R \in Seq(Nat) /\ Len(F \o R) = Len(F) + Len(R)
      /\ written \o F \in Seq(Nat) /\ written \o (F \o R) \in Seq(Nat)
  BY <1>1, <1>2, ConcatProperties, LenProperties
<1>4. << >> \in Seq(Nat) /\ Len(<< >>) = 0 /\ 0 <= BufferBytes
      /\ \A p \in Seq(Nat) : p \o << >> = p
  BY <1>2, EmptySeq, ConcatEmptySeq
<1>5. (written \o F) \o R = all /\ Starts(all, all)
  <2>1. Starts(all, all)
    BY <1>1, <1>3, StartsSelf
  <2> HIDE DEF F, R, all
  <2>2. (written \o F) \o R = written \o (F \o R)
    <3>1. written \in Seq(Nat) /\ F \in Seq(Nat) /\ R \in Seq(Nat)
      BY <1>1, <1>2
    <3>2. QED
      BY <3>1, Associative, Zenon
  <2>3. QED
    BY <1>1, <2>1, <2>2
<1>6. CASE AppendFits(data)
  <2>1. R = << >> /\ buf' = F /\ written' = written /\ failed' = failed
    BY <1>6 DEF AppendFits
  <2>2. written' \o buf' = all
    BY <1>1, <1>4, <2>1
  <2>3. failed' \in BOOLEAN
    BY <1>2, <2>1, Zenon
  <2>4. QED
    BY <1>1, <1>2, <1>5, <2>1, <2>2, <2>3 DEF Takes
<1>7. CASE AppendFlushes(data)
  <2>1. /\ Len(R) < BufferBytes /\ buf' = R /\ failed' = failed
        /\ written' = written \o SubSeq(F, 1, Len(F))
    BY <1>7 DEF AppendFlushes, Unbuffered
  <2>2. written' = written \o F
    BY <1>1, <2>1, SubSeqFull
  <2>3. written' \o buf' = all
    BY <1>5, <2>1, <2>2
  <2>4. failed' \in BOOLEAN
    BY <1>2, <2>1, Zenon
  <2>5. Len(buf') <= BufferBytes
    BY <1>2, <1>3, <2>1
  <2>6. QED
    BY <1>1, <1>3, <1>5, <2>1, <2>2, <2>3, <2>4, <2>5 DEF Takes
<1>8. CASE AppendDirect(data)
  <2>1. /\ buf' = << >> /\ failed' = failed
        /\ written' = written \o SubSeq(F \o R, 1, Len(F) + Len(R))
    BY <1>8 DEF AppendDirect, Unbuffered
  <2>2. written' = all
    BY <1>1, <1>3, <2>1, SubSeqFull
  <2>3. failed' \in BOOLEAN
    BY <1>2, <2>1, Zenon
  <2>4. written' \in Seq(Nat) /\ written' \o buf' = all
    BY <1>1, <1>3, <1>4, <2>1, <2>2
  <2>5. QED
    BY <1>4, <1>5, <2>1, <2>3, <2>4 DEF Takes
<1>9. ASSUME NEW n \in 0 .. MaxBytes, AppendFails(data, n) PROVE Takes(data)
  <2>1. /\ buf' = << >> /\ failed' = TRUE /\ n < Len(F)
        /\ written' = written \o SubSeq(F, 1, n)
    BY <1>9 DEF AppendFails, Unbuffered
  <2>2. n \in Nat /\ n <= Len(F)
    BY <1>1, <2>1
  <2>3. written' \in Seq(Nat) /\ Starts(written', written \o F)
    BY <1>1, <1>2, <2>1, <2>2, CutStarts
  <2>4. Starts(written', (written \o F) \o R)
    BY <1>1, <1>3, <2>3, StartsLonger
  <2>5. written' \o buf' = written'
    BY <1>4, <2>1, <2>3
  <2>6. QED
    BY <1>4, <1>5, <2>1, <2>3, <2>4, <2>5 DEF Takes
<1>10. ASSUME NEW n \in 0 .. MaxBytes, DirectFails(data, n) PROVE Takes(data)
  <2>1. /\ buf' = << >> /\ failed' = TRUE /\ n < Len(R)
        /\ written' = written \o SubSeq(F \o R, 1, Len(F) + n)
    BY <1>10 DEF DirectFails, Unbuffered
  <2>2. Len(F) + n \in Nat /\ Len(F) + n <= Len(F \o R)
    BY <1>1, <1>3, <2>1
  <2>3. written' \in Seq(Nat) /\ Starts(written', all)
    BY <1>1, <1>2, <1>3, <2>1, <2>2, CutStarts
  <2>4. written' \o buf' = written'
    BY <1>4, <2>1, <2>3
  <2>5. QED
    BY <1>4, <2>1, <2>3, <2>4 DEF Takes
<1>11. QED
  BY <1>6, <1>7, <1>8, <1>9, <1>10

(* Flush.                                                                  *)
LEMMA FlushTakes ==
  ASSUME FileInv, Flush
  PROVE  Takes(<< >>)
<1>1. PICK n \in 0 .. Len(buf) :
        /\ written' = written \o SubSeq(buf, 1, n)
        /\ failed' = (failed \/ n < Len(buf))
  BY DEF Flush, Unbuffered
<1>2. written \in Seq(Nat) /\ buf \in Seq(Nat) /\ failed \in BOOLEAN
      /\ BufferBytes \in Nat /\ Len(buf) \in Nat /\ buf' = << >>
  BY EnvConstants, LenProperties DEF FileInv, Flush
<1>3. n \in Nat /\ n <= Len(buf)
  BY <1>2
<1>4. /\ written' \in Seq(Nat) /\ Starts(written', written \o buf)
      /\ written \o buf \in Seq(Nat)
  BY <1>1, <1>2, <1>3, CutStarts, ConcatProperties
<1>5. << >> \in Seq(Nat) /\ Len(<< >>) = 0 /\ 0 <= BufferBytes
      /\ \A p \in Seq(Nat) : p \o << >> = p
  BY <1>2, EmptySeq, ConcatEmptySeq
<1>6. written' \o buf' = written' /\ (written \o buf) \o << >> = written \o buf
  BY <1>2, <1>4, <1>5
<1>7. failed' \in BOOLEAN
  BY <1>1, Zenon
<1>8. ~failed' => ~failed /\ written' = written \o buf
  <2>1. SUFFICES ASSUME ~failed' PROVE ~failed /\ written' = written \o buf
    OBVIOUS
  <2>2. ~failed /\ ~(n < Len(buf))
    BY <1>1, <2>1
  <2>3. n = Len(buf)
    BY <1>2, <1>3, <2>2
  <2>4. QED
    BY <1>1, <1>2, <2>2, <2>3, SubSeqFull
<1>9. QED
  BY <1>2, <1>4, <1>5, <1>6, <1>7, <1>8 DEF Takes

(* Every call keeps the bytes in order.                                    *)
LEMMA FileStep ==
  ASSUME FileInv, FileNext
  PROVE  FileInv'
<1>1. PICK n \in Nat : appended' = appended + n /\ Takes(Bytes(appended, n))
  <2>1. appended \in Nat /\ Sizes \subseteq Nat
    BY EnvConstants DEF FileInv
  <2>2. ASSUME NEW n \in Sizes, AppendNext(n)
        PROVE  appended' = appended + n /\ Takes(Bytes(appended, n))
    <3>1. Bytes(appended, n) \in Seq(Nat)
      BY <2>1, BytesSeq
    <3>2. QED
      BY <2>2, <3>1, AppendTakes DEF AppendNext
  <2>3. ASSUME Flush PROVE appended' = appended + 0 /\ Takes(Bytes(appended, 0))
    <3>1. Bytes(appended, 0) = << >>
      BY DEF Bytes
    <3>2. appended' = appended + 0
      BY <2>1, <2>3 DEF Flush
    <3>3. QED
      BY <2>3, <3>1, <3>2, FlushTakes
  <2>4. QED
    BY <2>1, <2>2, <2>3 DEF FileNext
<1> DEFINE W  == written \o buf
           W2 == written' \o buf'
<1>2. /\ written \in Seq(Nat) /\ buf \in Seq(Nat) /\ appended \in Nat
      /\ W \in Seq(Nat) /\ Rising(W, appended)
      /\ ~failed => W = Bytes(0, appended)
  BY ConcatProperties DEF FileInv, FileKeepsOrder, Rising
<1>3. /\ written' \in Seq(Nat) /\ buf' \in Seq(Nat) /\ failed' \in BOOLEAN
      /\ Len(buf') <= BufferBytes
      /\ Starts(W2, W \o Bytes(appended, n))
      /\ ~failed' => ~failed /\ W2 = W \o Bytes(appended, n)
  BY <1>1 DEF Takes
<1>4. W2 \in Seq(Nat) /\ appended' \in Nat
  BY <1>1, <1>2, <1>3, ConcatProperties
<1>5. W \o Bytes(appended, n) \in Seq(Nat)
  BY <1>2, BytesSeq, ConcatProperties
<1> HIDE DEF W, W2
<1>6. Rising(W2, appended')
  <2>1. Rising(W \o Bytes(appended, n), appended + n)
    BY <1>2, RisingOn
  <2>2. QED
    BY <1>1, <1>3, <1>4, <1>5, <2>1, RisingStart
<1>7. ~failed' => W2 = Bytes(0, appended')
  BY <1>1, <1>2, <1>3, BytesJoin
<1>8. QED
  BY <1>3, <1>4, <1>6, <1>7 DEF FileInv, FileKeepsOrder, Rising, W, W2

-----------------------------------------------------------------------------
(* The theorem.                                                            *)

(* At first nothing is taken, scheduled or written.                        *)
LEMMA InitOK == EnvInit => EnvInv
<1> SUFFICES ASSUME EnvInit PROVE EnvInv
  OBVIOUS
<1>1. LimitsInv
  <2>1. /\ mmaps = MaxMmaps /\ fds = MaxOpenFiles
        /\ \A t \in Threads : call[t] = "idle" /\ kind[t] = "none"
        /\ call \in [Threads -> {"idle"}] /\ kind \in [Threads -> {"none"}]
    BY DEF EnvInit
  <2>2. /\ Taken(kind, call, "mmap", {"map", "undo-mmap", "release-mmap"}) = {}
        /\ Taken(kind, call, "mmap", {"map", "release-mmap"}) = {}
        /\ Taken(kind, call, "fd", {"undo-fd", "release-fd"}) = {}
        /\ Taken(kind, call, "fd", {"release-fd"}) = {}
    BY <2>1 DEF Taken
  <2>3. Cardinality({}) = 0 /\ MaxMmaps \in Nat /\ MaxOpenFiles \in Nat
    BY EnvConstants, FS_EmptySet
  <2>4. /\ mmaps = MaxMmaps - Cardinality({}) /\ Cardinality({}) <= MaxMmaps
        /\ fds = MaxOpenFiles - Cardinality({}) /\ Cardinality({}) <= MaxOpenFiles
        /\ mmaps \in Int /\ fds \in Int
    BY <2>1, <2>3
  <2>5. /\ call \in [Threads -> {"idle", "map", "undo-mmap", "no-mmap",
                                 "undo-fd", "release-mmap", "release-fd"}]
        /\ kind \in [Threads -> {"none", "mmap", "fd", "reopen"}]
    BY <2>1
  <2>6. QED
    BY <2>1, <2>2, <2>4, <2>5 DEF LimitsInv
<1>2. << >> \in Seq(Nat) /\ Len(<< >>) = 0 /\ << >> \o << >> = << >>
  BY EmptySeq, ConcatEmptySeq
<1>3. DOMAIN << >> = {} /\ [i \in 1 .. 0 |-> i] = << >> /\ Bytes(0, 0) = << >>
  BY DEF Bytes
<1>4. WorkInv
  BY <1>2, <1>3 DEF EnvInit, WorkInv, WorkIsRun
<1>5. failed \in BOOLEAN
  BY Zenon DEF EnvInit
<1>6. FileInv
  BY EnvConstants, <1>2, <1>3, <1>5 DEF EnvInit, FileInv, FileKeepsOrder
<1>7. QED
  BY <1>1, <1>4, <1>6 DEF EnvInv

(* Whatever the callers of the environment interleave, and whatever fails, *)
(* EnvInv holds.                                                           *)
THEOREM EnvInvariant ==
  EnvSpec => []EnvInv
<1>1. EnvInv /\ [EnvNext]_envVars => EnvInv'
  <2> SUFFICES ASSUME EnvInv, [EnvNext]_envVars PROVE EnvInv'
    OBVIOUS
  <2>1. LimitsInv /\ UNCHANGED limits => LimitsInv'
    BY DEF LimitsInv, limits
  <2>2. WorkInv /\ UNCHANGED work => WorkInv'
    BY DEF WorkInv, WorkIsRun, work
  <2>3. FileInv /\ UNCHANGED file => FileInv'
    BY DEF FileInv, FileKeepsOrder, file
  <2>4. LimitsNext => LimitsInv'
    BY LimitsStep DEF EnvInv
  <2>5. WorkNext => WorkInv'
    BY WorkStep DEF EnvInv
  <2>6. FileNext => FileInv'
    BY FileStep DEF EnvInv
  <2>7. QED
    BY <2>1, <2>2, <2>3, <2>4, <2>5, <2>6 DEF EnvInv, EnvNext, Choose, envVars
<1>2. EnvInit => EnvInv
  BY InitOK
<1>3. QED
  BY <1>1, <1>2, PTL DEF EnvSpec

(* The limits on mapped and open files hold, the background thread runs    *)
(* every item in order and never sleeps on work, and a file keeps the      *)
(* order of what is appended (env_posix.cc:66-94, 262-340, 504-534,        *)
(* 761-802).                                                               *)
THEOREM SharedSafely ==
  EnvSpec => []EnvSound
<1>1. EnvInv => EnvSound
  BY LimitsFollow DEF EnvInv, WorkInv, FileInv, EnvSound
<1>2. EnvSpec => []EnvInv
  BY EnvInvariant
<1>3. QED
  BY <1>1, <1>2, PTL

-----------------------------------------------------------------------------
(* The cache: counts, lists, table and usage agree.                        *)

(* A set of naturals that is not empty has a least one.                    *)
LEMMA LeastOf ==
  ASSUME NEW T \in SUBSET Nat, T # {}
  PROVE  \E x \in T : \A y \in T : x <= y
<1> DEFINE R == {ss \in Nat \X Nat : ss[1] < ss[2]}
<1>0. IsWellFoundedOn(R, Nat)
  BY NatLessThanWellFounded, Zenon DEF OpToRel
<1>1. \A a, b \in Nat : a < b => <<a, b>> \in R
  OBVIOUS
<1> HIDE DEF R
<1>2. PICK x \in T : \A y \in T : ~(<<y, x>> \in R)
  BY <1>0, WFMin
<1>3. ASSUME NEW y \in T PROVE x <= y
  <2>1. x \in Nat /\ y \in Nat /\ ~(<<y, x>> \in R)
    BY <1>2
  <2>2. ~(y < x)
    BY <1>1, <2>1
  <2> QED
    BY <2>1, <2>2
<1> QED
  BY <1>3

(* The loop of Resize (cache.cc:123-126) ends at a length above 0.         *)
LEMMA LengthGrows ==
  ASSUME NEW n \in Nat
  PROVE  NewLength(n) \in Nat \ {0}
<1> DEFINE Runs(g) == g = [len \in Nat |-> IF len < n THEN g[2 * len] ELSE len]
           Lengths(j) == {len \in Nat : len + j >= n}
           Part(h, j) ==
             /\ h = [len \in Lengths(j) |-> h[len]]
             /\ \A len \in Lengths(j) :
                  /\ len > 0 => h[len] = IF len < n THEN h[2 * len] ELSE len
                  /\ len > 0 => h[len] \in Nat \ {0}
           Missing == {j \in 0 .. n : ~\E h : Part(h, j)}
<1>1. Missing = {}
  <2> SUFFICES ASSUME Missing # {} PROVE FALSE
    OBVIOUS
  <2>1. PICK j \in Missing : \A y \in Missing : j <= y
    <3> Missing \in SUBSET Nat
      OBVIOUS
    <3> HIDE DEF Missing
    <3> QED
      BY LeastOf
  <2>2. j # 0
    <3> DEFINE h == [len \in Lengths(0) |-> len]
    <3>1. Part(h, 0)
      OBVIOUS
    <3>2. 0 \notin Missing
      <4> HIDE DEF Part, h
      <4> QED
        BY <3>1
    <3> QED
      BY <3>2
  <2>3. j - 1 \notin Missing /\ j - 1 \in 0 .. n
    <3>1. j \in 0 .. n
      OBVIOUS
    <3> HIDE DEF Missing
    <3> QED
      BY <2>1, <2>2, <3>1
  <2>4. PICK h : Part(h, j - 1)
    BY <2>3
  <2> DEFINE x == n - j
             g == [len \in Lengths(j) |->
                    IF len \in Lengths(j - 1) THEN h[len] ELSE h[2 * len]]
  <2>5. \A len \in Lengths(j) : len \notin Lengths(j - 1) => len = x /\ len < n
    BY <2>2
  <2>6. \A len \in Lengths(j) : len > 0 =>
          /\ 2 * len \in Lengths(j - 1)
          /\ 2 * len \in Lengths(j)
    OBVIOUS
  <2>7. \A len \in Lengths(j) : len > 0 => g[len] = IF len < n THEN g[2 * len] ELSE len
    BY <2>4, <2>5, <2>6
  <2>8. \A len \in Lengths(j) : len > 0 => g[len] \in Nat \ {0}
    <3> SUFFICES ASSUME NEW len \in Lengths(j), len > 0
                 PROVE  g[len] \in Nat \ {0}
      OBVIOUS
    <3>1. CASE len \in Lengths(j - 1)
      BY <2>4, <3>1
    <3>2. CASE len \notin Lengths(j - 1)
      <4>1. 2 * len \in Lengths(j - 1) /\ 2 * len > 0
        BY <2>6
      <4> QED
        BY <2>4, <3>2, <4>1
    <3> QED
      BY <3>1, <3>2
  <2>9. Part(g, j)
    BY <2>7, <2>8
  <2> QED
    BY <2>1, <2>9
<1>2. PICK h : Part(h, n)
  <2> n \in 0 .. n
    OBVIOUS
  <2> QED
    BY <1>1
<1>3. Lengths(n) = Nat
  OBVIOUS
<1> DEFINE whole == [len \in Nat |-> IF len = 0 THEN 0 ELSE h[len]]
<1>4. Runs(whole)
  <2>1. ASSUME NEW len \in Nat PROVE whole[len] = IF len < n THEN whole[2 * len] ELSE len
    <3>1. 2 * len \in Nat
      OBVIOUS
    <3>2. CASE len = 0
      BY <3>2
    <3>3. CASE len > 0
      <4>1. h[len] = IF len < n THEN h[2 * len] ELSE len
        BY <1>2, <1>3, <3>3
      <4> QED
        BY <3>1, <3>3, <4>1
    <3> QED
      BY <3>2, <3>3
  <2> QED
    BY <2>1
<1> DEFINE f == CHOOSE g : Runs(g)
<1>5. Runs(f)
  BY <1>4
<1>6. NewLength(n) = f[MinLength]
  BY DEF NewLength
<1>7. \A len \in Nat : f[len] = IF len < n THEN f[2 * len] ELSE len
  BY <1>5
<1> HIDE DEF f, Runs
<1> DEFINE Bad == {j \in 0 .. n : \E len \in Nat \ {0} : len + j >= n /\ f[len] \notin Nat \ {0}}
<1>8. Bad = {}
  <2> SUFFICES ASSUME Bad # {} PROVE FALSE
    OBVIOUS
  <2>1. PICK j \in Bad : \A y \in Bad : j <= y
    <3> Bad \in SUBSET Nat
      OBVIOUS
    <3> HIDE DEF Bad
    <3> QED
      BY LeastOf
  <2>2. PICK len \in Nat \ {0} : len + j >= n /\ f[len] \notin Nat \ {0}
    BY <2>1
  <2>3. len < n /\ f[2 * len] \notin Nat \ {0} /\ 2 * len \in Nat \ {0}
    BY <1>7, <2>2
  <2>4. j - 1 \in 0 .. n /\ 2 * len + (j - 1) >= n
    BY <2>2, <2>3
  <2>5. j - 1 \in Bad
    BY <2>3, <2>4
  <2> QED
    BY <2>1, <2>5
<1>9. MinLength + n >= n /\ n \in 0 .. n /\ MinLength \in Nat \ {0}
  BY CacheConstants
<1> QED
  BY <1>6, <1>8, <1>9

LEMMA BucketIn ==
  ASSUME NEW t, NEW X, t \in Seq(X), t # << >>, NEW k \in Nat
  PROVE  Bucket(t, k) \in 1 .. Len(t)
<1>1. Len(t) \in Nat \ {0}
  OBVIOUS
<1>2. k % Len(t) \in 0 .. Len(t) - 1
  BY <1>1
<1> QED
  BY <1>1, <1>2 DEF Bucket

(* Taking an entry out of a list in which it is once.                      *)
LEMMA ListWithout ==
  ASSUME NEW X, NEW s \in Seq(X), IsInjective(s), NEW x
  PROVE  /\ RemoveFirst(s, x) \in Seq(X) /\ IsInjective(RemoveFirst(s, x))
         /\ Range(RemoveFirst(s, x)) = Range(s) \ {x}
<1>1. CASE ~\E i \in 1 .. Len(s) : s[i] = x
  <2>1. RemoveFirst(s, x) = s
    BY <1>1 DEF RemoveFirst
  <2>2. x \notin Range(s)
    BY <1>1 DEF Range
  <2> QED
    BY <2>1, <2>2
<1>2. CASE \E i \in 1 .. Len(s) : s[i] = x
  <2>1. PICK p \in 1 .. Len(s) : s[p] = x
    BY <1>2
  <2>2. {i \in 1 .. Len(s) : s[i] = x} = {p}
    BY <2>1 DEF IsInjective
  <2>3. Min({p}) = p
    <3>1. \A z : (z \in {p} /\ \A y \in {p} : z <= y) <=> z = p
      OBVIOUS
    <3> QED
      BY <3>1 DEF Min
  <2>4. RemoveFirst(s, x) = RemoveAt(s, p)
    BY <1>2, <2>2, <2>3 DEF RemoveFirst, SelectInSeq
  <2> DEFINE z == RemoveAt(s, p)
  <2>5. /\ z \in Seq(X) /\ Len(z) = Len(s) - 1
        /\ \A i \in 1 .. Len(z) : z[i] = IF i < p THEN s[i] ELSE s[i + 1]
    <3> DEFINE a == SubSeq(s, 1, p - 1)
               b == SubSeq(s, p + 1, Len(s))
    <3>1. /\ a \in Seq(X) /\ Len(a) = p - 1
          /\ \A i \in 1 .. p - 1 : a[i] = s[i]
      OBVIOUS
    <3>2. /\ b \in Seq(X) /\ Len(b) = Len(s) - p
          /\ \A i \in 1 .. Len(s) - p : b[i] = s[p + i]
      OBVIOUS
    <3> HIDE DEF a, b
    <3>3. /\ a \o b \in Seq(X) /\ Len(a \o b) = Len(s) - 1
          /\ \A i \in 1 .. Len(s) - 1 :
               (a \o b)[i] = IF i <= p - 1 THEN a[i] ELSE b[i - (p - 1)]
      <4>1. /\ a \o b \in Seq(X) /\ Len(a \o b) = Len(a) + Len(b)
            /\ \A i \in 1 .. Len(a) + Len(b) :
                 (a \o b)[i] = IF i <= Len(a) THEN a[i] ELSE b[i - Len(a)]
        BY <3>1, <3>2, ConcatProperties
      <4>2. Len(a) + Len(b) = Len(s) - 1
        BY <3>1, <3>2
      <4> QED
        BY <3>1, <4>1, <4>2
    <3>4. z = a \o b
      BY DEF RemoveAt, a, b
    <3>5. ASSUME NEW i \in 1 .. Len(s) - 1
          PROVE  z[i] = IF i < p THEN s[i] ELSE s[i + 1]
      <4>1. CASE i < p
        BY <3>1, <3>3, <3>4, <4>1
      <4>2. CASE i >= p
        <5>1. i - (p - 1) \in 1 .. Len(s) - p /\ p + (i - (p - 1)) = i + 1
          BY <4>2
        <5> QED
          BY <3>2, <3>3, <3>4, <4>2, <5>1
      <4> QED
        BY <4>1, <4>2
    <3> QED
      BY <3>3, <3>4, <3>5
  <2> HIDE DEF z
  <2>6. IsInjective(z)
    <3> SUFFICES ASSUME NEW i \in 1 .. Len(z), NEW j \in 1 .. Len(z), z[i] = z[j]
                 PROVE  i = j
      BY <2>5 DEF IsInjective
    <3>1. PICK u \in 1 .. Len(s) :
            u = (IF i < p THEN i ELSE i + 1) /\ z[i] = s[u]
      <4>1. (IF i < p THEN i ELSE i + 1) \in 1 .. Len(s)
        BY <2>5
      <4>2. z[i] = s[IF i < p THEN i ELSE i + 1]
        BY <2>5
      <4> QED
        BY <4>1, <4>2
    <3>2. PICK v \in 1 .. Len(s) :
            v = (IF j < p THEN j ELSE j + 1) /\ z[j] = s[v]
      <4>1. (IF j < p THEN j ELSE j + 1) \in 1 .. Len(s)
        BY <2>5
      <4>2. z[j] = s[IF j < p THEN j ELSE j + 1]
        BY <2>5
      <4> QED
        BY <4>1, <4>2
    <3>3. u = v
      <4>1. \A l, m \in 1 .. Len(s) : s[l] = s[m] => l = m
        BY DEF IsInjective
      <4>2. s[u] = s[v]
        BY <3>1, <3>2
      <4> QED
        BY <4>1, <4>2
    <3> QED
      BY <3>1, <3>2, <3>3
  <2>7. ASSUME NEW y \in Range(z) PROVE y \in Range(s) \ {x}
    <3>1. PICK i \in 1 .. Len(z) : y = z[i]
      BY <2>5 DEF Range
    <3>2. PICK j \in 1 .. Len(s) : j # p /\ y = s[j]
      <4>1. CASE i < p
        BY <2>5, <3>1, <4>1
      <4>2. CASE i >= p
        <5>1. i + 1 \in 1 .. Len(s) /\ i + 1 # p /\ y = s[i + 1]
          BY <2>5, <3>1, <4>2
        <5> QED
          BY <5>1
      <4> QED
        BY <4>1, <4>2
    <3>3. y # x
      BY <2>1, <3>2 DEF IsInjective
    <3> QED
      BY <3>2, <3>3 DEF Range
  <2>8. ASSUME NEW y \in Range(s) \ {x} PROVE y \in Range(z)
    <3>1. PICK i \in 1 .. Len(s) : y = s[i] /\ i # p
      BY <2>1 DEF Range
    <3>2. CASE i < p
      BY <2>5, <3>1, <3>2 DEF Range
    <3>3. CASE i > p
      <4>1. i - 1 \in 1 .. Len(z) /\ z[i - 1] = y
        BY <2>1, <2>5, <3>1, <3>3
      <4> QED
        BY <2>5, <4>1 DEF Range
    <3> QED
      BY <3>1, <3>2, <3>3
  <2> QED
    BY <2>4, <2>5, <2>6, <2>7, <2>8 DEF z
<1> QED
  BY <1>1, <1>2

(* Putting an entry at the end of a list in which it is not.               *)
LEMMA ListWith ==
  ASSUME NEW X, NEW s \in Seq(X), IsInjective(s), NEW x \in X, x \notin Range(s)
  PROVE  /\ Append(s, x) \in Seq(X) /\ IsInjective(Append(s, x))
         /\ Range(Append(s, x)) = Range(s) \cup {x}
<1> DEFINE z == Append(s, x)
<1>1. /\ z \in Seq(X) /\ Len(z) = Len(s) + 1
      /\ \A i \in 1 .. Len(z) : z[i] = IF i <= Len(s) THEN s[i] ELSE x
  OBVIOUS
<1> HIDE DEF z
<1>2. IsInjective(z)
  <2>1. \A i \in 1 .. Len(s) : s[i] # x
    BY DEF Range
  <2> QED
    BY <1>1, <2>1 DEF IsInjective
<1>3. ASSUME NEW y \in Range(z) PROVE y \in Range(s) \cup {x}
  BY <1>1 DEF Range
<1>4. ASSUME NEW y \in Range(s) PROVE y \in Range(z)
  <2>1. PICK i \in 1 .. Len(s) : y = s[i]
    BY DEF Range
  <2> QED
    BY <1>1, <2>1 DEF Range
<1>5. x \in Range(z)
  <2>1. Len(z) \in 1 .. Len(z) /\ z[Len(z)] = x
    BY <1>1
  <2> QED
    BY <1>1, <2>1 DEF Range
<1> QED
  BY <1>1, <1>2, <1>3, <1>4, <1>5 DEF z

(* The units of a finite set of entries, and of one entry more.            *)
LEMMA UnitsOfOne ==
  ASSUME NEW ents, NEW i, NEW n \in Nat, ents[i].charge = n
  PROVE  /\ IsFiniteSet(Units(ents, {i}))
         /\ Cardinality(Units(ents, {i})) = n
<1>1. Units(ents, {i}) = {i} \X (1 .. n)
  BY DEF Units
<1>2. IsFiniteSet(1 .. n) /\ Cardinality(1 .. n) = n
  BY FS_Interval
<1>3. IsFiniteSet({i}) /\ Cardinality({i}) = 1
  BY FS_Singleton
<1>4. /\ IsFiniteSet({i} \X (1 .. n))
      /\ Cardinality({i} \X (1 .. n)) = Cardinality({i}) * Cardinality(1 .. n)
  BY <1>2, <1>3, FS_Product
<1>5. 1 * n = n
  OBVIOUS
<1> QED
  BY <1>1, <1>2, <1>3, <1>4, <1>5

LEMMA UnitsFinite ==
  ASSUME NEW ents, NEW S, IsFiniteSet(S), \A i \in S : ents[i].charge \in Nat
  PROVE  IsFiniteSet(Units(ents, S))
<1> DEFINE F == {Units(ents, T) : T \in SUBSET S}
           N == {Units(ents, {i}) : i \in S}
<1>1. N \in SUBSET (SUBSET (S \X Nat))
  BY DEF Units
<1>2. Units(ents, S) = UNION N
  BY DEF Units
<1>3. \A T \in N : IsFiniteSet(T)
  BY UnitsOfOne
<1>4. IsFiniteSet(N)
  <2> DEFINE f == [i \in S |-> Units(ents, {i})]
  <2>1. f \in Surjection(S, N)
    BY DEF Surjection
  <2> QED
    BY <2>1, FS_Surjection
<1> QED
  BY <1>2, <1>3, <1>4, FS_UNION

LEMMA UnitsWith ==
  ASSUME NEW ents, NEW S, IsFiniteSet(S), NEW i, i \notin S,
         \A j \in S \cup {i} : ents[j].charge \in Nat
  PROVE  Cardinality(Units(ents, S \cup {i})) =
           Cardinality(Units(ents, S)) + ents[i].charge
<1>1. Units(ents, S \cup {i}) = Units(ents, S) \cup Units(ents, {i})
  BY DEF Units
<1>2. Units(ents, S) \cap Units(ents, {i}) = {}
  BY DEF Units
<1>3. IsFiniteSet(Units(ents, S)) /\ Cardinality(Units(ents, S)) \in Nat
  BY UnitsFinite, FS_CardinalityType
<1>4. IsFiniteSet(Units(ents, {i})) /\ Cardinality(Units(ents, {i})) = ents[i].charge
  BY UnitsOfOne
<1> DEFINE U == Units(ents, S)
           V == Units(ents, {i})
<1> HIDE DEF U, V
<1>5. Cardinality(U \cup V) = Cardinality(U) + Cardinality(V) - Cardinality(U \cap V)
  BY <1>3, <1>4, FS_Union DEF U, V
<1>6. Cardinality(U \cap V) = 0
  BY <1>2, FS_EmptySet DEF U, V
<1>7. ents[i].charge \in Nat /\ Cardinality(U) \in Nat
  BY <1>3 DEF U
<1>8. Cardinality(U \cup V) = Cardinality(U) + ents[i].charge
  BY <1>4, <1>5, <1>6, <1>7 DEF V
<1> QED
  BY <1>1, <1>8 DEF U, V

LEMMA UnitsAlike ==
  ASSUME NEW a, NEW b, NEW S, \A i \in S : a[i].charge = b[i].charge
  PROVE  Units(a, S) = Units(b, S)
BY DEF Units

-----------------------------------------------------------------------------
(* What the operations make of the shared state.                           *)

LEMMA FoundEntry ==
  ASSUME NEW c, c \in CacheState, c.list # << >>, NEW S, S \subseteq DOMAIN c.ent,
         TableHas(c, S), NEW k \in Nat
  PROVE  LET i == LookupIn(c.ent, c.list, k)
         IN  \/ i = 0 /\ \A j \in S : c.ent[j].key # k
             \/ i # 0 /\ i \in S /\ c.ent[i].key = k
<1> DEFINE b == Bucket(c.list, k)
           B == {j \in c.list[b] : c.ent[j].key = k}
<1>1. b \in DOMAIN c.list
  <2>1. c.list \in Seq(SUBSET Nat)
    BY DEF CacheState
  <2> QED
    BY <2>1, BucketIn
<1>2. c.list[b] = {j \in S : Bucket(c.list, c.ent[j].key) = b}
  BY <1>1 DEF TableHas
<1>3. 0 \notin S
  BY DEF CacheState
<1> HIDE DEF b
<1>4. LookupIn(c.ent, c.list, k) = FindPointer(c.ent, c.list[b], k)
  BY DEF LookupIn, b
<1>5. CASE \E j \in c.list[b] : c.ent[j].key = k
  <2>1. /\ LookupIn(c.ent, c.list, k) \in c.list[b]
        /\ c.ent[LookupIn(c.ent, c.list, k)].key = k
    BY <1>4, <1>5 DEF FindPointer
  <2> QED
    BY <1>2, <1>3, <2>1
<1>6. CASE ~\E j \in c.list[b] : c.ent[j].key = k
  <2>1. LookupIn(c.ent, c.list, k) = 0
    BY <1>4, <1>6 DEF FindPointer
  <2>2. ASSUME NEW j \in S, c.ent[j].key = k PROVE FALSE
    <3>1. Bucket(c.list, c.ent[j].key) = b
      BY <2>2 DEF b
    <3> QED
      BY <1>2, <1>6, <2>2, <3>1
  <2> QED
    BY <2>1, <2>2
<1> QED
  BY <1>5, <1>6

LEMMA LRU_RemoveIs ==
  ASSUME NEW c \in CacheState, NEW i, IsInjective(c.lru), NEW d,
         d = LRU_Remove(c, i)
  PROVE  /\ d \in CacheState /\ d.ent = c.ent /\ d.inUse = c.inUse \ {i}
         /\ d.list = c.list /\ d.elems = c.elems /\ d.usage = c.usage
         /\ d.freed = c.freed
         /\ IsInjective(d.lru) /\ Range(d.lru) = Range(c.lru) \ {i}
<1>1. c.lru \in Seq(Nat)
  BY DEF CacheState
<1>2. PICK z : z = RemoveFirst(c.lru, i)
  OBVIOUS
<1>3. z \in Seq(Nat) /\ IsInjective(z) /\ Range(z) = Range(c.lru) \ {i}
  BY <1>1, <1>2, ListWithout
<1>4. d.lru = z
  BY <1>2 DEF CacheState, LRU_Remove
<1>5. d \in CacheState
  BY <1>2, <1>3 DEF CacheState, LRU_Remove
<1>6. /\ d.ent = c.ent /\ d.inUse = c.inUse \ {i}
      /\ d.list = c.list /\ d.elems = c.elems /\ d.usage = c.usage
      /\ d.freed = c.freed
  BY DEF CacheState, LRU_Remove
<1> QED
  BY <1>3, <1>4, <1>5, <1>6

(* An entry, changed in its place.                                         *)
EntryAs(c, i, x) == [c EXCEPT !.ent = [c.ent EXCEPT ![i] = x]]
Edited(d, c, i, x) ==
  /\ d \in CacheState /\ Len(d.ent) = Len(c.ent) /\ DOMAIN d.ent = DOMAIN c.ent
  /\ d.ent[i] = x /\ \A j \in DOMAIN c.ent \ {i} : d.ent[j] = c.ent[j]
  /\ d.lru = c.lru /\ d.inUse = c.inUse /\ d.list = c.list
  /\ d.elems = c.elems /\ d.usage = c.usage /\ d.freed = c.freed

LEMMA EntryChanged ==
  ASSUME NEW c \in CacheState, NEW i \in DOMAIN c.ent, NEW x \in CacheEntry
  PROVE  Edited(EntryAs(c, i, x), c, i, x)
<1> DEFINE d == EntryAs(c, i, x)
<1>1. c.ent \in Seq(CacheEntry)
  BY DEF CacheState
<1>2. PICK f : f = [c.ent EXCEPT ![i] = x]
  OBVIOUS
<1>3. /\ f \in Seq(CacheEntry) /\ Len(f) = Len(c.ent) /\ DOMAIN f = DOMAIN c.ent
      /\ \A j \in DOMAIN c.ent : f[j] = IF j = i THEN x ELSE c.ent[j]
  BY <1>1, <1>2
<1>4. d = [c EXCEPT !.ent = f]
  BY <1>2 DEF EntryAs
<1>5. d \in CacheState /\ d.ent = f
  BY <1>3, <1>4 DEF CacheState
<1>6. /\ d.lru = c.lru /\ d.inUse = c.inUse /\ d.list = c.list
      /\ d.elems = c.elems /\ d.usage = c.usage /\ d.freed = c.freed
  BY <1>4 DEF CacheState
<1> QED
  BY <1>2, <1>3, <1>5, <1>6 DEF Edited

(* Entry i with one reference less, as Unref leaves it.                    *)
Unrefd(d, c, i) ==
  /\ d \in CacheState /\ Len(d.ent) = Len(c.ent) /\ DOMAIN d.ent = DOMAIN c.ent
  /\ \A j \in DOMAIN c.ent \ {i} : d.ent[j] = c.ent[j]
  /\ d.ent[i].key = c.ent[i].key /\ d.ent[i].charge = c.ent[i].charge
  /\ d.ent[i].inCache = c.ent[i].inCache /\ d.ent[i].refs = c.ent[i].refs - 1
  /\ d.list = c.list /\ d.elems = c.elems /\ d.usage = c.usage
  /\ d.freed = IF c.ent[i].refs = 1 THEN c.freed \cup {i} ELSE c.freed
  /\ IsInjective(d.lru)
  /\ c.ent[i].inCache /\ c.ent[i].refs = 2 =>
       Range(d.lru) = Range(c.lru) \cup {i} /\ d.inUse = c.inUse \ {i}
  /\ ~(c.ent[i].inCache /\ c.ent[i].refs = 2) =>
       d.lru = c.lru /\ d.inUse = c.inUse

LEMMA UnrefIs ==
  ASSUME NEW c \in CacheState, NEW i \in DOMAIN c.ent, IsInjective(c.lru),
         c.ent[i].refs > 0
  PROVE  Unrefd(Unref(c, i), c, i)
<1>1. c.ent \in Seq(CacheEntry) /\ c.ent[i] \in CacheEntry /\ i \in Nat
  BY DEF CacheState
<1>2. c.ent[i].refs \in Nat /\ c.ent[i].inCache \in BOOLEAN
  BY <1>1 DEF CacheEntry
<1>3. PICK y : y = [c.ent[i] EXCEPT !.refs = @ - 1]
  OBVIOUS
<1>4. /\ y \in CacheEntry /\ y.key = c.ent[i].key /\ y.charge = c.ent[i].charge
      /\ y.inCache = c.ent[i].inCache /\ y.refs = c.ent[i].refs - 1
  <2>1. PICK n \in Nat : n = c.ent[i].refs - 1
    BY <1>2
  <2>2. y = [c.ent[i] EXCEPT !.refs = n]
    BY <1>1, <1>3, <2>1 DEF CacheEntry
  <2> QED
    BY <1>1, <2>1, <2>2 DEF CacheEntry
<1>5. PICK g : g = EntryAs(c, i, y)
  OBVIOUS
<1>6. Edited(g, c, i, y)
  BY <1>4, <1>5, EntryChanged
<1>7. g = [c EXCEPT !.ent[i].refs = @ - 1]
  BY <1>3, <1>5 DEF CacheState, EntryAs
<1>8. PICK d : d = Placed(g, i)
  OBVIOUS
<1>9. Unref(c, i) = d
  BY <1>7, <1>8 DEF Unref
<1>10. /\ g.ent[i] = y /\ g \in CacheState /\ g.lru = c.lru /\ g.inUse = c.inUse
       /\ g.freed = c.freed
  BY <1>6 DEF Edited
<1>11. SUFFICES Unrefd(d, c, i)
  BY <1>9
<1>12. CASE c.ent[i].refs = 1
  <2>1. PICK F : F = g.freed \cup {i}
    OBVIOUS
  <2>2. F \in SUBSET Nat
    <3>1. g.freed \in SUBSET Nat
      BY <1>10 DEF CacheState
    <3> QED
      BY <1>1, <2>1, <3>1
  <2>3. d = [g EXCEPT !.freed = F]
    BY <1>4, <1>8, <1>10, <1>12, <2>1 DEF Placed
  <2>4. /\ d \in CacheState /\ d.ent = g.ent /\ d.lru = g.lru /\ d.inUse = g.inUse
        /\ d.list = g.list /\ d.elems = g.elems /\ d.usage = g.usage /\ d.freed = F
    BY <1>10, <2>2, <2>3 DEF CacheState
  <2> QED
    BY <1>2, <1>4, <1>6, <1>12, <2>1, <2>4 DEF Unrefd, Edited
<1>13. CASE c.ent[i].refs # 1 /\ ~(c.ent[i].inCache /\ c.ent[i].refs = 2)
  <2>1. d = g
    BY <1>2, <1>4, <1>8, <1>10, <1>13 DEF Placed
  <2> QED
    BY <1>4, <1>6, <1>13, <2>1 DEF Unrefd, Edited
<1>14. CASE c.ent[i].inCache /\ c.ent[i].refs = 2
  <2>1. PICK a : a = LRU_Remove(g, i)
    OBVIOUS
  <2>2. /\ a \in CacheState /\ a.ent = g.ent /\ a.inUse = g.inUse \ {i}
        /\ a.list = g.list /\ a.elems = g.elems /\ a.usage = g.usage
        /\ a.freed = g.freed
        /\ IsInjective(a.lru) /\ Range(a.lru) = Range(g.lru) \ {i}
    BY <1>10, <2>1, LRU_RemoveIs
  <2>3. PICK z : z = Append(a.lru, i)
    OBVIOUS
  <2>4. a.lru \in Seq(Nat)
    BY <2>2 DEF CacheState
  <2>5. z \in Seq(Nat) /\ IsInjective(z) /\ Range(z) = Range(a.lru) \cup {i}
    <3>1. PICK l : l = a.lru
      OBVIOUS
    <3>2. l \in Seq(Nat) /\ IsInjective(l) /\ i \notin Range(l) /\ i \in Nat
      BY <1>1, <2>2, <2>4, <3>1
    <3>3. /\ Append(l, i) \in Seq(Nat) /\ IsInjective(Append(l, i))
          /\ Range(Append(l, i)) = Range(l) \cup {i}
      BY <3>2, ListWith
    <3> QED
      BY <2>3, <3>1, <3>3, Zenon
  <2>6. d = [a EXCEPT !.lru = z]
    <3>1. g.ent[i].refs = 1 /\ g.ent[i].inCache /\ ~(g.ent[i].refs = 0)
      <4>1. g.ent[i].inCache
        BY <1>4, <1>10, <1>14, Zenon
      <4>2. g.ent[i].refs = 1
        BY <1>4, <1>10, <1>14
      <4> QED
        BY <4>1, <4>2
    <3>2. d = [a EXCEPT !.lru = Append(@, i)]
      <4>1. d = [LRU_Remove(g, i) EXCEPT !.lru = Append(@, i)]
        BY <1>8, <3>1 DEF Placed
      <4> QED
        BY <2>1, <4>1
    <3> QED
      BY <2>2, <2>3, <3>2 DEF CacheState
  <2>7. /\ d \in CacheState /\ d.ent = a.ent /\ d.lru = z /\ d.inUse = a.inUse
        /\ d.list = a.list /\ d.elems = a.elems /\ d.usage = a.usage
        /\ d.freed = a.freed
    BY <2>2, <2>5, <2>6 DEF CacheState
  <2>8. Range(d.lru) = Range(c.lru) \cup {i} /\ d.inUse = c.inUse \ {i}
    BY <1>10, <2>2, <2>5, <2>7
  <2>9. /\ d.ent = g.ent /\ d.list = g.list /\ d.elems = g.elems
        /\ d.usage = g.usage /\ d.freed = g.freed /\ IsInjective(d.lru)
    BY <2>2, <2>5, <2>7
  <2>10. c.ent[i].refs # 1
    BY <1>14
  <2>11. /\ d \in CacheState /\ Edited(g, c, i, y)
         /\ c.ent[i].inCache /\ c.ent[i].refs = 2
    BY <1>6, <1>14, <2>7, Zenon
  <2> QED
    BY <1>4, <2>8, <2>9, <2>10, <2>11 DEF Unrefd, Edited
<1> QED
  BY <1>12, <1>13, <1>14

(* Entry i taken out of the lists, as FinishErase leaves it.               *)
Finished(d, c, i) ==
  /\ d \in CacheState /\ Len(d.ent) = Len(c.ent) /\ DOMAIN d.ent = DOMAIN c.ent
  /\ \A j \in DOMAIN c.ent \ {i} : d.ent[j] = c.ent[j]
  /\ d.ent[i].key = c.ent[i].key /\ d.ent[i].charge = c.ent[i].charge
  /\ d.ent[i].inCache = FALSE /\ d.ent[i].refs = c.ent[i].refs - 1
  /\ d.list = c.list /\ d.elems = c.elems
  /\ d.usage = c.usage - c.ent[i].charge
  /\ d.freed = IF c.ent[i].refs = 1 THEN c.freed \cup {i} ELSE c.freed
  /\ IsInjective(d.lru) /\ Range(d.lru) = Range(c.lru) \ {i}
  /\ d.inUse = c.inUse \ {i}

LEMMA FinishEraseIs ==
  ASSUME NEW c \in CacheState, NEW i \in DOMAIN c.ent, IsInjective(c.lru),
         c.ent[i].refs > 0
  PROVE  Finished(FinishErase(c, i), c, i)
<1>1. PICK a : a = LRU_Remove(c, i)
  OBVIOUS
<1>2. /\ a \in CacheState /\ a.ent = c.ent /\ a.inUse = c.inUse \ {i}
      /\ a.list = c.list /\ a.elems = c.elems /\ a.usage = c.usage
      /\ a.freed = c.freed
      /\ IsInjective(a.lru) /\ Range(a.lru) = Range(c.lru) \ {i}
  BY <1>1, LRU_RemoveIs
<1>3. c.ent \in Seq(CacheEntry) /\ c.ent[i] \in CacheEntry /\ i \in Nat /\ i # 0
  BY DEF CacheState
<1>4. PICK x : x = [c.ent[i] EXCEPT !.inCache = FALSE]
  OBVIOUS
<1>5. /\ x \in CacheEntry /\ x.key = c.ent[i].key /\ x.charge = c.ent[i].charge
      /\ x.inCache = FALSE /\ x.refs = c.ent[i].refs
  BY <1>3, <1>4 DEF CacheEntry
<1>6. PICK b : b = EntryAs(a, i, x)
  OBVIOUS
<1>7. Edited(b, a, i, x)
  <2>1. a \in CacheState /\ i \in DOMAIN a.ent /\ x \in CacheEntry
    BY <1>2, <1>5
  <2> QED
    BY <1>6, <2>1, EntryChanged
<1>8. PICK u \in Int : u = c.usage - c.ent[i].charge
  <2>1. c.usage \in Int
    BY DEF CacheState
  <2>2. c.ent[i].charge \in Nat
    BY <1>3, CacheConstants DEF CacheEntry
  <2> QED
    BY <2>1, <2>2
<1>9. PICK f : f = [b EXCEPT !.usage = u]
  OBVIOUS
<1>10. /\ f \in CacheState /\ f.ent = b.ent /\ f.usage = u
       /\ f.lru = b.lru /\ f.inUse = b.inUse /\ f.list = b.list
       /\ f.elems = b.elems /\ f.freed = b.freed
  BY <1>7, <1>9 DEF CacheState, Edited
<1>11. f = [a EXCEPT !.ent[i].inCache = FALSE, !.usage = @ - c.ent[i].charge]
  <2>1. [a EXCEPT !.ent[i].inCache = FALSE, !.usage = @ - c.ent[i].charge] =
        [a EXCEPT !.ent = [a.ent EXCEPT ![i] = x], !.usage = u]
    BY <1>2, <1>4, <1>8 DEF CacheState
  <2>2. f = [a EXCEPT !.ent = [a.ent EXCEPT ![i] = x], !.usage = u]
    BY <1>2, <1>6, <1>9 DEF CacheState, EntryAs
  <2> QED
    BY <2>1, <2>2
<1>12. /\ f.ent[i] = x /\ i \in DOMAIN f.ent /\ DOMAIN f.ent = DOMAIN c.ent
       /\ Len(f.ent) = Len(c.ent) /\ \A j \in DOMAIN c.ent \ {i} : f.ent[j] = c.ent[j]
       /\ f.lru = a.lru /\ f.inUse = a.inUse /\ f.list = a.list
       /\ f.elems = a.elems /\ f.freed = a.freed
  BY <1>2, <1>7, <1>10 DEF Edited
<1>13. PICK d : d = Unref(f, i)
  OBVIOUS
<1>14. FinishErase(c, i) = d
  BY <1>1, <1>3, <1>11, <1>13 DEF FinishErase
<1>15. f.ent[i].refs > 0 /\ IsInjective(f.lru)
  BY <1>2, <1>5, <1>12
<1>16. Unrefd(d, f, i)
  BY <1>10, <1>12, <1>13, <1>15, UnrefIs
<1>17. Finished(d, c, i)
  <2>1. d.lru = f.lru /\ d.inUse = f.inUse
    BY <1>5, <1>12, <1>16 DEF Unrefd
  <2> QED
    BY <1>2, <1>5, <1>8, <1>10, <1>12, <1>16, <2>1 DEF Unrefd, Finished
<1> QED
  BY <1>14, <1>17

(* The entries in the cache are finitely many, with charges.               *)
LEMMA CachedFinite ==
  ASSUME NEW c \in CacheState
  PROVE  /\ IsFiniteSet(InCache(c.ent)) /\ InCache(c.ent) \subseteq DOMAIN c.ent
         /\ \A i \in DOMAIN c.ent : i \in Nat \ {0} /\ c.ent[i].charge \in Nat
         /\ \A i \in DOMAIN c.ent : c.ent[i].refs \in Nat /\ c.ent[i].key \in Nat
<1>1. c.ent \in Seq(CacheEntry) /\ DOMAIN c.ent = 1 .. Len(c.ent) /\ Len(c.ent) \in Nat
  BY DEF CacheState
<1>2. IsFiniteSet(1 .. Len(c.ent))
  BY <1>1, FS_Interval
<1>3. InCache(c.ent) \in SUBSET (1 .. Len(c.ent))
  BY <1>1 DEF InCache
<1>4. IsFiniteSet(InCache(c.ent))
  BY <1>2, <1>3, FS_Subset
<1>5. ASSUME NEW i \in DOMAIN c.ent
      PROVE  /\ i \in Nat \ {0} /\ c.ent[i].charge \in Nat
             /\ c.ent[i].refs \in Nat /\ c.ent[i].key \in Nat
  <2>1. c.ent[i] \in CacheEntry
    BY <1>1
  <2>2. c.ent[i].charge \in Charges /\ c.ent[i].key \in CacheKeys /\ c.ent[i].refs \in Nat
    BY <2>1 DEF CacheEntry
  <2>3. Charges \subseteq Nat /\ CacheKeys \subseteq Nat
    BY CacheConstants
  <2>4. i \in Nat \ {0}
    BY <1>1
  <2> QED
    BY <2>2, <2>3, <2>4
<1> QED
  BY <1>1, <1>3, <1>4, <1>5

(* What the counts say of an entry.                                        *)
Counted(c, h, i) ==
  /\ i \in InCache(c.ent) => c.ent[i].refs = h[i] + 1
  /\ i \notin InCache(c.ent) => c.ent[i].refs = h[i] + 0
  /\ i \in c.freed <=> c.ent[i].refs = 0

LEMMA CountOf ==
  ASSUME NEW c, NEW h, CountsOf(c, h), NEW i \in DOMAIN c.ent
  PROVE  /\ i \in InCache(c.ent) => c.ent[i].refs = h[i] + 1
         /\ i \notin InCache(c.ent) => c.ent[i].refs = h[i] + 0
         /\ i \in c.freed <=> c.ent[i].refs = 0
<1>1. /\ c.ent[i].refs = h[i] + (IF c.ent[i].inCache THEN 1 ELSE 0)
      /\ i \in c.freed <=> c.ent[i].refs = 0
  BY DEF CountsOf
<1>2. i \in InCache(c.ent) <=> c.ent[i].inCache
  BY DEF InCache
<1>3. CASE c.ent[i].inCache
  BY <1>1, <1>2, <1>3
<1>4. CASE ~c.ent[i].inCache
  BY <1>1, <1>2, <1>4
<1> QED
  BY <1>3, <1>4

(* The counts from what they say of each entry.                            *)
LEMMA CountsFrom ==
  ASSUME NEW c, NEW h, \A i \in DOMAIN c.ent : Counted(c, h, i)
  PROVE  CountsOf(c, h)
<1> SUFFICES ASSUME NEW i \in DOMAIN c.ent
             PROVE  /\ c.ent[i].refs = h[i] + (IF c.ent[i].inCache THEN 1 ELSE 0)
                    /\ i \in c.freed <=> c.ent[i].refs = 0
  BY DEF CountsOf
<1>1. i \in InCache(c.ent) <=> c.ent[i].inCache
  BY DEF InCache
<1>2. CASE c.ent[i].inCache
  BY <1>1, <1>2 DEF Counted
<1>3. CASE ~c.ent[i].inCache
  BY <1>1, <1>3 DEF Counted
<1> QED
  BY <1>2, <1>3

(* A table is that of the same entries wherever they have the same keys.   *)
LEMMA SameTable ==
  ASSUME NEW c, NEW d, NEW S, TableHas(c, S), d.list = c.list, d.elems = c.elems,
         \A i \in S : d.ent[i].key = c.ent[i].key
  PROVE  TableHas(d, S)
<1>1. ASSUME NEW b \in DOMAIN d.list
      PROVE  d.list[b] = {i \in S : Bucket(d.list, d.ent[i].key) = b}
  <2>1. c.list[b] = {i \in S : Bucket(c.list, c.ent[i].key) = b}
    BY DEF TableHas
  <2>2. \A i \in S : Bucket(d.list, d.ent[i].key) = Bucket(c.list, c.ent[i].key)
    OBVIOUS
  <2> QED
    BY <2>1, <2>2
<1>2. ASSUME NEW i \in S, NEW j \in S, d.ent[i].key = d.ent[j].key PROVE i = j
  BY <1>2 DEF TableHas
<1>3. d.elems = Cardinality(S)
  BY DEF TableHas
<1> QED
  BY <1>1, <1>2, <1>3 DEF TableHas

(* FinishErase ends what the table's Remove or Insert began.               *)
LEMMA FinishEraseKeeps ==
  ASSUME NEW c, NEW h, NEW i \in InCache(c.ent), Consistent(c, h, i)
  PROVE  /\ Consistent(FinishErase(c, i), h, 0)
         /\ FinishErase(c, i).usage <= c.usage
         /\ Range(FinishErase(c, i).lru) \subseteq Range(c.lru)
<1> PICK d : d = FinishErase(c, i)
  OBVIOUS
<1>1. /\ c \in CacheState /\ c.list # << >> /\ c.freed \subseteq DOMAIN c.ent
      /\ h \in Seq(Nat) /\ Len(h) = Len(c.ent)
  BY DEF Consistent, CacheTypes
<1>2. i \in DOMAIN c.ent /\ c.ent[i].inCache
  BY DEF InCache
<1>3. /\ IsFiniteSet(InCache(c.ent)) /\ InCache(c.ent) \subseteq DOMAIN c.ent
      /\ \A j \in DOMAIN c.ent : j \in Nat \ {0} /\ c.ent[j].charge \in Nat
      /\ \A j \in DOMAIN c.ent : c.ent[j].refs \in Nat /\ c.ent[j].key \in Nat
  BY <1>1, CachedFinite
<1>4. \A j \in DOMAIN c.ent :
        /\ j \in InCache(c.ent) => c.ent[j].refs = h[j] + 1
        /\ j \notin InCache(c.ent) => c.ent[j].refs = h[j] + 0
        /\ j \in c.freed <=> c.ent[j].refs = 0
  BY CountOf DEF Consistent
<1>5. \A j \in DOMAIN c.ent : h[j] \in Nat
  BY <1>1 DEF CacheState
<1>6. c.ent[i].refs > 0 /\ c.ent[i].refs = h[i] + 1
  BY <1>2, <1>4, <1>5
<1>7. IsInjective(c.lru)
  BY DEF Consistent, ListsOfCache
<1>8. Finished(d, c, i)
  BY <1>1, <1>2, <1>6, <1>7, FinishEraseIs
<1>9. InCache(d.ent) = InCache(c.ent) \ {i}
  <2>1. ASSUME NEW j \in DOMAIN c.ent
        PROVE  j \in InCache(d.ent) <=> j \in InCache(c.ent) \ {i}
    <3>1. CASE j = i
      BY <1>8, <3>1 DEF InCache, Finished
    <3>2. CASE j # i
      BY <1>8, <3>2 DEF InCache, Finished
    <3> QED
      BY <3>1, <3>2
  <2>2. DOMAIN d.ent = DOMAIN c.ent
    BY <1>8 DEF Finished
  <2> QED
    BY <2>1, <2>2 DEF InCache
<1>10. CacheTypes(d, h)
  BY <1>1, <1>2, <1>8 DEF CacheTypes, Finished
<1>11. CountsOf(d, h)
  <2>1. ASSUME NEW j \in DOMAIN d.ent
        PROVE  /\ j \in InCache(d.ent) => d.ent[j].refs = h[j] + 1
               /\ j \notin InCache(d.ent) => d.ent[j].refs = h[j] + 0
               /\ j \in d.freed <=> d.ent[j].refs = 0
    <3>1. j \in DOMAIN c.ent
      BY <1>8 DEF Finished
    <3>2. CASE j = i
      <4>1. d.ent[i].refs = c.ent[i].refs - 1
        BY <1>8 DEF Finished
      <4>2. d.freed = IF c.ent[i].refs = 1 THEN c.freed \cup {i} ELSE c.freed
        BY <1>8 DEF Finished
      <4>3. i \notin c.freed
        BY <1>2, <1>4, <1>6
      <4> QED
        BY <1>2, <1>5, <1>6, <1>9, <3>2, <4>1, <4>2, <4>3
    <3>3. CASE j # i
      <4>1. d.ent[j] = c.ent[j] /\ (j \in d.freed <=> j \in c.freed)
        BY <1>8, <3>1, <3>3 DEF Finished
      <4> QED
        BY <1>4, <1>9, <3>1, <3>3, <4>1
    <3> QED
      BY <3>2, <3>3
  <2>2. \A j \in DOMAIN d.ent : Counted(d, h, j)
    BY <2>1 DEF Counted
  <2> QED
    BY <2>2, CountsFrom
<1>12. \A j \in InCache(d.ent) : d.ent[j] = c.ent[j]
  BY <1>3, <1>8, <1>9 DEF Finished
<1>13. ListsOfCache(d) /\ d.usage <= c.usage
  <2>1. /\ Range(c.lru) = {j \in InCache(c.ent) : c.ent[j].refs = 1}
        /\ c.inUse = {j \in InCache(c.ent) : c.ent[j].refs >= 2}
        /\ c.usage = Cardinality(Units(c.ent, InCache(c.ent)))
    BY DEF Consistent, ListsOfCache
  <2>2. /\ Range(d.lru) = Range(c.lru) \ {i} /\ IsInjective(d.lru)
        /\ d.inUse = c.inUse \ {i} /\ d.usage = c.usage - c.ent[i].charge
    BY <1>8 DEF Finished
  <2>3. Range(d.lru) = {j \in InCache(d.ent) : d.ent[j].refs = 1}
    BY <1>9, <1>12, <2>1, <2>2
  <2>4. d.inUse = {j \in InCache(d.ent) : d.ent[j].refs >= 2}
    BY <1>9, <1>12, <2>1, <2>2
  <2>5. d.usage = Cardinality(Units(d.ent, InCache(d.ent))) /\ d.usage <= c.usage
    <3>1. PICK S : S = InCache(d.ent)
      OBVIOUS
    <3>2. IsFiniteSet(S) /\ i \notin S /\ S \cup {i} = InCache(c.ent)
      BY <1>3, <1>9, <3>1, FS_RemoveElement
    <3>3. \A j \in S \cup {i} : c.ent[j].charge \in Nat
      BY <1>3, <3>2
    <3>4. c.usage = Cardinality(Units(c.ent, S)) + c.ent[i].charge
      BY <2>1, <3>2, <3>3, UnitsWith
    <3>5. Units(d.ent, S) = Units(c.ent, S)
      <4>1. \A j \in S : d.ent[j].charge = c.ent[j].charge
        BY <1>12, <3>1
      <4> QED
        BY <4>1, UnitsAlike
    <3>6. Cardinality(Units(c.ent, S)) \in Nat
      BY <3>2, <3>3, UnitsFinite, FS_CardinalityType
    <3>7. c.ent[i].charge \in Nat
      BY <3>3
    <3> QED
      BY <2>2, <3>1, <3>4, <3>5, <3>6, <3>7
  <2> QED
    BY <2>2, <2>3, <2>4, <2>5 DEF ListsOfCache
<1>14. TableHas(d, InCache(d.ent) \ {0})
  <2>1. TableHas(c, InCache(d.ent))
    BY <1>9 DEF Consistent
  <2>2. InCache(d.ent) \ {0} = InCache(d.ent)
    BY <1>3, <1>9
  <2>3. d.list = c.list /\ d.elems = c.elems
    BY <1>8 DEF Finished
  <2>4. \A j \in InCache(d.ent) : d.ent[j].key = c.ent[j].key
    BY <1>12
  <2> QED
    BY <2>1, <2>2, <2>3, <2>4, SameTable
<1>15. Range(d.lru) \subseteq Range(c.lru)
  BY <1>8 DEF Finished
<1> QED
  BY <1>10, <1>11, <1>13, <1>14, <1>15 DEF Consistent

(* A client gives back a handle.                                           *)
LEMMA UnrefKeeps ==
  ASSUME NEW c, NEW h, Consistent(c, h, 0), NEW i \in DOMAIN c.ent, h[i] > 0
  PROVE  /\ Consistent(Unref(c, i), [h EXCEPT ![i] = @ - 1], 0)
<1> PICK d : d = Unref(c, i)
  OBVIOUS
<1> PICK g : g = [h EXCEPT ![i] = @ - 1]
  OBVIOUS
<1>1. /\ c \in CacheState /\ c.list # << >> /\ c.freed \subseteq DOMAIN c.ent
      /\ h \in Seq(Nat) /\ Len(h) = Len(c.ent)
  BY DEF Consistent, CacheTypes
<1>2. /\ IsFiniteSet(InCache(c.ent)) /\ InCache(c.ent) \subseteq DOMAIN c.ent
      /\ \A j \in DOMAIN c.ent : j \in Nat \ {0} /\ c.ent[j].charge \in Nat
      /\ \A j \in DOMAIN c.ent : c.ent[j].refs \in Nat /\ c.ent[j].key \in Nat
  BY <1>1, CachedFinite
<1>3. \A j \in DOMAIN c.ent :
        /\ j \in InCache(c.ent) => c.ent[j].refs = h[j] + 1
        /\ j \notin InCache(c.ent) => c.ent[j].refs = h[j] + 0
        /\ j \in c.freed <=> c.ent[j].refs = 0
  BY CountOf DEF Consistent
<1>4. DOMAIN h = DOMAIN c.ent /\ \A j \in DOMAIN c.ent : h[j] \in Nat
  BY <1>1 DEF CacheState
<1>5. /\ g \in Seq(Nat) /\ Len(g) = Len(h) /\ g[i] = h[i] - 1
      /\ \A j \in DOMAIN c.ent \ {i} : g[j] = h[j]
  <2>1. h[i] - 1 \in Nat
    BY <1>4
  <2> QED
    BY <1>1, <1>4, <2>1
<1>6. c.ent[i].refs > 0
  BY <1>3, <1>4
<1>7. /\ IsInjective(c.lru)
      /\ Range(c.lru) = {j \in InCache(c.ent) : c.ent[j].refs = 1}
      /\ c.inUse = {j \in InCache(c.ent) : c.ent[j].refs >= 2}
      /\ c.usage = Cardinality(Units(c.ent, InCache(c.ent)))
  BY DEF Consistent, ListsOfCache
<1>8. Unrefd(d, c, i)
  BY <1>1, <1>6, <1>7, UnrefIs
<1>9. InCache(d.ent) = InCache(c.ent) /\ DOMAIN d.ent = DOMAIN c.ent
  <2>1. ASSUME NEW j \in DOMAIN c.ent
        PROVE  j \in InCache(d.ent) <=> j \in InCache(c.ent)
    <3>1. CASE j = i
      <4>1. d.ent[i].inCache = c.ent[i].inCache /\ i \in DOMAIN d.ent
        BY <1>8 DEF Unrefd
      <4> QED
        BY <3>1, <4>1, Zenon DEF InCache
    <3>2. CASE j # i
      BY <1>8, <3>2 DEF InCache, Unrefd
    <3> QED
      BY <3>1, <3>2
  <2>2. DOMAIN d.ent = DOMAIN c.ent
    BY <1>8 DEF Unrefd
  <2> QED
    BY <2>1, <2>2 DEF InCache
<1>10. CacheTypes(d, g)
  BY <1>1, <1>5, <1>8 DEF CacheTypes, Unrefd
<1>11. \A j \in DOMAIN c.ent : j # i => d.ent[j] = c.ent[j]
  BY <1>8 DEF Unrefd
<1>12. d.ent[i].refs = c.ent[i].refs - 1
  BY <1>8 DEF Unrefd
<1>13. CountsOf(d, g)
  <2>1. ASSUME NEW j \in DOMAIN d.ent
        PROVE  /\ j \in InCache(d.ent) => d.ent[j].refs = g[j] + 1
               /\ j \notin InCache(d.ent) => d.ent[j].refs = g[j] + 0
               /\ j \in d.freed <=> d.ent[j].refs = 0
    <3>1. CASE j = i
      <4>1. d.freed = IF c.ent[i].refs = 1 THEN c.freed \cup {i} ELSE c.freed
        BY <1>8 DEF Unrefd
      <4>2. i \notin c.freed
        BY <1>3, <1>6
      <4>3. c.ent[i].refs \in Nat /\ h[i] \in Nat
        BY <1>2, <1>4
      <4>4. /\ i \in InCache(c.ent) => c.ent[i].refs = h[i] + 1
            /\ i \notin InCache(c.ent) => c.ent[i].refs = h[i] + 0
        BY <1>3
      <4> QED
        BY <1>5, <1>9, <1>12, <3>1, <4>1, <4>2, <4>3, <4>4
    <3>2. CASE j # i
      <4>1. d.ent[j] = c.ent[j] /\ (j \in d.freed <=> j \in c.freed) /\ g[j] = h[j]
        BY <1>5, <1>8, <1>9, <3>2 DEF Unrefd
      <4> QED
        BY <1>3, <1>9, <4>1
    <3> QED
      BY <3>1, <3>2
  <2>2. \A j \in DOMAIN d.ent : Counted(d, g, j)
    BY <2>1 DEF Counted
  <2> QED
    BY <2>2, CountsFrom
<1>14. ListsOfCache(d)
  <2>1. IsInjective(d.lru) /\ d.usage = c.usage
    BY <1>8 DEF Unrefd
  <2>2. Units(d.ent, InCache(d.ent)) = Units(c.ent, InCache(c.ent))
    <3>1. \A j \in InCache(c.ent) : d.ent[j].charge = c.ent[j].charge
      BY <1>2, <1>8 DEF Unrefd
    <3> QED
      BY <1>9, <3>1, UnitsAlike
  <2>3. CASE i \in InCache(c.ent) /\ c.ent[i].refs = 2
    <3>1. Range(d.lru) = Range(c.lru) \cup {i} /\ d.inUse = c.inUse \ {i}
      <4>1. c.ent[i].inCache
        BY <2>3 DEF InCache
      <4> QED
        BY <1>8, <2>3, <4>1 DEF Unrefd
    <3>2. d.ent[i].refs = 1
      BY <1>12, <2>3
    <3>3. Range(d.lru) = {j \in InCache(d.ent) : d.ent[j].refs = 1}
      BY <1>2, <1>7, <1>9, <1>11, <2>3, <3>1, <3>2
    <3>4. d.inUse = {j \in InCache(d.ent) : d.ent[j].refs >= 2}
      BY <1>2, <1>7, <1>9, <1>11, <2>3, <3>1, <3>2
    <3> QED
      BY <1>7, <2>1, <2>2, <3>3, <3>4 DEF ListsOfCache
  <2>4. CASE ~(i \in InCache(c.ent) /\ c.ent[i].refs = 2)
    <3>1. d.lru = c.lru /\ d.inUse = c.inUse
      <4>1. ~(c.ent[i].inCache /\ c.ent[i].refs = 2)
        BY <2>4 DEF InCache
      <4> QED
        BY <1>8, <4>1 DEF Unrefd
    <3>2. i \in InCache(c.ent) => c.ent[i].refs > 2 /\ d.ent[i].refs >= 2
      BY <1>2, <1>3, <1>4, <1>12, <2>4
    <3>3. ASSUME NEW j \in InCache(c.ent)
          PROVE  /\ d.ent[j].refs = 1 <=> c.ent[j].refs = 1
                 /\ d.ent[j].refs >= 2 <=> c.ent[j].refs >= 2
      <4>1. CASE j = i
        BY <1>2, <1>12, <3>2, <4>1
      <4>2. CASE j # i
        BY <1>2, <1>11, <4>2
      <4> QED
        BY <4>1, <4>2
    <3>4. Range(d.lru) = {j \in InCache(d.ent) : d.ent[j].refs = 1}
      BY <1>7, <1>9, <3>1, <3>3
    <3>5. d.inUse = {j \in InCache(d.ent) : d.ent[j].refs >= 2}
      BY <1>7, <1>9, <3>1, <3>3
    <3> QED
      BY <1>7, <2>1, <2>2, <3>4, <3>5 DEF ListsOfCache
  <2> QED
    BY <2>3, <2>4
<1>15. TableHas(d, InCache(d.ent) \ {0})
  <2>1. TableHas(c, InCache(d.ent) \ {0})
    BY <1>9 DEF Consistent
  <2>2. d.list = c.list /\ d.elems = c.elems
    BY <1>8 DEF Unrefd
  <2>3. \A j \in InCache(d.ent) \ {0} : d.ent[j].key = c.ent[j].key
    BY <1>2, <1>8, <1>9 DEF Unrefd
  <2> QED
    BY <2>1, <2>2, <2>3, SameTable
<1> QED
  BY <1>10, <1>13, <1>14, <1>15 DEF Consistent

(* Entry i with one reference more, as Ref leaves it.                      *)
Refd(d, c, i) ==
  /\ d \in CacheState /\ Len(d.ent) = Len(c.ent) /\ DOMAIN d.ent = DOMAIN c.ent
  /\ \A j \in DOMAIN c.ent \ {i} : d.ent[j] = c.ent[j]
  /\ d.ent[i].key = c.ent[i].key /\ d.ent[i].charge = c.ent[i].charge
  /\ d.ent[i].inCache = c.ent[i].inCache /\ d.ent[i].refs = c.ent[i].refs + 1
  /\ d.list = c.list /\ d.elems = c.elems /\ d.usage = c.usage
  /\ d.freed = c.freed /\ IsInjective(d.lru)
  /\ c.ent[i].refs = 1 =>
       Range(d.lru) = Range(c.lru) \ {i} /\ d.inUse = c.inUse \cup {i}
  /\ c.ent[i].refs # 1 => Range(d.lru) = Range(c.lru) /\ d.inUse = c.inUse

LEMMA RefIs ==
  ASSUME NEW c \in CacheState, NEW i \in DOMAIN c.ent, IsInjective(c.lru),
         c.ent[i].inCache
  PROVE  Refd(Ref(c, i), c, i)
<1>1. c.ent \in Seq(CacheEntry) /\ c.ent[i] \in CacheEntry /\ i \in Nat
  BY DEF CacheState
<1>2. c.ent[i].refs \in Nat
  BY <1>1 DEF CacheEntry
<1>3. PICK a : a = IF c.ent[i].refs = 1 /\ c.ent[i].inCache
                     THEN [LRU_Remove(c, i) EXCEPT !.inUse = @ \cup {i}] ELSE c
  OBVIOUS
<1>4. /\ a \in CacheState /\ a.ent = c.ent /\ a.list = c.list /\ a.elems = c.elems
      /\ a.usage = c.usage /\ a.freed = c.freed /\ IsInjective(a.lru)
      /\ c.ent[i].refs = 1 =>
           Range(a.lru) = Range(c.lru) \ {i} /\ a.inUse = c.inUse \cup {i}
      /\ c.ent[i].refs # 1 => Range(a.lru) = Range(c.lru) /\ a.inUse = c.inUse
  <2>1. CASE c.ent[i].refs = 1
    <3>1. PICK b : b = LRU_Remove(c, i)
      OBVIOUS
    <3>2. /\ b \in CacheState /\ b.ent = c.ent /\ b.inUse = c.inUse \ {i}
          /\ b.list = c.list /\ b.elems = c.elems /\ b.usage = c.usage
          /\ b.freed = c.freed
          /\ IsInjective(b.lru) /\ Range(b.lru) = Range(c.lru) \ {i}
      BY <3>1, LRU_RemoveIs
    <3>3. PICK U : U = b.inUse \cup {i}
      OBVIOUS
    <3>4. U \in SUBSET Nat /\ U = c.inUse \cup {i}
      <4>1. b.inUse \in SUBSET Nat
        BY <3>2 DEF CacheState
      <4> QED
        BY <1>1, <3>2, <3>3, <4>1
    <3>5. a = [b EXCEPT !.inUse = U]
      <4>1. a = [LRU_Remove(c, i) EXCEPT !.inUse = @ \cup {i}]
        BY <1>3, <2>1, Zenon
      <4>2. a = [b EXCEPT !.inUse = @ \cup {i}]
        BY <3>1, <4>1
      <4> QED
        BY <3>2, <3>3, <4>2 DEF CacheState
    <3>6. /\ a \in CacheState /\ a.ent = b.ent /\ a.lru = b.lru /\ a.inUse = U
          /\ a.list = b.list /\ a.elems = b.elems /\ a.usage = b.usage
          /\ a.freed = b.freed
      BY <3>2, <3>4, <3>5 DEF CacheState
    <3> QED
      BY <2>1, <3>2, <3>4, <3>6
  <2>2. CASE c.ent[i].refs # 1
    <3>1. a = c
      BY <1>3, <2>2
    <3> QED
      BY <2>2, <3>1
  <2> QED
    BY <2>1, <2>2
<1>5. PICK y : y = [c.ent[i] EXCEPT !.refs = @ + 1]
  OBVIOUS
<1>6. /\ y \in CacheEntry /\ y.key = c.ent[i].key /\ y.charge = c.ent[i].charge
      /\ y.inCache = c.ent[i].inCache /\ y.refs = c.ent[i].refs + 1
  <2>1. PICK n \in Nat : n = c.ent[i].refs + 1
    BY <1>2
  <2>2. y = [c.ent[i] EXCEPT !.refs = n]
    BY <1>1, <1>5, <2>1 DEF CacheEntry
  <2> QED
    BY <1>1, <2>1, <2>2 DEF CacheEntry
<1>7. PICK d : d = EntryAs(a, i, y)
  OBVIOUS
<1>8. Edited(d, a, i, y)
  <2>1. i \in DOMAIN a.ent
    BY <1>4
  <2> QED
    BY <1>4, <1>6, <1>7, <2>1, EntryChanged
<1>9. d = [a EXCEPT !.ent[i].refs = @ + 1]
  <2>1. y = [a.ent[i] EXCEPT !.refs = @ + 1]
    BY <1>4, <1>5
  <2> QED
    BY <1>4, <1>7, <2>1 DEF CacheState, EntryAs
<1>10. Ref(c, i) = d
  BY <1>3, <1>9 DEF Ref
<1>11. Refd(d, c, i)
  BY <1>4, <1>6, <1>8 DEF Refd, Edited
<1> QED
  BY <1>10, <1>11

(* A client gets a handle of an entry in the cache.                        *)
LEMMA RefKeeps ==
  ASSUME NEW c, NEW h, Consistent(c, h, 0), NEW i \in InCache(c.ent)
  PROVE  /\ Consistent(Ref(c, i), [h EXCEPT ![i] = @ + 1], 0)
         /\ Ref(c, i).usage = c.usage
         /\ Range(Ref(c, i).lru) \subseteq Range(c.lru)
<1> PICK d : d = Ref(c, i)
  OBVIOUS
<1> PICK g : g = [h EXCEPT ![i] = @ + 1]
  OBVIOUS
<1>1. /\ c \in CacheState /\ c.list # << >> /\ c.freed \subseteq DOMAIN c.ent
      /\ h \in Seq(Nat) /\ Len(h) = Len(c.ent)
  BY DEF Consistent, CacheTypes
<1>2. /\ IsFiniteSet(InCache(c.ent)) /\ InCache(c.ent) \subseteq DOMAIN c.ent
      /\ \A j \in DOMAIN c.ent : j \in Nat \ {0} /\ c.ent[j].charge \in Nat
      /\ \A j \in DOMAIN c.ent : c.ent[j].refs \in Nat /\ c.ent[j].key \in Nat
  BY <1>1, CachedFinite
<1>3. \A j \in DOMAIN c.ent :
        /\ j \in InCache(c.ent) => c.ent[j].refs = h[j] + 1
        /\ j \notin InCache(c.ent) => c.ent[j].refs = h[j] + 0
        /\ j \in c.freed <=> c.ent[j].refs = 0
  BY CountOf DEF Consistent
<1>4. DOMAIN h = DOMAIN c.ent /\ \A j \in DOMAIN c.ent : h[j] \in Nat
  BY <1>1 DEF CacheState
<1>5. i \in DOMAIN c.ent /\ c.ent[i].inCache
  BY DEF InCache
<1>6. /\ g \in Seq(Nat) /\ Len(g) = Len(h) /\ g[i] = h[i] + 1
      /\ \A j \in DOMAIN c.ent \ {i} : g[j] = h[j]
  <2>1. h[i] + 1 \in Nat
    BY <1>4, <1>5
  <2> QED
    BY <1>1, <1>4, <1>5, <2>1
<1>7. /\ IsInjective(c.lru)
      /\ Range(c.lru) = {j \in InCache(c.ent) : c.ent[j].refs = 1}
      /\ c.inUse = {j \in InCache(c.ent) : c.ent[j].refs >= 2}
      /\ c.usage = Cardinality(Units(c.ent, InCache(c.ent)))
  BY DEF Consistent, ListsOfCache
<1>8. Refd(d, c, i)
  BY <1>1, <1>5, <1>7, RefIs
<1>9. InCache(d.ent) = InCache(c.ent) /\ DOMAIN d.ent = DOMAIN c.ent
  <2>1. ASSUME NEW j \in DOMAIN c.ent
        PROVE  j \in InCache(d.ent) <=> j \in InCache(c.ent)
    <3>1. CASE j = i
      <4>1. d.ent[i].inCache = c.ent[i].inCache /\ i \in DOMAIN d.ent
        BY <1>5, <1>8 DEF Refd
      <4> QED
        BY <3>1, <4>1, Zenon DEF InCache
    <3>2. CASE j # i
      BY <1>8, <3>2 DEF InCache, Refd
    <3> QED
      BY <3>1, <3>2
  <2>2. DOMAIN d.ent = DOMAIN c.ent
    BY <1>8 DEF Refd
  <2> QED
    BY <2>1, <2>2 DEF InCache
<1>10. CacheTypes(d, g)
  BY <1>1, <1>6, <1>8 DEF CacheTypes, Refd
<1>11. \A j \in DOMAIN c.ent : j # i => d.ent[j] = c.ent[j]
  BY <1>8 DEF Refd
<1>12. d.ent[i].refs = c.ent[i].refs + 1 /\ d.freed = c.freed
  BY <1>8 DEF Refd
<1>13. c.ent[i].refs = h[i] + 1 /\ h[i] \in Nat /\ i \notin c.freed
  BY <1>3, <1>4, <1>5
<1>14. CountsOf(d, g)
  <2>1. ASSUME NEW j \in DOMAIN d.ent
        PROVE  /\ j \in InCache(d.ent) => d.ent[j].refs = g[j] + 1
               /\ j \notin InCache(d.ent) => d.ent[j].refs = g[j] + 0
               /\ j \in d.freed <=> d.ent[j].refs = 0
    <3>1. CASE j = i
      BY <1>6, <1>9, <1>12, <1>13, <3>1
    <3>2. CASE j # i
      <4>1. d.ent[j] = c.ent[j] /\ g[j] = h[j]
        BY <1>6, <1>9, <1>11, <3>2
      <4> QED
        BY <1>3, <1>9, <1>12, <4>1
    <3> QED
      BY <3>1, <3>2
  <2>2. \A j \in DOMAIN d.ent : Counted(d, g, j)
    BY <2>1 DEF Counted
  <2> QED
    BY <2>2, CountsFrom
<1>15. ListsOfCache(d) /\ d.usage = c.usage /\ Range(d.lru) \subseteq Range(c.lru)
  <2>1. IsInjective(d.lru) /\ d.usage = c.usage
    BY <1>8 DEF Refd
  <2>2. Units(d.ent, InCache(d.ent)) = Units(c.ent, InCache(c.ent))
    <3>1. \A j \in InCache(c.ent) : d.ent[j].charge = c.ent[j].charge
      BY <1>2, <1>8 DEF Refd
    <3> QED
      BY <1>9, <3>1, UnitsAlike
  <2>3. d.ent[i].refs >= 2 /\ d.ent[i].refs # 1
    BY <1>12, <1>13
  <2>4. /\ c.ent[i].refs = 1 =>
             Range(d.lru) = Range(c.lru) \ {i} /\ d.inUse = c.inUse \cup {i}
        /\ c.ent[i].refs # 1 => Range(d.lru) = Range(c.lru) /\ d.inUse = c.inUse
    BY <1>8 DEF Refd
  <2>5. c.ent[i].refs # 1 => c.ent[i].refs >= 2
    BY <1>13
  <2>6. Range(d.lru) = {j \in InCache(d.ent) : d.ent[j].refs = 1}
    BY <1>2, <1>7, <1>9, <1>11, <2>3, <2>4
  <2>7. d.inUse = {j \in InCache(d.ent) : d.ent[j].refs >= 2}
    BY <1>2, <1>7, <1>9, <1>11, <2>3, <2>4, <2>5
  <2> QED
    BY <1>7, <2>1, <2>2, <2>4, <2>6, <2>7 DEF ListsOfCache
<1>16. TableHas(d, InCache(d.ent) \ {0})
  <2>1. TableHas(c, InCache(d.ent) \ {0})
    BY <1>9 DEF Consistent
  <2>2. d.list = c.list /\ d.elems = c.elems
    BY <1>8 DEF Refd
  <2>3. \A j \in InCache(d.ent) \ {0} : d.ent[j].key = c.ent[j].key
    BY <1>2, <1>8, <1>9 DEF Refd
  <2> QED
    BY <2>1, <2>2, <2>3, SameTable
<1> QED
  BY <1>10, <1>14, <1>15, <1>16 DEF Consistent

(* A table of one entry less.                                              *)
LEMMA RemovedKeeps ==
  ASSUME NEW c, NEW h, Consistent(c, h, 0), NEW k \in CacheKeys, NEW i,
         i = LookupIn(c.ent, c.list, k), NEW d, d = Removed(c, k)
  PROVE  /\ Consistent(d, h, i) /\ d.usage = c.usage /\ d.lru = c.lru
         /\ d.ent = c.ent /\ (i = 0 \/ i \in InCache(c.ent))
<1>1. /\ c \in CacheState /\ c.list # << >> /\ c.freed \subseteq DOMAIN c.ent
      /\ h \in Seq(Nat) /\ Len(h) = Len(c.ent)
  BY DEF Consistent, CacheTypes
<1>2. /\ IsFiniteSet(InCache(c.ent)) /\ InCache(c.ent) \subseteq DOMAIN c.ent
      /\ \A j \in DOMAIN c.ent : j \in Nat \ {0} /\ c.ent[j].charge \in Nat
      /\ \A j \in DOMAIN c.ent : c.ent[j].refs \in Nat /\ c.ent[j].key \in Nat
  BY <1>1, CachedFinite
<1>3. PICK S : S = InCache(c.ent)
  OBVIOUS
<1>4. TableHas(c, S) /\ S \subseteq DOMAIN c.ent /\ 0 \notin S /\ IsFiniteSet(S)
  <2>1. S = InCache(c.ent) \ {0}
    BY <1>2, <1>3
  <2> QED
    BY <1>2, <1>3, <2>1 DEF Consistent
<1>5. k \in Nat
  BY CacheConstants
<1>6. \/ i = 0 /\ \A j \in S : c.ent[j].key # k
      \/ i # 0 /\ i \in S /\ c.ent[i].key = k
  BY <1>1, <1>4, <1>5, FoundEntry
<1>7. PICK t : t = TableRemove(c.ent, c.list, k)
  OBVIOUS
<1>8. PICK n : n = IF i = 0 THEN c.elems ELSE c.elems - 1
  OBVIOUS
<1>9. PICK b : b = Bucket(c.list, k)
  OBVIOUS
<1>10. c.list \in Seq(SUBSET Nat) /\ c.elems \in Nat
  BY <1>1 DEF CacheState
<1>11. b \in 1 .. Len(c.list)
  BY <1>1, <1>5, <1>9, <1>10, BucketIn
<1>12. t = [c.list EXCEPT ![b] = c.list[b] \ {i}]
  BY <1>7, <1>9 DEF TableRemove
<1>13. /\ t \in Seq(SUBSET Nat) /\ Len(t) = Len(c.list) /\ DOMAIN t = DOMAIN c.list
       /\ t[b] = c.list[b] \ {i} /\ \A a \in DOMAIN t \ {b} : t[a] = c.list[a]
  <2>1. c.list[b] \ {i} \in SUBSET Nat
    BY <1>10, <1>11
  <2> QED
    BY <1>10, <1>11, <1>12, <2>1
<1>14. n = Cardinality(S \ {i}) /\ n \in Nat
  <2>1. c.elems = Cardinality(S)
    BY <1>4 DEF TableHas
  <2>2. /\ IsFiniteSet(S \ {i})
        /\ Cardinality(S \ {i}) =
             IF i \in S THEN Cardinality(S) - 1 ELSE Cardinality(S)
    BY <1>4, FS_RemoveElement
  <2>3. Cardinality(S \ {i}) \in Nat
    BY <2>2, FS_CardinalityType
  <2> QED
    BY <1>4, <1>6, <1>8, <2>1, <2>2, <2>3
<1>15. d = [c EXCEPT !.list = t, !.elems = n]
  BY <1>1, <1>7, <1>8 DEF Removed, CacheState
<1>16. /\ d \in CacheState /\ d.ent = c.ent /\ d.lru = c.lru /\ d.inUse = c.inUse
       /\ d.list = t /\ d.elems = n /\ d.usage = c.usage /\ d.freed = c.freed
  BY <1>1, <1>13, <1>14, <1>15 DEF CacheState
<1>17. CacheTypes(d, h)
  <2>1. t # << >>
    BY <1>10, <1>11, <1>13
  <2> QED
    BY <1>1, <1>16, <2>1 DEF CacheTypes
<1>18. CountsOf(d, h) /\ ListsOfCache(d)
  BY <1>16 DEF CountsOf, ListsOfCache, Consistent
<1>19. TableHas(d, S \ {i})
  <2>1. ASSUME NEW a \in DOMAIN t
        PROVE  t[a] = {j \in S \ {i} : Bucket(t, c.ent[j].key) = a}
    <3>1. c.list[a] = {j \in S : Bucket(c.list, c.ent[j].key) = a}
      BY <1>4, <1>13 DEF TableHas
    <3>2. \A j : Bucket(t, c.ent[j].key) = Bucket(c.list, c.ent[j].key)
      BY <1>13 DEF Bucket
    <3>3. i \in S => Bucket(c.list, c.ent[i].key) = b
      <4>1. i \in S => c.ent[i].key = k
        BY <1>4, <1>6
      <4> QED
        BY <1>9, <4>1
    <3>4. CASE a = b
      BY <1>13, <3>1, <3>2, <3>4
    <3>5. CASE a # b
      BY <1>13, <3>1, <3>2, <3>3, <3>5
    <3> QED
      BY <3>4, <3>5
  <2>2. \A j, m \in S : c.ent[j].key = c.ent[m].key => j = m
    BY <1>4 DEF TableHas
  <2> QED
    BY <1>14, <1>16, <2>1, <2>2 DEF TableHas
<1> QED
  BY <1>3, <1>6, <1>16, <1>17, <1>18, <1>19 DEF Consistent

(* What Erase and a turn of the evicting loops leave.                      *)
LEMMA ErasedKeeps ==
  ASSUME NEW c, NEW h, Consistent(c, h, 0), NEW k \in CacheKeys
  PROVE  /\ Consistent(Erased(c, k), h, 0) /\ Erased(c, k).usage <= c.usage
         /\ Range(Erased(c, k).lru) \subseteq Range(c.lru)
<1>1. PICK i : i = LookupIn(c.ent, c.list, k)
  OBVIOUS
<1>2. PICK d : d = Removed(c, k)
  OBVIOUS
<1>3. /\ Consistent(d, h, i) /\ d.usage = c.usage /\ d.lru = c.lru
      /\ d.ent = c.ent /\ (i = 0 \/ i \in InCache(c.ent))
  BY <1>1, <1>2, RemovedKeeps
<1>4. Erased(c, k) = FinishErase(d, i)
  BY <1>1, <1>2 DEF Erased
<1>5. CASE i = 0
  <2>1. Erased(c, k) = d
    BY <1>4, <1>5 DEF FinishErase
  <2>2. c.usage \in Int
    BY DEF Consistent, CacheTypes, CacheState
  <2> QED
    BY <1>3, <1>5, <2>1, <2>2
<1>6. CASE i \in InCache(c.ent)
  <2>1. i \in InCache(d.ent)
    BY <1>3, <1>6
  <2>2. /\ Consistent(FinishErase(d, i), h, 0)
        /\ FinishErase(d, i).usage <= d.usage
        /\ Range(FinishErase(d, i).lru) \subseteq Range(d.lru)
    BY <1>3, <2>1, FinishEraseKeeps
  <2> QED
    BY <1>3, <1>4, <2>2
<1> QED
  BY <1>3, <1>5, <1>6

(* One entry more, which the client alone has or the cache as well.        *)
Longer(d, c, x) ==
  /\ d.ent = Append(c.ent, x) /\ Len(d.ent) = Len(c.ent) + 1
  /\ d.ent \in Seq(CacheEntry) /\ DOMAIN d.ent = DOMAIN c.ent \cup {Len(c.ent) + 1}
  /\ Len(c.ent) + 1 \notin DOMAIN c.ent /\ Len(c.ent) + 1 \in Nat \ {0}
  /\ d.ent[Len(c.ent) + 1] = x /\ \A j \in DOMAIN c.ent : d.ent[j] = c.ent[j]

LEMMA LongerIs ==
  ASSUME NEW c \in CacheState, NEW x \in CacheEntry, NEW d, d.ent = Append(c.ent, x)
  PROVE  Longer(d, c, x)
<1>1. c.ent \in Seq(CacheEntry) /\ DOMAIN c.ent = 1 .. Len(c.ent) /\ Len(c.ent) \in Nat
  BY DEF CacheState
<1>2. /\ Append(c.ent, x) \in Seq(CacheEntry) /\ Len(Append(c.ent, x)) = Len(c.ent) + 1
      /\ DOMAIN Append(c.ent, x) = 1 .. Len(c.ent) + 1
      /\ Append(c.ent, x)[Len(c.ent) + 1] = x
      /\ \A j \in 1 .. Len(c.ent) : Append(c.ent, x)[j] = c.ent[j]
  BY <1>1
<1>3. 1 .. Len(c.ent) + 1 = (1 .. Len(c.ent)) \cup {Len(c.ent) + 1}
  BY <1>1
<1> QED
  BY <1>1, <1>2, <1>3 DEF Longer

(* The new entry has one handle, the others have theirs.                   *)
LEMMA OneMore ==
  ASSUME NEW c \in CacheState, NEW h \in Seq(Nat), Len(h) = Len(c.ent)
  PROVE  /\ Append(h, 1) \in Seq(Nat) /\ Len(Append(h, 1)) = Len(c.ent) + 1
         /\ Append(h, 1)[Len(c.ent) + 1] = 1
         /\ \A j \in DOMAIN c.ent : Append(h, 1)[j] = h[j]
<1>1. /\ Append(h, 1) \in Seq(Nat) /\ Len(Append(h, 1)) = Len(h) + 1
      /\ Append(h, 1)[Len(h) + 1] = 1
      /\ \A j \in 1 .. Len(h) : Append(h, 1)[j] = h[j]
  OBVIOUS
<1>2. DOMAIN c.ent = 1 .. Len(h)
  <2>1. c.ent \in Seq(CacheEntry)
    BY DEF CacheState
  <2> QED
    BY <2>1
<1> QED
  BY <1>1, <1>2

LEMMA HandleIs ==
  ASSUME NEW k \in CacheKeys, NEW n \in Charges, NEW b \in BOOLEAN
  PROVE  /\ Handle(k, n, b) \in CacheEntry /\ Handle(k, n, b).key = k
         /\ Handle(k, n, b).charge = n /\ Handle(k, n, b).inCache = b
         /\ b = TRUE => Handle(k, n, b).refs = 2
         /\ b = FALSE => Handle(k, n, b).refs = 1
BY DEF Handle, CacheEntry

(* With a capacity of 0 the cache has what it had.                         *)
LEMMA OnlyHandedOut ==
  ASSUME NEW c, NEW h, Consistent(c, h, 0), NEW k \in CacheKeys, NEW n \in Charges,
         NEW d, d = HandedOut(c, k, n)
  PROVE  Consistent(d, Append(h, 1), 0)
<1>1. /\ c \in CacheState /\ c.list # << >> /\ c.freed \subseteq DOMAIN c.ent
      /\ h \in Seq(Nat) /\ Len(h) = Len(c.ent)
  BY DEF Consistent, CacheTypes
<1>2. PICK x : x = Handle(k, n, FALSE)
  OBVIOUS
<1>3. x \in CacheEntry /\ x.refs = 1 /\ x.inCache = FALSE
  BY <1>2, HandleIs
<1>4. PICK f : f = Append(c.ent, x)
  OBVIOUS
<1>5. f \in Seq(CacheEntry)
  BY <1>1, <1>3, <1>4 DEF CacheState
<1>6. d = [c EXCEPT !.ent = f]
  BY <1>1, <1>2, <1>4 DEF CacheState, HandedOut
<1>7. /\ d \in CacheState /\ d.ent = f /\ d.lru = c.lru /\ d.inUse = c.inUse
      /\ d.list = c.list /\ d.elems = c.elems /\ d.usage = c.usage
      /\ d.freed = c.freed
  BY <1>1, <1>5, <1>6 DEF CacheState
<1>8. Longer(d, c, x)
  BY <1>1, <1>3, <1>4, <1>7, LongerIs
<1>9. PICK g : g = Append(h, 1)
  OBVIOUS
<1>10. /\ g \in Seq(Nat) /\ Len(g) = Len(c.ent) + 1 /\ g[Len(c.ent) + 1] = 1
       /\ \A j \in DOMAIN c.ent : g[j] = h[j]
  BY <1>1, <1>9, OneMore
<1>11. PICK i : i = Len(c.ent) + 1
  OBVIOUS
<1>12. InCache(d.ent) = InCache(c.ent)
  <2>1. ~d.ent[i].inCache
    BY <1>3, <1>8, <1>11 DEF Longer
  <2>2. ASSUME NEW j \in DOMAIN c.ent PROVE d.ent[j] = c.ent[j] /\ j \in DOMAIN d.ent
    BY <1>8 DEF Longer
  <2>3. DOMAIN d.ent = DOMAIN c.ent \cup {i}
    BY <1>8, <1>11 DEF Longer
  <2> QED
    BY <2>1, <2>2, <2>3 DEF InCache
<1>13. CacheTypes(d, g)
  BY <1>1, <1>7, <1>8, <1>10 DEF CacheTypes, Longer
<1>14. CountsOf(d, g)
  <2>1. ASSUME NEW j \in DOMAIN d.ent PROVE Counted(d, g, j)
    <3>1. CASE j = i
      <4>1. j \notin InCache(d.ent) /\ j \notin d.freed
        <5>1. j \notin DOMAIN c.ent
          BY <1>8, <1>11, <3>1 DEF Longer
        <5>2. InCache(c.ent) \subseteq DOMAIN c.ent
          BY DEF InCache
        <5> QED
          BY <1>1, <1>7, <1>12, <5>1, <5>2
      <4>2. d.ent[j].refs = 1 /\ g[j] = 1
        BY <1>3, <1>8, <1>10, <1>11, <3>1 DEF Longer
      <4> QED
        BY <4>1, <4>2 DEF Counted
    <3>2. CASE j # i
      <4>1. j \in DOMAIN c.ent /\ d.ent[j] = c.ent[j] /\ g[j] = h[j]
        BY <1>8, <1>10, <1>11, <3>2 DEF Longer
      <4>2. /\ j \in InCache(c.ent) => c.ent[j].refs = h[j] + 1
            /\ j \notin InCache(c.ent) => c.ent[j].refs = h[j] + 0
            /\ j \in c.freed <=> c.ent[j].refs = 0
        BY <4>1, CountOf DEF Consistent
      <4> QED
        BY <1>7, <1>12, <4>1, <4>2 DEF Counted
    <3> QED
      BY <3>1, <3>2
  <2> QED
    BY <2>1, CountsFrom
<1>15. ASSUME NEW j \in InCache(c.ent) PROVE d.ent[j] = c.ent[j]
  <2>1. j \in DOMAIN c.ent
    BY DEF InCache
  <2> QED
    BY <1>8, <2>1 DEF Longer
<1>16. ListsOfCache(d)
  <2>1. Units(d.ent, InCache(d.ent)) = Units(c.ent, InCache(c.ent))
    <3>1. \A j \in InCache(c.ent) : d.ent[j].charge = c.ent[j].charge
      BY <1>15
    <3> QED
      BY <1>12, <3>1, UnitsAlike
  <2>2. /\ Range(c.lru) = {j \in InCache(c.ent) : c.ent[j].refs = 1} /\ IsInjective(c.lru)
        /\ c.inUse = {j \in InCache(c.ent) : c.ent[j].refs >= 2}
        /\ c.usage = Cardinality(Units(c.ent, InCache(c.ent)))
    BY DEF Consistent, ListsOfCache
  <2>3. \A j \in InCache(c.ent) : d.ent[j].refs = c.ent[j].refs
    BY <1>15
  <2>4. {j \in InCache(d.ent) : d.ent[j].refs = 1} = {j \in InCache(c.ent) : c.ent[j].refs = 1}
    BY <1>12, <2>3
  <2>5. {j \in InCache(d.ent) : d.ent[j].refs >= 2} = {j \in InCache(c.ent) : c.ent[j].refs >= 2}
    BY <1>12, <2>3
  <2> QED
    BY <1>7, <2>1, <2>2, <2>4, <2>5 DEF ListsOfCache
<1>17. TableHas(d, InCache(d.ent) \ {0})
  <2>1. TableHas(c, InCache(d.ent) \ {0})
    BY <1>12 DEF Consistent
  <2>2. \A j \in InCache(d.ent) \ {0} : d.ent[j].key = c.ent[j].key
    BY <1>12, <1>15
  <2> QED
    BY <1>7, <2>1, <2>2, SameTable
<1> QED
  BY <1>9, <1>13, <1>14, <1>16, <1>17 DEF Consistent

(* The table t has the entries of S in their buckets.                      *)
Owns(ents, t, S) ==
  /\ t \in Seq(SUBSET Nat) /\ t # << >>
  /\ \A b \in DOMAIN t : t[b] = {i \in S : Bucket(t, ents[i].key) = b}

(* Resize keeps the entries, in the buckets of the new length.             *)
LEMMA ResizeHolds ==
  ASSUME NEW ents, NEW t, NEW S \in SUBSET Nat, \A i \in S : ents[i].key \in Nat,
         Owns(ents, t, S), NEW n \in Nat
  PROVE  Owns(ents, Resize(ents, t, n), S)
<1>1. CASE ~(n > Len(t))
  <2>1. Resize(ents, t, n) = t
    BY <1>1 DEF Resize
  <2> QED
    BY <2>1
<1>2. CASE n > Len(t)
  <2>1. PICK len : len = NewLength(n)
    OBVIOUS
  <2>2. len \in Nat \ {0}
    BY <2>1, LengthGrows
  <2>3. PICK z : z = Resized(ents, t, len)
    OBVIOUS
  <2>4. Resize(ents, t, n) = z
    BY <1>2, <2>1, <2>3 DEF Resize
  <2>5. UNION Range(t) = S
    <3>1. t \in Seq(SUBSET Nat) /\ t # << >>
      BY DEF Owns
    <3>2. ASSUME NEW i \in S PROVE \E b \in DOMAIN t : i \in t[b]
      <4>1. PICK b : b = Bucket(t, ents[i].key)
        OBVIOUS
      <4>2. b \in DOMAIN t
        <5>1. ents[i].key \in Nat
          OBVIOUS
        <5>2. b \in 1 .. Len(t)
          BY <3>1, <4>1, <5>1, BucketIn
        <5> QED
          BY <3>1, <5>2
      <4>3. t[b] = {j \in S : Bucket(t, ents[j].key) = b}
        BY <4>2 DEF Owns
      <4> QED
        BY <4>1, <4>2, <4>3
    <3>3. ASSUME NEW b \in DOMAIN t PROVE t[b] \subseteq S
      BY DEF Owns
    <3> QED
      BY <3>2, <3>3 DEF Range
  <2>6. z = [b \in 1 .. len |-> {i \in S : (ents[i].key % len) + 1 = b}]
    BY <2>3, <2>5 DEF Resized
  <2>7. /\ z \in Seq(SUBSET Nat) /\ Len(z) = len /\ DOMAIN z = 1 .. len /\ z # << >>
        /\ \A b \in 1 .. len : z[b] = {i \in S : (ents[i].key % len) + 1 = b}
    <3>1. \A b \in 1 .. len : {i \in S : (ents[i].key % len) + 1 = b} \in SUBSET Nat
      OBVIOUS
    <3>2. z \in [1 .. len -> SUBSET Nat]
      BY <2>6, <3>1
    <3>3. z \in Seq(SUBSET Nat) /\ Len(z) = len
      BY <2>2, <3>2
    <3>4. z # << >>
      BY <2>2, <3>3
    <3> QED
      BY <2>6, <3>2, <3>3, <3>4
  <2>8. \A b \in DOMAIN z : z[b] = {i \in S : Bucket(z, ents[i].key) = b}
    BY <2>7 DEF Bucket
  <2> QED
    BY <2>4, <2>7, <2>8 DEF Owns
<1> QED
  BY <1>1, <1>2

(* The new entry in the table, in the place of the old one of its key.     *)
LEMMA InsertHolds ==
  ASSUME NEW ents, NEW t, NEW S \in SUBSET Nat, Owns(ents, t, S),
         NEW i \in Nat, NEW old, NEW k \in Nat, ents[i].key = k,
         old \in S => ents[old].key = k
  PROVE  Owns(ents, TableInsert(t, i, k, old), (S \ {old}) \cup {i})
<1>1. t \in Seq(SUBSET Nat) /\ t # << >>
  BY DEF Owns
<1>2. PICK b : b = Bucket(t, k)
  OBVIOUS
<1>3. b \in 1 .. Len(t)
  BY <1>1, <1>2, BucketIn
<1>4. PICK z : z = TableInsert(t, i, k, old)
  OBVIOUS
<1>5. PICK X : X = (t[b] \ {old}) \cup {i}
  OBVIOUS
<1>6. X \in SUBSET Nat
  BY <1>1, <1>3, <1>5
<1>7. z = [t EXCEPT ![b] = X]
  BY <1>2, <1>4, <1>5 DEF TableInsert
<1>8. /\ z \in Seq(SUBSET Nat) /\ Len(z) = Len(t) /\ DOMAIN z = DOMAIN t
      /\ z[b] = X /\ \A a \in DOMAIN t \ {b} : z[a] = t[a]
  BY <1>1, <1>3, <1>6, <1>7
<1>9. z # << >>
  BY <1>1, <1>3, <1>8
<1>10. ASSUME NEW a \in DOMAIN z
       PROVE  z[a] = {j \in (S \ {old}) \cup {i} : Bucket(z, ents[j].key) = a}
  <2>1. t[a] = {j \in S : Bucket(t, ents[j].key) = a}
    BY <1>8 DEF Owns
  <2>2. \A j : Bucket(z, ents[j].key) = Bucket(t, ents[j].key)
    BY <1>8 DEF Bucket
  <2>3. Bucket(t, ents[i].key) = b /\ (old \in S => Bucket(t, ents[old].key) = b)
    BY <1>2
  <2>4. CASE a = b
    BY <1>5, <1>8, <2>1, <2>2, <2>3, <2>4
  <2>5. CASE a # b
    BY <1>8, <2>1, <2>2, <2>3, <2>5
  <2> QED
    BY <2>4, <2>5
<1> QED
  BY <1>4, <1>8, <1>9, <1>10 DEF Owns

(* A new entry is in the cache; `old`, which has its key, is no longer in  *)
(* the table.                                                              *)
LEMMA AddedKeeps ==
  ASSUME NEW c, NEW h, Consistent(c, h, 0), NEW k \in CacheKeys, NEW n \in Charges,
         NEW old, old = LookupIn(c.ent, c.list, k),
         NEW d, d = Added(c, Len(c.ent) + 1, k, n, old)
  PROVE  Consistent(d, Append(h, 1), old) /\ (old = 0 \/ old \in InCache(d.ent))
<1>1. /\ c \in CacheState /\ c.list # << >> /\ c.freed \subseteq DOMAIN c.ent
      /\ h \in Seq(Nat) /\ Len(h) = Len(c.ent)
  BY DEF Consistent, CacheTypes
<1>2. /\ IsFiniteSet(InCache(c.ent)) /\ InCache(c.ent) \subseteq DOMAIN c.ent
      /\ \A j \in DOMAIN c.ent : j \in Nat \ {0} /\ c.ent[j].charge \in Nat
      /\ \A j \in DOMAIN c.ent : c.ent[j].refs \in Nat /\ c.ent[j].key \in Nat
  BY <1>1, CachedFinite
<1>3. PICK S : S = InCache(c.ent)
  OBVIOUS
<1>4. TableHas(c, S) /\ S \subseteq DOMAIN c.ent /\ 0 \notin S /\ IsFiniteSet(S)
  <2>1. S = InCache(c.ent) \ {0}
    BY <1>2, <1>3
  <2> QED
    BY <1>2, <1>3, <2>1 DEF Consistent
<1>5. k \in Nat /\ n \in Nat
  BY CacheConstants
<1>6. \/ old = 0 /\ \A j \in S : c.ent[j].key # k
      \/ old # 0 /\ old \in S /\ c.ent[old].key = k
  BY <1>1, <1>4, <1>5, FoundEntry
<1>7. PICK x : x = Handle(k, n, TRUE)
  OBVIOUS
<1>8. x \in CacheEntry /\ x.key = k /\ x.charge = n /\ x.inCache = TRUE /\ x.refs = 2
  BY <1>7, HandleIs
<1>9. PICK i : i = Len(c.ent) + 1
  OBVIOUS
<1>10. PICK f : f = Append(c.ent, x)
  OBVIOUS
<1>11. PICK m : m = IF old = 0 THEN c.elems + 1 ELSE c.elems
  OBVIOUS
<1>12. PICK t : t = TableInsert(c.list, i, k, old)
  OBVIOUS
<1>13. PICK z : z = Resize(f, t, m)
  OBVIOUS
<1>14. PICK U, u : U = c.inUse \cup {i} /\ u = c.usage + n
  OBVIOUS
<1>15. d = [c EXCEPT !.ent = f, !.inUse = U, !.usage = u, !.list = z, !.elems = m]
  <2>1. d = [c EXCEPT !.ent = f, !.inUse = @ \cup {i}, !.usage = @ + n,
                      !.list = Resize(f, TableInsert(@, i, k, old), m),
                      !.elems = m]
    BY <1>7, <1>9, <1>10, <1>11 DEF Added
  <2>2. d = [c EXCEPT !.ent = f, !.inUse = c.inUse \cup {i}, !.usage = c.usage + n,
                      !.list = Resize(f, TableInsert(c.list, i, k, old), m),
                      !.elems = m]
    BY <1>1, <2>1 DEF CacheState
  <2> QED
    BY <1>12, <1>13, <1>14, <2>2, Zenon
<1>16. PICK q : q = [c EXCEPT !.ent = f]
  OBVIOUS
<1>17. q.ent = f
  BY <1>1, <1>16 DEF CacheState
<1>18. Longer(q, c, x)
  BY <1>1, <1>8, <1>10, <1>17, LongerIs
<1>19. /\ f \in Seq(CacheEntry) /\ DOMAIN f = DOMAIN c.ent \cup {i} /\ Len(f) = Len(c.ent) + 1
       /\ i \notin DOMAIN c.ent /\ i \in Nat \ {0} /\ f[i] = x
       /\ \A j \in DOMAIN c.ent : f[j] = c.ent[j]
  BY <1>9, <1>17, <1>18 DEF Longer
<1>20. PICK T : T = (S \ {old}) \cup {i}
  OBVIOUS
<1>21. Owns(f, z, T)
  <2>1. c.list \in Seq(SUBSET Nat)
    BY <1>1 DEF CacheState
  <2>2. ASSUME NEW j \in S PROVE f[j].key = c.ent[j].key /\ j \in Nat
    BY <1>2, <1>4, <1>19
  <2>3. Owns(f, c.list, S)
    <3>1. ASSUME NEW b \in DOMAIN c.list
          PROVE  c.list[b] = {j \in S : Bucket(c.list, f[j].key) = b}
      <4>1. c.list[b] = {j \in S : Bucket(c.list, c.ent[j].key) = b}
        BY <1>4 DEF TableHas
      <4> QED
        BY <2>2, <4>1
    <3> QED
      BY <1>1, <2>1, <3>1 DEF Owns
  <2>4. S \in SUBSET Nat
    BY <2>2
  <2>5. f[i].key = k /\ (old \in S => f[old].key = k)
    <3>1. old \in S => c.ent[old].key = k
      BY <1>4, <1>6
    <3> QED
      BY <1>8, <1>19, <2>2, <3>1
  <2>6. Owns(f, t, T)
    BY <1>5, <1>12, <1>19, <1>20, <2>3, <2>4, <2>5, InsertHolds
  <2>7. T \in SUBSET Nat /\ \A j \in T : f[j].key \in Nat
    BY <1>2, <1>4, <1>5, <1>19, <1>20, <2>2, <2>5
  <2>8. m \in Nat
    BY <1>1, <1>11 DEF CacheState
  <2> QED
    BY <1>13, <2>6, <2>7, <2>8, ResizeHolds
<1>22. m = Cardinality(T) /\ m \in Nat
  <2>1. c.elems = Cardinality(S) /\ Cardinality(S) \in Nat
    BY <1>4, FS_CardinalityType DEF TableHas
  <2>2. /\ IsFiniteSet(S \ {old})
        /\ Cardinality(S \ {old}) =
             IF old \in S THEN Cardinality(S) - 1 ELSE Cardinality(S)
    BY <1>4, FS_RemoveElement
  <2>3. i \notin S \ {old}
    BY <1>4, <1>19
  <2>4. Cardinality(T) = Cardinality(S \ {old}) + 1
    BY <1>20, <2>2, <2>3, FS_AddElement
  <2> QED
    BY <1>4, <1>6, <1>11, <2>1, <2>2, <2>4
<1>23. /\ d \in CacheState /\ d.ent = f /\ d.lru = c.lru /\ d.inUse = U
       /\ d.list = z /\ d.elems = m /\ d.usage = u /\ d.freed = c.freed
  <2>1. U \in SUBSET Nat /\ u \in Int
    <3>1. c.inUse \in SUBSET Nat /\ c.usage \in Int
      BY <1>1 DEF CacheState
    <3> QED
      BY <1>5, <1>14, <1>19, <3>1
  <2>2. z \in Seq(SUBSET Nat)
    BY <1>21 DEF Owns
  <2> QED
    BY <1>1, <1>15, <1>19, <1>22, <2>1, <2>2 DEF CacheState
<1>24. PICK g : g = Append(h, 1)
  OBVIOUS
<1>25. /\ g \in Seq(Nat) /\ Len(g) = Len(c.ent) + 1 /\ g[i] = 1
       /\ \A j \in DOMAIN c.ent : g[j] = h[j]
  BY <1>1, <1>9, <1>24, OneMore
<1>26. InCache(f) = S \cup {i}
  <2>1. f[i].inCache
    BY <1>8, <1>19
  <2> QED
    BY <1>3, <1>19, <2>1 DEF InCache
<1>27. CacheTypes(d, g)
  <2>1. z # << >>
    BY <1>21 DEF Owns
  <2> QED
    BY <1>1, <1>19, <1>23, <1>25, <2>1 DEF CacheTypes
<1>28. CountsOf(d, g)
  <2>1. ASSUME NEW j \in DOMAIN d.ent PROVE Counted(d, g, j)
    <3>1. CASE j = i
      <4>1. j \in InCache(d.ent) /\ j \notin d.freed
        BY <1>1, <1>19, <1>23, <1>26, <3>1
      <4>2. d.ent[j].refs = 2 /\ g[j] = 1
        BY <1>8, <1>19, <1>23, <1>25, <3>1
      <4> QED
        BY <4>1, <4>2 DEF Counted
    <3>2. CASE j # i
      <4>1. j \in DOMAIN c.ent /\ d.ent[j] = c.ent[j] /\ g[j] = h[j]
        BY <1>19, <1>23, <1>25, <3>2
      <4>2. /\ j \in InCache(c.ent) => c.ent[j].refs = h[j] + 1
            /\ j \notin InCache(c.ent) => c.ent[j].refs = h[j] + 0
            /\ j \in c.freed <=> c.ent[j].refs = 0
        BY <4>1, CountOf DEF Consistent
      <4>3. j \in InCache(d.ent) <=> j \in InCache(c.ent)
        BY <1>3, <1>23, <1>26, <3>2
      <4> QED
        BY <1>23, <4>1, <4>2, <4>3 DEF Counted
    <3> QED
      BY <3>1, <3>2
  <2> QED
    BY <2>1, CountsFrom
<1>29. ListsOfCache(d)
  <2>1. /\ Range(c.lru) = {j \in S : c.ent[j].refs = 1} /\ IsInjective(c.lru)
        /\ c.inUse = {j \in S : c.ent[j].refs >= 2}
        /\ c.usage = Cardinality(Units(c.ent, S))
    BY <1>3 DEF Consistent, ListsOfCache
  <2>2. ASSUME NEW j \in S PROVE f[j].refs = c.ent[j].refs /\ f[j].charge = c.ent[j].charge
    BY <1>4, <1>19
  <2>3. f[i].refs = 2 /\ f[i].charge = n
    BY <1>8, <1>19
  <2>4. {j \in S \cup {i} : f[j].refs = 1} = {j \in S : c.ent[j].refs = 1}
    BY <2>2, <2>3
  <2>5. {j \in S \cup {i} : f[j].refs >= 2} = {j \in S : c.ent[j].refs >= 2} \cup {i}
    BY <2>2, <2>3
  <2>6. Cardinality(Units(f, S \cup {i})) = c.usage + n
    <3>1. Units(f, S) = Units(c.ent, S)
      BY <2>2, UnitsAlike
    <3>2. i \notin S
      BY <1>4, <1>19
    <3>3. \A j \in S \cup {i} : f[j].charge \in Nat
      BY <1>2, <1>4, <1>5, <2>2, <2>3
    <3>4. Cardinality(Units(f, S \cup {i})) = Cardinality(Units(f, S)) + f[i].charge
      BY <1>4, <3>2, <3>3, UnitsWith
    <3> QED
      BY <2>1, <2>3, <3>1, <3>4
  <2> QED
    BY <1>14, <1>23, <1>26, <2>1, <2>4, <2>5, <2>6 DEF ListsOfCache
<1>30. InCache(d.ent) \ {old} = T
  BY <1>4, <1>6, <1>19, <1>20, <1>23, <1>26
<1>31. TableHas(d, T)
  <2>1. ASSUME NEW j \in T, NEW l \in T, f[j].key = f[l].key PROVE j = l
    <3>1. \A a, b \in S : c.ent[a].key = c.ent[b].key => a = b
      BY <1>4 DEF TableHas
    <3>2. \A a \in S \ {old} : f[a].key = c.ent[a].key /\ c.ent[a].key # k
      BY <1>4, <1>6, <1>19, <3>1
    <3>3. f[i].key = k
      BY <1>8, <1>19
    <3> QED
      BY <1>20, <2>1, <3>1, <3>2, <3>3
  <2> QED
    BY <1>21, <1>22, <1>23, <2>1 DEF TableHas, Owns
<1>32. old = 0 \/ old \in InCache(d.ent)
  BY <1>6, <1>23, <1>26
<1> QED
  BY <1>24, <1>27, <1>28, <1>29, <1>30, <1>31, <1>32 DEF Consistent

LEMMA InsertedKeeps ==
  ASSUME NEW c, NEW h, Consistent(c, h, 0), NEW k \in CacheKeys, NEW n \in Charges
  PROVE  Consistent(Inserted(c, k, n), Append(h, 1), 0)
<1>1. PICK old : old = LookupIn(c.ent, c.list, k)
  OBVIOUS
<1>2. PICK d : d = Added(c, Len(c.ent) + 1, k, n, old)
  OBVIOUS
<1>3. Consistent(d, Append(h, 1), old) /\ (old = 0 \/ old \in InCache(d.ent))
  BY <1>1, <1>2, AddedKeeps
<1>4. Inserted(c, k, n) = FinishErase(d, old)
  BY <1>1, <1>2 DEF Inserted
<1>5. CASE old = 0
  BY <1>3, <1>4, <1>5 DEF FinishErase
<1>6. CASE old \in InCache(d.ent)
  BY <1>3, <1>4, <1>6, FinishEraseKeeps
<1> QED
  BY <1>3, <1>5, <1>6

(* The operations change the shared state to what they make of it.         *)
LEMMA BecomesShared ==
  ASSUME NEW d, NEW h, Consistent(d, h, 0), Become(d)
  PROVE  Shared' = d
<1>1. d \in CacheState
  BY DEF Consistent, CacheTypes
<1>2. d = [ent |-> d.ent, lru |-> d.lru, inUse |-> d.inUse, list |-> d.list,
           elems |-> d.elems, usage |-> d.usage, freed |-> d.freed]
  BY <1>1 DEF CacheState
<1> QED
  BY <1>2 DEF Become, Shared

LEMMA SharedIs ==
  /\ Shared.ent = ent /\ Shared.lru = lru /\ Shared.inUse = inUse /\ Shared.list = list
  /\ Shared.elems = elems /\ Shared.usage = usage /\ Shared.freed = freed
BY DEF Shared

(* A list without elements, or with fewer.                                 *)
LEMMA StillEmpty ==
  ASSUME NEW X, NEW s \in Seq(X), NEW z \in Seq(X), Range(z) \subseteq Range(s),
         z # << >>
  PROVE  s # << >>
<1>1. 1 \in DOMAIN z
  OBVIOUS
<1>2. z[1] \in Range(s)
  BY <1>1 DEF Range
<1> QED
  BY <1>2 DEF Range

(* The loop conditions of the invariant survive what takes from the cache. *)
LEMMA StillFits ==
  ASSUME CacheInv, NEW d, NEW h, Consistent(d, h, 0), Become(d),
         d.usage <= usage, Range(d.lru) \subseteq Range(lru)
  PROVE  usage' > capacity /\ lru' # << >> => usage > capacity /\ lru # << >>
<1>1. usage \in Int /\ lru \in Seq(Nat) /\ capacity \in Int
  <2>1. Shared \in CacheState
    BY DEF CacheInv, Consistent, CacheTypes
  <2>2. Shared.usage \in Int /\ Shared.lru \in Seq(Nat)
    BY <2>1 DEF CacheState
  <2>3. capacity \in Int
    BY DEF CacheInv
  <2> QED
    BY <2>2, <2>3, SharedIs
<1>2. d.usage \in Int /\ d.lru \in Seq(Nat)
  BY DEF Consistent, CacheTypes, CacheState
<1>3. usage' = d.usage /\ lru' = d.lru
  BY DEF Become
<1>4. d.lru # << >> => lru # << >>
  BY <1>1, <1>2, StillEmpty
<1> QED
  BY <1>1, <1>2, <1>3, <1>4

(* The counts, lists, table and usage agree after every step.              *)
THEOREM CacheInvariant == CacheSpec => []CacheInv
<1>1. CacheInit => CacheInv
  <2> SUFFICES ASSUME CacheInit PROVE CacheInv
    OBVIOUS
  <2> USE DEF CacheInit
  <2>1. /\ Shared.ent = << >> /\ Shared.lru = << >> /\ Shared.inUse = {}
        /\ Shared.list = [b \in 1 .. MinLength |-> {}]
        /\ Shared.elems = 0 /\ Shared.usage = 0 /\ Shared.freed = {}
    BY SharedIs
  <2>2. MinLength \in Nat \ {0}
    BY CacheConstants
  <2>3. PICK t : t = [b \in 1 .. MinLength |-> {}]
    OBVIOUS
  <2>4. t \in Seq(SUBSET Nat) /\ Len(t) = MinLength /\ t # << >>
    <3>1. t \in [1 .. MinLength -> SUBSET Nat]
      BY <2>3
    <3>2. t \in Seq(SUBSET Nat) /\ Len(t) = MinLength
      BY <2>2, <3>1
    <3> QED
      BY <2>2, <3>2
  <2>5. CacheTypes(Shared, held)
    <3>1. Shared \in CacheState
      <4>1. << >> \in Seq(CacheEntry) /\ << >> \in Seq(Nat)
        OBVIOUS
      <4> QED
        BY <2>3, <2>4, <4>1 DEF Shared, CacheState
    <3> QED
      BY <2>1, <2>3, <2>4, <3>1 DEF CacheTypes
  <2>6. InCache(Shared.ent) = {}
    BY <2>1 DEF InCache
  <2>7. CountsOf(Shared, held)
    BY <2>1 DEF CountsOf
  <2>8. ListsOfCache(Shared)
    <3>1. Range(Shared.lru) = {} /\ IsInjective(Shared.lru)
      BY <2>1 DEF Range, IsInjective
    <3>2. Units(Shared.ent, {}) = {} /\ Cardinality({}) = 0
      BY FS_EmptySet DEF Units
    <3> QED
      BY <2>1, <2>6, <3>1, <3>2 DEF ListsOfCache
  <2>9. TableHas(Shared, InCache(Shared.ent) \ {0})
    <3>1. Cardinality({}) = 0
      BY FS_EmptySet
    <3> QED
      BY <2>1, <2>6, <3>1 DEF TableHas
  <2> QED
    BY <2>5, <2>7, <2>8, <2>9 DEF CacheInv, Consistent
<1>2. CacheInv /\ [CacheNext]_cacheVars => CacheInv'
  <2> SUFFICES ASSUME CacheInv, [CacheNext]_cacheVars PROVE CacheInv'
    OBVIOUS
  <2>1. /\ Consistent(Shared, held, 0)
        /\ capacity \in Nat \cup {-1} /\ evicting \in {"no", "fit", "all"}
        /\ released \in BOOLEAN
        /\ capacity = -1 => lru = << >> /\ evicting = "no"
        /\ usage > capacity /\ lru # << >> => released \/ evicting # "no"
    BY DEF CacheInv
  <2>2. ASSUME NEW d, Become(d), Consistent(d, held', 0),
               capacity' \in Nat /\ evicting' \in {"no", "fit", "all"},
               released' \in BOOLEAN,
               usage' > capacity' /\ lru' # << >> => released' \/ evicting' # "no"
        PROVE  CacheInv'
    <3>1. Shared' = d
      BY <2>2, BecomesShared
    <3>2. Consistent(Shared, held, 0)'
      BY <2>2, <3>1 DEF Consistent, CacheTypes, CountsOf
    <3> QED
      BY <2>2, <3>2 DEF CacheInv
  <2>3. ASSUME UNCHANGED <<ent, lru, inUse, list, elems, usage, freed>>
        PROVE  Become(Shared)
    BY <2>3, SharedIs DEF Become
  <2>4. ASSUME NEW c \in Capacities, SetCapacity(c) PROVE CacheInv'
    <3>1. Become(Shared) /\ held' = held
      BY <2>3, <2>4 DEF SetCapacity
    <3>2. capacity' \in Nat
      BY <2>4, CacheConstants DEF SetCapacity
    <3>3. lru' = << >>
      BY <2>1, <2>4 DEF SetCapacity
    <3> QED
      BY <2>1, <2>2, <2>4, <3>1, <3>2, <3>3 DEF SetCapacity
  <2>5. Unlocked => capacity \in Nat /\ evicting = "no"
    BY <2>1 DEF Unlocked
  <2>6. Shared \in CacheState
    BY <2>1 DEF Consistent, CacheTypes
  <2>7. ASSUME NEW k \in CacheKeys, Lookup(k) PROVE CacheInv'
    <3>1. PICK i : i = LookupIn(ent, list, k)
      OBVIOUS
    <3>2. i # 0 /\ Become(Ref(Shared, i)) /\ held' = [held EXCEPT ![i] = @ + 1]
      BY <2>7, <3>1 DEF Lookup
    <3>3. Unlocked /\ UNCHANGED <<capacity, evicting, released>>
      BY <2>7 DEF Lookup
    <3>4. i \in InCache(Shared.ent)
      <4>1. PICK d : d = Removed(Shared, k)
        OBVIOUS
      <4>2. i = LookupIn(Shared.ent, Shared.list, k)
        BY <3>1, SharedIs
      <4>3. i = 0 \/ i \in InCache(Shared.ent)
        BY <2>1, <4>1, <4>2, RemovedKeeps
      <4> QED
        BY <3>2, <4>3
    <3>5. PICK d : d = Ref(Shared, i)
      OBVIOUS
    <3>6. /\ Consistent(d, held', 0) /\ d.usage = Shared.usage
          /\ Range(d.lru) \subseteq Range(Shared.lru)
      BY <2>1, <3>2, <3>4, <3>5, RefKeeps
    <3>7. d.usage <= usage /\ Range(d.lru) \subseteq Range(lru) /\ Become(d)
      <4>1. Shared.usage \in Int
        BY <2>6 DEF CacheState
      <4> QED
        BY <3>2, <3>5, <3>6, <4>1, SharedIs
    <3>8. usage' > capacity /\ lru' # << >> => usage > capacity /\ lru # << >>
      BY <3>6, <3>7, StillFits
    <3> QED
      BY <2>1, <2>2, <2>5, <3>3, <3>6, <3>7, <3>8
  <2>8. ASSUME NEW i \in DOMAIN ent, CacheRelease(i) PROVE CacheInv'
    <3>1. /\ Become(Unref(Shared, i)) /\ held' = [held EXCEPT ![i] = @ - 1]
          /\ held[i] > 0 /\ Unlocked /\ released' = TRUE
          /\ UNCHANGED <<capacity, evicting>>
      BY <2>8 DEF CacheRelease
    <3>2. i \in DOMAIN Shared.ent
      BY SharedIs
    <3>3. Consistent(Unref(Shared, i), held', 0)
      BY <2>1, <3>1, <3>2, UnrefKeeps
    <3> QED
      BY <2>1, <2>2, <2>5, <3>1, <3>3
  <2>9. ASSUME NEW k \in CacheKeys, NEW n \in Charges, CacheInsert(k, n)
        PROVE  CacheInv'
    <3>1. /\ Unlocked /\ held' = Append(held, 1) /\ evicting' = "fit"
          /\ released' = FALSE /\ capacity' = capacity
      BY <2>9 DEF CacheInsert
    <3>2. PICK d : d = IF capacity > 0 THEN Inserted(Shared, k, n)
                       ELSE HandedOut(Shared, k, n)
      OBVIOUS
    <3>3. Become(d)
      BY <2>9, <3>2 DEF CacheInsert
    <3>4. Consistent(d, held', 0)
      <4>1. CASE capacity > 0
        BY <2>1, <3>1, <3>2, <4>1, InsertedKeeps
      <4>2. CASE ~(capacity > 0)
        BY <2>1, <3>1, <3>2, <4>2, OnlyHandedOut
      <4> QED
        BY <4>1, <4>2
    <3> QED
      BY <2>2, <2>5, <3>1, <3>3, <3>4
  <2>10. ASSUME NEW k \in CacheKeys, Become(Erased(Shared, k)),
                UNCHANGED <<capacity, held, evicting, released>>, capacity \in Nat
         PROVE  CacheInv'
    <3>1. PICK d : d = Erased(Shared, k)
      OBVIOUS
    <3>2. /\ Consistent(d, held, 0) /\ d.usage <= Shared.usage
          /\ Range(d.lru) \subseteq Range(Shared.lru)
      BY <2>1, <3>1, ErasedKeeps
    <3>3. d.usage <= usage /\ Range(d.lru) \subseteq Range(lru) /\ Become(d)
      BY <2>10, <3>1, <3>2, SharedIs
    <3>4. usage' > capacity /\ lru' # << >> => usage > capacity /\ lru # << >>
      BY <3>2, <3>3, StillFits
    <3>5. Consistent(d, held', 0)
      BY <2>10, <3>2
    <3> QED
      BY <2>1, <2>2, <2>10, <3>3, <3>4, <3>5
  <2>11. ASSUME NEW k \in CacheKeys, CacheErase(k) PROVE CacheInv'
    BY <2>5, <2>10, <2>11 DEF CacheErase
  <2>12. ASSUME Prune PROVE CacheInv'
    <3>1. Become(Shared) /\ held' = held /\ capacity' = capacity
      BY <2>3, <2>12 DEF Prune
    <3>2. Unlocked /\ evicting' = "all" /\ released' = released
      BY <2>12 DEF Prune
    <3> QED
      BY <2>1, <2>2, <2>5, <3>1, <3>2
  <2>13. ASSUME Evict PROVE CacheInv'
    <3>1. evicting # "no" /\ UNCHANGED <<capacity, held, released>> /\ capacity \in Nat
      BY <2>1, <2>13 DEF Evict
    <3>2. CASE LoopsOn /\ Become(Erased(Shared, ent[Head(lru)].key)) /\ evicting' = evicting
      <4>1. Shared.lru \in Seq(Nat) /\ Shared.lru # << >>
        BY <2>6, <3>2, SharedIs DEF CacheState, LoopsOn
      <4>2. Head(lru) \in Range(lru)
        BY <4>1, SharedIs DEF Range
      <4>3. Head(lru) \in DOMAIN Shared.ent
        BY <2>1, <4>2, SharedIs DEF Consistent, ListsOfCache, InCache
      <4>4. ent[Head(lru)].key \in CacheKeys
        <5>1. Shared.ent \in Seq(CacheEntry)
          BY <2>6 DEF CacheState
        <5>2. Shared.ent[Head(lru)] \in CacheEntry
          BY <4>3, <5>1
        <5> QED
          BY <5>2, SharedIs DEF CacheEntry
      <4> QED
        BY <2>10, <3>1, <3>2, <4>4
    <3>3. CASE /\ ~LoopsOn /\ evicting' = "no"
               /\ UNCHANGED <<ent, lru, inUse, list, elems, usage, freed>>
      <4>1. Become(Shared)
        BY <2>3, <3>3
      <4>2. ~(usage > capacity /\ lru # << >>)
        BY <3>3 DEF LoopsOn
      <4> QED
        BY <2>1, <2>2, <3>1, <3>3, <4>1, <4>2
    <3> QED
      BY <2>13, <3>2, <3>3 DEF Evict
  <2>14. ASSUME UNCHANGED cacheVars PROVE CacheInv'
    <3>1. Shared' = Shared
      BY <2>14 DEF Shared, cacheVars
    <3>2. Consistent(Shared, held, 0)'
      BY <2>1, <2>14, <3>1 DEF Consistent, CacheTypes, CountsOf, cacheVars
    <3> QED
      BY <2>1, <2>14, <3>2 DEF CacheInv, cacheVars
  <2> QED
    BY <2>4, <2>7, <2>8, <2>9, <2>11, <2>12, <2>13, <2>14 DEF CacheNext
<1> QED
  BY <1>1, <1>2, PTL DEF CacheSpec

(* Nothing is freed while a client has it, nothing leaks, and the lists,   *)
(* the table, its count and the usage agree (cache.cc).                    *)
THEOREM CacheIsSound == CacheSpec => []CacheSound
<1>1. CacheInv => CacheSound
  <2> SUFFICES ASSUME CacheInv PROVE CacheSound
    OBVIOUS
  <2>1. /\ CacheTypes(Shared, held) /\ CountsOf(Shared, held)
        /\ ListsOfCache(Shared) /\ TableHas(Shared, InCache(Shared.ent) \ {0})
        /\ Shared \in CacheState /\ Shared.list # << >>
    BY DEF CacheInv, Consistent, CacheTypes
  <2>2. /\ IsFiniteSet(InCache(ent)) /\ InCache(ent) \subseteq DOMAIN ent
        /\ \A j \in DOMAIN ent : j \in Nat \ {0} /\ ent[j].charge \in Nat
        /\ \A j \in DOMAIN ent : ent[j].refs \in Nat /\ ent[j].key \in Nat
    BY <2>1, SharedIs, CachedFinite
  <2>3. RefsAreHeld
    BY <2>1, SharedIs DEF CountsOf, RefsAreHeld
  <2>4. /\ Range(lru) = {i \in InCache(ent) : ent[i].refs = 1} /\ IsInjective(lru)
        /\ inUse = {i \in InCache(ent) : ent[i].refs >= 2}
        /\ usage = Cardinality(Units(ent, InCache(ent)))
    BY <2>1, SharedIs DEF ListsOfCache
  <2>5. InCache(ent) \ {0} = InCache(ent)
    BY <2>2
  <2>6. TableHas(Shared, InCache(Shared.ent))
    BY <2>1, <2>5, SharedIs
  <2>7. ASSUME NEW i \in InCache(ent) PROVE LookupIn(ent, list, ent[i].key) = i
    <3>1. PICK k : k = ent[i].key
      OBVIOUS
    <3>2. PICK j : j = LookupIn(Shared.ent, Shared.list, k)
      OBVIOUS
    <3>3. k \in Nat
      BY <2>2, <3>1
    <3>4. InCache(Shared.ent) \subseteq DOMAIN Shared.ent
      BY <2>2, SharedIs
    <3>5. \/ j = 0 /\ \A l \in InCache(Shared.ent) : Shared.ent[l].key # k
          \/ j # 0 /\ j \in InCache(Shared.ent) /\ Shared.ent[j].key = k
      BY <2>1, <2>6, <3>2, <3>3, <3>4, FoundEntry
    <3>6. j \in InCache(ent) /\ ent[j].key = k
      BY <3>1, <3>5, SharedIs
    <3>7. j = i
      BY <2>6, <3>1, <3>6, SharedIs DEF TableHas
    <3> QED
      BY <3>1, <3>2, <3>7, SharedIs
  <2>8. elems = Cardinality(InCache(ent))
    BY <2>6, SharedIs DEF TableHas
  <2>9. UNION Range(list) = InCache(ent)
    <3>1. \A b \in DOMAIN list :
            list[b] = {i \in InCache(ent) : Bucket(list, ent[i].key) = b}
      BY <2>6, SharedIs DEF TableHas
    <3>2. list \in Seq(SUBSET Nat) /\ list # << >>
      BY <2>1, SharedIs DEF CacheState
    <3>3. ASSUME NEW i \in InCache(ent) PROVE \E b \in DOMAIN list : i \in list[b]
      <4>1. PICK b : b = Bucket(list, ent[i].key)
        OBVIOUS
      <4>2. ent[i].key \in Nat
        BY <2>2
      <4>3. b \in 1 .. Len(list)
        BY <3>2, <4>1, <4>2, BucketIn
      <4>4. b \in DOMAIN list
        BY <3>2, <4>3
      <4> QED
        BY <3>1, <4>1, <4>4
    <3>4. ASSUME NEW b \in DOMAIN list PROVE list[b] \subseteq InCache(ent)
      BY <3>1
    <3> QED
      BY <3>3, <3>4 DEF Range
  <2>10. usage > capacity /\ lru # << >> => released \/ evicting # "no"
    BY DEF CacheInv
  <2> QED
    BY <2>3, <2>4, <2>7, <2>8, <2>9, <2>10 DEF CacheSound, ListsAgree
<1>2. QED
  BY <1>1, CacheInvariant, PTL

=============================================================================
